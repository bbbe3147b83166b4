--------------------------- MODULE ChannelProofs ----------------------------
(***************************************************************************)
(* What TLAPS proves of the services that face people, and of what they    *)
(* search with, as StoreProofs does of those that keep data: the rate      *)
(* limiter, the gate of the chat channels, WhatsApp, the notifications,    *)
(* the briefing, the web searches, the cache of vectors, the encoder of    *)
(* the reranker, the switches of custom agents, the plans, the smart chat  *)
(* and its streams, for all values of the constants.                       *)
(***************************************************************************)
EXTENDS RateLimiter, ChannelGate, WhatsApp, Notifications, Briefing, WebSearch,
        EmbeddingCache, Retrieval, Delegation, Plans, SmartChat, Streaming, Integers,
        FiniteSetTheorems, SequenceTheorems, WellFoundedInduction, TLAPS

-----------------------------------------------------------------------------
(* The rate limiter (RateLimiter)                                          *)

\* What a bucket was given and has is what it began with and what time has
\* added up to its last refill.
Bucket == [user : Guests \cup {Nobody}, tokens : 0..Capacity, filled : Nat, since : Nat]

Solvent(b, out) ==
  /\ b.since <= b.filled /\ b.filled <= now
  /\ out + b.tokens + b.since <= Capacity + b.filled

BucketsInv ==
  /\ now \in 0..MaxNow
  /\ made \in Seq(Bucket) /\ Len(made) > 0 /\ made[1].user = Nobody
  /\ spent \in Seq(Nat) /\ Len(spent) = Len(made)
  /\ holding \in [Clients -> 0..Len(made)]
  /\ \A o \in 1..Len(made) : Solvent(made[o], spent[o])

\* The registry holds the buckets made last, as many as it may, when n have been
\* made.
LastMade(s, n) ==
  /\ s \in Seq(Nat) /\ Len(s) <= MaxBuckets /\ Len(s) < n
  /\ Len(s) = MaxBuckets \/ Len(s) = n - 1
  /\ \A i \in 1..Len(s) : s[i] = n - Len(s) + i

Registry == LastMade(kept, Len(made))

LimitInv == BucketsInv /\ Registry /\ BeginsAnewLate

-----------------------------------------------------------------------------

\* A refill adds what time has added, and no more than the bucket holds.
LEMMA RefillKeeps ==
  ASSUME LimitAssumption, now \in 0..MaxNow, NEW b \in Bucket, NEW out \in Nat, Solvent(b, out)
  PROVE  Refill(b) \in Bucket /\ Refill(b).user = b.user /\ Solvent(Refill(b), out)
<1> DEFINE more == b.tokens + (now - b.filled)
           t == IF more > Capacity THEN Capacity ELSE more
<1>1. /\ now \in Nat /\ b.filled \in Nat /\ b.since \in Nat /\ b.tokens \in Nat /\ Capacity \in Nat
      /\ b.tokens <= Capacity
  BY DEF Bucket, LimitAssumption
<1>2. b.filled <= now /\ b.since <= b.filled /\ out + b.tokens + b.since <= Capacity + b.filled
  BY DEF Solvent
<1>3. more \in Nat
  BY <1>1, <1>2
<1>4. t \in 0..Capacity /\ t <= more
  BY <1>1, <1>3
<1>5. Refill(b) = [b EXCEPT !.tokens = t, !.filled = now]
  BY DEF Refill
<1> HIDE DEF t
<1>6. /\ Refill(b).user = b.user /\ Refill(b).tokens = t /\ Refill(b).filled = now
      /\ Refill(b).since = b.since /\ Refill(b) \in Bucket
  BY <1>1, <1>4, <1>5 DEF Bucket
<1>7. out + t + b.since <= Capacity + now
  BY <1>1, <1>2, <1>3, <1>4
<1> QED
  BY <1>1, <1>2, <1>6, <1>7 DEF Solvent

\* A new bucket is solvent.
LEMMA NewBucketSolvent ==
  ASSUME LimitAssumption, now \in 0..MaxNow, NEW u \in Guests \cup {Nobody}
  PROVE  NewBucket(u) \in Bucket /\ NewBucket(u).user = u /\ Solvent(NewBucket(u), 0)
BY DEF NewBucket, Bucket, Solvent, LimitAssumption

\* One bucket changes, to one of the same user that is solvent.
LEMMA BucketChanges ==
  ASSUME BucketsInv, Registry, BeginsAnewLate,
         NEW o \in 1..Len(made), NEW b \in Bucket, NEW out \in Nat,
         b.user = made[o].user, Solvent(b, out),
         made' = [made EXCEPT ![o] = b], spent' = [spent EXCEPT ![o] = out],
         holding' \in [Clients -> 0..Len(made)], UNCHANGED <<now, kept>>
  PROVE  LimitInv'
<1>1. /\ made' \in Seq(Bucket) /\ Len(made') = Len(made)
      /\ \A p \in 1..Len(made) : made'[p] = IF p = o THEN b ELSE made[p]
  BY DEF BucketsInv
<1>2. /\ spent' \in Seq(Nat) /\ Len(spent') = Len(spent)
      /\ \A p \in 1..Len(made) : spent'[p] = IF p = o THEN out ELSE spent[p]
  BY DEF BucketsInv
<1>3. \A p \in 1..Len(made) : made'[p].user = made[p].user
  BY <1>1
<1>4. \A p \in 1..Len(made) : Solvent(made[p], spent[p])
  BY DEF BucketsInv
<1>5. ASSUME NEW p \in 1..Len(made)
      PROVE  Solvent(made[p], spent[p])'
  <2>1. CASE p = o
    <3>1. made'[p] = b /\ spent'[p] = out
      BY <1>1, <1>2, <2>1
    <3> QED
      BY <3>1 DEF Solvent
  <2>2. CASE p # o
    <3>1. made'[p] = made[p] /\ spent'[p] = spent[p]
      BY <1>1, <1>2, <2>2
    <3> QED
      BY <1>4, <3>1 DEF Solvent
  <2> QED
    BY <2>1, <2>2
<1>6. BucketsInv'
  BY <1>1, <1>2, <1>3, <1>5 DEF BucketsInv
<1>7. Registry'
  BY <1>1 DEF Registry, LastMade
<1>8. BeginsAnewLate'
  BY <1>1, <1>3 DEF BeginsAnewLate, BucketsInv
<1> QED
  BY <1>6, <1>7, <1>8 DEF LimitInv

-----------------------------------------------------------------------------

\* It holds at the start, and each action of the module keeps it.
LEMMA LimitInit_Inv == ASSUME LimitAssumption, LimitInit PROVE LimitInv
<1>1. now \in 0..MaxNow /\ made = <<NewBucket(Nobody)>> /\ kept = <<>> /\ spent = <<0>>
      /\ holding = [c \in Clients |-> 0]
  BY DEF LimitInit, LimitAssumption
<1>2. NewBucket(Nobody) \in Bucket /\ NewBucket(Nobody).user = Nobody /\ Solvent(NewBucket(Nobody), 0)
  BY <1>1, NewBucketSolvent
<1>3. /\ made \in Seq(Bucket) /\ Len(made) = 1 /\ made[1] = NewBucket(Nobody)
      /\ spent \in Seq(Nat) /\ Len(spent) = 1 /\ spent[1] = 0
  BY <1>1, <1>2
<1>4. \A o \in 1..Len(made) : o = 1
  BY <1>3
<1>5. BucketsInv
  BY <1>1, <1>2, <1>3, <1>4 DEF BucketsInv
<1>6. Registry
  BY <1>1, <1>3 DEF Registry, LastMade, LimitAssumption
<1>7. BeginsAnewLate
  BY <1>3 DEF BeginsAnewLate
<1> QED
  BY <1>5, <1>6, <1>7 DEF LimitInv

LEMMA NowTicks_Inv == ASSUME LimitAssumption, LimitInv, NowTicks PROVE LimitInv'
<1>1. /\ now \in Nat /\ now' = now + 1 /\ now' \in 0..MaxNow
      /\ UNCHANGED <<made, kept, holding, spent>>
  BY DEF NowTicks, LimitInv, BucketsInv, LimitAssumption
<1>2. ASSUME NEW o \in 1..Len(made)
      PROVE  Solvent(made[o], spent[o])'
  <2>1. made[o] \in Bucket /\ Solvent(made[o], spent[o])
    BY DEF LimitInv, BucketsInv
  <2>2. made[o].filled \in Nat
    BY <2>1 DEF Bucket
  <2> QED
    BY <1>1, <2>1, <2>2 DEF Solvent
<1>3. BucketsInv'
  BY <1>1, <1>2 DEF LimitInv, BucketsInv
<1>4. Registry' /\ BeginsAnewLate'
  BY <1>1 DEF LimitInv, Registry, LastMade, BeginsAnewLate
<1> QED
  BY <1>3, <1>4 DEF LimitInv

LEMMA Status_Inv == ASSUME LimitAssumption, LimitInv, Status PROVE LimitInv'
<1>1. /\ 1 \in 1..Len(made) /\ made[1] \in Bucket /\ spent[1] \in Nat /\ Solvent(made[1], spent[1])
      /\ now \in 0..MaxNow
  BY DEF LimitInv, BucketsInv
<1>2. /\ Refill(made[1]) \in Bucket /\ Refill(made[1]).user = made[1].user
      /\ Solvent(Refill(made[1]), spent[1])
  BY <1>1, RefillKeeps
<1>3. made' = [made EXCEPT ![1] = Refill(made[1])] /\ spent' = [spent EXCEPT ![1] = spent[1]]
  BY DEF Status, LimitInv, BucketsInv
<1>4. holding' \in [Clients -> 0..Len(made)] /\ UNCHANGED <<now, kept>>
  BY DEF Status, LimitInv, BucketsInv
<1> HIDE DEF Refill
<1> QED
  BY <1>1, <1>2, <1>3, <1>4, BucketChanges DEF LimitInv

LEMMA TryConsume_Inv ==
  ASSUME LimitAssumption, LimitInv, NEW c \in Clients, TryConsume(c)
  PROVE  LimitInv'
<1> DEFINE o == holding[c]
           b == Refill(made[o])
<1>1. o \in 1..Len(made) /\ now \in 0..MaxNow
  BY DEF TryConsume, LimitInv, BucketsInv
<1>2. made[o] \in Bucket /\ spent[o] \in Nat /\ Solvent(made[o], spent[o])
  BY <1>1 DEF LimitInv, BucketsInv
<1>3. b \in Bucket /\ b.user = made[o].user /\ Solvent(b, spent[o])
  BY <1>1, <1>2, RefillKeeps
<1>4. holding' \in [Clients -> 0..Len(made)] /\ UNCHANGED <<now, kept>>
  BY DEF TryConsume, LimitInv, BucketsInv
<1>5. CASE b.tokens >= 1
  <2> DEFINE less == [b EXCEPT !.tokens = b.tokens - 1]
  <2>1. made' = [made EXCEPT ![o] = less] /\ spent' = [spent EXCEPT ![o] = spent[o] + 1]
    BY <1>5 DEF TryConsume
  <2>2. b.tokens \in 0..Capacity /\ b.filled \in Nat /\ b.since \in Nat
    BY <1>3 DEF Bucket
  <2> HIDE DEF b
  <2>3. /\ less \in Bucket /\ less.user = b.user /\ less.filled = b.filled /\ less.since = b.since
        /\ less.tokens = b.tokens - 1
    BY <1>3, <1>5, <2>2 DEF Bucket, LimitAssumption
  <2>4. Solvent(less, spent[o] + 1)
    BY <1>2, <1>3, <1>5, <2>2, <2>3 DEF Solvent, LimitAssumption
  <2>5. spent[o] + 1 \in Nat
    BY <1>2
  <2> HIDE DEF less
  <2> QED
    BY <1>1, <1>3, <1>4, <2>1, <2>3, <2>4, <2>5, BucketChanges DEF LimitInv
<1>6. CASE ~ (b.tokens >= 1)
  <2>1. made' = [made EXCEPT ![o] = b] /\ spent' = [spent EXCEPT ![o] = spent[o]]
    BY <1>6 DEF TryConsume, LimitInv, BucketsInv
  <2> HIDE DEF b
  <2> QED
    BY <1>1, <1>2, <1>3, <1>4, <2>1, BucketChanges DEF LimitInv
<1> QED
  BY <1>5, <1>6

-----------------------------------------------------------------------------

\* What the registry is when the bucket n + 1 has been put into it.
LEMMA EvictKeeps ==
  ASSUME LimitAssumption, NEW n \in Nat, NEW s, LastMade(s, n)
  PROVE  LastMade(Evict(Append(s, n + 1)), n + 1)
<1> DEFINE k == Len(s)
           all == Append(s, n + 1)
           t == Evict(all)
<1>1. MaxBuckets \in Nat \ {0}
  BY DEF LimitAssumption
<1>2. /\ s \in Seq(Nat) /\ k \in Nat /\ k <= MaxBuckets /\ k < n /\ (k = MaxBuckets \/ k = n - 1)
      /\ \A i \in 1..k : s[i] = n - k + i
  BY DEF LastMade
<1>3. n + 1 \in Nat
  OBVIOUS
<1>4. /\ all \in Seq(Nat) /\ all # <<>> /\ Len(all) = k + 1 /\ all[k + 1] = n + 1
      /\ \A i \in 1..k : all[i] = s[i]
  <2>1. s \in Seq(Nat)
    BY DEF LastMade
  <2> QED
    <3>1. ASSUME NEW e \in Nat
          PROVE  /\ Append(s, e) \in Seq(Nat) /\ Append(s, e) # <<>>
                 /\ Len(Append(s, e)) = Len(s) + 1 /\ Append(s, e)[Len(s) + 1] = e
                 /\ \A i \in 1..Len(s) : Append(s, e)[i] = s[i]
      BY <2>1, AppendProperties
    <3> QED
      BY <1>3, <3>1
<1>5. t = IF k + 1 > MaxBuckets THEN Tail(all) ELSE all
  BY <1>4 DEF Evict
<1> HIDE DEF k, all, t
<1>6. \A i \in 1..(k + 1) : all[i] = n - k + i
  <2> SUFFICES ASSUME NEW i \in 1..(k + 1) PROVE all[i] = n - k + i
    OBVIOUS
  <2>1. CASE i = k + 1
    BY <1>2, <1>4, <2>1
  <2>2. CASE i \in 1..k
    BY <1>4, <1>2, <2>2
  <2> QED
    BY <1>2, <2>1, <2>2
<1>7. ASSUME k + 1 > MaxBuckets
      PROVE  LastMade(t, n + 1)
  <2>1. t = Tail(all)
    BY <1>7, <1>5, Zenon
  <2>2. /\ t \in Seq(Nat) /\ Len(t) = Len(all) - 1
        /\ \A i \in 1..Len(t) : t[i] = all[i + 1]
    <3>1. /\ Tail(all) \in Seq(Nat) /\ Len(Tail(all)) = Len(all) - 1
          /\ \A i \in 1..Len(Tail(all)) : Tail(all)[i] = all[i + 1]
      BY <1>4, HeadTailProperties
    <3> QED
      BY <2>1, <3>1, Zenon
  <2>3. Len(t) = k
    BY <1>2, <1>4, <2>2
  <2>4. \A i \in 1..k : t[i] = (n + 1) - k + i
    <3> SUFFICES ASSUME NEW i \in 1..k PROVE t[i] = (n + 1) - k + i
      OBVIOUS
    <3>1. i + 1 \in 1..(k + 1)
      BY <1>2
    <3>2. t[i] = all[i + 1]
      BY <2>2, <2>3
    <3>3. all[i + 1] = n - k + (i + 1)
      BY <1>6, <3>1
    <3> QED
      BY <1>2, <3>2, <3>3
  <2>5. k = MaxBuckets /\ k < n + 1
    BY <1>1, <1>2, <1>7
  <2> QED
    BY <1>2, <2>2, <2>3, <2>4, <2>5 DEF LastMade
<1>8. ASSUME ~ (k + 1 > MaxBuckets)
      PROVE  LastMade(t, n + 1)
  <2>1. t = all /\ k = n - 1
    BY <1>1, <1>2, <1>8, <1>5
  <2> QED
    BY <1>1, <1>2, <1>4, <1>6, <1>8, <2>1 DEF LastMade
<1>9. LastMade(t, n + 1)
  BY <1>7, <1>8
<1> QED
  BY <1>9 DEF t, all

\* Where the buckets of the registry are.
LEMMA KeptIsMade ==
  ASSUME LimitAssumption, LimitInv, NEW i \in DOMAIN kept
  PROVE  /\ i \in 1..MaxBuckets /\ kept[i] \in 2..Len(made)
         /\ \A j \in DOMAIN kept : kept[j] - kept[i] = j - i
<1> DEFINE n == Len(made)
           k == Len(kept)
<1>1. MaxBuckets \in Nat /\ n \in Nat /\ k \in Nat /\ k <= MaxBuckets /\ k < n
  BY DEF LimitInv, BucketsInv, Registry, LastMade, LimitAssumption
<1>2. DOMAIN kept = 1..k /\ \A j \in 1..k : kept[j] = n - k + j
  BY DEF LimitInv, Registry, LastMade
<1> HIDE DEF n, k
<1>3. i \in 1..k /\ kept[i] = n - k + i
  BY <1>2
<1>4. i \in 1..MaxBuckets /\ kept[i] \in 2..n
  BY <1>1, <1>3
<1>5. \A j \in DOMAIN kept : kept[j] - kept[i] = j - i
  <2> SUFFICES ASSUME NEW j \in 1..k PROVE kept[j] - kept[i] = j - i
    BY <1>2
  <2>1. kept[j] = n - k + j
    BY <1>2
  <2> QED
    BY <1>1, <1>3, <2>1
<1> QED
  BY <1>4, <1>5 DEF n

\* A user who has no bucket in the registry gets one.
LEMMA MakeBucket_Inv ==
  ASSUME LimitAssumption, LimitInv, NEW c \in Clients, NEW u \in Guests,
         BucketsOf(u) = {},
         made' = Append(made, NewBucket(u)), spent' = Append(spent, 0),
         kept' = Evict(Append(kept, Len(made) + 1)),
         holding' = [holding EXCEPT ![c] = Len(made) + 1], now' = now
  PROVE  LimitInv'
<1> DEFINE n == Len(made)
           k == Len(kept)
<1>1. /\ n \in Nat \ {0} /\ made \in Seq(Bucket) /\ spent \in Seq(Nat) /\ Len(spent) = n
      /\ now \in 0..MaxNow /\ made[1].user = Nobody
      /\ \A o \in 1..n : Solvent(made[o], spent[o])
  BY DEF LimitInv, BucketsInv
<1>2. /\ MaxBuckets \in Nat \ {0}
      /\ kept \in Seq(Nat) /\ k \in Nat /\ k <= MaxBuckets /\ k < n /\ (k = MaxBuckets \/ k = n - 1)
      /\ \A i \in 1..k : kept[i] = n - k + i
  BY DEF LimitInv, Registry, LastMade, LimitAssumption
<1>3. NewBucket(u) \in Bucket /\ NewBucket(u).user = u /\ Solvent(NewBucket(u), 0)
  BY <1>1, NewBucketSolvent
<1>4. LastMade(kept', n + 1)
  BY <1>1, EvictKeeps DEF LimitInv, Registry
<1> HIDE DEF NewBucket, n, k
<1>5. /\ made' \in Seq(Bucket) /\ Len(made') = n + 1 /\ made'[n + 1] = NewBucket(u)
      /\ \A o \in 1..n : made'[o] = made[o]
  BY <1>1, <1>3, AppendProperties DEF n
<1>6. /\ spent' \in Seq(Nat) /\ Len(spent') = n + 1 /\ spent'[n + 1] = 0
      /\ \A o \in 1..n : spent'[o] = spent[o]
  BY <1>1, AppendProperties
<1>7. ASSUME NEW o \in 1..(n + 1)
      PROVE  Solvent(made[o], spent[o])'
  <2>1. CASE o = n + 1
    <3>1. made'[o] = NewBucket(u) /\ spent'[o] = 0
      BY <1>5, <1>6, <2>1
    <3> QED
      BY <1>3, <3>1 DEF Solvent
  <2>2. CASE o \in 1..n
    <3>1. made'[o] = made[o] /\ spent'[o] = spent[o] /\ Solvent(made[o], spent[o])
      BY <1>1, <1>5, <1>6, <2>2
    <3> QED
      BY <3>1 DEF Solvent
  <2>3. o = n + 1 \/ o \in 1..n
    BY <1>1
  <2> QED
    BY <2>1, <2>2, <2>3
<1>8. BucketsInv'
  <2>1. holding' \in [Clients -> 0..(n + 1)]
    BY <1>1 DEF LimitInv, BucketsInv, n
  <2>2. made'[1].user = Nobody
    BY <1>1, <1>5
  <2>3. n + 1 > 0 /\ now' \in 0..MaxNow
    BY <1>1
  <2> QED
    BY <1>5, <1>6, <1>7, <2>1, <2>2, <2>3 DEF BucketsInv
<1>9. Registry'
  BY <1>4, <1>5 DEF Registry, LastMade
<1>10. \A o \in 2..n : made[o].user = u => n + 1 - o > MaxBuckets
  <2> SUFFICES ASSUME NEW o \in 2..n, made[o].user = u PROVE n + 1 - o > MaxBuckets
    OBVIOUS
  <2>1. ~ (o > n - k)
    <3> SUFFICES ASSUME o > n - k PROVE FALSE
      OBVIOUS
    <3> DEFINE i == o - (n - k)
    <3>1. i \in 1..k /\ n - k + i = o
      BY <1>1, <1>2
    <3>2. kept[i] = o
      BY <1>2, <3>1
    <3>3. DOMAIN kept = 1..k
      BY <1>2 DEF k
    <3> QED
      BY <3>1, <3>2, <3>3 DEF BucketsOf
  <2>2. CASE k = n - 1
    BY <1>1, <1>2, <2>1, <2>2
  <2>3. CASE k = MaxBuckets
    BY <1>1, <1>2, <2>1, <2>3
  <2> QED
    BY <1>2, <2>2, <2>3
<1>11. BeginsAnewLate'
  <2> SUFFICES ASSUME NEW o \in 2..(n + 1), NEW p \in 2..(n + 1),
                      o < p, made'[o].user = made'[p].user
               PROVE  p - o > MaxBuckets
    BY <1>5 DEF BeginsAnewLate
  <2>1. CASE p = n + 1
    <3>1. o \in 2..n /\ o \in 1..n /\ made'[p] = NewBucket(u)
      BY <1>1, <1>5, <2>1
    <3>2. made[o].user = u
      BY <1>3, <1>5, <3>1
    <3>3. (n + 1) - o > MaxBuckets
      BY <1>1, <1>2, <1>10, <3>1, <3>2
    <3> QED
      BY <2>1, <3>3
  <2>2. CASE p # n + 1
    <3>1. o \in 2..n /\ p \in 2..n /\ o \in 1..n /\ p \in 1..n
      BY <1>1, <2>2
    <3>2. made[o].user = made[p].user
      BY <1>5, <3>1
    <3> QED
      BY <3>1, <3>2 DEF LimitInv, BeginsAnewLate, n
  <2> QED
    BY <2>1, <2>2
<1> QED
  BY <1>8, <1>9, <1>11 DEF LimitInv

LEMMA CheckPerUser_Inv ==
  ASSUME LimitAssumption, LimitInv, NEW c \in Clients, CheckPerUser(c)
  PROVE  LimitInv'
<1>1. ASSUME NEW o \in 1..Len(made), holding' = [holding EXCEPT ![c] = o],
             UNCHANGED <<now, made, kept, spent>>
      PROVE  LimitInv'
  <2>1. holding' \in [Clients -> 0..Len(made)]
    BY <1>1 DEF LimitInv, BucketsInv
  <2>2. BucketsInv'
    BY <1>1, <2>1 DEF LimitInv, BucketsInv, Solvent
  <2>3. Registry' /\ BeginsAnewLate'
    BY <1>1 DEF LimitInv, Registry, LastMade, BeginsAnewLate
  <2> QED
    BY <2>2, <2>3 DEF LimitInv
<1>2. CASE holding' = [holding EXCEPT ![c] = 1] /\ UNCHANGED <<now, made, kept, spent>>
  <2>1. 1 \in 1..Len(made)
    BY DEF LimitInv, BucketsInv
  <2> QED
    BY <1>1, <1>2, <2>1
<1>3. CASE \E u \in Guests : \E i \in BucketsOf(u) :
             holding' = [holding EXCEPT ![c] = kept[i]] /\ UNCHANGED <<now, made, kept, spent>>
  <2>0. PICK u \in Guests : \E i \in BucketsOf(u) :
           holding' = [holding EXCEPT ![c] = kept[i]] /\ UNCHANGED <<now, made, kept, spent>>
    BY <1>3
  <2>1. PICK i \in BucketsOf(u) :
           holding' = [holding EXCEPT ![c] = kept[i]] /\ UNCHANGED <<now, made, kept, spent>>
    BY <2>0
  <2>2. kept[i] \in 2..Len(made)
    BY <2>1, KeptIsMade DEF BucketsOf
  <2>3. kept[i] \in 1..Len(made)
    BY <2>2
  <2> QED
    BY <1>1, <2>1, <2>3
<1>4. CASE \E u \in Guests :
             /\ BucketsOf(u) = {}
             /\ now' = now
             /\ made' = Append(made, NewBucket(u)) /\ spent' = Append(spent, 0)
             /\ kept' = Evict(Append(kept, Len(made) + 1))
             /\ holding' = [holding EXCEPT ![c] = Len(made) + 1]
  BY <1>4, MakeBucket_Inv
<1> QED
  BY <1>2, <1>3, <1>4 DEF CheckPerUser

\* So every step keeps it.
LEMMA LimitNext_Inv == ASSUME LimitAssumption, LimitInv, [LimitNext]_limitVars PROVE LimitInv'
<1>1. CASE NowTicks
  BY <1>1, NowTicks_Inv
<1>2. CASE Status
  BY <1>2, Status_Inv
<1>3. ASSUME NEW c \in Clients, CheckPerUser(c) PROVE LimitInv'
  BY <1>3, CheckPerUser_Inv
<1>4. ASSUME NEW c \in Clients, TryConsume(c) PROVE LimitInv'
  BY <1>4, TryConsume_Inv
<1>5. CASE UNCHANGED limitVars
  BY <1>5 DEF limitVars, LimitInv, BucketsInv, Solvent, Registry, LastMade, BeginsAnewLate
<1> QED
  BY <1>1, <1>2, <1>3, <1>4, <1>5 DEF LimitNext

-----------------------------------------------------------------------------

\* And it implies what is promised.
LEMMA LimitInv_Safe == ASSUME LimitAssumption, LimitInv PROVE LimitSafe
<1>1. ASSUME NEW o \in DOMAIN made
      PROVE  /\ made[o].tokens \in 0..Capacity /\ made[o].filled \in made[o].since..now
             /\ spent[o] <= Capacity + (now - made[o].since)
  <2>1. o \in 1..Len(made) /\ made[o] \in Bucket /\ spent[o] \in Nat /\ Solvent(made[o], spent[o])
    BY DEF LimitInv, BucketsInv
  <2>2. made[o].tokens \in 0..Capacity /\ made[o].filled \in Nat /\ made[o].since \in Nat
        /\ now \in Nat /\ Capacity \in Nat
    BY <2>1 DEF Bucket, LimitInv, BucketsInv, LimitAssumption
  <2> DEFINE t == made[o].tokens
             f == made[o].filled
             since == made[o].since
             out == spent[o]
  <2>3. since <= f /\ f <= now /\ out + t + since <= Capacity + f
    BY <2>1 DEF Solvent
  <2>4. t \in 0..Capacity /\ t \in Nat /\ f \in Nat /\ since \in Nat /\ out \in Nat /\ now \in Nat /\ Capacity \in Nat
    BY <2>1, <2>2
  <2> HIDE DEF t, f, since, out
  <2>5. f \in since..now /\ out <= Capacity + (now - since)
    BY <2>3, <2>4
  <2> QED
    BY <2>4, <2>5 DEF t, f, since, out
<1>2. \A i \in DOMAIN kept : kept[i] \in 2..Len(made)
  BY KeptIsMade
<1>3. LimitTypeOK
  <2>1. DOMAIN made = DOMAIN spent
    BY DEF LimitInv, BucketsInv
  <2> QED
    BY <1>1, <1>2, <2>1 DEF LimitTypeOK, LimitInv, BucketsInv
<1>4. BucketGivesNoMore
  BY <1>1 DEF BucketGivesNoMore
<1>5. ASSUME NEW i \in DOMAIN kept, NEW j \in DOMAIN kept,
             made[kept[i]].user = made[kept[j]].user, i < j
      PROVE  FALSE
  <2>1. /\ i \in 1..MaxBuckets /\ j \in 1..MaxBuckets /\ MaxBuckets \in Nat
        /\ kept[i] \in 2..Len(made) /\ kept[j] \in 2..Len(made)
        /\ kept[j] - kept[i] = j - i
    BY KeptIsMade DEF LimitAssumption
  <2>2. kept[i] < kept[j] /\ ~ (kept[j] - kept[i] > MaxBuckets)
    BY <1>5, <2>1
  <2> QED
    BY <1>5, <2>1, <2>2 DEF LimitInv, BeginsAnewLate
<1>6. OneBucketEach
  <2>1. \A i \in DOMAIN kept : i \in Nat
    BY DEF LimitInv, Registry, LastMade
  <2> QED
    BY <1>5, <2>1 DEF OneBucketEach, LimitInv, Registry, LastMade
<1> QED
  BY <1>3, <1>4, <1>6 DEF LimitSafe, LimitInv

\* However requests interleave between the two locks, a bucket gives no more
\* than its capacity and what time adds, a user has one bucket, and begins anew
\* with a full one only after MaxBuckets others have come.
THEOREM LimitsHold == LimitSpec => []LimitSafe
<1>1. LimitAssumption
  BY LimitAssumption
<1>2. LimitInit => LimitInv
  BY <1>1, LimitInit_Inv
<1>3. LimitInv /\ [LimitNext]_limitVars => LimitInv'
  BY <1>1, LimitNext_Inv
<1>4. LimitInv => LimitSafe
  BY <1>1, LimitInv_Safe
<1> QED
  BY <1>2, <1>3, <1>4, PTL DEF LimitSpec

-----------------------------------------------------------------------------
(* The gate (ChannelGate)                                                  *)

\* Updates that are in the hands of the adapter.
InBatch(i) == gate # "poll" /\ batch.first <= i /\ i <= batch.last

GateTyped ==
  /\ GateTypeOK
  /\ batch \in [first : Nat, last : Nat]
  /\ gate \in {"gate", "pair", "session", "reply"} => Sender \in Users

\* Who is approved has had all of his updates admitted, and what goes to the chat
\* was admitted.
AdmittedSoFar ==
  /\ \A i \in DOMAIN updates : updates[i] \in allowed => i \in admitted
  /\ gate = "session" => batch.first \in admitted
  /\ ServedWasAdmitted

\* Below the offset all is answered, cut off or in hand; what is in hand, or not
\* received since the process was started, has been answered in earlier lives only.
DeliveredSoFar ==
  /\ \A i \in Ids : i < offset => handled[i] > 0 \/ i \in missed \/ InBatch(i)
  /\ \A i \in Ids : i >= offset \/ InBatch(i) => handled[i] <= crashes
  /\ gate # "poll" => batch.last < offset
  /\ ForgottenIsHandled

GateInv == GateTyped /\ AdmittedSoFar /\ OneLiveCode /\ DeliveredSoFar

\* The parts of the typing, one by one.
LEMMA GateTypes ==
  ASSUME GateInv
  PROVE  /\ allowed \subseteq Users /\ pairing \in [Codes -> Pairing \cup {NoPairing}]
         /\ minute \in 0..MaxMinute /\ minute \in Nat
         /\ updates \in Seq(Users \cup {NoUser}) /\ Len(updates) \in Nat
         /\ Len(updates) <= MaxUpdates
         /\ DOMAIN updates = 1..Len(updates) /\ DOMAIN updates \subseteq Ids
         /\ confirmed \in 0..Len(updates) /\ offset \in 0..(Len(updates) + 1)
         /\ batch \in [first : Nat, last : Nat]
         /\ batch.first \in 1..(Len(updates) + 1) /\ batch.last \in 0..Len(updates)
         /\ gate \in {"poll", "next", "gate", "pair", "session", "reply"}
         /\ gate \in {"gate", "pair", "session", "reply"} =>
              batch.first <= batch.last /\ batch.first \in DOMAIN updates /\ Sender \in Users
         /\ handled \in [Ids -> 0..(MaxCrashes + 1)] /\ (\A i \in Ids : handled[i] \in Nat)
         /\ missed \subseteq Ids /\ admitted \subseteq Ids /\ served \subseteq Ids
         /\ crashes \in 0..MaxCrashes /\ crashes \in Nat
         /\ MaxCrashes \in Nat /\ MaxMinute \in Nat /\ MaxUpdates \in Nat /\ Expiry \in Nat
         /\ NoUser \notin Users
<1>1. GateTypeOK /\ batch \in [first : Nat, last : Nat]
  BY DEF GateInv, GateTyped
<1>2. updates \in Seq(Users \cup {NoUser}) /\ Len(updates) <= MaxUpdates
  BY <1>1 DEF GateTypeOK
<1>3. Len(updates) \in Nat /\ DOMAIN updates = 1..Len(updates)
  BY <1>2
<1>4. /\ MaxCrashes \in Nat /\ MaxMinute \in Nat /\ MaxUpdates \in Nat /\ Expiry \in Nat
      /\ NoUser \notin Users
  BY GateAssumption
<1>5. DOMAIN updates \subseteq Ids
  BY <1>2, <1>3, <1>4 DEF Ids
<1>6. /\ confirmed \in 0..Len(updates) /\ offset \in 0..(Len(updates) + 1)
      /\ batch.first \in 1..(Len(updates) + 1) /\ batch.last \in 0..Len(updates)
      /\ gate \in {"gate", "pair", "session", "reply"} => batch.first <= batch.last
  BY <1>1 DEF GateTypeOK
<1>7. gate \in {"gate", "pair", "session", "reply"} =>
        batch.first <= batch.last /\ batch.first \in DOMAIN updates /\ Sender \in Users
  BY <1>3, <1>6 DEF GateInv, GateTyped
<1>8. minute \in Nat /\ crashes \in Nat /\ \A i \in Ids : handled[i] \in Nat
  BY <1>1, <1>4 DEF GateTypeOK
<1> QED
  BY <1>1, <1>2, <1>3, <1>4, <1>5, <1>6, <1>7, <1>8 DEF GateTypeOK

\* It holds at the start, and each action of the module keeps it.
LEMMA GateInit_Inv == ASSUME GateInit PROVE GateInv
<1>1. /\ allowed = {} /\ pairing = [c \in Codes |-> NoPairing] /\ minute = 0
      /\ updates = <<>> /\ confirmed = 0 /\ offset = 0 /\ batch = [first |-> 1, last |-> 0]
      /\ gate = "poll" /\ handled = [i \in Ids |-> 0]
      /\ missed = {} /\ admitted = {} /\ served = {} /\ crashes = 0
  BY DEF GateInit, Nothing
<1>2. MaxCrashes \in Nat /\ MaxMinute \in Nat /\ MaxUpdates \in Nat
  BY GateAssumption
<1>3. GateTyped
  <2>1. updates \in Seq(Users \cup {NoUser}) /\ Len(updates) = 0
    BY <1>1
  <2>2. /\ batch.first \in 1..(Len(updates) + 1) /\ batch.last \in 0..Len(updates)
        /\ confirmed \in 0..Len(updates)
        /\ offset \in 0..(Len(updates) + 1) /\ Len(updates) <= MaxUpdates
    BY <1>1, <1>2, <2>1
  <2>3. /\ handled \in [Ids -> 0..(MaxCrashes + 1)] /\ minute \in 0..MaxMinute
        /\ crashes \in 0..MaxCrashes
    BY <1>1, <1>2
  <2> QED
    BY <1>1, <2>1, <2>2, <2>3 DEF GateTyped, GateTypeOK
<1>4. AdmittedSoFar
  BY <1>1 DEF AdmittedSoFar, ServedWasAdmitted
<1>5. OneLiveCode
  BY <1>1 DEF OneLiveCode, Pending
<1>6. DeliveredSoFar
  <2>1. \A i \in Ids : ~ (i < offset) /\ handled[i] = 0 /\ ~ InBatch(i)
    BY <1>1, <1>2 DEF Ids, InBatch
  <2> QED
    BY <1>1, <2>1 DEF DeliveredSoFar, ForgottenIsHandled
<1> QED
  BY <1>3, <1>4, <1>5, <1>6 DEF GateInv

\* The administrator and the clock: neither updates nor what became of them.
LEMMA AdminActs ==
  ASSUME GateInv, UNCHANGED <<pollVars, gate, handled, missed, served, crashes>>,
         allowed' \subseteq Users, pairing' \in [Codes -> Pairing \cup {NoPairing}],
         minute' \in 0..MaxMinute, minute <= minute',
         \A c \in Codes : Pending(c)' => Pending(c) /\ pairing'[c] = pairing[c],
         admitted \subseteq admitted', admitted' \subseteq Ids,
         \A i \in DOMAIN updates : updates[i] \in allowed' => updates[i] \in allowed \/ i \in admitted'
  PROVE  GateInv'
<1>1. GateTyped'
  BY DEF GateInv, GateTyped, GateTypeOK, pollVars, Sender
<1>2. AdmittedSoFar'
  BY DEF GateInv, AdmittedSoFar, ServedWasAdmitted, pollVars
<1>3. OneLiveCode'
  <2>1. minute \in Nat /\ minute' \in Nat
    BY GateTypes
  <2>2. SUFFICES ASSUME NEW c \in Codes, NEW d \in Codes, Pending(c)', Pending(d)',
                        pairing'[c].user = pairing'[d].user,
                        pairing'[c].deadline > minute', pairing'[d].deadline > minute'
                 PROVE  c = d
    BY DEF OneLiveCode
  <2>3. Pending(c) /\ Pending(d) /\ pairing'[c] = pairing[c] /\ pairing'[d] = pairing[d]
    BY <2>2
  <2>4. pairing[c].deadline \in Nat /\ pairing[d].deadline \in Nat
    BY <2>3, GateTypes DEF Pairing, Pending
  <2>5. pairing[c].deadline > minute /\ pairing[d].deadline > minute
    BY <2>1, <2>2, <2>3, <2>4
  <2> QED
    BY <2>2, <2>3, <2>5 DEF GateInv, OneLiveCode
<1>4. DeliveredSoFar'
  BY DEF GateInv, DeliveredSoFar, ForgottenIsHandled, pollVars, InBatch
<1> QED
  BY <1>1, <1>2, <1>3, <1>4 DEF GateInv

\* What a decision of the admin changes.
LEMMA Decide_Is ==
  ASSUME GateInv, NEW c \in Codes, NEW decision \in Decisions, Decide(c, decision)
  PROVE  /\ pairing' \in [Codes -> Pairing \cup {NoPairing}]
         /\ \A d \in Codes : Pending(d)' => Pending(d) /\ pairing'[d] = pairing[d]
<1> DEFINE next == [pairing[c] EXCEPT !.status = decision]
<1>1. pairing[c] \in Pairing /\ pairing' = [pairing EXCEPT ![c] = next]
  BY GateTypes DEF Decide, Pending
<1>2. next \in Pairing /\ next.status = decision /\ decision # "pending"
  BY <1>1 DEF Pairing, Decisions
<1> HIDE DEF next
<1>3. pairing'[c] = next /\ \A d \in Codes \ {c} : pairing'[d] = pairing[d]
  BY <1>1, GateTypes
<1>4. pairing' \in [Codes -> Pairing \cup {NoPairing}]
  BY <1>1, <1>2, GateTypes
<1> QED
  BY <1>2, <1>3, <1>4 DEF Pending

LEMMA Admin_Inv ==
  ASSUME GateInv,
         \/ \E c \in Codes : Approve(c) \/ RejectPairing(c)
         \/ \E u \in Users : Revoke(u)
         \/ ExpirePairings \/ Minute
  PROVE  GateInv'
<1>1. ASSUME NEW c \in Codes, Approve(c) PROVE GateInv'
  <2>1. /\ Decide(c, "approved") /\ allowed' = allowed \cup {pairing[c].user}
        /\ admitted' = admitted \cup {i \in DOMAIN updates : updates[i] = pairing[c].user}
        /\ UNCHANGED <<minute, pollVars, gate, handled, missed, served, crashes>>
    BY <1>1 DEF Approve, OfUser
  <2>2. /\ pairing' \in [Codes -> Pairing \cup {NoPairing}]
        /\ \A d \in Codes : Pending(d)' => Pending(d) /\ pairing'[d] = pairing[d]
    BY <2>1, Decide_Is DEF Decisions
  <2>3. pairing[c].user \in Users
    BY <2>1, GateTypes DEF Decide, Pending, Pairing
  <2>4. /\ allowed' \subseteq Users /\ admitted' \subseteq Ids /\ minute' \in 0..MaxMinute
        /\ minute <= minute'
    BY <2>1, <2>3, GateTypes
  <2> QED
    BY <2>1, <2>2, <2>4, AdminActs
<1>2. ASSUME NEW c \in Codes, RejectPairing(c) PROVE GateInv'
  <2>1. /\ Decide(c, "rejected")
        /\ UNCHANGED <<allowed, minute, pollVars, gate, seenVars, crashes>>
    BY <1>2 DEF RejectPairing
  <2>2. /\ pairing' \in [Codes -> Pairing \cup {NoPairing}]
        /\ \A d \in Codes : Pending(d)' => Pending(d) /\ pairing'[d] = pairing[d]
    BY <2>1, Decide_Is DEF Decisions
  <2>3. /\ minute' \in 0..MaxMinute /\ minute <= minute'
        /\ UNCHANGED <<handled, missed, served, admitted>>
    BY <2>1, GateTypes DEF seenVars
  <2> QED
    BY <2>1, <2>2, <2>3, GateTypes, AdminActs
<1>3. ASSUME NEW u \in Users, Revoke(u) PROVE GateInv'
  <2>1. /\ allowed' = allowed \ {u} /\ minute' \in 0..MaxMinute /\ minute <= minute'
        /\ UNCHANGED <<pairing, minute, pollVars, gate, handled, missed, served, admitted, crashes>>
    BY <1>3, GateTypes DEF Revoke, seenVars
  <2> QED
    BY <2>1, GateTypes, AdminActs DEF Pending
<1>4. CASE ExpirePairings
  <2>1. /\ pairing' = [c \in Codes |->
             IF Pending(c) /\ pairing[c].deadline < minute
             THEN [pairing[c] EXCEPT !.status = "expired"] ELSE pairing[c]]
        /\ UNCHANGED <<allowed, minute, pollVars, gate, handled, missed, served, admitted, crashes>>
    BY <1>4 DEF ExpirePairings, seenVars
  <2>2. ASSUME NEW c \in Codes
        PROVE  /\ pairing'[c] \in Pairing \cup {NoPairing}
               /\ Pending(c)' => Pending(c) /\ pairing'[c] = pairing[c]
    <3>1. CASE Pending(c) /\ pairing[c].deadline < minute
      <4>1. pairing[c] \in Pairing /\ pairing'[c] = [pairing[c] EXCEPT !.status = "expired"]
        BY <2>1, <3>1, GateTypes DEF Pending
      <4>2. pairing'[c] \in Pairing /\ pairing'[c].status = "expired"
        BY <4>1 DEF Pairing, Decisions
      <4> QED
        BY <4>2 DEF Pending
    <3>2. CASE ~ (Pending(c) /\ pairing[c].deadline < minute)
      <4>1. pairing'[c] = pairing[c]
        BY <2>1, <3>2
      <4> QED
        BY <4>1, GateTypes DEF Pending
    <3> QED
      BY <3>1, <3>2
  <2>3. /\ pairing' \in [Codes -> Pairing \cup {NoPairing}] /\ minute' \in 0..MaxMinute
        /\ minute <= minute'
    BY <2>1, <2>2, GateTypes
  <2> QED
    BY <2>1, <2>2, <2>3, GateTypes, AdminActs
<1>5. CASE Minute
  <2>1. /\ minute' \in 0..MaxMinute /\ minute <= minute'
        /\ UNCHANGED <<allowed, pairing, pollVars, gate, handled, missed, served, admitted, crashes>>
    BY <1>5, GateTypes DEF Minute, seenVars
  <2> QED
    BY <2>1, GateTypes, AdminActs DEF Pending
<1> QED
  BY <1>1, <1>2, <1>3, <1>4, <1>5

LEMMA Write_Inv == ASSUME GateInv, NEW u \in Users \cup {NoUser}, Write(u) PROVE GateInv'
<1> DEFINE n == Len(updates) + 1
<1>1. /\ Len(updates) < MaxUpdates /\ updates' = Append(updates, u)
      /\ admitted' = IF u \in allowed THEN admitted \cup {Len(updates')} ELSE admitted
      /\ UNCHANGED <<allowed, pairing, minute, confirmed, offset, batch, gate, handled, missed, served, crashes>>
  BY DEF Write, adminVars
<1>2. /\ updates' \in Seq(Users \cup {NoUser}) /\ Len(updates') = n /\ updates'[n] = u
      /\ \A i \in DOMAIN updates : updates'[i] = updates[i]
  BY <1>1, GateTypes
<1>3. n \in Ids /\ DOMAIN updates' = 1..n /\ DOMAIN updates = 1..Len(updates)
  BY <1>1, <1>2, GateTypes DEF Ids
<1>4. /\ confirmed \in 0..n /\ offset \in 0..(n + 1) /\ batch.first \in 1..(n + 1)
      /\ batch.last \in 0..n
      /\ n <= MaxUpdates
  BY <1>1, GateTypes
<1>5. GateTyped'
  <2>1. gate \in {"gate", "pair", "session", "reply"} => Sender' = Sender /\ Sender \in Users
    BY <1>1, <1>2, GateTypes DEF Sender
  <2>2. admitted' \subseteq Ids
    BY <1>1, <1>2, <1>3, GateTypes
  <2> QED
    BY <1>1, <1>2, <1>4, <2>1, <2>2 DEF GateInv, GateTyped, GateTypeOK
<1>6. AdmittedSoFar'
  <2>1. ASSUME NEW i \in DOMAIN updates', updates'[i] \in allowed PROVE i \in admitted'
    <3>1. CASE i = n
      BY <1>1, <1>2, <2>1, <3>1
    <3>2. CASE i # n
      <4>1. i \in DOMAIN updates
        BY <1>3, <3>2, GateTypes
      <4> QED
        BY <1>1, <1>2, <2>1, <4>1 DEF GateInv, AdmittedSoFar
    <3> QED
      BY <3>1, <3>2
  <2> QED
    BY <1>1, <2>1 DEF GateInv, AdmittedSoFar, ServedWasAdmitted
<1>7. OneLiveCode' /\ DeliveredSoFar'
  BY <1>1 DEF GateInv, OneLiveCode, Pending, DeliveredSoFar, ForgottenIsHandled, InBatch
<1> QED
  BY <1>5, <1>6, <1>7 DEF GateInv

LEMMA Poll_Inv == ASSUME GateInv, Poll PROVE GateInv'
<1>1. /\ gate = "poll" /\ confirmed' = Larger(confirmed, offset - 1)
      /\ UNCHANGED <<allowed, pairing, minute, updates, handled, missed, admitted, served, crashes>>
  BY DEF Poll, adminVars, seenVars
<1>2. /\ confirmed' \in 0..Len(updates) /\ offset <= confirmed' + 1
      /\ confirmed' = confirmed \/ confirmed' = offset - 1
  BY <1>1, GateTypes DEF Larger
<1>3. \A i \in Ids : ~ InBatch(i)
  BY <1>1 DEF InBatch
<1>4. \A i \in 1..confirmed' : handled[i] > 0 \/ i \in missed
  <2>1. CASE confirmed' = confirmed
    BY <2>1 DEF GateInv, DeliveredSoFar, ForgottenIsHandled
  <2>2. CASE confirmed' = offset - 1
    <3>1. /\ offset \in Nat /\ MaxUpdates \in Nat
          /\ confirmed' \in Nat /\ confirmed' <= MaxUpdates
      BY <1>2, GateTypes
    <3>2. \A i \in 1..confirmed' : i \in Ids /\ i < offset
      BY <2>2, <3>1 DEF Ids
    <3> QED
      BY <1>3, <3>2 DEF GateInv, DeliveredSoFar
  <2> QED
    BY <1>2, <2>1, <2>2
<1>5. OneLiveCode'
  BY <1>1 DEF GateInv, OneLiveCode, Pending
<1>6. CASE confirmed' = Len(updates)
  <2>1. UNCHANGED <<offset, batch, gate>>
    BY <1>1, <1>6 DEF Poll
  <2>2. GateTyped'
    BY <1>1, <1>2, <2>1 DEF GateInv, GateTyped, GateTypeOK, Sender
  <2>3. AdmittedSoFar'
    BY <1>1, <2>1 DEF GateInv, AdmittedSoFar, ServedWasAdmitted
  <2>4. DeliveredSoFar'
    BY <1>1, <1>4, <2>1 DEF GateInv, DeliveredSoFar, ForgottenIsHandled, InBatch
  <2> QED
    BY <1>5, <2>2, <2>3, <2>4 DEF GateInv
<1>7. CASE confirmed' # Len(updates)
  <2>1. /\ batch' = [first |-> confirmed' + 1, last |-> Len(updates)]
        /\ offset' = Len(updates) + 1 /\ gate' = "next"
    BY <1>1, <1>7 DEF Poll
  <2>0. /\ confirmed' \in Nat /\ offset \in Nat /\ Len(updates) \in Nat
        /\ confirmed' <= Len(updates) /\ offset <= confirmed' + 1
    BY <1>2, GateTypes
  <2>2. /\ batch' \in [first : Nat, last : Nat] /\ batch'.first = confirmed' + 1 /\ batch'.last = Len(updates)
        /\ batch'.first \in 1..(Len(updates) + 1) /\ batch'.last \in 0..Len(updates)
        /\ offset' \in 0..(Len(updates) + 1)
    <3> DEFINE n == Len(updates)
               c == confirmed'
    <3>0. c \in Nat /\ n \in Nat /\ c <= n
      BY <2>0
    <3> HIDE DEF n, c
    <3>1. c + 1 \in 1..(n + 1) /\ c + 1 \in Nat
      BY <3>0
    <3> USE DEF n, c
    <3>2. Len(updates) \in 0..Len(updates) /\ Len(updates) + 1 \in 0..(Len(updates) + 1)
      BY <2>0
    <3> QED
      BY <2>0, <2>1, <3>1, <3>2
  <2>3. GateTyped'
    BY <1>1, <1>2, <2>1, <2>2 DEF GateInv, GateTyped, GateTypeOK
  <2>4. AdmittedSoFar'
    BY <1>1, <2>1 DEF GateInv, AdmittedSoFar, ServedWasAdmitted
  <2>5. ASSUME NEW i \in Ids
        PROVE  /\ i < offset' => handled[i] > 0 \/ i \in missed \/ InBatch(i)'
               /\ i >= offset' \/ InBatch(i)' => handled[i] <= crashes
    <3> DEFINE n == Len(updates)
               c == confirmed'
    <3>0. i \in Nat /\ i >= 1
      BY GateTypes DEF Ids
    <3>1. /\ i \in Nat /\ i >= 1 /\ c \in Nat /\ n \in Nat /\ offset \in Nat /\ c <= n
          /\ offset <= c + 1
      BY <2>0, <3>0
    <3>4. offset' = n + 1 /\ (InBatch(i)' <=> c + 1 <= i /\ i <= n)
      BY <2>1, <2>2 DEF InBatch
    <3> HIDE DEF n, c
    <3>2. i < offset' => i \in 1..confirmed' \/ InBatch(i)'
      <4>1. i < n + 1 => (1 <= i /\ i <= c) \/ (c + 1 <= i /\ i <= n)
        BY <3>1
      <4>2. i \in 1..c <=> 1 <= i /\ i <= c
        BY <3>1
      <4>3. i < offset' => i \in 1..c \/ InBatch(i)'
        BY <3>4, <4>1, <4>2
      <4> QED
        BY <4>3 DEF c
    <3>3. i >= offset' \/ InBatch(i)' => i >= offset
      BY <3>1, <3>4
    <3> QED
      BY <1>4, <3>2, <3>3 DEF GateInv, DeliveredSoFar
  <2>6. batch'.last < offset'
    <3>1. Len(updates) \in Nat => Len(updates) < Len(updates) + 1
      OBVIOUS
    <3> QED
      BY <2>0, <2>1, <2>2, <3>1
  <2>7. DeliveredSoFar'
    BY <1>1, <1>4, <2>5, <2>6 DEF GateInv, DeliveredSoFar, ForgottenIsHandled
  <2> QED
    BY <1>5, <2>3, <2>4, <2>7 DEF GateInv
<1> QED
  BY <1>6, <1>7

\* The adapter goes from one place to the next with the update it is at.
LEMMA GateGoes ==
  ASSUME GateInv, gate # "poll", gate' \in {"next", "gate", "pair", "session", "reply"},
         UNCHANGED <<allowed, minute, updates, confirmed, offset, batch, handled, missed, admitted, crashes>>,
         pairing' \in [Codes -> Pairing \cup {NoPairing}], OneLiveCode',
         gate' \in {"gate", "pair", "session", "reply"} => batch.first <= batch.last /\ Sender \in Users,
         gate' = "session" => batch.first \in admitted,
         served' \subseteq Ids, served' \subseteq admitted
  PROVE  GateInv'
<1>1. GateTyped'
  BY DEF GateInv, GateTyped, GateTypeOK, Sender
<1>2. AdmittedSoFar'
  BY DEF GateInv, AdmittedSoFar, ServedWasAdmitted
<1>3. \A i \in Ids : InBatch(i)' <=> InBatch(i)
  BY DEF InBatch
<1>4. DeliveredSoFar'
  BY <1>3 DEF GateInv, DeliveredSoFar, ForgottenIsHandled
<1> QED
  BY <1>1, <1>2, <1>4 DEF GateInv

\* An update is answered.
LEMMA Answered_Inv ==
  ASSUME GateInv, gate # "poll", batch.first <= batch.last, Answered,
         UNCHANGED <<adminVars, updates, confirmed, offset, missed, admitted, served, crashes>>
  PROVE  GateInv'
<1>1. /\ handled' = [handled EXCEPT ![batch.first] = handled[batch.first] + 1]
      /\ batch' = [batch EXCEPT !.first = batch.first + 1] /\ gate' = "next"
      /\ UNCHANGED <<allowed, pairing, minute, updates, confirmed, offset, missed, admitted, served, crashes>>
  BY DEF Answered, adminVars
<1>2. /\ batch.first \in Nat /\ batch.last \in Nat /\ batch.first >= 1 /\ batch.last <= Len(updates)
      /\ Len(updates) \in Nat /\ Len(updates) <= MaxUpdates /\ MaxUpdates \in Nat
      /\ crashes \in Nat /\ crashes <= MaxCrashes /\ MaxCrashes \in Nat
  BY GateTypes
<1>3. batch.first \in Ids /\ handled[batch.first] <= crashes /\ handled[batch.first] \in Nat
  <2>1. batch.first \in Ids
    BY <1>2 DEF Ids
  <2> QED
    BY <1>2, <2>1, GateTypes DEF GateInv, DeliveredSoFar, InBatch
<1>4. /\ handled' \in [Ids -> 0..(MaxCrashes + 1)]
      /\ handled'[batch.first] = handled[batch.first] + 1
      /\ \A i \in Ids \ {batch.first} : handled'[i] = handled[i]
  <2>1. handled[batch.first] + 1 \in 0..(MaxCrashes + 1)
    BY <1>2, <1>3
  <2> QED
    BY <1>1, <1>3, <2>1, GateTypes
<1>5. /\ batch' \in [first : Nat, last : Nat] /\ batch'.first = batch.first + 1 /\ batch'.last = batch.last
      /\ batch'.first \in 1..(Len(updates) + 1)
  <2>1. batch' = [first |-> batch.first + 1, last |-> batch.last]
    BY <1>1, GateTypes
  <2>2. batch.first + 1 \in 1..(Len(updates) + 1)
    BY <1>2
  <2> QED
    BY <1>2, <2>1, <2>2
<1>6. GateTyped'
  BY <1>1, <1>4, <1>5, GateTypes DEF GateInv, GateTyped, GateTypeOK
<1>7. AdmittedSoFar'
  BY <1>1 DEF GateInv, AdmittedSoFar, ServedWasAdmitted
<1>8. OneLiveCode'
  BY <1>1 DEF GateInv, OneLiveCode, Pending
<1>9. ASSUME NEW i \in Ids
      PROVE  /\ i < offset' => handled'[i] > 0 \/ i \in missed \/ InBatch(i)'
             /\ i >= offset' \/ InBatch(i)' => handled'[i] <= crashes
             /\ handled'[i] <= 1 + crashes
             /\ handled[i] > 0 => handled'[i] > 0
  <2>1. i \in Nat /\ handled[i] \in Nat /\ handled[i] <= 1 + crashes
    BY GateTypes DEF Ids, GateInv, DeliveredSoFar, ForgottenIsHandled
  <2>2. /\ i < offset => handled[i] > 0 \/ i \in missed \/ InBatch(i)
        /\ i >= offset \/ InBatch(i) => handled[i] <= crashes
    BY DEF GateInv, DeliveredSoFar
  <2>3. CASE i = batch.first
    <3>1. ~ InBatch(i)'
      BY <1>2, <1>5, <2>3 DEF InBatch
    <3>2. ~ (i >= offset)
      <4>1. i <= batch.last /\ batch.last < offset /\ offset \in Nat
        BY <2>3, GateTypes DEF GateInv, DeliveredSoFar
      <4> QED
        BY <1>2, <2>1, <4>1
    <3>3. handled'[i] > 0 /\ handled'[i] <= 1 + crashes
      BY <1>2, <1>3, <1>4, <2>3
    <3> QED
      BY <1>1, <3>1, <3>2, <3>3
  <2>4. CASE i # batch.first
    <3>1. handled'[i] = handled[i] /\ (InBatch(i) <=> InBatch(i)')
      BY <1>1, <1>2, <1>4, <1>5, <2>1, <2>4 DEF InBatch
    <3> QED
      BY <1>1, <2>1, <2>2, <3>1
  <2> QED
    BY <2>3, <2>4
<1>10. DeliveredSoFar'
  <2>1. \A i \in 1..confirmed' : i \in Ids
    BY <1>1, GateTypes DEF Ids
  <2> QED
    BY <1>1, <1>5, <1>9, <2>1 DEF GateInv, DeliveredSoFar, ForgottenIsHandled
<1> QED
  BY <1>6, <1>7, <1>8, <1>10 DEF GateInv

LEMMA NextUpdate_Inv == ASSUME GateInv, NextUpdate PROVE GateInv'
<1>1. /\ gate = "next"
      /\ UNCHANGED <<allowed, pairing, minute, updates, confirmed, offset, missed, admitted, served, crashes>>
  BY DEF NextUpdate, adminVars
<1>2. CASE batch.first <= batch.last /\ Answered
  BY <1>1, <1>2, Answered_Inv DEF adminVars
<1>3. OneLiveCode'
  BY <1>1 DEF GateInv, OneLiveCode, Pending
<1>4. CASE gate' = "poll" /\ batch.first > batch.last /\ UNCHANGED <<batch, handled>>
  <2>1. GateTyped'
    BY <1>1, <1>4 DEF GateInv, GateTyped, GateTypeOK
  <2>2. AdmittedSoFar'
    BY <1>1, <1>4 DEF GateInv, AdmittedSoFar, ServedWasAdmitted
  <2>3. \A i \in Ids : ~ InBatch(i)
    <3>1. Ids \subseteq Nat /\ batch.first \in Nat /\ batch.last \in Nat
      BY GateTypes DEF Ids
    <3> QED
      BY <1>4, <3>1 DEF InBatch
  <2>4. DeliveredSoFar'
    BY <1>1, <1>4, <2>3 DEF GateInv, DeliveredSoFar, ForgottenIsHandled, InBatch
  <2> QED
    BY <1>3, <2>1, <2>2, <2>4 DEF GateInv
<1>5. CASE gate' = "gate" /\ batch.first <= batch.last /\ Sender # NoUser /\ UNCHANGED <<batch, handled>>
  <2>1. Sender \in Users
    <3>1. batch.first \in DOMAIN updates
      BY <1>5, GateTypes
    <3> QED
      BY <1>5, <3>1, GateTypes DEF Sender
  <2>2. /\ served' \subseteq Ids /\ served' \subseteq admitted
        /\ pairing' \in [Codes -> Pairing \cup {NoPairing}]
    BY <1>1, GateTypes DEF GateInv, AdmittedSoFar, ServedWasAdmitted
  <2> QED
    BY <1>1, <1>3, <1>5, <2>1, <2>2, GateGoes
<1> QED
  BY <1>2, <1>4, <1>5 DEF NextUpdate

LEMMA PassGate_Inv == ASSUME GateInv, PassGate PROVE GateInv'
<1>1. /\ gate = "gate" /\ gate' = IF Sender \in allowed THEN "session" ELSE "pair"
      /\ UNCHANGED <<allowed, pairing, minute, updates, confirmed, offset, batch>>
      /\ UNCHANGED <<handled, missed, admitted, served, crashes>>
  BY DEF PassGate, adminVars, pollVars, seenVars
<1>2. batch.first <= batch.last /\ batch.first \in DOMAIN updates /\ Sender \in Users
  BY <1>1, GateTypes
<1>3. gate' = "session" => batch.first \in admitted
  BY <1>1, <1>2 DEF GateInv, AdmittedSoFar, Sender
<1>4. OneLiveCode'
  BY <1>1 DEF GateInv, OneLiveCode, Pending
<1>5. /\ served' \subseteq Ids /\ served' \subseteq admitted
      /\ pairing' \in [Codes -> Pairing \cup {NoPairing}]
  BY <1>1, GateTypes DEF GateInv, AdmittedSoFar, ServedWasAdmitted
<1> QED
  BY <1>1, <1>2, <1>3, <1>4, <1>5, GateGoes

LEMMA GiveCode_Inv == ASSUME GateInv, GiveCode PROVE GateInv'
<1>1. /\ gate = "pair" /\ gate' = "reply"
      /\ UNCHANGED <<allowed, minute, updates, confirmed, offset, batch>>
      /\ UNCHANGED <<handled, missed, admitted, served, crashes>>
  BY DEF GiveCode, pollVars, seenVars
<1>2. batch.first <= batch.last /\ Sender \in Users
  BY <1>1, GateTypes
<1>3. pairing' \in [Codes -> Pairing \cup {NoPairing}] /\ OneLiveCode'
  <2>1. CASE UNCHANGED pairing
    BY <1>1, <2>1, GateTypes DEF GateInv, OneLiveCode, Pending
  <2>2. CASE /\ LiveCodes(Sender) = {}
             /\ \E c \in Codes :
                  /\ pairing[c] = NoPairing
                  /\ pairing' = [pairing EXCEPT ![c] =
                       [user |-> Sender, deadline |-> minute + Expiry, status |-> "pending"]]
    <3>1. PICK c \in Codes :
            pairing' = [pairing EXCEPT ![c] =
              [user |-> Sender, deadline |-> minute + Expiry, status |-> "pending"]]
      BY <2>2
    <3>2. minute + Expiry \in Nat
      BY GateTypes
    <3>3. [user |-> Sender, deadline |-> minute + Expiry, status |-> "pending"] \in Pairing
      BY <1>2, <3>2 DEF Pairing
    <3>4. /\ pairing' \in [Codes -> Pairing \cup {NoPairing}] /\ pairing'[c].user = Sender
          /\ \A d \in Codes \ {c} : pairing'[d] = pairing[d]
      BY <3>1, <3>3, GateTypes
    <3>5. ASSUME NEW d \in Codes \ {c}, Pending(d)', pairing'[d].user = Sender, pairing'[d].deadline > minute'
          PROVE  FALSE
      <4>1. d \in LiveCodes(Sender)
        BY <1>1, <3>4, <3>5 DEF LiveCodes, Pending
      <4> QED
        BY <2>2, <4>1
    <3>6. OneLiveCode'
      <4>1. SUFFICES ASSUME NEW d \in Codes, NEW e \in Codes, Pending(d)', Pending(e)',
                            pairing'[d].user = pairing'[e].user,
                            pairing'[d].deadline > minute', pairing'[e].deadline > minute', d # e
                     PROVE  FALSE
        BY DEF OneLiveCode
      <4>2. CASE d = c \/ e = c
        BY <3>4, <3>5, <4>1, <4>2
      <4>3. CASE d # c /\ e # c
        BY <1>1, <3>4, <4>1, <4>3 DEF GateInv, OneLiveCode, Pending
      <4> QED
        BY <4>2, <4>3
    <3> QED
      BY <3>4, <3>6
  <2> QED
    BY <2>1, <2>2 DEF GiveCode
<1>4. served' \subseteq Ids /\ served' \subseteq admitted
  BY <1>1, GateTypes DEF GateInv, AdmittedSoFar, ServedWasAdmitted
<1> QED
  BY <1>1, <1>2, <1>3, <1>4, GateGoes

LEMMA ServeChat_Inv == ASSUME GateInv, ServeChat PROVE GateInv'
<1>1. /\ gate = "session" /\ gate' = "reply" /\ served' = served \cup {batch.first}
      /\ UNCHANGED <<allowed, pairing, minute, updates, confirmed, offset, batch>>
      /\ UNCHANGED <<handled, missed, admitted, crashes>>
  BY DEF ServeChat, adminVars, pollVars
<1>2. batch.first <= batch.last /\ Sender \in Users /\ batch.first \in Ids
  BY <1>1, GateTypes
<1>3. served' \subseteq Ids /\ served' \subseteq admitted
  BY <1>1, <1>2, GateTypes DEF GateInv, AdmittedSoFar, ServedWasAdmitted
<1>4. OneLiveCode' /\ pairing' \in [Codes -> Pairing \cup {NoPairing}]
  BY <1>1, GateTypes DEF GateInv, OneLiveCode, Pending
<1> QED
  BY <1>1, <1>2, <1>3, <1>4, GateGoes

LEMMA Reply_Inv == ASSUME GateInv, Reply PROVE GateInv'
<1>1. gate = "reply" /\ Answered
      /\ UNCHANGED <<adminVars, updates, confirmed, offset, missed, admitted, served, crashes>>
  BY DEF Reply
<1>2. batch.first <= batch.last
  BY <1>1, GateTypes
<1> QED
  BY <1>1, <1>2, Answered_Inv

\* The adapter gives up its batch: what is in it is missed, or the process ends.
LEMMA GivesUp_Inv == ASSUME GateInv, GateRaises \/ Restart PROVE GateInv'
<1>1. /\ gate' = "poll" /\ batch' = [first |-> 1, last |-> 0]
      /\ UNCHANGED <<allowed, pairing, minute, updates, confirmed, handled, admitted, served>>
      /\ \/ crashes' = crashes /\ offset' = offset /\ missed' = missed \cup batch.first..batch.last
         \/ crashes' = crashes + 1 /\ crashes < MaxCrashes /\ offset' = 0 /\ missed' = missed
  BY DEF GateRaises, Restart, adminVars, seenVars, Nothing
<1>2. missed' \subseteq Ids
  <2>1. PICK l \in Nat : l = Len(updates)
    BY GateTypes
  <2>2. batch.first \in 1..(l + 1) /\ batch.last \in 0..l
    BY <2>1, GateTypes
  <2>3. PICK a \in Nat, z \in Nat : a = batch.first /\ z = batch.last
    BY <2>2
  <2>4. 1 <= a /\ z <= l
    BY <2>2, <2>3
  <2>5. batch.first..batch.last \subseteq 1..Len(updates)
    BY <2>1, <2>3, <2>4
  <2> QED
    BY <1>1, <2>1, GateTypes
<1>3. /\ crashes' \in 0..MaxCrashes /\ offset' \in 0..(Len(updates) + 1)
      /\ crashes <= crashes' /\ offset' <= offset
  BY <1>1, GateTypes
<1>4. GateTyped'
  <2>1. 1 \in 1..(Len(updates) + 1) /\ 0 \in 0..Len(updates)
    BY GateTypes
  <2> QED
    BY <1>1, <1>2, <1>3, <2>1 DEF GateInv, GateTyped, GateTypeOK
<1>5. AdmittedSoFar'
  BY <1>1 DEF GateInv, AdmittedSoFar, ServedWasAdmitted
<1>6. OneLiveCode'
  BY <1>1 DEF GateInv, OneLiveCode, Pending
<1>7. ASSUME NEW i \in Ids
      PROVE  /\ i < offset' => handled[i] > 0 \/ i \in missed'
             /\ i >= offset' => handled[i] <= crashes'
             /\ handled[i] <= 1 + crashes'
  <2>1. /\ i \in Nat /\ handled[i] \in Nat /\ crashes \in Nat /\ crashes' \in Nat /\ offset \in Nat
        /\ batch.first \in Nat /\ batch.last \in Nat
    BY <1>1, GateTypes DEF Ids
  <2>2. /\ i < offset => handled[i] > 0 \/ i \in missed \/ InBatch(i)
        /\ i >= offset \/ InBatch(i) => handled[i] <= crashes
        /\ handled[i] <= 1 + crashes
    BY DEF GateInv, DeliveredSoFar, ForgottenIsHandled
  <2>3. CASE crashes' = crashes /\ offset' = offset /\ missed' = missed \cup batch.first..batch.last
    <3>1. InBatch(i) => i \in missed'
      BY <2>1, <2>3 DEF InBatch
    <3> QED
      BY <2>1, <2>2, <2>3, <3>1
  <2>4. CASE crashes' = crashes + 1 /\ offset' = 0
    BY <2>1, <2>2, <2>4
  <2> QED
    BY <1>1, <2>3, <2>4
<1>8. DeliveredSoFar'
  BY <1>1, <1>7 DEF GateInv, DeliveredSoFar, ForgottenIsHandled, InBatch
<1> QED
  BY <1>4, <1>5, <1>6, <1>8 DEF GateInv

\* So every step keeps it.
LEMMA GateNext_Inv == ASSUME GateInv, [GateNext]_gateVars PROVE GateInv'
<1>1. CASE UNCHANGED gateVars
  <2>1. UNCHANGED <<allowed, pairing, minute, updates, confirmed, offset, batch, gate,
                    handled, missed, admitted, served, crashes>>
    BY <1>1 DEF gateVars, adminVars, pollVars, seenVars
  <2>2. minute' \in 0..MaxMinute /\ minute <= minute'
    BY <2>1, GateTypes
  <2> QED
    BY <2>1, <2>2, GateTypes, AdminActs DEF pollVars, Pending
<1>2. CASE \/ \E c \in Codes : Approve(c) \/ RejectPairing(c)
           \/ \E u \in Users : Revoke(u)
           \/ ExpirePairings \/ Minute
  BY <1>2, Admin_Inv
<1>3. CASE \E u \in Users \cup {NoUser} : Write(u)
  BY <1>3, Write_Inv
<1>4. CASE GateLoop
  BY <1>4, Poll_Inv, NextUpdate_Inv, PassGate_Inv, GiveCode_Inv, ServeChat_Inv, Reply_Inv
     DEF GateLoop
<1>5. CASE GateRaises \/ Restart
  BY <1>5, GivesUp_Inv
<1> QED
  BY <1>1, <1>2, <1>3, <1>4, <1>5 DEF GateNext

\* And it implies what is promised.
LEMMA GateInv_Safe == ASSUME GateInv PROVE GateSafe
  BY DEF GateInv, GateTyped, AdmittedSoFar, DeliveredSoFar, GateSafe

\* No step touches a row that is decided.
LEMMA GateNext_Decided ==
  ASSUME GateInv, [GateNext]_gateVars, NEW c \in Codes, pairing[c] # NoPairing, pairing[c].status \in Decisions
  PROVE  pairing'[c] = pairing[c]
<1>1. ~ Pending(c)
  BY DEF Pending, Decisions
<1>2. ASSUME NEW d \in Codes, NEW decision \in Decisions, Decide(d, decision) PROVE pairing'[c] = pairing[c]
  <2>1. d # c
    BY <1>1, <1>2 DEF Decide
  <2> QED
    BY <1>2, <2>1, GateTypes DEF Decide
<1>3. CASE ExpirePairings
  BY <1>1, <1>3 DEF ExpirePairings
<1>4. CASE GiveCode
  <2>1. CASE UNCHANGED pairing
    BY <2>1
  <2>2. ASSUME NEW d \in Codes, NEW row, pairing[d] = NoPairing, pairing' = [pairing EXCEPT ![d] = row]
        PROVE  pairing'[c] = pairing[c]
    BY <2>2, GateTypes
  <2> QED
    BY <1>4, <2>1, <2>2 DEF GiveCode
<1>5. CASE (\E d \in Codes : Approve(d) \/ RejectPairing(d))
  BY <1>2, <1>5 DEF Approve, RejectPairing, Decisions
<1>6. CASE UNCHANGED pairing
  BY <1>6
<1> QED
  BY <1>3, <1>4, <1>5, <1>6
     DEF GateNext, gateVars, adminVars, GateLoop, Revoke, Minute, Write, Poll, NextUpdate,
     PassGate, ServeChat, Reply, GateRaises, Restart

-----------------------------------------------------------------------------
(* WhatsApp (WhatsApp)                                                     *)

People == {"nobody", "friend", "self"}
MessageOf == [from : People, to : People, answers : 0..MaxTexts]
WebhookOf == [message : 0..MaxTexts, part : Nat, attempt : 0..MaxAttempts]

PhoneTyped ==
  /\ PhoneTypeOK
  /\ messages \in [MessageIds -> MessageOf] /\ webhook \in [Webhooks -> WebhookOf]
  /\ delivered \in [MessageIds -> [Parts -> Nat]]

\* An answer comes from the phone, and answers a message that is there, which is no
\* answer itself unless it may be answered.
MayAnswer(m) == messages[m].answers # 0 => m \in unknowing \/ messages[m].to = "self"
AnswersOf(m) ==
  /\ messages[m].answers # 0 =>
       messages[m].from = "self" /\ messages[m].answers \in Written /\ MayAnswer(messages[m].answers)
  /\ m \in toTell \/ m \notin Written => \A p \in Parts : delivered[m][p] = 0

\* A webhook is at a message that was told, alone; what it has yet to send was
\* delivered in doubt if at all.
WebhookHolds(w) ==
  LET k == webhook[w] IN
  k.message # 0 =>
    /\ k.message \notin toTell /\ MayAnswer(k.message)
    /\ \A v \in Webhooks : webhook[v].message = k.message => v = w
    /\ \A p \in Parts : p >= k.part /\ delivered[k.message][p] > 0 => <<k.message, p>> \in doubtful

PhoneInv ==
  /\ PhoneTyped
  /\ \A m \in MessageIds : AnswersOf(m)
  /\ \A w \in Webhooks : WebhookHolds(w)
  /\ DeliveredOnce

\* The parts of the typing, one by one.
LEMMA PhoneTypes ==
  ASSUME PhoneInv
  PROVE  /\ toTell \subseteq Written /\ Written \subseteq MessageIds
         /\ messages \in [MessageIds -> MessageOf] /\ webhook \in [Webhooks -> WebhookOf]
         /\ delivered \in [MessageIds -> [Parts -> Nat]]
         /\ \A w \in Webhooks : webhook[w].message \in Written \cup {0}
         /\ adapter \in {"off", "on", "looping"}
         /\ Parts \subseteq Nat /\ MaxAttempts \in Nat \ {0} /\ MaxTexts \in Nat
         /\ \A m \in MessageIds : m \in Nat /\ m # 0 /\ m \in 0..MaxTexts
  BY PhoneAssumption DEF PhoneInv, PhoneTyped, PhoneTypeOK, Written, MessageIds

\* It holds at the start, and each action of the module keeps it.
LEMMA PhoneInit_Inv == ASSUME PhoneInit PROVE PhoneInv
<1>1. /\ adapter = "off" /\ messages = [m \in MessageIds |-> NoMessage] /\ toTell = {}
      /\ webhook = [w \in Webhooks |-> NoWebhook]
      /\ delivered = [m \in MessageIds |-> [p \in Parts |-> 0]]
  BY DEF PhoneInit
<1>2. NoMessage \in MessageOf /\ NoWebhook \in WebhookOf
  <2>1. 0 \in 0..MaxTexts /\ 0 \in 0..MaxAttempts
    BY PhoneAssumption
  <2> QED
    BY <2>1 DEF NoMessage, NoWebhook, MessageOf, WebhookOf, People
<1>3. /\ \A m \in MessageIds : messages[m] = NoMessage /\ messages[m].answers = 0
      /\ \A w \in Webhooks : webhook[w] = NoWebhook /\ webhook[w].message = 0 /\ webhook[w].attempt = 0
      /\ \A m \in MessageIds : \A p \in Parts : delivered[m][p] = 0
  BY <1>1 DEF NoMessage, NoWebhook
<1>4. PhoneTyped
  BY <1>1, <1>2, <1>3, PhoneAssumption DEF PhoneTyped, PhoneTypeOK
<1> QED
  BY <1>1, <1>3, <1>4 DEF PhoneInv, AnswersOf, WebhookHolds, DeliveredOnce

\* WAHA and the adapter: messages, webhooks and deliveries stay.
LEMMA WahaGoes_Inv ==
  ASSUME PhoneInv, WahaChanges \/ StartWaha \/ RefreshStatus \/ UNCHANGED phoneVars
  PROVE  PhoneInv'
<1>1. /\ UNCHANGED <<messages, toTell, webhook, delivered, doubtful, unknowing>>
      /\ adapter' \in {"off", "on", "looping"}
  BY PhoneTypes DEF WahaChanges, StartWaha, RefreshStatus, phoneVars
<1>2. PhoneTyped'
  BY <1>1 DEF PhoneInv, PhoneTyped, PhoneTypeOK, Written
<1> QED
  BY <1>1, <1>2 DEF PhoneInv, AnswersOf, WebhookHolds, DeliveredOnce, MayAnswer, Written

\* A message is added.
LEMMA SendAdds ==
  ASSUME PhoneInv, NEW from \in People, NEW to \in People, NEW answers \in 0..MaxTexts,
         from \in {"friend", "self"}, Send(from, to, answers)
  PROVE  \E n \in MessageIds \ Written :
           /\ messages' \in [MessageIds -> MessageOf]
           /\ messages'[n].from = from /\ messages'[n].to = to /\ messages'[n].answers = answers
           /\ \A m \in MessageIds \ {n} : messages'[m] = messages[m]
           /\ Written' = Written \cup {n} /\ toTell' = toTell \cup {n}
<1> DEFINE new == [from |-> from, to |-> to, answers |-> answers]
<1>1. PICK n \in MessageIds : /\ messages[n] = NoMessage /\ messages' = [messages EXCEPT ![n] = new]
                              /\ toTell' = toTell \cup {n}
  BY DEF Send
<1>2. /\ new \in MessageOf /\ new # NoMessage /\ new.from = from /\ new.to = to
      /\ new.answers = answers
  <2>1. new.from # NoMessage.from
    BY DEF NoMessage
  <2> QED
    BY <2>1 DEF MessageOf
<1> HIDE DEF new
<1>3. /\ messages' \in [MessageIds -> MessageOf] /\ messages'[n] = new
      /\ \A m \in MessageIds \ {n} : messages'[m] = messages[m]
  BY <1>1, <1>2, PhoneTypes
<1>4. Written' = Written \cup {n} /\ n \notin Written
  BY <1>1, <1>2, <1>3 DEF Written
<1> QED
  BY <1>1, <1>2, <1>3, <1>4

LEMMA MessageComes_Inv == ASSUME PhoneInv, MessageComes PROVE PhoneInv'
<1>1. UNCHANGED <<adapter, webhook, delivered, doubtful, unknowing>>
  BY DEF MessageComes
<1>2. PICK n \in MessageIds \ Written :
        /\ messages' \in [MessageIds -> MessageOf] /\ messages'[n].answers = 0
        /\ \A m \in MessageIds \ {n} : messages'[m] = messages[m]
        /\ Written' = Written \cup {n} /\ toTell' = toTell \cup {n}
  <2>1. PICK from \in {"friend", "self"}, to \in {"friend", "self"} : Send(from, to, 0)
    BY DEF MessageComes
  <2>2. 0 \in 0..MaxTexts /\ from \in People /\ to \in People
    BY PhoneAssumption DEF People
  <2>3. \E n \in MessageIds \ Written :
           /\ messages' \in [MessageIds -> MessageOf]
           /\ messages'[n].from = from /\ messages'[n].to = to /\ messages'[n].answers = 0
           /\ \A m \in MessageIds \ {n} : messages'[m] = messages[m]
           /\ Written' = Written \cup {n} /\ toTell' = toTell \cup {n}
    BY <2>1, <2>2, SendAdds
  <2> QED
    BY <2>3
<1>3. PhoneTyped'
  <2>1. \A m \in MessageIds : messages'[m].answers \in 0..MaxTexts
    BY <1>2 DEF MessageOf
  <2> QED
    BY <1>1, <1>2, <2>1 DEF PhoneInv, PhoneTyped, PhoneTypeOK
<1>4. \A m \in MessageIds : MayAnswer(m) => MayAnswer(m)'
  BY <1>1, <1>2 DEF MayAnswer
<1>5. ASSUME NEW m \in MessageIds PROVE AnswersOf(m)'
  <2>1. AnswersOf(m) /\ AnswersOf(n)
    BY DEF PhoneInv
  <2>2. m # n => (m \in toTell' <=> m \in toTell) /\ (m \in Written' <=> m \in Written)
    BY <1>2
  <2>3. Written \subseteq MessageIds
    BY PhoneTypes
  <2> QED
    BY <1>1, <1>2, <1>4, <2>1, <2>2, <2>3 DEF AnswersOf
<1>6. ASSUME NEW w \in Webhooks PROVE WebhookHolds(w)'
  <2>1. WebhookHolds(w) /\ webhook[w].message \in Written \cup {0} /\ Written \subseteq MessageIds
    BY PhoneTypes DEF PhoneInv
  <2> QED
    BY <1>1, <1>2, <1>4, <2>1 DEF WebhookHolds
<1> QED
  BY <1>1, <1>3, <1>5, <1>6 DEF PhoneInv, DeliveredOnce

LEMMA HandleWebhook_Inv == ASSUME PhoneInv, NEW w \in Webhooks, HandleWebhook(w) PROVE PhoneInv'
<1> DEFINE next(m) == [message |-> m, part |-> 1, attempt |-> 1]
<1>1. PICK m \in toTell :
        /\ toTell' = toTell \ {m} /\ webhook[w] = NoWebhook
        /\ \/ UNCHANGED <<webhook, unknowing>>
           \/ /\ webhook' = [webhook EXCEPT ![w] = next(m)] /\ ~ Skipped(m)
              /\ unknowing' = IF messages[m].from = "self" /\ ~ ownNumber THEN unknowing \cup {m} ELSE unknowing
        /\ UNCHANGED <<adapter, waha, ownNumber, flaps, messages, delivered, doubtful>>
  BY DEF HandleWebhook
<1>2. m \in Written /\ m \in MessageIds /\ m \in 0..MaxTexts /\ m # 0
  BY PhoneTypes
<1>3. Written' = Written /\ unknowing \subseteq unknowing'
  BY <1>1 DEF Written
<1>4. \A n \in MessageIds : MayAnswer(n) => MayAnswer(n)'
  BY <1>1, <1>3 DEF MayAnswer
<1>5. \A n \in MessageIds : AnswersOf(n)'
  <2>1. \A n \in MessageIds : AnswersOf(n) /\ Written \subseteq MessageIds
    BY PhoneTypes DEF PhoneInv
  <2> QED
    BY <1>1, <1>3, <1>4, <2>1 DEF AnswersOf
<1>6. ASSUME NEW v \in Webhooks
      PROVE  /\ webhook[v].message # m
             /\ WebhookHolds(v) /\ webhook[v].message \in MessageIds \cup {0}
  BY <1>1, PhoneTypes DEF PhoneInv, WebhookHolds
<1>7. CASE UNCHANGED <<webhook, unknowing>>
  <2>1. PhoneTyped'
    BY <1>1, <1>3, <1>7 DEF PhoneInv, PhoneTyped, PhoneTypeOK
  <2>2. \A v \in Webhooks : WebhookHolds(v)'
    BY <1>1, <1>4, <1>6, <1>7 DEF WebhookHolds
  <2> QED
    BY <1>1, <1>5, <2>1, <2>2 DEF PhoneInv, DeliveredOnce
<1>8. CASE /\ webhook' = [webhook EXCEPT ![w] = next(m)] /\ ~ Skipped(m)
           /\ unknowing' = IF messages[m].from = "self" /\ ~ ownNumber THEN unknowing \cup {m} ELSE unknowing
  <2>1. next(m) \in WebhookOf /\ next(m).message = m /\ next(m).attempt = 1
    BY <1>2, PhoneAssumption DEF WebhookOf
  <2> HIDE DEF next
  <2>2. /\ webhook' \in [Webhooks -> WebhookOf] /\ webhook'[w] = next(m)
        /\ \A v \in Webhooks \ {w} : webhook'[v] = webhook[v]
    BY <1>8, <2>1, PhoneTypes
  <2>3. PhoneTyped'
    <3>1. \A v \in Webhooks : webhook'[v].message \in Written \cup {0} /\ webhook'[v].attempt \in 0..MaxAttempts
      BY <1>2, <2>1, <2>2, PhoneTypes DEF WebhookOf
    <3> QED
      BY <1>1, <1>3, <2>2, <3>1 DEF PhoneInv, PhoneTyped, PhoneTypeOK
  <2>4. MayAnswer(m)'
    <3>1. messages[m].answers # 0 => messages[m].from = "self"
      BY <1>2 DEF PhoneInv, AnswersOf
    <3> QED
      BY <1>1, <1>8, <3>1 DEF MayAnswer, Skipped
  <2>5. WebhookHolds(w)'
    <3>1. \A p \in Parts : delivered[m][p] = 0
      BY <1>1, <1>2 DEF PhoneInv, AnswersOf
    <3> QED
      BY <1>1, <1>6, <2>1, <2>2, <2>4, <3>1 DEF WebhookHolds
  <2>6. ASSUME NEW v \in Webhooks \ {w} PROVE WebhookHolds(v)'
    BY <1>1, <1>4, <1>6, <2>1, <2>2 DEF WebhookHolds
  <2> QED
    BY <1>1, <1>5, <2>3, <2>5, <2>6 DEF PhoneInv, DeliveredOnce
<1> QED
  BY <1>1, <1>7, <1>8

\* The next attempt, or the next part, or the webhook is done.
LEMMA NextPart_Is ==
  ASSUME PhoneInv, NEW w \in Webhooks, webhook[w].message # 0,
         \/ webhook[w].attempt < MaxAttempts /\ webhook' = [webhook EXCEPT ![w].attempt = webhook[w].attempt + 1]
         \/ NextPart(w)
  PROVE  \E next \in WebhookOf :
           /\ webhook' = [webhook EXCEPT ![w] = next]
           /\ \/ next.message = 0
              \/ next.message = webhook[w].message /\ next.part >= webhook[w].part
           /\ NextPart(w) => next.message = 0 \/ next.part > webhook[w].part
<1>1. webhook[w] \in WebhookOf /\ webhook[w].part \in Nat /\ webhook[w].attempt \in 0..MaxAttempts
  BY PhoneTypes DEF WebhookOf
<1> DEFINE retried == [webhook[w] EXCEPT !.attempt = webhook[w].attempt + 1]
           on == [webhook[w] EXCEPT !.part = webhook[w].part + 1, !.attempt = 1]
<1>2. CASE NextPart(w)
  <2>1. on \in WebhookOf /\ on.message = webhook[w].message /\ on.part = webhook[w].part + 1
    <3>1. 1 \in 0..MaxAttempts /\ webhook[w].part + 1 \in Nat
      BY <1>1, PhoneAssumption
    <3> QED
      BY <1>1, <3>1 DEF WebhookOf
  <2>2. NoWebhook \in WebhookOf /\ NoWebhook.message = 0
    <3>1. 0 \in 0..MaxAttempts /\ 0 \in 0..MaxTexts
      BY PhoneAssumption
    <3> QED
      BY <3>1 DEF NoWebhook, WebhookOf
  <2>3. webhook' = [webhook EXCEPT ![w] = on] \/ webhook' = [webhook EXCEPT ![w] = NoWebhook]
    BY <1>2 DEF NextPart
  <2> HIDE DEF on
  <2>4. CASE webhook' = [webhook EXCEPT ![w] = on]
    <3>1. on.part > webhook[w].part /\ on.part >= webhook[w].part
      BY <1>1, <2>1
    <3> QED
      BY <2>1, <2>4, <3>1
  <2>5. CASE webhook' = [webhook EXCEPT ![w] = NoWebhook]
    BY <2>2, <2>5
  <2> QED
    BY <2>3, <2>4, <2>5
<1>3. CASE /\ webhook[w].attempt < MaxAttempts /\ ~ NextPart(w)
           /\ webhook' = [webhook EXCEPT ![w].attempt = webhook[w].attempt + 1]
  <2>1. webhook[w].attempt + 1 \in 0..MaxAttempts
    BY <1>1, <1>3, PhoneAssumption
  <2>2. retried \in WebhookOf /\ retried.message = webhook[w].message /\ retried.part = webhook[w].part
    BY <1>1, <2>1 DEF WebhookOf
  <2>3. webhook' = [webhook EXCEPT ![w] = retried]
    BY <1>3, PhoneTypes
  <2> HIDE DEF retried
  <2>4. retried.part >= webhook[w].part
    BY <1>1, <2>2
  <2> QED
    BY <1>3, <2>2, <2>3, <2>4
<1> QED
  BY <1>2, <1>3

LEMMA PartFails_Inv == ASSUME PhoneInv, NEW w \in Webhooks, PartFails(w) PROVE PhoneInv'
<1>1. PICK next \in WebhookOf :
        /\ webhook' = [webhook EXCEPT ![w] = next]
        /\ \/ next.message = 0
           \/ next.message = webhook[w].message /\ next.part >= webhook[w].part
  BY NextPart_Is DEF PartFails
<1>2. /\ UNCHANGED <<adapter, waha, ownNumber, flaps, messages, toTell, delivered, doubtful, unknowing>>
      /\ Written' = Written
  BY DEF PartFails, Written
<1>3. /\ webhook' \in [Webhooks -> WebhookOf] /\ webhook'[w] = next
      /\ \A v \in Webhooks \ {w} : webhook'[v] = webhook[v]
  BY <1>1, PhoneTypes
<1>4. PhoneTyped'
  <2>1. \A v \in Webhooks : webhook'[v].message \in Written \cup {0} /\ webhook'[v].attempt \in 0..MaxAttempts
    BY <1>1, <1>3, PhoneTypes DEF WebhookOf
  <2> QED
    BY <1>2, <1>3, <2>1 DEF PhoneInv, PhoneTyped, PhoneTypeOK
<1>5. \A v \in Webhooks : WebhookHolds(v)
  BY DEF PhoneInv
<1>6. WebhookHolds(w)'
  <2>1. next.part \in Nat /\ webhook[w].part \in Nat /\ Parts \subseteq Nat
    BY PhoneTypes DEF WebhookOf
  <2> QED
    BY <1>1, <1>2, <1>3, <1>5, <2>1 DEF WebhookHolds, MayAnswer
<1>7. \A v \in Webhooks \ {w} : WebhookHolds(v)'
  BY <1>1, <1>2, <1>3, <1>5 DEF WebhookHolds, MayAnswer
<1> QED
  BY <1>2, <1>4, <1>6, <1>7 DEF PhoneInv, AnswersOf, MayAnswer, DeliveredOnce

\* The answer goes out: it is a message of its own, and a delivery of the part.
LEMMA PartArrives_Inv == ASSUME PhoneInv, NEW w \in Webhooks, PartArrives(w) PROVE PhoneInv'
<1>0. PICK question, piece : question = webhook[w].message /\ piece = webhook[w].part
  OBVIOUS
<1> DEFINE more == [delivered[question] EXCEPT ![piece] = delivered[question][piece] + 1]
<1>1. /\ question # 0 /\ ReplyTo(question) # "nobody" /\ Send("self", ReplyTo(question), question)
      /\ delivered' = [delivered EXCEPT ![question] = more]
      /\ UNCHANGED <<adapter, waha, ownNumber, flaps, unknowing>>
  BY <1>0 DEF PartArrives
<1>2. /\ \/ NextPart(w)
         \/ webhook[w].attempt < MaxAttempts /\ webhook' = [webhook EXCEPT ![w].attempt = webhook[w].attempt + 1]
      /\ NextPart(w) \/ <<question, piece>> \in doubtful'
      /\ doubtful \subseteq doubtful'
  BY <1>0 DEF PartArrives
<1>3. /\ question \in Written /\ question \in MessageIds /\ question \in 0..MaxTexts /\ question \notin toTell
      /\ piece \in Nat /\ MayAnswer(question) /\ delivered[question] \in [Parts -> Nat]
      /\ \A v \in Webhooks : webhook[v].message = question => v = w
      /\ \A p \in Parts : p >= piece /\ delivered[question][p] > 0 => <<question, p>> \in doubtful
  BY <1>0, <1>1, PhoneTypes DEF PhoneInv, WebhookHolds, WebhookOf
<1>4. PICK next \in WebhookOf :
        /\ webhook' = [webhook EXCEPT ![w] = next]
        /\ \/ next.message = 0
           \/ next.message = question /\ next.part >= piece
        /\ NextPart(w) => next.message = 0 \/ next.part > piece
  BY <1>0, <1>1, <1>2, NextPart_Is
<1>5. PICK n \in MessageIds \ Written :
        /\ messages' \in [MessageIds -> MessageOf]
        /\ messages'[n].from = "self" /\ messages'[n].answers = question
        /\ \A m \in MessageIds \ {n} : messages'[m] = messages[m]
        /\ Written' = Written \cup {n} /\ toTell' = toTell \cup {n}
  <2>1. "self" \in People /\ ReplyTo(question) \in People /\ "self" \in {"friend", "self"}
    BY DEF ReplyTo, People
  <2> QED
    BY <1>1, <1>3, <2>1, SendAdds
<1>6. more \in [Parts -> Nat] /\ \A p \in Parts \ {piece} : more[p] = delivered[question][p]
  <2>1. ASSUME NEW p \in Parts PROVE delivered[question][p] + 1 \in Nat
    <3>1. delivered[question][p] \in Nat
      BY <1>3
    <3> QED
      BY <3>1
  <2> QED
    BY <1>3, <2>1
<1>7. \A p \in Parts : more[p] > 1 => <<question, p>> \in doubtful
  <2>1. \A p \in Parts : delivered[question][p] > 1 => <<question, p>> \in doubtful
    BY <1>3 DEF PhoneInv, DeliveredOnce
  <2>2. ASSUME piece \in Parts, more[piece] > 1 PROVE <<question, piece>> \in doubtful
    <3>1. delivered[question][piece] \in Nat /\ more[piece] = delivered[question][piece] + 1
      BY <1>3, <2>2
    <3> QED
      BY <1>3, <2>2, <3>1
  <2> QED
    BY <1>6, <2>1, <2>2
<1>8. \A p \in Parts : p >= piece /\ more[p] > 0 => p = piece \/ <<question, p>> \in doubtful
  BY <1>3, <1>6
<1> HIDE DEF more
<1>9. /\ webhook' \in [Webhooks -> WebhookOf] /\ webhook'[w] = next
      /\ \A v \in Webhooks \ {w} : webhook'[v] = webhook[v]
  BY <1>4, PhoneTypes
<1>10. /\ delivered' \in [MessageIds -> [Parts -> Nat]] /\ delivered'[question] = more
       /\ \A m \in MessageIds \ {question} : delivered'[m] = delivered[m]
  BY <1>1, <1>3, <1>6, PhoneTypes
<1>11. PhoneTyped'
  <2>1. \A v \in Webhooks : webhook'[v].message \in Written' \cup {0} /\ webhook'[v].attempt \in 0..MaxAttempts
    BY <1>3, <1>4, <1>5, <1>9, PhoneTypes DEF WebhookOf
  <2>2. \A m \in MessageIds : messages'[m].answers \in 0..MaxTexts
    BY <1>5 DEF MessageOf
  <2>3. toTell' \subseteq Written' /\ adapter' \in {"off", "on", "looping"}
    BY <1>1, <1>5, PhoneTypes
  <2> QED
    BY <1>5, <1>9, <1>10, <2>1, <2>2, <2>3 DEF PhoneTyped, PhoneTypeOK
<1>12. \A m \in Written : MayAnswer(m) => MayAnswer(m)'
  BY <1>1, <1>5, PhoneTypes DEF MayAnswer
<1>13. ASSUME NEW m \in MessageIds PROVE AnswersOf(m)'
  <2>1. AnswersOf(m)
    BY DEF PhoneInv
  <2>2. m # n => (m \in toTell' <=> m \in toTell) /\ (m \in Written' <=> m \in Written)
    BY <1>5
  <2>3. messages'[m].answers # 0 =>
          messages'[m].from = "self" /\ messages'[m].answers \in Written
    BY <1>3, <1>5, <2>1 DEF AnswersOf
  <2>5. \A a \in Written : messages'[m].answers = a => MayAnswer(a)'
    <3>1. \A a \in Written : m # n /\ messages[m].answers = a => MayAnswer(a)
      BY <2>1, PhoneTypes DEF AnswersOf
    <3> QED
      BY <1>3, <1>5, <1>12, <3>1
  <2>4. m \in toTell' \/ m \notin Written' => \A p \in Parts : delivered'[m][p] = 0
    <3>1. m = n => m # question /\ \A p \in Parts : delivered[m][p] = 0
      BY <1>3, <2>1 DEF AnswersOf
    <3>2. m # n /\ (m \in toTell' \/ m \notin Written') => m # question /\ \A p \in Parts : delivered[m][p] = 0
      BY <1>3, <2>1, <2>2 DEF AnswersOf
    <3> QED
      BY <1>10, <3>1, <3>2
  <2> QED
    BY <1>5, <2>3, <2>4, <2>5 DEF AnswersOf, MayAnswer
<1>14. ASSUME NEW v \in Webhooks PROVE WebhookHolds(v)'
  <2>1. CASE v = w
    <3>1. SUFFICES ASSUME next.message # 0 PROVE WebhookHolds(w)'
      BY <1>9, <2>1 DEF WebhookHolds
    <3>2. next.message = question /\ next.part >= piece /\ next.part \in Nat
      BY <1>4, <3>1 DEF WebhookOf
    <3>3. question \notin toTell' /\ MayAnswer(question)'
      BY <1>3, <1>5, <1>12
    <3>4. \A u \in Webhooks : webhook'[u].message = question => u = w
      BY <1>0, <1>3, <1>9
    <3>5. ASSUME NEW p \in Parts, p >= next.part, delivered'[question][p] > 0 PROVE <<question, p>> \in doubtful'
      <4>1. p \in Nat
        BY PhoneTypes
      <4>2. p >= piece /\ (NextPart(w) => p > piece)
        BY <1>3, <1>4, <3>1, <3>2, <3>5, <4>1
      <4>3. p # piece => <<question, p>> \in doubtful
        BY <1>8, <1>10, <3>5, <4>2
      <4>4. p = piece => <<question, p>> \in doubtful'
        BY <1>2, <1>3, <4>2
      <4> QED
        BY <1>2, <4>3, <4>4
    <3> QED
      BY <1>9, <3>2, <3>3, <3>4, <3>5 DEF WebhookHolds, MayAnswer
  <2>2. CASE v # w
    <3>1. SUFFICES ASSUME webhook[v].message # 0 PROVE WebhookHolds(v)'
      BY <1>9, <2>2 DEF WebhookHolds
    <3>2. /\ WebhookHolds(v) /\ webhook[v].message \in Written /\ webhook[v].message # question
          /\ webhook'[v] = webhook[v]
      BY <1>3, <1>9, <2>2, <3>1, PhoneTypes DEF PhoneInv
    <3>3. /\ webhook[v].message # n /\ webhook[v].message \in MessageIds
          /\ webhook'[w].message # webhook[v].message
      BY <1>4, <1>9, <3>1, <3>2, PhoneTypes
    <3>4. /\ webhook[v].message \notin toTell' /\ MayAnswer(webhook[v].message)'
          /\ \A u \in Webhooks : webhook'[u].message = webhook[v].message => u = v
      BY <1>5, <1>9, <1>12, <3>1, <3>2, <3>3 DEF WebhookHolds
    <3>5. delivered'[webhook[v].message] = delivered[webhook[v].message]
      BY <1>10, <3>2, <3>3
    <3> QED
      BY <1>2, <3>1, <3>2, <3>4, <3>5 DEF WebhookHolds, MayAnswer
  <2> QED
    BY <2>1, <2>2
<1>15. DeliveredOnce'
  <2>1. DeliveredOnce
    BY DEF PhoneInv
  <2> QED
    BY <1>2, <1>7, <1>10, <2>1 DEF DeliveredOnce
<1> QED
  BY <1>11, <1>13, <1>14, <1>15 DEF PhoneInv

\* So every step keeps it.
LEMMA PhoneNext_Inv == ASSUME PhoneInv, [PhoneNext]_phoneVars PROVE PhoneInv'
<1>1. CASE WahaChanges \/ StartWaha \/ RefreshStatus \/ UNCHANGED phoneVars
  BY <1>1, WahaGoes_Inv
<1>2. CASE MessageComes
  BY <1>2, MessageComes_Inv
<1>3. CASE \E w \in Webhooks : HandleWebhook(w) \/ PartArrives(w) \/ PartFails(w)
  BY <1>3, HandleWebhook_Inv, PartArrives_Inv, PartFails_Inv
<1> QED
  BY <1>1, <1>2, <1>3 DEF PhoneNext

\* And it implies what is promised.
LEMMA PhoneInv_Safe == ASSUME PhoneInv PROVE PhoneSafe
<1>1. NoAnswerToAnswers
  BY PhoneTypes DEF PhoneInv, AnswersOf, MayAnswer, NoAnswerToAnswers
<1> QED
  BY <1>1 DEF PhoneInv, PhoneTyped, PhoneSafe

-----------------------------------------------------------------------------
(* The notifications (Notifications)                                       *)

BrowserOf == [at : {"new", "asked", "made", "on", "leaving", "gone"}, pair : Nat]
PairsOf == [api : Nat, cast : Nat, made : Nat]
CastOf ==
  [todo : SUBSET {"platform", "webpush"}, users : SUBSET Members, reached : SUBSET Members,
   lost : SUBSET Members, listed : SUBSET Members, ok : BOOLEAN, pushed : SUBSET Endpoints,
   failed : SUBSET Endpoints, pushOk : BOOLEAN, dropped : BOOLEAN]

NotifyTyped ==
  /\ NotifyTypeOK
  /\ beat \in Nat /\ lastBroadcast \in Nat
  /\ browser \in [Endpoints -> BrowserOf] /\ pairs \in PairsOf /\ cast \in [Senders -> CastOf]

\* With the key pair in the environment there is one pair, and every endpoint was made with it.
OnePair == persisted => pairs.made = 1 /\ \A e \in Endpoints : LivesAt(e) => browser[e].pair = 1
KeyTaken(e) == browser[e].at # "new" => browser[e].pair # 0

\* Who is still to be reached was listed; nobody is while the list is not made; of a
\* broadcast that was dropped nothing is left to do.
CastHolds(s) ==
  LET c == cast[s] IN
    /\ c.reached \cup c.lost \cup c.users \subseteq c.listed
    /\ c.ok => c.listed = c.reached \cup c.lost \cup c.users
    /\ "platform" \in c.todo => c.listed = {} /\ c.ok
    /\ c.pushOk => c.pushed # {} \/ c.failed = {}
    /\ c.dropped => c.todo = {} /\ c.users = {} /\ c.reached \cup c.lost \cup c.pushed = {}

NotifyInv ==
  /\ NotifyTyped /\ SubscribersStay /\ KeptKeysPush /\ OnePair
  /\ \A e \in Endpoints : KeyTaken(e)
  /\ \A s \in Senders : CastHolds(s)

\* The parts of the typing, one by one.
LEMMA NotifyTypes ==
  ASSUME NotifyInv
  PROVE  /\ browser \in [Endpoints -> BrowserOf] /\ pairs \in PairsOf
         /\ cast \in [Senders -> CastOf]
         /\ beat \in Nat /\ beat \in 1..MaxBeat /\ lastBroadcast \in 0..beat
         /\ pairs.made \in Nat /\ pairs.cast \in 0..pairs.made /\ pairs.api \in 1..pairs.made
         /\ subscribed \subseteq Endpoints /\ refused \subseteq Endpoints
         /\ members \subseteq Members
         /\ \A e \in Endpoints : browser[e].pair \in 0..pairs.made
         /\ MaxBeat \in Nat
  BY NotifyAssumption DEF NotifyInv, NotifyTyped, NotifyTypeOK, PairsOf

\* A sender at rest is typed and holds nothing.
LEMMA NoCast_Of == NoCast \in CastOf /\ NoCast.users = {} /\ NoCast.reached = {} /\ NoCast.lost = {} /\ NoCast.listed = {}
  BY DEF NoCast, CastOf

\* It holds at the start, and each action of the module keeps it.
LEMMA NotifyInit_Inv == ASSUME NotifyInit PROVE NotifyInv
<1>1. /\ beat = 1 /\ lastBroadcast = 0 /\ pairs = [api |-> 1, cast |-> 0, made |-> 1]
      /\ browser = [e \in Endpoints |-> [at |-> "new", pair |-> 0]]
      /\ subscribed = {} /\ members \in SUBSET Members /\ cast = [s \in Senders |-> NoCast]
      /\ refused = {}
  BY DEF NotifyInit
<1>2. /\ pairs.made = 1 /\ pairs.cast = 0 /\ pairs.api = 1 /\ pairs \in PairsOf
      /\ \A e \in Endpoints : browser[e].at = "new" /\ browser[e].pair = 0
      /\ browser \in [Endpoints -> BrowserOf]
  BY <1>1 DEF PairsOf, BrowserOf
<1>3. cast \in [Senders -> CastOf] /\ \A s \in Senders : cast[s] = NoCast
  BY <1>1, NoCast_Of
<1>4. NotifyTyped
  <2>1. beat \in 1..MaxBeat /\ 0 \in 0..beat
    BY <1>1, NotifyAssumption
  <2>2. \A s \in Senders : cast[s].todo \subseteq {"platform", "webpush"} /\ cast[s].users \subseteq Members
    BY <1>3 DEF NoCast
  <2> QED
    BY <1>1, <1>2, <1>3, <2>1, <2>2 DEF NotifyTyped, NotifyTypeOK
<1>5. \A s \in Senders : CastHolds(s)
  BY <1>3 DEF CastHolds, NoCast
<1> QED
  BY <1>1, <1>2, <1>4, <1>5 DEF NotifyInv, SubscribersStay, KeptKeysPush, OnePair, KeyTaken, LivesAt

\* Time, approvals and who was refused: the rest stays.
LEMMA BeatGoes_Inv == ASSUME NotifyInv, Beat \/ MemberChanges \/ UNCHANGED notifyVars PROVE NotifyInv'
<1>1. /\ UNCHANGED <<lastBroadcast, persisted, pairs, browser, subscribed, cast, refused>>
      /\ beat' \in Nat /\ beat' \in 1..MaxBeat /\ beat' >= beat
      /\ members' \subseteq Members
  BY NotifyTypes DEF Beat, MemberChanges, notifyVars
<1>2. lastBroadcast \in 0..beat'
  BY <1>1, NotifyTypes
<1>3. NotifyTyped'
  BY <1>1, <1>2 DEF NotifyInv, NotifyTyped, NotifyTypeOK
<1> QED
  BY <1>1, <1>3 DEF NotifyInv, SubscribersStay, KeptKeysPush, OnePair, KeyTaken, LivesAt, CastHolds

\* An endpoint moves on.
LEMMA EndpointMoves ==
  ASSUME NotifyInv, NEW e \in Endpoints, NEW next \in BrowserOf,
         browser' = [browser EXCEPT ![e] = next],
         UNCHANGED <<beat, lastBroadcast, persisted, pairs, members, cast, refused>>,
         next.pair \in 1..pairs.made,
         subscribed' \subseteq Endpoints, next.at = "on" => e \in subscribed',
         subscribed \ {e} \subseteq subscribed'
  PROVE  NotifyInv'
<1>1. /\ browser' \in [Endpoints -> BrowserOf] /\ browser'[e] = next
      /\ \A d \in Endpoints \ {e} : browser'[d] = browser[d]
  BY NotifyTypes
<1>2. NotifyTyped'
  <2>1. \A d \in Endpoints :
          /\ browser'[d].at \in {"new", "asked", "made", "on", "leaving", "gone"}
          /\ browser'[d].pair \in 0..pairs.made
    BY <1>1, NotifyTypes DEF BrowserOf
  <2> QED
    BY <1>1, <2>1 DEF NotifyInv, NotifyTyped, NotifyTypeOK
<1>3. SubscribersStay'
  BY <1>1 DEF NotifyInv, SubscribersStay
<1>4. OnePair'
  <2>1. persisted => next.pair = 1
    BY DEF NotifyInv, OnePair
  <2> QED
    BY <1>1, <2>1 DEF NotifyInv, OnePair, LivesAt
<1>5. \A d \in Endpoints : KeyTaken(d)'
  <2>1. next.pair # 0
    BY NotifyTypes
  <2> QED
    BY <1>1, <2>1 DEF NotifyInv, KeyTaken
<1> QED
  BY <1>2, <1>3, <1>4, <1>5 DEF NotifyInv, KeptKeysPush, CastHolds

LEMMA Endpoints_Inv ==
  ASSUME NotifyInv, NEW e \in Endpoints,
         AskKey(e) \/ MakeEndpoint(e) \/ Subscribe(e) \/ Unsubscribe(e) \/ EndpointGoes(e)
  PROVE  NotifyInv'
<1>1. UNCHANGED <<beat, lastBroadcast, persisted, pairs, members, cast, refused>>
  BY DEF AskKey, MakeEndpoint, Subscribe, Unsubscribe, EndpointGoes
<1>2. browser[e] \in BrowserOf /\ browser[e].pair \in 0..pairs.made /\ pairs.made \in Nat
  BY NotifyTypes
<1>3. CASE AskKey(e)
  <2> DEFINE next == [at |-> "asked", pair |-> pairs.api]
  <2>1. next \in BrowserOf /\ next.pair \in 1..pairs.made /\ next.at # "on"
    <3>1. pairs.api \in Nat
      BY NotifyTypes DEF PairsOf
    <3> QED
      BY <3>1, NotifyTypes DEF BrowserOf
  <2>2. browser' = [browser EXCEPT ![e] = next] /\ UNCHANGED subscribed
    BY <1>3 DEF AskKey
  <2> HIDE DEF next
  <2> QED
    BY <1>1, <2>1, <2>2, NotifyTypes, EndpointMoves
<1>4. ASSUME NEW from, NEW to \in {"made", "on", "leaving", "gone"}, from # "new", Move(e, from, to),
             subscribed' \subseteq Endpoints, to = "on" => e \in subscribed',
             subscribed \ {e} \subseteq subscribed'
      PROVE  NotifyInv'
  <2> DEFINE next == [browser[e] EXCEPT !.at = to]
  <2>1. next \in BrowserOf /\ next.at = to /\ next.pair \in 1..pairs.made
    <3>1. browser[e].pair # 0
      BY <1>4 DEF NotifyInv, KeyTaken, Move
    <3>2. browser[e].pair \in 1..pairs.made
      BY <1>2, <3>1
    <3> QED
      BY <1>2, <3>2 DEF BrowserOf
  <2>2. browser' = [browser EXCEPT ![e] = next]
    BY <1>4 DEF Move
  <2> HIDE DEF next
  <2> QED
    BY <1>1, <1>4, <2>1, <2>2, EndpointMoves
<1>5. CASE MakeEndpoint(e)
  BY <1>4, <1>5, NotifyTypes DEF MakeEndpoint
<1>6. CASE Subscribe(e)
  BY <1>4, <1>6, NotifyTypes DEF Subscribe
<1>7. CASE Unsubscribe(e)
  BY <1>4, <1>7, NotifyTypes DEF Unsubscribe
<1>8. CASE EndpointGoes(e)
  <2>1. PICK from \in {"leaving", "made", "on"} : Move(e, from, "gone")
    BY <1>8 DEF EndpointGoes
  <2>2. UNCHANGED subscribed
    BY <1>8 DEF EndpointGoes
  <2> QED
    BY <1>4, <2>1, <2>2, NotifyTypes
<1> QED
  BY <1>3, <1>5, <1>6, <1>7, <1>8

\* A push: no live endpoint is unsubscribed, and none refuses the pair it was made with.
LEMMA PushKeeps ==
  ASSUME NotifyInv, NEW pair, NEW lapsed, SendToAll(pair, lapsed), UNCHANGED <<browser, persisted>>,
         persisted => pair = 1
  PROVE  /\ subscribed' \subseteq Endpoints /\ refused' \subseteq Endpoints
         /\ SubscribersStay' /\ KeptKeysPush'
         /\ lapsed \subseteq Endpoints /\ lapsed \subseteq subscribed
<1>1. /\ lapsed \subseteq subscribed
      /\ refused' = refused \cup {e \in subscribed : LivesAt(e) /\ browser[e].pair # pair}
      /\ subscribed' = subscribed \ Expired(lapsed)
  BY DEF SendToAll
<1>2. subscribed' \subseteq Endpoints /\ refused' \subseteq Endpoints /\ lapsed \subseteq Endpoints
  BY <1>1, NotifyTypes
<1>3. SubscribersStay'
  BY <1>1 DEF NotifyInv, SubscribersStay, Expired
<1>4. KeptKeysPush'
  BY <1>1, NotifyTypes DEF NotifyInv, KeptKeysPush, OnePair
<1> QED
  BY <1>1, <1>2, <1>3, <1>4

LEMMA TestPush_Inv == ASSUME NotifyInv, TestPush PROVE NotifyInv'
<1>1. /\ UNCHANGED <<beat, lastBroadcast, persisted, pairs, browser, members, cast>>
      /\ \E lapsed \in SUBSET subscribed : SendToAll(pairs.api, lapsed)
  BY DEF TestPush
<1>2. persisted => pairs.api = 1
  BY NotifyTypes DEF NotifyInv, OnePair
<1>3. /\ subscribed' \subseteq Endpoints /\ refused' \subseteq Endpoints /\ SubscribersStay'
      /\ KeptKeysPush'
  BY <1>1, <1>2, PushKeeps
<1>4. NotifyTyped'
  BY <1>1, <1>3 DEF NotifyInv, NotifyTyped, NotifyTypeOK
<1> QED
  BY <1>1, <1>3, <1>4 DEF NotifyInv, OnePair, LivesAt, KeyTaken, CastHolds

\* A coroutine goes on; what it has holds.
LEMMA CastMoves ==
  ASSUME NotifyInv, NEW s \in Senders, NEW next \in CastOf, cast' = [cast EXCEPT ![s] = next],
         UNCHANGED <<beat, persisted, browser, members>>,
         pairs' \in PairsOf, pairs'.cast \in 0..pairs'.made, pairs'.api = pairs.api, pairs'.made >= pairs.made,
         persisted => pairs'.made = 1,
         lastBroadcast' \in {lastBroadcast, beat},
         subscribed' \subseteq Endpoints, refused' \subseteq Endpoints, SubscribersStay', KeptKeysPush',
         next.reached \cup next.lost \cup next.users \subseteq next.listed,
         next.ok => next.listed = next.reached \cup next.lost \cup next.users,
         "platform" \in next.todo => next.listed = {} /\ next.ok,
         next.pushOk => next.pushed # {} \/ next.failed = {},
         next.dropped => next.todo = {} /\ next.users = {} /\ next.reached \cup next.lost \cup next.pushed = {}
  PROVE  NotifyInv'
<1>1. /\ cast' \in [Senders -> CastOf] /\ cast'[s] = next
      /\ \A o \in Senders \ {s} : cast'[o] = cast[o]
  BY NotifyTypes
<1>2. NotifyTyped'
  <2>1. \A o \in Senders : cast'[o].todo \subseteq {"platform", "webpush"} /\ cast'[o].users \subseteq Members
    BY <1>1 DEF CastOf
  <2>2. lastBroadcast' \in 0..beat
    BY NotifyTypes
  <2>3. pairs'.api \in 1..pairs'.made /\ \A e \in Endpoints : browser[e].pair \in 0..pairs'.made
    <3>1. pairs'.made \in Nat
      BY DEF PairsOf
    <3> QED
      BY <3>1, NotifyTypes
  <2> QED
    BY <1>1, <2>1, <2>2, <2>3, NotifyTypes DEF NotifyInv, NotifyTyped, NotifyTypeOK
<1>3. \A o \in Senders : CastHolds(o)'
  BY <1>1 DEF NotifyInv, CastHolds
<1> QED
  BY <1>2, <1>3 DEF NotifyInv, OnePair, LivesAt, KeyTaken

LEMMA Broadcast_Inv == ASSUME NotifyInv, NEW s \in Senders, Broadcast(s) PROVE NotifyInv'
<1>1. PICK channels \in SUBSET {"platform", "webpush"} :
        \/ cast' = [cast EXCEPT ![s] = [NoCast EXCEPT !.dropped = TRUE]] /\ UNCHANGED lastBroadcast
        \/ cast' = [cast EXCEPT ![s] = [NoCast EXCEPT !.todo = channels]] /\ lastBroadcast' = beat
  BY DEF Broadcast
<1>2. /\ UNCHANGED <<beat, persisted, pairs, browser, subscribed, members, refused>>
      /\ SubscribersStay' /\ KeptKeysPush'
  BY DEF Broadcast, NotifyInv, SubscribersStay, KeptKeysPush
<1>3. /\ pairs' \in PairsOf /\ pairs'.cast \in 0..pairs'.made /\ pairs'.made >= pairs.made
      /\ persisted => pairs'.made = 1
      /\ subscribed' \subseteq Endpoints /\ refused' \subseteq Endpoints
  BY <1>2, NotifyTypes DEF NotifyInv, OnePair
<1>4. CASE cast' = [cast EXCEPT ![s] = [NoCast EXCEPT !.dropped = TRUE]] /\ UNCHANGED lastBroadcast
  <2> DEFINE next == [NoCast EXCEPT !.dropped = TRUE]
  <2>1. /\ next \in CastOf /\ next.users = {} /\ next.reached = {} /\ next.lost = {} /\ next.listed = {}
        /\ next.todo = {}
        /\ next.pushed = {} /\ next.failed = {}
    BY DEF CastOf, NoCast
  <2> HIDE DEF next
  <2>2. cast' = [cast EXCEPT ![s] = next]
    BY <1>4 DEF next
  <2> QED
    BY <1>2, <1>3, <1>4, <2>1, <2>2, CastMoves
<1>5. CASE cast' = [cast EXCEPT ![s] = [NoCast EXCEPT !.todo = channels]] /\ lastBroadcast' = beat
  <2> DEFINE next == [NoCast EXCEPT !.todo = channels]
  <2>1. /\ next \in CastOf /\ next.users = {} /\ next.reached = {} /\ next.lost = {} /\ next.listed = {}
        /\ next.pushed = {} /\ next.failed = {} /\ next.dropped = FALSE /\ next.ok = TRUE
    BY DEF CastOf, NoCast
  <2> HIDE DEF next
  <2>2. cast' = [cast EXCEPT ![s] = next]
    BY <1>5 DEF next
  <2> QED
    BY <1>2, <1>3, <1>5, <2>1, <2>2, CastMoves
<1> QED
  BY <1>1, <1>4, <1>5

LEMMA DeliverWebpush_Inv == ASSUME NotifyInv, NEW s \in Senders, DeliverWebpush(s) PROVE NotifyInv'
<1>1. PICK own : own = IF pairs.cast = 0 THEN KeyPair ELSE pairs.cast
  OBVIOUS
<1>2. /\ "webpush" \in cast[s].todo
      /\ pairs' = [pairs EXCEPT !.cast = own, !.made = IF own > pairs.made THEN own ELSE pairs.made]
      /\ UNCHANGED <<beat, lastBroadcast, persisted, browser, members>>
  BY <1>1 DEF DeliverWebpush
<1> DEFINE next(lapsed) ==
      [cast[s] EXCEPT !.todo = cast[s].todo \ {"webpush"}, !.pushed = subscribed \ lapsed,
         !.failed = lapsed \ Expired(lapsed), !.pushOk = subscribed # lapsed \/ lapsed = Expired(lapsed)]
<1>3. PICK lapsed \in SUBSET subscribed :
        SendToAll(own, lapsed) /\ cast' = [cast EXCEPT ![s] = next(lapsed)]
  BY <1>1 DEF DeliverWebpush
<1>4. own \in Nat /\ (persisted => own = 1)
  BY <1>1, NotifyTypes DEF KeyPair, NotifyInv, OnePair
<1>5. /\ pairs' \in PairsOf /\ pairs'.cast = own /\ pairs'.api = pairs.api
      /\ pairs'.made = IF own > pairs.made THEN own ELSE pairs.made
  BY <1>2, <1>4, NotifyTypes DEF PairsOf
<1>6. pairs'.cast \in 0..pairs'.made /\ pairs'.made >= pairs.made /\ (persisted => pairs'.made = 1)
  BY <1>4, <1>5, NotifyTypes DEF NotifyInv, OnePair
<1>7. /\ subscribed' \subseteq Endpoints /\ refused' \subseteq Endpoints /\ SubscribersStay'
      /\ KeptKeysPush'
      /\ lapsed \subseteq Endpoints
  BY <1>2, <1>3, <1>4, PushKeeps
<1>8. cast[s] \in CastOf /\ CastHolds(s)
  BY NotifyTypes DEF NotifyInv
<1>9. /\ next(lapsed) \in CastOf
      /\ next(lapsed).users = cast[s].users /\ next(lapsed).reached = cast[s].reached
      /\ next(lapsed).lost = cast[s].lost
      /\ next(lapsed).listed = cast[s].listed /\ next(lapsed).ok = cast[s].ok
      /\ next(lapsed).todo = cast[s].todo \ {"webpush"} /\ next(lapsed).dropped = cast[s].dropped
      /\ next(lapsed).pushed = subscribed \ lapsed /\ next(lapsed).failed = lapsed \ Expired(lapsed)
      /\ next(lapsed).pushOk => subscribed # lapsed \/ lapsed = Expired(lapsed)
  <2>1. (subscribed # lapsed \/ lapsed = Expired(lapsed)) \in BOOLEAN
    OBVIOUS
  <2>2. /\ cast[s].todo \ {"webpush"} \subseteq {"platform", "webpush"}
        /\ subscribed \ lapsed \subseteq Endpoints
        /\ lapsed \ Expired(lapsed) \subseteq Endpoints
    BY <1>7, <1>8, NotifyTypes DEF CastOf
  <2> HIDE DEF Expired
  <2> QED
    BY <1>8, <2>1, <2>2 DEF CastOf
<1>10. ~ cast[s].dropped
  BY <1>2, <1>8 DEF CastHolds
<1> HIDE DEF next
<1>11. next(lapsed).pushOk => next(lapsed).pushed # {} \/ next(lapsed).failed = {}
  BY <1>9
<1> QED
  BY <1>2, <1>3, <1>5, <1>6, <1>7, <1>8, <1>9, <1>10, <1>11, CastMoves DEF CastHolds

LEMMA Deliver_Inv == ASSUME NotifyInv, NEW s \in Senders, ListUsers(s) \/ SendMessage(s) PROVE NotifyInv'
<1>1. /\ UNCHANGED <<beat, lastBroadcast, persisted, pairs, browser, subscribed, members, refused>>
      /\ SubscribersStay' /\ KeptKeysPush'
  <2>1. UNCHANGED <<beat, lastBroadcast, persisted, pairs, browser, subscribed, members, refused>>
    BY DEF ListUsers, SendMessage
  <2> QED
    BY <2>1 DEF NotifyInv, SubscribersStay, KeptKeysPush
<1>2. /\ pairs' \in PairsOf /\ pairs'.cast \in 0..pairs'.made /\ pairs'.made >= pairs.made
      /\ persisted => pairs'.made = 1
      /\ subscribed' \subseteq Endpoints /\ refused' \subseteq Endpoints
  BY <1>1, NotifyTypes DEF NotifyInv, OnePair
<1>3. cast[s] \in CastOf /\ CastHolds(s)
  BY NotifyTypes DEF NotifyInv
<1>4. CASE ListUsers(s)
  <2> DEFINE c == [cast[s] EXCEPT !.todo = cast[s].todo \ {"platform"}, !.listed = members]
             listing == [c EXCEPT !.users = members]
             failing == [c EXCEPT !.ok = FALSE]
  <2>1. /\ "platform" \in cast[s].todo
        /\ cast' = [cast EXCEPT ![s] = listing] \/ cast' = [cast EXCEPT ![s] = failing]
    BY <1>4 DEF ListUsers
  <2>2. /\ c \in CastOf /\ c.users = cast[s].users /\ c.listed = members
        /\ c.reached = cast[s].reached /\ c.lost = cast[s].lost
        /\ c.todo = cast[s].todo \ {"platform"}
        /\ c.ok = cast[s].ok /\ c.pushOk = cast[s].pushOk /\ c.pushed = cast[s].pushed
        /\ c.failed = cast[s].failed /\ c.dropped = cast[s].dropped
    <3>1. members \subseteq Members /\ cast[s].todo \ {"platform"} \subseteq {"platform", "webpush"}
      BY <1>3, NotifyTypes DEF CastOf
    <3> QED
      BY <1>3, <3>1 DEF CastOf
  <2> HIDE DEF c
  <2>3. /\ listing \in CastOf /\ listing.users = members /\ listing.listed = c.listed
        /\ listing.reached = c.reached /\ listing.lost = c.lost /\ listing.todo = c.todo
        /\ listing.ok = c.ok /\ listing.pushOk = c.pushOk /\ listing.pushed = c.pushed
        /\ listing.failed = c.failed /\ listing.dropped = c.dropped
    <3>1. members \subseteq Members
      BY NotifyTypes
    <3> QED
      BY <2>2, <3>1 DEF CastOf
  <2>4. /\ failing \in CastOf /\ failing.users = c.users /\ failing.listed = c.listed
        /\ failing.reached = c.reached /\ failing.lost = c.lost /\ failing.todo = c.todo
        /\ failing.ok = FALSE /\ failing.pushOk = c.pushOk /\ failing.pushed = c.pushed
        /\ failing.failed = c.failed /\ failing.dropped = c.dropped
    BY <2>2 DEF CastOf
  <2>5. /\ cast[s].reached = {} /\ cast[s].lost = {} /\ cast[s].users = {} /\ ~ cast[s].dropped
        /\ cast[s].pushOk => cast[s].pushed # {} \/ cast[s].failed = {}
    BY <1>3, <2>1 DEF CastHolds
  <2> HIDE DEF listing, failing
  <2>6. CASE cast' = [cast EXCEPT ![s] = listing]
    BY <1>1, <1>2, <2>2, <2>3, <2>5, <2>6, CastMoves
  <2>7. CASE cast' = [cast EXCEPT ![s] = failing]
    BY <1>1, <1>2, <2>2, <2>4, <2>5, <2>7, CastMoves
  <2> QED
    BY <2>1, <2>6, <2>7
<1>5. CASE SendMessage(s)
  <2> DEFINE c(u) == [cast[s] EXCEPT !.users = cast[s].users \ {u}]
             reaching(u) == [c(u) EXCEPT !.reached = c(u).reached \cup {u}]
             losing(u) == [c(u) EXCEPT !.lost = c(u).lost \cup {u}]
             failing(u) == [c(u) EXCEPT !.ok = FALSE]
  <2>1. PICK u \in cast[s].users :
          \/ cast' = [cast EXCEPT ![s] = reaching(u)]
          \/ cast' = [cast EXCEPT ![s] = losing(u)]
          \/ cast' = [cast EXCEPT ![s] = failing(u)]
    BY <1>5 DEF SendMessage
  <2>2. u \in Members
    BY <1>3, <2>1 DEF CastOf
  <2>3. /\ c(u) \in CastOf /\ c(u).users = cast[s].users \ {u}
        /\ c(u).listed = cast[s].listed /\ c(u).reached = cast[s].reached
        /\ c(u).lost = cast[s].lost /\ c(u).todo = cast[s].todo
        /\ c(u).ok = cast[s].ok /\ c(u).pushOk = cast[s].pushOk
        /\ c(u).pushed = cast[s].pushed
        /\ c(u).failed = cast[s].failed /\ c(u).dropped = cast[s].dropped
    <3>1. cast[s].users \ {u} \subseteq Members
      BY <1>3 DEF CastOf
    <3> QED
      BY <1>3, <3>1 DEF CastOf
  <2> HIDE DEF c
  <2>4. /\ reaching(u) \in CastOf /\ reaching(u).users = c(u).users /\ reaching(u).listed = c(u).listed
        /\ reaching(u).reached = c(u).reached \cup {u} /\ reaching(u).lost = c(u).lost
        /\ reaching(u).todo = c(u).todo /\ reaching(u).ok = c(u).ok
        /\ reaching(u).pushOk = c(u).pushOk /\ reaching(u).pushed = c(u).pushed
        /\ reaching(u).failed = c(u).failed /\ reaching(u).dropped = c(u).dropped
    <3>1. c(u).reached \cup {u} \subseteq Members
      BY <2>2, <2>3 DEF CastOf
    <3> QED
      BY <2>3, <3>1 DEF CastOf
  <2>5. /\ losing(u) \in CastOf /\ losing(u).users = c(u).users /\ losing(u).listed = c(u).listed
        /\ losing(u).reached = c(u).reached /\ losing(u).lost = c(u).lost \cup {u}
        /\ losing(u).todo = c(u).todo /\ losing(u).ok = c(u).ok
        /\ losing(u).pushOk = c(u).pushOk /\ losing(u).pushed = c(u).pushed
        /\ losing(u).failed = c(u).failed /\ losing(u).dropped = c(u).dropped
    <3>1. c(u).lost \cup {u} \subseteq Members
      BY <2>2, <2>3 DEF CastOf
    <3> QED
      BY <2>3, <3>1 DEF CastOf
  <2>6. /\ failing(u) \in CastOf /\ failing(u).users = c(u).users /\ failing(u).listed = c(u).listed
        /\ failing(u).reached = c(u).reached /\ failing(u).lost = c(u).lost
        /\ failing(u).todo = c(u).todo /\ failing(u).ok = FALSE
        /\ failing(u).pushOk = c(u).pushOk /\ failing(u).pushed = c(u).pushed
        /\ failing(u).failed = c(u).failed /\ failing(u).dropped = c(u).dropped
    BY <2>3 DEF CastOf
  <2>7. ~ cast[s].dropped /\ "platform" \notin cast[s].todo /\ u \in cast[s].listed
    BY <1>3, <2>1 DEF CastHolds
  <2>8. /\ cast[s].reached \cup cast[s].lost \cup cast[s].users \subseteq cast[s].listed
        /\ cast[s].ok => cast[s].listed = cast[s].reached \cup cast[s].lost \cup cast[s].users
        /\ cast[s].pushOk => cast[s].pushed # {} \/ cast[s].failed = {}
    BY <1>3 DEF CastHolds
  <2> HIDE DEF reaching, losing, failing
  <2>9. CASE cast' = [cast EXCEPT ![s] = reaching(u)]
    <3>1. reaching(u).reached \cup reaching(u).lost \cup reaching(u).users =
            cast[s].reached \cup cast[s].lost \cup cast[s].users
      BY <2>1, <2>3, <2>4
    <3>2. /\ reaching(u).reached \cup reaching(u).lost \cup reaching(u).users \subseteq reaching(u).listed
          /\ reaching(u).ok =>
               reaching(u).listed = reaching(u).reached \cup reaching(u).lost \cup reaching(u).users
          /\ "platform" \notin reaching(u).todo /\ ~ reaching(u).dropped
          /\ reaching(u).pushOk => reaching(u).pushed # {} \/ reaching(u).failed = {}
      BY <2>3, <2>4, <2>7, <2>8, <3>1
    <3>3. reaching(u) \in CastOf
      BY <2>4
    <3> QED
      BY <1>1, <1>2, <2>9, <3>2, <3>3, CastMoves
  <2>10. CASE cast' = [cast EXCEPT ![s] = losing(u)]
    <3>1. losing(u).reached \cup losing(u).lost \cup losing(u).users =
            cast[s].reached \cup cast[s].lost \cup cast[s].users
      BY <2>1, <2>3, <2>5
    <3>2. /\ losing(u).reached \cup losing(u).lost \cup losing(u).users \subseteq losing(u).listed
          /\ losing(u).ok =>
               losing(u).listed = losing(u).reached \cup losing(u).lost \cup losing(u).users
          /\ "platform" \notin losing(u).todo /\ ~ losing(u).dropped
          /\ losing(u).pushOk => losing(u).pushed # {} \/ losing(u).failed = {}
      BY <2>3, <2>5, <2>7, <2>8, <3>1
    <3>3. losing(u) \in CastOf
      BY <2>5
    <3> QED
      BY <1>1, <1>2, <2>10, <3>2, <3>3, CastMoves
  <2>11. CASE cast' = [cast EXCEPT ![s] = failing(u)]
    <3>1. /\ failing(u).reached \cup failing(u).lost \cup failing(u).users \subseteq failing(u).listed
          /\ ~ failing(u).ok
          /\ "platform" \notin failing(u).todo /\ ~ failing(u).dropped
          /\ failing(u).pushOk => failing(u).pushed # {} \/ failing(u).failed = {}
      BY <2>3, <2>6, <2>7, <2>8
    <3>2. failing(u) \in CastOf
      BY <2>6
    <3> QED
      BY <1>1, <1>2, <2>11, <3>1, <3>2, CastMoves
  <2> QED
    BY <2>1, <2>9, <2>10, <2>11
<1> QED
  BY <1>4, <1>5

LEMMA RestartNotifier_Inv == ASSUME NotifyInv, RestartNotifier PROVE NotifyInv'
<1>1. /\ lastBroadcast' = 0 /\ pairs' = [api |-> KeyPair, cast |-> 0, made |-> KeyPair]
      /\ cast' = [s \in Senders |-> NoCast]
      /\ UNCHANGED <<beat, persisted, browser, subscribed, members, refused>>
  BY DEF RestartNotifier
<1>2. KeyPair \in Nat /\ KeyPair >= pairs.made /\ KeyPair >= 1 /\ (persisted => KeyPair = 1)
  BY NotifyTypes DEF KeyPair, NotifyInv, OnePair
<1>3. pairs' \in PairsOf /\ pairs'.api = KeyPair /\ pairs'.cast = 0 /\ pairs'.made = KeyPair
  BY <1>1, <1>2 DEF PairsOf
<1>4. cast' \in [Senders -> CastOf] /\ \A s \in Senders : cast'[s] = NoCast
  BY <1>1, NoCast_Of
<1>5. NotifyTyped'
  <2>1. \A s \in Senders : cast'[s].todo \subseteq {"platform", "webpush"} /\ cast'[s].users \subseteq Members
    BY <1>4 DEF NoCast
  <2>2. /\ lastBroadcast' \in 0..beat /\ pairs'.cast \in 0..pairs'.made
        /\ pairs'.api \in 1..pairs'.made
    BY <1>1, <1>2, <1>3, NotifyTypes
  <2>3. \A e \in Endpoints : browser[e].pair \in 0..pairs'.made
    BY <1>2, <1>3, NotifyTypes
  <2>4. lastBroadcast' \in Nat
    BY <1>1
  <2> QED
    BY <1>1, <1>3, <1>4, <2>1, <2>2, <2>3, <2>4 DEF NotifyInv, NotifyTyped, NotifyTypeOK
<1>6. \A s \in Senders : CastHolds(s)'
  BY <1>4 DEF CastHolds, NoCast
<1> QED
  BY <1>1, <1>2, <1>3, <1>5, <1>6
  DEF NotifyInv, SubscribersStay, KeptKeysPush, OnePair, KeyTaken, LivesAt

\* So every step keeps it.
LEMMA NotifyNext_Inv == ASSUME NotifyInv, [NotifyNext]_notifyVars PROVE NotifyInv'
<1>1. CASE Beat \/ MemberChanges \/ UNCHANGED notifyVars
  BY <1>1, BeatGoes_Inv
<1>2. CASE TestPush \/ RestartNotifier
  BY <1>2, TestPush_Inv, RestartNotifier_Inv
<1>3. ASSUME NEW e \in Endpoints,
             AskKey(e) \/ MakeEndpoint(e) \/ Subscribe(e) \/ Unsubscribe(e) \/ EndpointGoes(e)
      PROVE  NotifyInv'
  BY <1>3, Endpoints_Inv
<1>4. ASSUME NEW s \in Senders, Broadcast(s) \/ DeliverWebpush(s) \/ ListUsers(s) \/ SendMessage(s)
      PROVE  NotifyInv'
  BY <1>4, Broadcast_Inv, DeliverWebpush_Inv, Deliver_Inv
<1> QED
  BY <1>1, <1>2, <1>3, <1>4 DEF NotifyNext

\* And it implies what is promised.
LEMMA NotifyInv_Safe == ASSUME NotifyInv PROVE NotifySafe
<1>1. ReportsAreTrue
  BY DEF NotifyInv, CastHolds, ReportsAreTrue
<1> QED
  BY <1>1 DEF NotifyInv, NotifyTyped, NotifySafe

-----------------------------------------------------------------------------
(* The briefing (Briefing)                                                 *)

BriefingTyped ==
  /\ BriefingTypeOK
  /\ cadence \in {"daily", "often"} /\ outages \in Nat
  /\ article \in [at : Nat, found : BOOLEAN]
  /\ briefing \in [at : {"none", "asked", "told", "failed"}, began : Nat, has : BOOLEAN]
  /\ briefing.at = "none" => briefing.began = 0
  /\ briefing.at # "none" => lastRun < briefing.began /\ lastTold <= briefing.began

\* Until a mail is synced the windows follow the last run.
Followed == mailSync = 0

\* An article that was not found when a run began that has ended or is under way.
LateIsExcused ==
  ~ article.found /\ (article.at <= lastRun \/ article.at <= briefing.began) => excused

\* The run under way has the article, unless it was told before or is excused.
RunLeavesNoGap ==
  /\ briefing.at # "none" /\ article.found /\ article.at < briefing.began /\ Followed =>
       briefing.has \/ lastTold # 0 \/ excused
  /\ briefing.at = "told" /\ briefing.has => lastTold # 0

\* Without an outage a run that told the article is the last run or the one under way.
ToldByLastRun ==
  outages = 0 =>
    /\ briefing.at \in {"none", "asked"} => lastTold <= lastRun
    /\ briefing.at = "asked" /\ briefing.has /\ Followed /\ cadence = "often" /\ lastTold # 0 =>
         article.at + PerHour >= lastTold

BriefingInv ==
  /\ BriefingTyped /\ LateIsExcused /\ RunLeavesNoGap /\ ToldByLastRun
  /\ WindowsLeaveNoGap /\ RetoldWithinTheHour

-----------------------------------------------------------------------------

\* A window of whole hours reaches back past the run, but by no more than an hour.
LEMMA WindowIsRoundedUp ==
  ASSUME tick \in Nat, NEW t \in Nat, t <= tick
  PROVE  /\ HoursSince(t) \in Nat
         /\ PerHour * HoursSince(t) \in Nat
         /\ tick < t + PerHour * HoursSince(t)
         /\ t + PerHour * HoursSince(t) <= tick + PerHour
<1> DEFINE a == tick - t  q == a \div PerHour
<1>1. a \in Nat /\ PerHour \in Nat /\ PerHour > 0
  BY BriefingAssumption
<1>2. q \in Nat /\ PerHour * q <= a /\ a < PerHour * q + PerHour /\ PerHour * q \in Nat
  <2> HIDE DEF a
  <2>1. q \in Int /\ q >= 0
    BY <1>1
  <2>2. a = PerHour * q + (a % PerHour) /\ a % PerHour \in 0..(PerHour - 1)
    BY <1>1
  <2> QED
    BY <1>1, <2>1, <2>2
<1> HIDE DEF q
<1>3. HoursSince(t) = q + 1
  BY DEF HoursSince, q
<1>4. PerHour * (q + 1) = PerHour * q + PerHour
  BY <1>1, <1>2
<1> QED
  BY <1>1, <1>2, <1>3, <1>4

\* It holds at the start, and each action of the module keeps it.
LEMMA BriefingInit_Inv == ASSUME BriefingInit PROVE BriefingInv
<1>1. BriefingTyped
  <2>1. article \in [at : Ticks, found : {FALSE}] /\ tick = 1
    BY DEF BriefingInit
  <2>2. /\ article \in [at : Nat, found : BOOLEAN] /\ article.at \in Ticks
        /\ tick \in Ticks
    <3>1. article.at \in Ticks /\ Ticks \subseteq Nat
      BY <2>1 DEF Ticks
    <3>2. tick \in Ticks
      BY <2>1, <3>1, BriefingAssumption DEF Ticks
    <3> QED
      BY <2>1, <3>1, <3>2
  <2>3. /\ NoBriefing \in [at : {"none", "asked", "told", "failed"}, began : Nat, has : BOOLEAN]
        /\ NoBriefing.at = "none" /\ NoBriefing.began = 0
    BY DEF NoBriefing
  <2> QED
    BY <2>1, <2>2, <2>3 DEF BriefingInit, BriefingTyped, BriefingTypeOK
<1>2. LateIsExcused /\ RunLeavesNoGap /\ WindowsLeaveNoGap
  BY BriefingAssumption
     DEF BriefingInit, NoBriefing, Ticks, BriefingInv, BriefingTyped, BriefingTypeOK,
     LateIsExcused, RunLeavesNoGap, Followed, WindowsLeaveNoGap
<1>3. ToldByLastRun /\ RetoldWithinTheHour
  BY BriefingAssumption
     DEF BriefingInit, NoBriefing, Ticks, BriefingInv, BriefingTyped, BriefingTypeOK,
     ToldByLastRun, Followed, RetoldWithinTheHour
<1> QED
  BY <1>1, <1>2, <1>3 DEF BriefingInv

LEMMA BriefingWorld_Inv ==
  ASSUME BriefingInv, TickPasses \/ MailSyncs \/ ArticleComes \/ Outage \/ UNCHANGED briefingVars
  PROVE  BriefingInv'
<1>1. CASE TickPasses
  BY <1>1, BriefingAssumption
     DEF TickPasses, NoBriefing, Ticks, BriefingInv, BriefingTyped, BriefingTypeOK, LateIsExcused,
     RunLeavesNoGap, Followed, ToldByLastRun, WindowsLeaveNoGap, RetoldWithinTheHour
<1>2. CASE MailSyncs
  BY <1>2, BriefingAssumption
     DEF MailSyncs, NoBriefing, Ticks, BriefingInv, BriefingTyped, BriefingTypeOK, LateIsExcused,
     RunLeavesNoGap, Followed, ToldByLastRun, WindowsLeaveNoGap, RetoldWithinTheHour
<1>3. CASE ArticleComes
  <2>1. BriefingTyped'
    BY <1>3, BriefingAssumption
       DEF ArticleComes, NoBriefing, Ticks, BriefingInv, BriefingTyped, BriefingTypeOK
  <2>2. LateIsExcused' /\ RunLeavesNoGap' /\ WindowsLeaveNoGap'
    BY <1>3, BriefingAssumption
       DEF ArticleComes, NoBriefing, Ticks, BriefingInv, BriefingTyped, BriefingTypeOK, LateIsExcused,
       RunLeavesNoGap, Followed, WindowsLeaveNoGap
  <2>3. ToldByLastRun' /\ RetoldWithinTheHour'
    BY <1>3, BriefingAssumption
       DEF ArticleComes, NoBriefing, Ticks, BriefingInv, BriefingTyped, BriefingTypeOK, ToldByLastRun,
       Followed, RetoldWithinTheHour
  <2> QED
    BY <2>1, <2>2, <2>3 DEF BriefingInv
<1>4. CASE Outage
  BY <1>4, BriefingAssumption
     DEF Outage, NoBriefing, Ticks, BriefingInv, BriefingTyped, BriefingTypeOK, LateIsExcused,
     RunLeavesNoGap, Followed, ToldByLastRun, WindowsLeaveNoGap, RetoldWithinTheHour
<1>5. CASE UNCHANGED briefingVars
  BY <1>5, BriefingAssumption
     DEF briefingVars, NoBriefing, Ticks, BriefingInv, BriefingTyped, BriefingTypeOK,
     LateIsExcused, RunLeavesNoGap, Followed, ToldByLastRun, WindowsLeaveNoGap, RetoldWithinTheHour
<1> QED
  BY <1>1, <1>2, <1>3, <1>4, <1>5

LEMMA BriefingEnds_Inv ==
  ASSUME BriefingInv, BriefingFails \/ BroadcastBriefing \/ FinishBriefing
  PROVE  BriefingInv'
<1>1. CASE BriefingFails
  BY <1>1, BriefingAssumption
     DEF BriefingFails, NoBriefing, Ticks, BriefingInv, BriefingTyped, BriefingTypeOK,
     LateIsExcused, RunLeavesNoGap, Followed, ToldByLastRun, WindowsLeaveNoGap, RetoldWithinTheHour
<1>2. CASE BroadcastBriefing
  <2>1. BriefingTyped'
    BY <1>2, BriefingAssumption
       DEF BroadcastBriefing, NoBriefing, Ticks, BriefingInv, BriefingTyped, BriefingTypeOK
  <2>2. LateIsExcused' /\ RunLeavesNoGap' /\ WindowsLeaveNoGap'
    BY <1>2, BriefingAssumption
       DEF BroadcastBriefing, NoBriefing, Ticks, BriefingInv, BriefingTyped, BriefingTypeOK,
       LateIsExcused, RunLeavesNoGap, Followed, WindowsLeaveNoGap
  <2>3. ToldByLastRun' /\ RetoldWithinTheHour'
    BY <1>2, BriefingAssumption
       DEF BroadcastBriefing, NoBriefing, Ticks, BriefingInv, BriefingTyped, BriefingTypeOK,
       ToldByLastRun, Followed, RetoldWithinTheHour
  <2> QED
    BY <2>1, <2>2, <2>3 DEF BriefingInv
<1>3. CASE FinishBriefing
  <2>1. /\ lastRun' = briefing.began /\ briefing.began \in Nat /\ briefing' = NoBriefing
        /\ NoBriefing \in [at : {"none", "asked", "told", "failed"}, began : Nat, has : BOOLEAN]
        /\ NoBriefing.at = "none" /\ NoBriefing.began = 0
        /\ UNCHANGED <<cadence, tick, mailSync, article, lastTold, toldBefore, outages>>
        /\ (excused' <=> (excused \/ (briefing.at = "failed" /\ briefing.has)))
        /\ briefing.at \in {"told", "failed"} /\ lastRun < briefing.began
    BY <1>3 DEF FinishBriefing, LastRunIs, NoBriefing, BriefingInv, BriefingTyped
  <2>2. /\ BriefingTyped /\ tick \in Nat /\ lastRun \in Nat
    BY DEF BriefingInv, BriefingTyped, BriefingTypeOK, Ticks
  <2>4. BriefingTyped'
    <3>1. BriefingTypeOK'
      BY <2>1, <2>2 DEF BriefingTyped, BriefingTypeOK
    <3> QED
      BY <2>1, <2>2, <3>1 DEF BriefingTyped
  <2>5. LateIsExcused'
    BY <2>1, <2>2 DEF BriefingInv, LateIsExcused, BriefingTyped, BriefingTypeOK, Ticks
  <2>6. WindowsLeaveNoGap'
    BY <2>1, <2>2 DEF BriefingInv, RunLeavesNoGap, Followed, WindowsLeaveNoGap
  <2>7. RunLeavesNoGap'
    BY <2>1 DEF RunLeavesNoGap
  <2>3. ToldByLastRun' /\ RetoldWithinTheHour'
    BY <1>3, BriefingAssumption
       DEF FinishBriefing, LastRunIs, NoBriefing, Ticks, BriefingInv, BriefingTyped,
       BriefingTypeOK, ToldByLastRun, Followed, RetoldWithinTheHour
  <2> QED
    BY <2>3, <2>4, <2>5, <2>6, <2>7 DEF BriefingInv
<1> QED
  BY <1>1, <1>2, <1>3

LEMMA StartBriefing_Inv == ASSUME BriefingInv, StartBriefing PROVE BriefingInv'
<1>1. PICK has \in Collected :
        /\ briefing' = [at |-> "asked", began |-> tick, has |-> has]
        /\ excused' = \/ excused
                      \/ ~ article.found /\ article.at <= tick
                      \/ article.found /\ ~ InDigestWindow /\ (cadence = "daily" \/ lastRun = 0)
                      \/ InDigestWindow /\ ~ has
  BY DEF StartBriefing
<1>2. /\ briefing = NoBriefing /\ lastRun < tick
      /\ UNCHANGED <<cadence, tick, lastRun, mailSync, article, lastTold, toldBefore, outages>>
  BY DEF StartBriefing
<1>3. /\ has \in BOOLEAN /\ (has => InDigestWindow) /\ (excused => excused')
  BY <1>1 DEF Collected, InDigestWindow, BriefingInv, BriefingTyped
<1>4. /\ tick \in Nat /\ lastRun \in Nat /\ lastTold \in Nat /\ toldBefore \in Nat
      /\ article.at \in Nat /\ PerHour \in Nat
      /\ lastRun <= tick
  BY BriefingAssumption DEF BriefingInv, BriefingTyped, BriefingTypeOK, Ticks
<1>5. BriefingTyped'
  BY <1>1, <1>2, <1>3 DEF BriefingInv, BriefingTyped, BriefingTypeOK, Ticks
<1>6. LateIsExcused'
  BY <1>1, <1>2, <1>4 DEF BriefingInv, LateIsExcused
<1> DEFINE back == PerHour * DigestWindow
<1>7. InDigestWindow <=> article.found /\ article.at + back >= tick
  BY DEF InDigestWindow
<1>8. cadence = "often" /\ lastRun # 0 /\ Followed =>
        /\ back \in Nat /\ tick < lastRun + back /\ lastRun + back <= tick + PerHour
  <2>1. cadence = "often" /\ lastRun # 0 /\ Followed => back = PerHour * HoursSince(lastRun)
    BY DEF DigestWindow, Followed
  <2>2. /\ PerHour * HoursSince(lastRun) \in Nat
        /\ tick < lastRun + PerHour * HoursSince(lastRun)
        /\ lastRun + PerHour * HoursSince(lastRun) <= tick + PerHour
    BY <1>4, WindowIsRoundedUp
  <2> QED
    BY <2>1, <2>2
<1> HIDE DEF back
<1>9. cadence = "often" /\ lastRun # 0 /\ Followed /\ article.found /\ ~ InDigestWindow =>
        article.at < lastRun
  BY <1>4, <1>7, <1>8
<1>10. cadence = "often" /\ lastRun # 0 /\ Followed /\ InDigestWindow =>
         article.at + PerHour >= lastRun
  BY <1>4, <1>7, <1>8
<1>11. RunLeavesNoGap'
  <2>1. briefing'.at = "asked" /\ briefing'.has = has /\ briefing'.began = tick
    BY <1>1
  <2>2. article.found /\ Followed /\ ~ has => lastTold # 0 \/ excused'
    <3>1. article.found /\ ~ InDigestWindow /\ (cadence = "daily" \/ lastRun = 0) => excused'
      BY <1>1
    <3>2. InDigestWindow /\ ~ has => excused'
      BY <1>1
    <3>3. cadence \in {"daily", "often"}
      BY DEF BriefingInv, BriefingTyped
    <3> QED
      BY <1>3, <1>9, <3>1, <3>2, <3>3 DEF BriefingInv, WindowsLeaveNoGap, Followed
  <2> QED
    BY <1>2, <1>3, <2>1, <2>2 DEF RunLeavesNoGap, Followed
<1>12. ToldByLastRun'
  <2>1. briefing'.at = "asked" /\ briefing'.has = has /\ briefing'.began = tick
    BY <1>1
  <2>2. outages = 0 => lastTold <= lastRun
    BY <1>2 DEF BriefingInv, ToldByLastRun, NoBriefing
  <2>3. outages = 0 /\ has /\ Followed /\ cadence = "often" /\ lastTold # 0 =>
          article.at + PerHour >= lastTold
    BY <1>3, <1>4, <1>10, <2>2
  <2> QED
    BY <1>2, <2>1, <2>2, <2>3 DEF ToldByLastRun, Followed
<1>13. WindowsLeaveNoGap' /\ RetoldWithinTheHour'
  BY <1>2, <1>3 DEF BriefingInv, WindowsLeaveNoGap, RetoldWithinTheHour
<1> QED
  BY <1>5, <1>6, <1>11, <1>12, <1>13 DEF BriefingInv

\* So every step keeps it.
LEMMA BriefingNext_Inv == ASSUME BriefingInv, [BriefingNext]_briefingVars PROVE BriefingInv'
  BY BriefingWorld_Inv, BriefingEnds_Inv, StartBriefing_Inv DEF BriefingNext

\* And it implies what is promised.
LEMMA BriefingInv_Safe == ASSUME BriefingInv PROVE BriefingSafe
  BY DEF BriefingInv, BriefingTyped, BriefingSafe

-----------------------------------------------------------------------------
(* The web searches (WebSearch)                                            *)

SearchRow == [at : 1..moment, status : {"ok", "error", "rate_limited"}]
SearchState ==
  [at : {"idle", "topic", "context", "call", "embed"}, source : {"none", "api", "agent", "scheduler"},
   hits : SUBSET Urls, found : 0..moment]
DigestState ==
  [at : {"none", "waits", "told", "lost"}, told : SUBSET Urls, given : SUBSET Urls, raised : BOOLEAN]

WebTypes ==
  /\ moment \in 1..MaxMoment /\ upserted \in 0..Cardinality(Urls) /\ most \in Nat \ {0} /\ begun \in Nat
  /\ searchLog \in Seq(SearchRow) /\ search \in [Searchers -> SearchState] /\ digest \in DigestState
  /\ results \in [Urls -> 0..moment] /\ newest \in [Urls -> 0..moment]

\* The rows of log that a check at this time counts.
CountedIn(log, time) == {i \in 1..Len(log) : log[i].at + Hour >= time /\ log[i].status # "rate_limited"}

\* What is counted, and will be of the searches that are under way, is no more
\* than the limit and those beside the last.
LimitInTime ==
  /\ Cardinality(UnderWay(search)) <= most
  /\ Cardinality(CountedIn(searchLog, moment)) + Cardinality(UnderWay(search)) <= SearchLimit + most - 1
  /\ \A time \in 1..moment :
       Cardinality({i \in CountedIn(searchLog, time) : searchLog[i].at <= time}) <= SearchLimit + most - 1

Refusals ==
  \A i \in 1..Len(searchLog) :
    searchLog[i].status = "rate_limited" =>
      Cardinality({j \in CountedIn(searchLog, searchLog[i].at) : j < i}) >= SearchLimit

\* Searches of topics are those of a digest that has begun.
DigestInv ==
  /\ \A s \in Searchers : search[s].at = "idle" => search[s].source = "none"
  /\ \A s \in Searchers : search[s].at = "topic" => search[s].source = "scheduler"
  /\ (\E s \in Searchers : search[s].source = "scheduler") => digest.at \in {"waits", "lost"}
  /\ digest.at = "told" => ~ digest.raised /\ digest.told = digest.given
  /\ digest.at = "lost" => digest.raised

\* While searches do not overlap, what one has found is the latest.
LatestInv ==
  most = 1 =>
    \A u \in Urls :
      /\ results[u] >= newest[u]
      /\ \A s \in Searchers : search[s].at = "embed" => search[s].found >= newest[u]

WebInv == WebTypes /\ LimitInTime /\ Refusals /\ OwnCountTold /\ DigestInv /\ LatestInv

-----------------------------------------------------------------------------
\* Searches that are under way are a finite set, and the fewer the fewer.
LEMMA UnderWayIs ==
  ASSUME WebAssumption, NEW all
  PROVE  /\ IsFiniteSet(UnderWay(all)) /\ Cardinality(UnderWay(all)) \in Nat
         /\ \A some : UnderWay(some) \subseteq UnderWay(all) =>
              Cardinality(UnderWay(some)) <= Cardinality(UnderWay(all))
<1>1. UnderWay(all) \subseteq Searchers
  BY DEF UnderWay
<1>2. IsFiniteSet(UnderWay(all))
  BY <1>1, FS_Subset DEF WebAssumption
<1> QED
  BY <1>2, FS_CardinalityType, FS_Subset

\* Rows that are counted are a finite number of them.
LEMMA CountedIsFinite ==
  ASSUME NEW T, NEW log \in Seq(T), NEW time, NEW some \in SUBSET CountedIn(log, time)
  PROVE  IsFiniteSet(some) /\ Cardinality(some) \in Nat
<1>1. some \subseteq 1..Len(log) /\ IsFiniteSet(1..Len(log))
  BY FS_Interval DEF CountedIn
<1> QED
  BY <1>1, FS_Subset, FS_CardinalityType

\* A row of this moment counts at every time up to it, unless it is a refusal.
LEMMA RowCounts ==
  ASSUME WebAssumption, moment \in 1..MaxMoment, NEW log \in Seq(SearchRow), NEW row \in SearchRow,
         row.at = moment, NEW time \in 1..moment
  PROVE  /\ row.status = "rate_limited" => CountedIn(Append(log, row), time) = CountedIn(log, time)
         /\ row.status # "rate_limited" =>
              CountedIn(Append(log, row), time) = CountedIn(log, time) \cup {Len(log) + 1}
         /\ Append(log, row) \in Seq(SearchRow) /\ Len(Append(log, row)) = Len(log) + 1
         /\ Append(log, row)[Len(log) + 1] = row
         /\ \A i \in 1..Len(log) : Append(log, row)[i] = log[i]
         /\ Len(log) \in Nat /\ Len(log) + 1 \notin CountedIn(log, time)
<1> DEFINE all == Append(log, row)
<1>1. /\ all \in Seq(SearchRow) /\ Len(all) = Len(log) + 1 /\ all[Len(log) + 1] = row
      /\ \A i \in 1..Len(log) : all[i] = log[i]
      /\ Len(log) \in Nat
  OBVIOUS
<1>2. moment + Hour >= time
  BY DEF WebAssumption
<1>3. Len(log) + 1 \notin CountedIn(log, time)
  BY <1>1 DEF CountedIn
<1> HIDE DEF all
<1>4. \A i \in 1..Len(all) : i \in 1..Len(log) \/ i = Len(log) + 1
  BY <1>1
<1>5. \A i \in 1..Len(log) : i \in CountedIn(all, time) <=> i \in CountedIn(log, time)
  BY <1>1 DEF CountedIn
<1>6. Len(log) + 1 \in CountedIn(all, time) <=> row.status # "rate_limited"
  BY <1>1, <1>2 DEF CountedIn
<1>7. CountedIn(all, time) \subseteq 1..Len(all) /\ CountedIn(log, time) \subseteq 1..Len(log)
  BY DEF CountedIn
<1>8. row.status = "rate_limited" => CountedIn(all, time) = CountedIn(log, time)
  BY <1>4, <1>5, <1>6, <1>7
<1>9. row.status # "rate_limited" => CountedIn(all, time) = CountedIn(log, time) \cup {Len(log) + 1}
  BY <1>4, <1>5, <1>6, <1>7
<1> QED
  BY <1>1, <1>3, <1>8, <1>9 DEF all

\* While no row is added and none begins, the limit holds on.
LEMMA LimitStays ==
  ASSUME WebAssumption, WebTypes, LimitInTime, Refusals, UNCHANGED <<moment, searchLog, most>>,
         UnderWay(search') \subseteq UnderWay(search)
  PROVE  LimitInTime' /\ Refusals'
<1>1. /\ Cardinality(UnderWay(search')) <= Cardinality(UnderWay(search))
      /\ Cardinality(UnderWay(search')) \in Nat /\ Cardinality(UnderWay(search)) \in Nat
  BY UnderWayIs
<1>2. Cardinality(CountedIn(searchLog, moment)) \in Nat /\ most \in Nat /\ SearchLimit \in Nat
  BY CountedIsFinite DEF WebTypes, WebAssumption
<1> DEFINE n == Cardinality(CountedIn(searchLog, moment))
           u == Cardinality(UnderWay(search))
           u1 == Cardinality(UnderWay(search'))
<1>3. u <= most /\ n + u <= SearchLimit + most - 1
  BY DEF LimitInTime
<1> HIDE DEF n, u, u1
<1>4. u1 <= most /\ n + u1 <= SearchLimit + most - 1
  BY <1>1, <1>2, <1>3 DEF n, u, u1
<1>5. Cardinality(UnderWay(search')) <= most' /\
      Cardinality(CountedIn(searchLog', moment')) + Cardinality(UnderWay(search')) <= SearchLimit + most' - 1
  BY <1>4 DEF n, u1
<1> QED
  BY <1>5 DEF LimitInTime, Refusals

\* A search that ends with a row counts instead of being under way.
LEMMA RowAdded ==
  ASSUME WebAssumption, WebTypes, LimitInTime, Refusals, UNCHANGED <<moment, most>>,
         NEW status \in {"ok", "error"}, AddRow(status),
         NEW s \in UnderWay(search), UnderWay(search') = UnderWay(search) \ {s}
  PROVE  LimitInTime' /\ Refusals'
<1> DEFINE row == [at |-> moment, status |-> status]
           new == Len(searchLog) + 1
<1>1. /\ moment \in 1..MaxMoment /\ searchLog \in Seq(SearchRow) /\ row \in SearchRow
      /\ row.at = moment /\ row.status # "rate_limited" /\ searchLog' = Append(searchLog, row)
      /\ SearchLimit \in Nat /\ most \in Nat
  BY DEF WebTypes, SearchRow, AddRow, WebAssumption
<1> HIDE DEF row
<1>2. /\ Len(searchLog') = new /\ searchLog'[new] = row /\ Len(searchLog) \in Nat
      /\ \A i \in 1..Len(searchLog) : searchLog'[i] = searchLog[i]
  BY <1>1, RowCounts
<1>3. \A time \in 1..moment :
        /\ CountedIn(searchLog', time) = CountedIn(searchLog, time) \cup {new}
        /\ new \notin CountedIn(searchLog, time)
  BY <1>1, RowCounts
<1>4. /\ Cardinality(UnderWay(search')) = Cardinality(UnderWay(search)) - 1
      /\ Cardinality(UnderWay(search)) \in Nat
  BY UnderWayIs, FS_RemoveElement
<1>5. Cardinality(CountedIn(searchLog', moment)) = Cardinality(CountedIn(searchLog, moment)) + 1
      /\ Cardinality(CountedIn(searchLog, moment)) \in Nat
  <2>1. /\ IsFiniteSet(CountedIn(searchLog, moment)) /\ Cardinality(CountedIn(searchLog, moment)) \in Nat
    BY <1>1, CountedIsFinite
  <2>2. /\ new \notin CountedIn(searchLog, moment)
        /\ CountedIn(searchLog', moment) = CountedIn(searchLog, moment) \cup {new}
    BY <1>1, <1>3
  <2> QED
    BY <2>1, <2>2, FS_AddElement
<1>6. /\ Cardinality(UnderWay(search')) <= most
      /\ Cardinality(CountedIn(searchLog', moment)) + Cardinality(UnderWay(search')) <= SearchLimit + most - 1
  <2> DEFINE a == Cardinality(UnderWay(search'))
             b == Cardinality(UnderWay(search))
             c == Cardinality(CountedIn(searchLog', moment))
             d == Cardinality(CountedIn(searchLog, moment))
  <2>1. a = b - 1 /\ c = d + 1 /\ b <= most /\ d + b <= SearchLimit + most - 1 /\ b \in Nat /\ d \in Nat
    BY <1>4, <1>5 DEF LimitInTime
  <2> HIDE DEF a, b, c, d
  <2>2. a <= most /\ c + a <= SearchLimit + most - 1
    BY <2>1, <1>1
  <2> QED
    BY <2>2 DEF a, c
<1>7. ASSUME NEW time \in 1..moment
      PROVE  Cardinality({i \in CountedIn(searchLog', time) : searchLog'[i].at <= time})
               <= SearchLimit + most - 1
  <2> DEFINE old == {i \in CountedIn(searchLog, time) : searchLog[i].at <= time}
             recent == {i \in CountedIn(searchLog', time) : searchLog'[i].at <= time}
  <2>1. CASE time = moment
    <3>1. recent \subseteq CountedIn(searchLog', moment)
      BY <2>1
    <3>2. IsFiniteSet(CountedIn(searchLog', moment))
      BY <1>1, <1>3, CountedIsFinite, FS_AddElement
    <3>3. Cardinality(recent) <= Cardinality(CountedIn(searchLog', moment)) /\ Cardinality(recent) \in Nat
      BY <3>1, <3>2, FS_Subset, FS_CardinalityType
    <3>4. Cardinality(UnderWay(search')) \in Nat /\ Cardinality(CountedIn(searchLog', moment)) \in Nat
      BY <3>2, UnderWayIs, FS_CardinalityType
    <3> HIDE DEF recent
    <3>5. Cardinality(recent) <= SearchLimit + most - 1
      BY <3>3, <3>4, <1>6, <1>1
    <3> QED
      BY <3>5 DEF recent
  <2>2. CASE time # moment
    <3>1. ~ (row.at <= time)
      BY <2>2, <1>1
    <3>2. \A i \in CountedIn(searchLog, time) : i \in 1..Len(searchLog)
      BY DEF CountedIn
    <3>3. recent = old
      BY <1>2, <1>3, <3>1, <3>2
    <3> QED
      BY <3>3 DEF LimitInTime
  <2> QED
    BY <2>1, <2>2
<1>8. ASSUME NEW i \in 1..Len(searchLog'), searchLog'[i].status = "rate_limited"
      PROVE  Cardinality({j \in CountedIn(searchLog', searchLog'[i].at) : j < i}) >= SearchLimit
  <2>1. i \in 1..Len(searchLog) /\ searchLog'[i] = searchLog[i]
    BY <1>1, <1>2, <1>8
  <2>2. searchLog[i].at \in 1..moment
    <3>1. searchLog[i] \in SearchRow
      BY <2>1, <1>1
    <3> QED
      BY <3>1 DEF SearchRow
  <2>3. {j \in CountedIn(searchLog', searchLog[i].at) : j < i} = {j \in CountedIn(searchLog, searchLog[i].at) : j < i}
    BY <2>1, <2>2, <1>2, <1>3
  <2> QED
    BY <1>8, <2>1, <2>3 DEF Refusals
<1> QED
  BY <1>6, <1>7, <1>8 DEF LimitInTime, Refusals

\* A refusal counts for nothing, and is for searches that are counted.
LEMMA RowRefused ==
  ASSUME WebAssumption, WebTypes, LimitInTime, Refusals, UNCHANGED <<moment, most>>,
         OverLimit, AddRow("rate_limited"), UnderWay(search') = UnderWay(search)
  PROVE  LimitInTime' /\ Refusals'
<1> DEFINE row == [at |-> moment, status |-> "rate_limited"]
           new == Len(searchLog) + 1
<1>1. /\ moment \in 1..MaxMoment /\ searchLog \in Seq(SearchRow) /\ row \in SearchRow
      /\ row.at = moment /\ row.status = "rate_limited" /\ searchLog' = Append(searchLog, row)
      /\ SearchLimit \in Nat /\ most \in Nat
  BY DEF WebTypes, SearchRow, AddRow, WebAssumption
<1> HIDE DEF row
<1>2. /\ Len(searchLog') = new /\ searchLog'[new] = row /\ Len(searchLog) \in Nat
      /\ \A i \in 1..Len(searchLog) : searchLog'[i] = searchLog[i]
  BY <1>1, RowCounts
<1>3. \A time \in 1..moment : CountedIn(searchLog', time) = CountedIn(searchLog, time)
  BY <1>1, RowCounts
<1>4. \A time : \A i \in CountedIn(searchLog, time) : i \in 1..Len(searchLog)
  BY DEF CountedIn
<1>5. ASSUME NEW time \in 1..moment
      PROVE  {i \in CountedIn(searchLog', time) : searchLog'[i].at <= time}
               = {i \in CountedIn(searchLog, time) : searchLog[i].at <= time}
  BY <1>2, <1>3, <1>4
<1>6. LimitInTime'
  <2>1. CountedIn(searchLog', moment) = CountedIn(searchLog, moment)
    BY <1>1, <1>3
  <2>2. \A time \in 1..moment :
          Cardinality({i \in CountedIn(searchLog', time) : searchLog'[i].at <= time}) <= SearchLimit + most - 1
    BY <1>5 DEF LimitInTime
  <2> QED
    BY <2>1, <2>2 DEF LimitInTime
<1>7. ASSUME NEW i \in 1..Len(searchLog'), searchLog'[i].status = "rate_limited"
      PROVE  Cardinality({j \in CountedIn(searchLog', searchLog'[i].at) : j < i}) >= SearchLimit
  <2>1. CASE i \in 1..Len(searchLog)
    <3>1. searchLog[i] \in SearchRow /\ searchLog'[i] = searchLog[i]
      BY <2>1, <1>1, <1>2
    <3>2. searchLog[i].at \in 1..moment
      BY <3>1 DEF SearchRow
    <3>3. CountedIn(searchLog', searchLog[i].at) = CountedIn(searchLog, searchLog[i].at)
      BY <3>2, <1>3
    <3> QED
      BY <1>7, <2>1, <3>1, <3>3 DEF Refusals
  <2>2. CASE i = new
    <3>1. searchLog'[i].at = moment
      BY <1>1, <1>2, <2>2
    <3>2. \A j \in CountedIn(searchLog, moment) : j < new
      BY <1>2, <1>4
    <3>3. {j \in CountedIn(searchLog', moment) : j < new} = CountedIn(searchLog, moment)
      BY <3>2, <1>1, <1>3
    <3>4. CountedIn(searchLog, moment) = CountedAt(moment)
      BY <1>1 DEF CountedIn, CountedAt, InWindow
    <3> QED
      BY <2>2, <3>1, <3>3, <3>4 DEF OverLimit
  <2> QED
    BY <2>1, <2>2, <1>2
<1> QED
  BY <1>6, <1>7 DEF Refusals

\* One more is under way where the limit leaves room, at most as many as ever.
LEMMA SearchAdmitted ==
  ASSUME WebAssumption, WebTypes, LimitInTime, Refusals, UNCHANGED <<moment, searchLog>>,
         ~ OverLimit, most' \in Nat, most' >= most, most' >= Cardinality(UnderWay(search'))
  PROVE  LimitInTime' /\ Refusals'
<1> DEFINE n == Cardinality(CountedIn(searchLog, moment))
           u1 == Cardinality(UnderWay(search'))
<1>1. CountedIn(searchLog, moment) = CountedAt(moment)
  BY DEF WebTypes, CountedIn, CountedAt, InWindow
<1>2. n \in Nat /\ u1 \in Nat /\ most \in Nat /\ SearchLimit \in Nat
  BY UnderWayIs, CountedIsFinite DEF WebTypes, WebAssumption
<1>3. ~ (n >= SearchLimit)
  BY <1>1 DEF OverLimit
<1> HIDE DEF n, u1
<1>4. n + u1 <= SearchLimit + most' - 1
  BY <1>2, <1>3 DEF u1
<1>5. ASSUME NEW time \in 1..moment
      PROVE  Cardinality({i \in CountedIn(searchLog, time) : searchLog[i].at <= time}) <= SearchLimit + most' - 1
  <2> DEFINE c == Cardinality({i \in CountedIn(searchLog, time) : searchLog[i].at <= time})
  <2>1. c \in Nat
    BY CountedIsFinite DEF WebTypes
  <2>2. c <= SearchLimit + most - 1
    BY DEF LimitInTime
  <2> HIDE DEF c
  <2>3. \A a, b, x, y \in Nat : x <= a + b - 1 /\ y >= b => x <= a + y - 1
    OBVIOUS
  <2>4. c <= SearchLimit + most' - 1
    BY <2>1, <2>2, <2>3, <1>2
  <2> QED
    BY <2>4 DEF c
<1> QED
  BY <1>4, <1>5 DEF LimitInTime, Refusals, n, u1

\* With time fewer rows count.
LEMMA TimeKeepsLimit ==
  ASSUME WebAssumption, WebTypes, LimitInTime, Refusals, MomentPasses
  PROVE  LimitInTime' /\ Refusals'
<1>1. /\ moment \in Nat /\ moment' = moment + 1 /\ UNCHANGED <<searchLog, search, most>>
      /\ searchLog \in Seq(SearchRow)
  BY DEF MomentPasses, WebTypes
<1>2. \A i \in 1..Len(searchLog) : searchLog[i].at \in 1..moment
  <2> TAKE i \in 1..Len(searchLog)
  <2>1. searchLog[i] \in SearchRow
    BY <1>1
  <2> QED
    BY <2>1 DEF SearchRow
<1>3. CountedIn(searchLog, moment + 1) \subseteq CountedIn(searchLog, moment)
  BY <1>1, <1>2 DEF CountedIn, WebAssumption
<1> DEFINE c == Cardinality(CountedIn(searchLog, moment))
           d == Cardinality(CountedIn(searchLog, moment + 1))
           u == Cardinality(UnderWay(search))
<1>4. d <= c /\ c \in Nat /\ d \in Nat
  BY <1>1, <1>3, CountedIsFinite, FS_Subset
<1>5. u \in Nat /\ u <= most /\ c + u <= SearchLimit + most - 1 /\ SearchLimit \in Nat /\ most \in Nat
  BY UnderWayIs DEF LimitInTime, WebAssumption, WebTypes
<1> HIDE DEF c, d, u
<1>6. d + u <= SearchLimit + most - 1 /\ d <= SearchLimit + most - 1
  BY <1>4, <1>5
<1>7. ASSUME NEW time \in 1..moment + 1
      PROVE  Cardinality({i \in CountedIn(searchLog, time) : searchLog[i].at <= time}) <= SearchLimit + most - 1
  <2>1. CASE time \in 1..moment
    BY <2>1 DEF LimitInTime
  <2>2. CASE time = moment + 1
    <3>1. \A i \in CountedIn(searchLog, time) : searchLog[i].at <= time
      BY <2>2, <1>1, <1>2 DEF CountedIn
    <3>2. {i \in CountedIn(searchLog, time) : searchLog[i].at <= time} = CountedIn(searchLog, moment + 1)
      BY <3>1, <2>2
    <3> QED
      BY <3>2, <1>6 DEF d
  <2> QED
    BY <2>1, <2>2, <1>1
<1> QED
  BY <1>1, <1>5, <1>6, <1>7 DEF LimitInTime, Refusals, d, u

-----------------------------------------------------------------------------
\* What is stored is the latest while searches do not overlap, if what was
\* found in this step was found now.
LEMMA LatestStaysSo ==
  ASSUME WebTypes, LatestInv, most' \in Nat \ {0}, most' >= most, UNCHANGED <<results, newest>>,
         \A s \in Searchers : search'[s].at = "embed" =>
           \/ search[s].at = "embed" /\ search'[s].found = search[s].found
           \/ search'[s].found = moment
  PROVE  LatestInv'
<1>1. most' = 1 => most = 1
  BY DEF WebTypes
<1>2. \A u \in Urls : newest[u] <= moment
  BY DEF WebTypes
<1> QED
  BY <1>1, <1>2 DEF LatestInv

\* Of two searches that are under way one makes the other no longer the only one.
LEMMA AloneIfOne ==
  ASSUME WebAssumption, WebTypes, LimitInTime, most = 1,
         NEW s \in UnderWay(search), NEW t \in UnderWay(search)
  PROVE  s = t
<1>1. SUFFICES ASSUME s # t PROVE FALSE
  OBVIOUS
<1>2. {s, t} \subseteq UnderWay(search) /\ IsFiniteSet(UnderWay(search))
  BY UnderWayIs
<1>3. Cardinality({s, t}) <= Cardinality(UnderWay(search))
  BY <1>2, FS_Subset
<1>4. Cardinality({s, t}) = 2
  <2>1. Cardinality({s}) = 1 /\ IsFiniteSet({s}) /\ t \notin {s}
    BY <1>1, FS_Singleton
  <2>2. Cardinality({s} \cup {t}) = Cardinality({s}) + 1
    BY <2>1, FS_AddElement
  <2>3. {s} \cup {t} = {s, t}
    OBVIOUS
  <2> QED
    BY <2>1, <2>2, <2>3
<1>5. Cardinality(UnderWay(search)) \in Nat /\ Cardinality(UnderWay(search)) <= 1
  BY UnderWayIs DEF LimitInTime
<1> QED
  BY <1>3, <1>4, <1>5

\* What is stored is the latest, while searches do not overlap.
LEMMA StoreIs ==
  ASSUME WebAssumption, WebTypes, LimitInTime, LatestInv, NEW s \in Searchers, search[s].at = "embed",
         Store(s), UNCHANGED most,
         \A t \in Searchers : t # s => search'[t] = search[t], search'[s].at # "embed"
  PROVE  /\ results' \in [Urls -> 0..moment] /\ newest' \in [Urls -> 0..moment]
         /\ LatestInv'
         /\ search[s].source = "api" => upserted' = Cardinality(search[s].hits)
         /\ upserted' \in 0..Cardinality(Urls)
<1> DEFINE hits == search[s].hits
           found == search[s].found
<1>1. hits \in SUBSET Urls /\ found \in 0..moment
  BY DEF WebTypes, SearchState
<1>2. /\ results' = [u \in Urls |-> IF u \in hits THEN found ELSE results[u]]
      /\ newest' = [u \in Urls |-> IF u \in hits /\ found > newest[u] THEN found ELSE newest[u]]
      /\ upserted' = IF search[s].source = "api" THEN Cardinality(hits) ELSE upserted
  BY DEF Store, Count
<1> HIDE DEF hits, found
<1>3. results \in [Urls -> 0..moment] /\ newest \in [Urls -> 0..moment]
  BY DEF WebTypes
<1>4. results' \in [Urls -> 0..moment] /\ newest' \in [Urls -> 0..moment]
  BY <1>1, <1>2, <1>3
<1>5. upserted' \in 0..Cardinality(Urls)
  <2>1. Cardinality(hits) \in 0..Cardinality(Urls)
    BY <1>1, FS_Subset, FS_CardinalityType DEF WebAssumption
  <2> QED
    BY <1>2, <2>1 DEF WebTypes
<1>6. ASSUME most = 1, NEW u \in Urls
      PROVE  /\ results'[u] >= newest'[u]
             /\ \A t \in Searchers : search'[t].at # "embed"
  <2>1. results[u] >= newest[u] /\ found >= newest[u]
    BY <1>6 DEF LatestInv, found
  <2>2. results'[u] >= newest'[u]
    BY <1>1, <1>2, <1>3, <2>1
  <2>3. ASSUME NEW t \in Searchers, search'[t].at = "embed"
        PROVE  FALSE
    <3>1. t # s /\ search[t].at = "embed"
      BY <2>3
    <3>2. t \in UnderWay(search) /\ s \in UnderWay(search)
      BY <3>1 DEF UnderWay
    <3> QED
      BY <1>6, <3>1, <3>2, AloneIfOne
  <2> QED
    BY <2>2, <2>3
<1> QED
  BY <1>2, <1>4, <1>5, <1>6 DEF LatestInv, hits
-----------------------------------------------------------------------------
\* The states a search is put to without anything found yet.
LEMMA NothingFound ==
  ASSUME WebAssumption, WebTypes, NEW at \in {"idle", "topic", "context", "call", "embed"},
         NEW source \in {"none", "api", "agent", "scheduler"}
  PROVE  [at |-> at, source |-> source, hits |-> {}, found |-> 0] \in SearchState
<1>1. 0 \in 0..moment
  BY DEF WebTypes, WebAssumption
<1> QED
  BY <1>1 DEF SearchState

\* A search that is put to another state stays typed.
LEMMA SearchStateIs ==
  ASSUME WebAssumption, WebTypes, NEW s \in Searchers, NEW state \in SearchState
  PROVE  [search EXCEPT ![s] = state] \in [Searchers -> SearchState]
BY DEF WebTypes

\* It holds at the start, and each action of the module keeps it.
LEMMA WebInit_Inv ==
  ASSUME WebAssumption, WebInit
  PROVE  WebInv
<1>1. UnderWay(search) = {} /\ Cardinality({}) = 0 /\ IsFiniteSet({})
  BY FS_EmptySet DEF WebInit, UnderWay, NoSearch
<1>2. \A time : CountedIn(searchLog, time) = {}
  BY DEF WebInit, CountedIn
<1>3. Cardinality(Urls) \in Nat
  BY FS_CardinalityType DEF WebAssumption
<1>4. WebTypes
  BY <1>3 DEF WebInit, WebTypes, WebAssumption, SearchState, DigestState, NoSearch, NoDigest
<1>5. LimitInTime
  <2>1. \A time : {i \in CountedIn(searchLog, time) : searchLog[i].at <= time} = {}
    BY <1>2
  <2>2. Cardinality(UnderWay(search)) = 0 /\ Cardinality(CountedIn(searchLog, moment)) = 0
    BY <1>1, <1>2
  <2>3. most = 1 /\ 0 <= most /\ 0 + 0 <= SearchLimit + most - 1 /\ 0 <= SearchLimit + most - 1
    BY DEF WebInit, WebAssumption
  <2>4. \A time \in 1..moment :
          Cardinality({i \in CountedIn(searchLog, time) : searchLog[i].at <= time}) <= SearchLimit + most - 1
    BY <1>1, <2>1, <2>3
  <2> QED
    BY <2>2, <2>3, <2>4 DEF LimitInTime
<1>6. Refusals /\ OwnCountTold
  BY DEF WebInit, Refusals, OwnCountTold
<1>7. DigestInv /\ LatestInv
  BY DEF WebInit, DigestInv, LatestInv, NoSearch, NoDigest
<1> QED
  BY <1>4, <1>5, <1>6, <1>7 DEF WebInv

\* What a check leaves: a refusal, or a search that is under way.
LEMMA CheckKeeps ==
  ASSUME WebAssumption, WebInv, NEW s \in Searchers, search[s].at \notin {"call", "embed"},
         NEW source \in {"api", "agent", "scheduler"}, CheckRate(s, source),
         source = "scheduler" => digest.at \in {"waits", "lost"},
         UNCHANGED <<moment, results, newest, upserted, digest, reports>>, begun' \in Nat
  PROVE  WebInv'
<1> USE DEF WebInv
<1>1. /\ moment \in 1..MaxMoment /\ searchLog \in Seq(SearchRow) /\ search \in [Searchers -> SearchState]
      /\ most \in Nat \ {0}
  BY DEF WebTypes
<1>2. CASE OverLimit /\ AddRow("rate_limited") /\ Becomes(s, NoSearch) /\ UNCHANGED most
  <2>1. search' = [search EXCEPT ![s] = NoSearch]
    BY <1>2 DEF Becomes
  <2>2. UnderWay(search') = UnderWay(search)
    BY <1>1, <2>1 DEF UnderWay, NoSearch
  <2>3. LimitInTime' /\ Refusals'
    BY <1>2, <2>2, RowRefused
  <2>4. searchLog' \in Seq(SearchRow)
    BY <1>1, <1>2 DEF AddRow, SearchRow
  <2>5. search' \in [Searchers -> SearchState]
    BY <2>1, NothingFound, SearchStateIs DEF NoSearch
  <2>6. WebTypes'
    BY <1>2, <2>4, <2>5 DEF WebTypes, SearchRow, SearchState, DigestState
  <2>7. DigestInv' /\ OwnCountTold'
    BY <1>1, <2>1 DEF DigestInv, OwnCountTold, NoSearch
  <2>8. LatestInv'
    BY <1>1, <1>2, <2>1, LatestStaysSo DEF NoSearch
  <2> QED
    BY <2>3, <2>6, <2>7, <2>8
<1>3. CASE /\ ~ OverLimit /\ UNCHANGED searchLog
           /\ Becomes(s, [at |-> "call", source |-> source, hits |-> {}, found |-> 0])
           /\ LET n == Cardinality(UnderWay(search')) IN most' = IF n > most THEN n ELSE most
  <2>1. search' = [search EXCEPT ![s] = [at |-> "call", source |-> source, hits |-> {}, found |-> 0]]
    BY <1>3 DEF Becomes
  <2>2. most' \in Nat \ {0} /\ most' >= most /\ most' >= Cardinality(UnderWay(search'))
    <3> DEFINE n == Cardinality(UnderWay(search'))
    <3>1. n \in Nat /\ most' = IF n > most THEN n ELSE most
      BY <1>3, UnderWayIs
    <3> HIDE DEF n
    <3>2. most' \in Nat \ {0} /\ most' >= most /\ most' >= n
      BY <1>1, <3>1
    <3> QED
      BY <3>2 DEF n
  <2>3. LimitInTime' /\ Refusals'
    BY <1>3, <2>2, SearchAdmitted
  <2>4. search' \in [Searchers -> SearchState]
    BY <2>1, NothingFound, SearchStateIs
  <2>5. WebTypes'
    BY <1>3, <2>2, <2>4 DEF WebTypes, SearchRow, SearchState, DigestState
  <2>6. DigestInv' /\ OwnCountTold'
    BY <1>1, <2>1 DEF DigestInv, OwnCountTold
  <2>7. LatestInv'
    BY <1>1, <2>1, <2>2, LatestStaysSo
  <2> QED
    BY <2>3, <2>5, <2>6, <2>7
<1> QED
  BY <1>2, <1>3 DEF CheckRate

\* Searches that are only put to their next step, or back to none, disturb
\* nothing but themselves.
LEMMA QuietKeeps ==
  ASSUME WebAssumption, WebInv, search' \in [Searchers -> SearchState],
         UNCHANGED <<moment, searchLog, results, newest, upserted, most, reports>>, begun' \in Nat,
         UnderWay(search') \subseteq UnderWay(search), digest' \in DigestState, DigestInv',
         \A s \in Searchers : search'[s].at = "embed" =>
           \/ search[s].at = "embed" /\ search'[s].found = search[s].found
           \/ search'[s].found = moment
  PROVE  WebInv'
<1> USE DEF WebInv
<1>1. LimitInTime' /\ Refusals'
  BY LimitStays
<1>2. WebTypes' /\ OwnCountTold'
  BY DEF WebTypes, OwnCountTold, SearchRow, SearchState, DigestState
<1>3. LatestInv'
  BY LatestStaysSo DEF WebTypes
<1> QED
  BY <1>1, <1>2, <1>3

\* Each action keeps the invariant: the agent is asked,
LEMMA RunKeeps ==
  ASSUME WebAssumption, WebInv, NEW s \in Searchers, RunAgent(s)
  PROVE  WebInv'
<1>1. search' = [search EXCEPT ![s] = [NoSearch EXCEPT !.at = "context", !.source = "agent"]]
  BY DEF RunAgent, Becomes
<1>2. search \in [Searchers -> SearchState] /\ digest \in DigestState /\ begun \in Nat
  BY DEF WebInv, WebTypes
<1>3. search' \in [Searchers -> SearchState]
  <2>1. NoSearch \in SearchState
    BY NothingFound DEF NoSearch, WebInv
  <2>2. [NoSearch EXCEPT !.at = "context", !.source = "agent"] \in SearchState
    BY <2>1 DEF SearchState
  <2> QED
    BY <1>1, <2>2, SearchStateIs DEF WebInv
<1>4. UnderWay(search') \subseteq UnderWay(search)
  BY <1>1, <1>2 DEF UnderWay, NoSearch
<1>5. DigestInv'
  BY <1>1, <1>2 DEF WebInv, DigestInv, RunAgent, NoSearch
<1>6. \A t \in Searchers : search'[t].at = "embed" => search[t].at = "embed" /\ search'[t].found = search[t].found
  BY <1>1, <1>2 DEF NoSearch
<1>7. begun' \in Nat /\ digest' \in DigestState
  BY <1>2 DEF RunAgent, CountOne
<1>8. UNCHANGED <<moment, searchLog, results, newest, upserted, most, reports>>
  BY DEF RunAgent
<1> QED
  BY <1>3, <1>4, <1>5, <1>6, <1>7, <1>8, QuietKeeps

\* it looks at what it has,
LEMMA ContextKeeps ==
  ASSUME WebAssumption, WebInv, NEW s \in Searchers, ReadContext(s)
  PROVE  WebInv'
<1>2. search \in [Searchers -> SearchState] /\ digest \in DigestState /\ begun \in Nat
  BY DEF WebInv, WebTypes
<1>3. CASE CheckRate(s, "agent")
  BY <1>2, <1>3, CheckKeeps DEF ReadContext
<1>4. CASE Becomes(s, NoSearch) /\ UNCHANGED <<searchLog, most>>
  <2>1. search' = [search EXCEPT ![s] = NoSearch]
    BY <1>4 DEF Becomes
  <2>3. search' \in [Searchers -> SearchState]
    BY <2>1, NothingFound, SearchStateIs DEF NoSearch, WebInv
  <2>4. UnderWay(search') \subseteq UnderWay(search)
    BY <2>1, <1>2 DEF UnderWay, NoSearch
  <2>5. DigestInv'
    BY <2>1, <1>2 DEF WebInv, DigestInv, ReadContext, NoSearch
  <2> QED
    BY <1>2, <1>4, <2>1, <2>3, <2>4, <2>5, QuietKeeps DEF ReadContext, NoSearch
<1> QED
  BY <1>3, <1>4 DEF ReadContext

\* a digest begins,
LEMMA StartKeeps ==
  ASSUME WebAssumption, WebInv, StartDigest
  PROVE  WebInv'
<1>1. PICK topics \in SUBSET Searchers :
        /\ \A s \in topics : search[s].at = "idle"
        /\ search' = [s \in Searchers |-> IF s \in topics
                                          THEN [NoSearch EXCEPT !.at = "topic", !.source = "scheduler"]
                                          ELSE search[s]]
  BY DEF StartDigest
<1>2. search \in [Searchers -> SearchState] /\ digest \in DigestState /\ begun \in Nat
  BY DEF WebInv, WebTypes
<1>3. search' \in [Searchers -> SearchState]
  <2>1. NoSearch \in SearchState
    BY NothingFound DEF NoSearch, WebInv
  <2>2. [NoSearch EXCEPT !.at = "topic", !.source = "scheduler"] \in SearchState
    BY <2>1 DEF SearchState
  <2> QED
    BY <1>1, <1>2, <2>2
<1>4. UnderWay(search') \subseteq UnderWay(search)
  BY <1>1, <1>2 DEF UnderWay, NoSearch
<1>5. digest' = [at |-> "waits", told |-> {}, given |-> {}, raised |-> FALSE]
  BY DEF StartDigest, NoDigest
<1>6. DigestInv'
  BY <1>1, <1>2, <1>5 DEF WebInv, DigestInv, NoSearch
<1>7. \A t \in Searchers : search'[t].at = "embed" => search[t].at = "embed" /\ search'[t].found = search[t].found
  BY <1>1, <1>2 DEF NoSearch
<1>8. begun' \in Nat /\ digest' \in DigestState
  <2>1. begun' \in Nat
    BY <1>2 DEF StartDigest, CountOne
  <2> QED
    BY <1>5, <2>1 DEF DigestState
<1>9. UNCHANGED <<moment, searchLog, results, newest, upserted, most, reports>>
  BY DEF StartDigest
<1> QED
  BY <1>3, <1>4, <1>6, <1>7, <1>8, <1>9, QuietKeeps

\* a digest ends,
LEMMA DigestEndKeeps ==
  ASSUME WebAssumption, WebInv, EndDigest
  PROVE  WebInv'
<1>1. search \in [Searchers -> SearchState] /\ digest \in DigestState /\ begun \in Nat
  BY DEF WebInv, WebTypes
<1>2. digest' \in DigestState
  BY <1>1 DEF EndDigest, DigestState
<1>3. DigestInv'
  BY <1>1 DEF WebInv, DigestInv, EndDigest, DigestState, Topics
<1> QED
  BY <1>1, <1>2, <1>3, QuietKeeps DEF EndDigest

\* time goes on,
LEMMA MomentKeeps ==
  ASSUME WebAssumption, WebInv, MomentPasses
  PROVE  WebInv'
<1> USE DEF WebInv
<1>1. moment \in 1..MaxMoment /\ moment' = moment + 1 /\ moment < MaxMoment /\ MaxMoment \in Nat
  BY DEF MomentPasses, WebTypes, WebAssumption
<1>2. 0..moment \subseteq 0..moment' /\ 1..moment \subseteq 1..moment' /\ moment' \in 1..MaxMoment
  BY <1>1
<1>3. LimitInTime' /\ Refusals'
  BY TimeKeepsLimit
<1>4. UNCHANGED <<searchLog, results, newest, search, upserted, digest, begun, most, reports>>
  BY DEF MomentPasses
<1>5. WebTypes'
  <2>1. SearchRow \subseteq SearchRow' /\ SearchState \subseteq SearchState'
    BY <1>2 DEF SearchRow, SearchState
  <2>2. searchLog' \in Seq(SearchRow')
    BY <1>4, <2>1 DEF WebTypes
  <2>3. search' \in [Searchers -> SearchState'] /\ results' \in [Urls -> 0..moment'] /\ newest' \in [Urls -> 0..moment']
    BY <1>2, <1>4, <2>1 DEF WebTypes
  <2> QED
    BY <1>2, <1>4, <2>2, <2>3 DEF WebTypes, DigestState
<1>6. OwnCountTold' /\ DigestInv' /\ LatestInv'
  BY <1>4 DEF OwnCountTold, DigestInv, LatestInv
<1> QED
  BY <1>3, <1>5, <1>6

\* A search that ends with what it gives leaves its digest told or waiting.
LEMMA GivenKeeps ==
  ASSUME WebAssumption, WebInv, NEW s \in Searchers, search[s].at # "idle", NEW hits \in SUBSET Urls, NEW stored,
         Given(s, hits, stored), search[s].source = "api" => upserted' = stored
  PROVE  /\ search' = [search EXCEPT ![s] = NoSearch] /\ search' \in [Searchers -> SearchState]
         /\ digest' \in DigestState /\ DigestInv' /\ OwnCountTold'
         /\ UnderWay(search') = UnderWay(search) \ {s}
<1>1. search \in [Searchers -> SearchState] /\ digest \in DigestState
  BY DEF WebInv, WebTypes
<1>2. /\ search' = [search EXCEPT ![s] = NoSearch]
      /\ digest' = IF search[s].source = "scheduler" THEN [digest EXCEPT !.given = @ \cup hits] ELSE digest
      /\ reports' = IF search[s].source = "api"
                    THEN reports \cup {[said |-> upserted', stored |-> stored]} ELSE reports
  BY DEF Given, Becomes
<1>3. search' \in [Searchers -> SearchState]
  BY <1>2, NothingFound, SearchStateIs DEF NoSearch, WebInv
<1>4. digest' \in DigestState
  BY <1>1, <1>2 DEF DigestState
<1>5. UnderWay(search') = UnderWay(search) \ {s}
  BY <1>1, <1>2 DEF UnderWay, NoSearch
<1>6. OwnCountTold'
  BY <1>2 DEF WebInv, OwnCountTold
<1>7. DigestInv'
  <2>1. \A t \in Searchers : search'[t].source = "scheduler" => search[t].source = "scheduler"
    BY <1>1, <1>2 DEF NoSearch
  <2>2. \A t \in Searchers : /\ search'[t].at = "idle" => search'[t].source = "none"
                             /\ search'[t].at = "topic" => search'[t].source = "scheduler"
    BY <1>1, <1>2 DEF NoSearch, WebInv, DigestInv
  <2>3. digest'.at = digest.at /\ digest'.raised = digest.raised
    BY <1>1, <1>2 DEF DigestState
  <2>4. digest.at = "told" => digest' = digest
    BY <1>2 DEF WebInv, DigestInv
  <2> QED
    BY <2>1, <2>2, <2>3, <2>4 DEF WebInv, DigestInv
<1> QED
  BY <1>2, <1>3, <1>4, <1>5, <1>6, <1>7

\* SearXNG answers,
LEMMA AnswersKeep ==
  ASSUME WebAssumption, WebInv, NEW s \in Searchers, SearxAnswers(s)
  PROVE  WebInv'
<1> USE DEF WebInv
<1>1. /\ search \in [Searchers -> SearchState] /\ digest \in DigestState /\ begun \in Nat
      /\ moment \in 1..MaxMoment /\ searchLog \in Seq(SearchRow) /\ upserted \in 0..Cardinality(Urls)
  BY DEF WebTypes
<1>2. UNCHANGED <<moment, results, newest, begun, most>> /\ search[s].at = "call"
  BY DEF SearxAnswers
<1>3. CASE AddRow("ok") /\ Count(s, 0) /\ Given(s, {}, 0)
  <2>1. upserted' \in 0..Cardinality(Urls) /\ (search[s].source = "api" => upserted' = 0)
    <3>1. Cardinality(Urls) \in Nat
      BY FS_CardinalityType DEF WebAssumption
    <3> QED
      BY <1>1, <1>3, <3>1 DEF Count
  <2>2. /\ search' = [search EXCEPT ![s] = NoSearch] /\ search' \in [Searchers -> SearchState]
        /\ digest' \in DigestState /\ DigestInv' /\ OwnCountTold'
        /\ UnderWay(search') = UnderWay(search) \ {s}
    BY <1>2, <1>3, <2>1, GivenKeeps
  <2>3. s \in UnderWay(search)
    BY <1>2 DEF UnderWay
  <2>4. LimitInTime' /\ Refusals'
    BY <1>2, <1>3, <2>2, <2>3, RowAdded
  <2>5. searchLog' \in Seq(SearchRow)
    BY <1>1, <1>3 DEF AddRow, SearchRow
  <2>6. WebTypes'
    BY <1>2, <2>1, <2>2, <2>5 DEF WebTypes, SearchRow, SearchState, DigestState
  <2>7. LatestInv'
    BY <1>1, <1>2, <2>2, LatestStaysSo DEF NoSearch, WebTypes
  <2> QED
    BY <2>2, <2>4, <2>6, <2>7
<1>4. ASSUME NEW hits \in SUBSET Urls,
             Becomes(s, [search[s] EXCEPT !.at = "embed", !.hits = hits, !.found = moment]),
             UNCHANGED <<searchLog, upserted, digest, reports>>
      PROVE  WebInv'
  <2>1. search' = [search EXCEPT ![s] = [search[s] EXCEPT !.at = "embed", !.hits = hits, !.found = moment]]
    BY <1>4 DEF Becomes
  <2>2. search' \in [Searchers -> SearchState]
    <3>1. moment \in 0..moment /\ search[s] \in SearchState
      BY <1>1 DEF WebAssumption
    <3>2. [search[s] EXCEPT !.at = "embed", !.hits = hits, !.found = moment] \in SearchState
      BY <3>1 DEF SearchState
    <3> QED
      BY <2>1, <3>2, SearchStateIs
  <2>3. UnderWay(search') \subseteq UnderWay(search)
    BY <1>1, <1>2, <2>1 DEF UnderWay
  <2>4. \A t \in Searchers : search'[t].at = "embed" =>
           \/ search[t].at = "embed" /\ search'[t].found = search[t].found
           \/ search'[t].found = moment
    BY <1>1, <2>1 DEF SearchState
  <2>5. DigestInv'
    <3>1. \A t \in Searchers : /\ search'[t].source = search[t].source
                               /\ search'[t].at \in {"idle", "topic"} => search[t].at = search'[t].at
      BY <1>1, <2>1 DEF SearchState
    <3> QED
      BY <3>1, <1>4 DEF DigestInv
  <2>6. begun' \in Nat /\ digest' \in DigestState
    BY <1>1, <1>2, <1>4
  <2> QED
    BY <1>2, <1>4, <2>2, <2>3, <2>4, <2>5, <2>6, QuietKeeps
<1> QED
  BY <1>3, <1>4 DEF SearxAnswers

\* it is not there,
LEMMA UnavailableKeeps ==
  ASSUME WebAssumption, WebInv, NEW s \in Searchers, Unavailable(s)
  PROVE  WebInv'
<1> USE DEF WebInv
<1>1. /\ search \in [Searchers -> SearchState] /\ searchLog \in Seq(SearchRow) /\ moment \in 1..MaxMoment
  BY DEF WebTypes
<1>2. /\ UNCHANGED <<moment, results, newest, upserted, digest, begun, most, reports>>
      /\ search' = [search EXCEPT ![s] = NoSearch] /\ search[s].at = "call" /\ AddRow("error")
  BY DEF Unavailable, Becomes
<1>3. UnderWay(search') = UnderWay(search) \ {s} /\ s \in UnderWay(search)
  BY <1>1, <1>2 DEF UnderWay, NoSearch
<1>4. LimitInTime' /\ Refusals'
  BY <1>2, <1>3, RowAdded
<1>5. searchLog' \in Seq(SearchRow) /\ search' \in [Searchers -> SearchState]
  <2>1. searchLog' \in Seq(SearchRow)
    BY <1>1, <1>2 DEF AddRow, SearchRow
  <2> QED
    BY <2>1, <1>2, NothingFound, SearchStateIs DEF NoSearch
<1>6. WebTypes'
  BY <1>2, <1>5 DEF WebTypes, SearchRow, SearchState, DigestState
<1>7. DigestInv' /\ OwnCountTold'
  BY <1>1, <1>2 DEF DigestInv, OwnCountTold, NoSearch
<1>8. LatestInv'
  BY <1>1, <1>2, LatestStaysSo DEF NoSearch, WebTypes
<1> QED
  BY <1>4, <1>6, <1>7, <1>8

\* a search fails,
LEMMA FailsKeeps ==
  ASSUME WebAssumption, WebInv, NEW s \in Searchers, SearchFails(s)
  PROVE  WebInv'
<1> USE DEF WebInv
<1>1. /\ search \in [Searchers -> SearchState] /\ digest \in DigestState /\ begun \in Nat
      /\ moment \in 1..MaxMoment
  BY DEF WebTypes
<1>2. /\ UNCHANGED <<moment, searchLog, begun, most, reports>>
      /\ search' = [search EXCEPT ![s] = NoSearch] /\ search[s].at \in {"call", "embed"}
      /\ digest' = IF search[s].source = "scheduler" THEN [digest EXCEPT !.raised = TRUE] ELSE digest
  BY DEF SearchFails, Becomes
<1>3. search' \in [Searchers -> SearchState]
  BY <1>2, NothingFound, SearchStateIs DEF NoSearch
<1>4. UnderWay(search') \subseteq UnderWay(search)
  BY <1>1, <1>2 DEF UnderWay, NoSearch
<1>5. digest' \in DigestState
  BY <1>1, <1>2 DEF DigestState
<1>6. DigestInv'
  <2>1. \A t \in Searchers : search'[t].source = "scheduler" => search[t].source = "scheduler"
    BY <1>1, <1>2 DEF NoSearch
  <2>2. \A t \in Searchers : /\ search'[t].at = "idle" => search'[t].source = "none"
                             /\ search'[t].at = "topic" => search'[t].source = "scheduler"
    BY <1>1, <1>2 DEF NoSearch, DigestInv
  <2>3. digest'.at = digest.at /\ (digest.raised => digest'.raised)
    BY <1>1, <1>2 DEF DigestState
  <2>4. digest.at = "told" => digest' = digest
    BY <1>2 DEF DigestInv
  <2> QED
    BY <2>1, <2>2, <2>3, <2>4 DEF DigestInv
<1>7. CASE UNCHANGED <<results, upserted, newest>>
  <2>1. \A t \in Searchers : search'[t].at = "embed" => search[t].at = "embed" /\ search'[t].found = search[t].found
    BY <1>1, <1>2 DEF NoSearch
  <2>2. begun' \in Nat
    BY <1>1, <1>2
  <2> QED
    BY <1>2, <1>3, <1>4, <1>5, <1>6, <1>7, <2>1, <2>2, QuietKeeps
<1>8. CASE search[s].at = "embed" /\ Store(s)
  <2>1. /\ results' \in [Urls -> 0..moment] /\ newest' \in [Urls -> 0..moment] /\ LatestInv'
        /\ upserted' \in 0..Cardinality(Urls)
    <3>1. (\A t \in Searchers : t # s => search'[t] = search[t]) /\ search'[s].at # "embed"
      BY <1>1, <1>2 DEF NoSearch
    <3> QED
      BY <1>2, <1>8, <3>1, StoreIs
  <2>2. LimitInTime' /\ Refusals'
    BY <1>2, <1>4, LimitStays
  <2>3. WebTypes' /\ OwnCountTold'
    BY <1>2, <1>3, <1>5, <2>1 DEF WebTypes, OwnCountTold, SearchRow, SearchState, DigestState
  <2> QED
    BY <1>6, <2>1, <2>2, <2>3
<1> QED
  BY <1>7, <1>8 DEF SearchFails

\* and one ends with what it has stored.
LEMMA UpsertKeeps ==
  ASSUME WebAssumption, WebInv, NEW s \in Searchers, UpsertResults(s)
  PROVE  WebInv'
<1> USE DEF WebInv
<1>1. /\ search \in [Searchers -> SearchState] /\ searchLog \in Seq(SearchRow) /\ moment \in 1..MaxMoment
  BY DEF WebTypes
<1>2. /\ UNCHANGED <<moment, begun, most>> /\ search[s].at = "embed" /\ Store(s) /\ AddRow("ok")
      /\ Given(s, search[s].hits, Cardinality(search[s].hits))
  BY DEF UpsertResults
<1>3. search[s].hits \in SUBSET Urls
  BY <1>1 DEF SearchState
<1>4. search[s].source = "api" => upserted' = Cardinality(search[s].hits)
  BY <1>2 DEF Store, Count
<1>5. /\ search' = [search EXCEPT ![s] = NoSearch] /\ search' \in [Searchers -> SearchState]
      /\ digest' \in DigestState /\ DigestInv' /\ OwnCountTold'
      /\ UnderWay(search') = UnderWay(search) \ {s}
  BY <1>2, <1>3, <1>4, GivenKeeps
<1>6. s \in UnderWay(search)
  BY <1>2 DEF UnderWay
<1>7. LimitInTime' /\ Refusals'
  BY <1>2, <1>5, <1>6, RowAdded
<1>8. /\ results' \in [Urls -> 0..moment] /\ newest' \in [Urls -> 0..moment] /\ LatestInv'
      /\ upserted' \in 0..Cardinality(Urls)
  <2>1. (\A t \in Searchers : t # s => search'[t] = search[t]) /\ search'[s].at # "embed"
    BY <1>1, <1>5 DEF NoSearch
  <2> QED
    BY <1>2, <2>1, StoreIs
<1>9. searchLog' \in Seq(SearchRow)
  BY <1>1, <1>2 DEF AddRow, SearchRow
<1>10. WebTypes'
  BY <1>2, <1>5, <1>8, <1>9 DEF WebTypes, SearchRow, SearchState, DigestState
<1> QED
  BY <1>5, <1>7, <1>8, <1>10

\* So every step keeps it.
LEMMA WebNext_Inv ==
  ASSUME WebAssumption, WebInv, [WebNext]_webVars
  PROVE  WebInv'
<1>1. begun \in Nat
  BY DEF WebInv, WebTypes
<1>2. ASSUME NEW s \in Searchers, PostSearch(s)
      PROVE  WebInv'
  <2>1. begun' \in Nat
    BY <1>1, <1>2 DEF PostSearch, CountOne
  <2> QED
    BY <1>2, <2>1, CheckKeeps DEF PostSearch
<1>3. ASSUME NEW s \in Searchers, SearchTopic(s)
      PROVE  WebInv'
  <2>1. digest.at \in {"waits", "lost"}
    BY <1>3 DEF SearchTopic, WebInv, DigestInv
  <2> QED
    BY <1>1, <1>3, <2>1, CheckKeeps DEF SearchTopic
<1>4. CASE UNCHANGED webVars
  <2>1. UNCHANGED <<moment, searchLog, results, search, upserted, digest, begun, most, newest, reports>>
    BY <1>4 DEF webVars
  <2>2. search' \in [Searchers -> SearchState] /\ digest' \in DigestState /\ DigestInv'
    BY <2>1 DEF WebInv, WebTypes, DigestInv
  <2>3. UnderWay(search') = UnderWay(search)
    BY <2>1
  <2> QED
    BY <1>1, <2>1, <2>2, <2>3, QuietKeeps
<1> QED
  BY <1>2, <1>3, <1>4, MomentKeeps, StartKeeps, DigestEndKeeps, RunKeeps, ContextKeeps, AnswersKeep,
    UnavailableKeeps, FailsKeeps, UpsertKeeps DEF WebNext

\* And it implies what is promised.
LEMMA WebInv_Safe ==
  ASSUME WebAssumption, WebInv
  PROVE  WebSearchSafe
<1> USE DEF WebInv
<1>1. searchLog \in Seq(SearchRow) /\ search \in [Searchers -> SearchState] /\ digest \in DigestState
  BY DEF WebTypes
<1>2. \A time : CountedAt(time) = CountedIn(searchLog, time)
  BY <1>1 DEF CountedAt, CountedIn, InWindow
<1>3. WebTypeOK
  <2>1. \A i \in DOMAIN searchLog : searchLog[i] \in SearchRow
    BY <1>1
  <2> QED
    BY <1>1, <2>1 DEF WebTypes, WebTypeOK, SearchRow, SearchState, DigestState
<1>4. LimitHolds
  BY <1>2 DEF LimitHolds, LimitInTime
<1>5. RefusedForSearches
  BY <1>1, <1>2 DEF RefusedForSearches, Refusals
<1>6. DigestTellsAll
  BY DEF DigestTellsAll, DigestInv, Topics
<1>7. LatestStays
  <2> SUFFICES ASSUME NEW u \in Urls PROVE results[u] < newest[u] => most > 1
    BY DEF LatestStays
  <2>1. results[u] \in 0..moment /\ newest[u] \in 0..moment /\ most \in Nat \ {0}
    BY DEF WebTypes
  <2>2. moment \in Nat
    BY DEF WebTypes, WebAssumption
  <2>3. most = 1 => results[u] >= newest[u]
    BY DEF LatestInv
  <2>4. results[u] < newest[u] => most > 1
    BY <2>1, <2>2, <2>3
  <2> QED
    BY <2>4
<1> QED
  BY <1>3, <1>4, <1>5, <1>6, <1>7 DEF WebSearchSafe

-----------------------------------------------------------------------------
(* The cache of vectors (EmbeddingCache)                                   *)

Vector == [word : Words, time : Nat, put : Nat]
Finding == [word : Words \cup {"none"}, age : 0..Ttl]
Asked ==
  [at : {"idle", "get", "embed", "put"}, words : Seq(Words), found : Seq(Finding),
   new : Seq(Words), stored : Nat]

\* One vector for each of the texts used last, in their order.
Ordered(vs, ws) ==
  /\ ws \in Seq(Words) /\ \A i, j \in 1..Len(ws) : ws[i] = ws[j] => i = j
  /\ vs \in Seq(Vector) /\ Len(vs) <= Len(ws)
  /\ \A i \in 1..Len(vs) : vs[i].word = ws[Len(ws) - Len(vs) + i]

\* The lengths of an order are numbers.
LEMMA OrderedLens ==
  ASSUME NEW vs, NEW ws, Ordered(vs, ws)
  PROVE  vs \in Seq(Vector) /\ Len(vs) \in Nat /\ Len(ws) \in Nat
<1>1. vs \in Seq(Vector) /\ ws \in Seq(Words)
  BY DEF Ordered
<1> QED
  BY <1>1

\* None was put later than at this hour, or has been given another time.
Honest(vs, h) == \A i \in 1..Len(vs) : vs[i].time <= h /\ vs[i].put = vs[i].time

OrderInv ==
  /\ hour \in Nat
  /\ Ordered(vectors, wordsUsed) /\ Len(vectors) <= MaxVectors /\ Honest(vectors, hour)

\* The texts f has missed up to i.
MissedTo(f, i) == {j \in 1..i : f[j] = Miss}

\* What a request has found is of its texts, and what was computed is of those
\* it has missed, in their order.
AnsweredFor(r) ==
  /\ Len(r.found) <= Len(r.words) /\ r.stored <= Len(r.new)
  /\ \A i \in 1..Len(r.found) : r.found[i] = Miss \/ r.found[i].word = r.words[i]
  /\ r.at = "get" => Len(r.found) < Len(r.words) /\ r.stored = 0
  /\ r.at = "embed" => Len(r.found) = Len(r.words) /\ r.stored = 0
  /\ r.at = "put" =>
       /\ Len(r.found) = Len(r.words)
       /\ \A i \in 1..Len(r.words) :
            r.found[i] = Miss =>
              /\ Cardinality(MissedTo(r.found, i)) \in 1..Len(r.new)
              /\ r.new[Cardinality(MissedTo(r.found, i))] = r.words[i]

RequestsInv ==
  /\ request \in [Embedders -> Asked]
  /\ \A q \in Embedders : AnsweredFor(request[q])

CacheInv == OrderInv /\ RequestsInv

-----------------------------------------------------------------------------
\* What a sequence is without one of its places, or without none.
LEMMA PopIs ==
  ASSUME NEW T, NEW s \in Seq(T), NEW places \in SUBSET (1..Len(s))
  PROVE  \/ places = {} /\ Pop(s, places) = s
         \/ \E i \in places :
              /\ Pop(s, places) \in Seq(T) /\ Len(Pop(s, places)) = Len(s) - 1
              /\ \A k \in 1..Len(s) - 1 : Pop(s, places)[k] = IF k < i THEN s[k] ELSE s[k + 1]
<1>1. CASE places = {}
  BY <1>1 DEF Pop
<1>2. CASE places # {}
  <2> DEFINE i == CHOOSE j \in places : TRUE
  <2>1. i \in places
    BY <1>2
  <2>2. Pop(s, places) = SubSeq(s, 1, i - 1) \o SubSeq(s, i + 1, Len(s))
    BY <1>2 DEF Pop, RemoveAt
  <2> HIDE DEF i
  <2>3. i \in 1..Len(s) /\ Len(s) \in Nat
    BY <2>1
  <2>4. /\ SubSeq(s, 1, i - 1) \in Seq(T) /\ Len(SubSeq(s, 1, i - 1)) = i - 1
        /\ \A k \in 1..i - 1 : SubSeq(s, 1, i - 1)[k] = s[k]
    BY <2>3
  <2>5. /\ SubSeq(s, i + 1, Len(s)) \in Seq(T) /\ Len(SubSeq(s, i + 1, Len(s))) = Len(s) - i
        /\ \A k \in 1..Len(s) - i : SubSeq(s, i + 1, Len(s))[k] = s[i + k]
    BY <2>3
  <2>6. /\ Pop(s, places) \in Seq(T) /\ Len(Pop(s, places)) = Len(s) - 1
        /\ \A k \in 1..Len(s) - 1 : Pop(s, places)[k] = IF k < i THEN s[k] ELSE s[k + 1]
    <3> DEFINE a == SubSeq(s, 1, i - 1)
               b == SubSeq(s, i + 1, Len(s))
    <3>1. a \in Seq(T) /\ b \in Seq(T) /\ Len(a) = i - 1 /\ Len(b) = Len(s) - i
      BY <2>4, <2>5
    <3>2. \A k \in 1..i - 1 : a[k] = s[k]
      BY <2>4
    <3>3. \A k \in 1..Len(s) - i : b[k] = s[i + k]
      BY <2>5
    <3>4. Pop(s, places) = a \o b
      BY <2>2
    <3> HIDE DEF a, b
    <3>5. Len(a \o b) = Len(s) - 1 /\ a \o b \in Seq(T)
      <4>1. a \o b \in Seq(T) /\ Len(a \o b) = Len(a) + Len(b)
        BY <3>1, ConcatProperties
      <4> QED
        BY <4>1, <3>1, <2>3
    <3>6. ASSUME NEW k \in 1..Len(s) - 1
          PROVE  (a \o b)[k] = IF k < i THEN s[k] ELSE s[k + 1]
      <4>1. (a \o b)[k] = IF k <= Len(a) THEN a[k] ELSE b[k - Len(a)]
        BY <3>1, <2>3
      <4>2. CASE k < i
        BY <4>1, <4>2, <3>1, <3>2, <2>3
      <4>3. CASE ~ (k < i)
        <5>1. k - Len(a) \in 1..Len(s) - i /\ i + (k - Len(a)) = k + 1 /\ ~ (k <= Len(a))
          BY <4>3, <3>1, <2>3
        <5>2. b[k - Len(a)] = s[k + 1]
          BY <5>1, <3>3
        <5> QED
          BY <4>1, <4>3, <5>1, <5>2
      <4> QED
        BY <4>2, <4>3
    <3> QED
      BY <3>4, <3>5, <3>6
  <2> QED
    BY <2>1, <2>6
<1> QED
  BY <1>1, <1>2

\* Without a text, the order is that of the others.
LEMMA DroppedKeepsOrder ==
  ASSUME NEW vs, NEW ws, Ordered(vs, ws), NEW w \in Words,
         NEW vs1, vs1 = Pop(vs, {i \in DOMAIN vs : vs[i].word = w}),
         NEW ws1, ws1 = Pop(ws, {i \in DOMAIN ws : ws[i] = w})
  PROVE  /\ Ordered(vs1, ws1)
         /\ \A i \in 1..Len(ws1) : ws1[i] # w
         /\ Len(vs1) <= Len(vs)
         /\ (\E i \in 1..Len(vs) : vs[i].word = w) => Len(vs1) = Len(vs) - 1
         /\ \A h \in Nat : Honest(vs, h) => Honest(vs1, h)
<1> DEFINE S == {i \in 1..Len(vs) : vs[i].word = w}
           W == {i \in 1..Len(ws) : ws[i] = w}
<1>0. /\ vs \in Seq(Vector) /\ ws \in Seq(Words) /\ Len(vs) \in Nat /\ Len(ws) \in Nat
      /\ Len(vs) <= Len(ws) /\ DOMAIN vs = 1..Len(vs) /\ DOMAIN ws = 1..Len(ws)
  BY DEF Ordered
<1>1. PICK n \in Nat, m \in Nat, d \in Nat : n = Len(vs) /\ m = Len(ws) /\ m = n + d
  <2>1. Len(ws) - Len(vs) \in Nat /\ Len(ws) = Len(vs) + (Len(ws) - Len(vs))
    BY <1>0
  <2> QED
    BY <1>0, <2>1
<1>2. vs1 = Pop(vs, S) /\ ws1 = Pop(ws, W)
  BY <1>0
<1>3. \A i, j \in 1..m : ws[i] = ws[j] => i = j
  BY <1>1 DEF Ordered
<1>4. \A i \in 1..n : vs[i].word = ws[d + i]
  <2>1. Len(ws) - Len(vs) = d
    BY <1>1
  <2> QED
    BY <1>1, <2>1 DEF Ordered
<1> HIDE DEF S, W
<1>5. \/ W = {} /\ ws1 = ws
      \/ \E i \in W : /\ ws1 \in Seq(Words) /\ Len(ws1) = m - 1
                      /\ \A k \in 1..m - 1 : ws1[k] = IF k < i THEN ws[k] ELSE ws[k + 1]
  <2>1. W \in SUBSET (1..Len(ws))
    BY DEF W
  <2>2. \/ W = {} /\ Pop(ws, W) = ws
        \/ \E i \in W :
             /\ Pop(ws, W) \in Seq(Words) /\ Len(Pop(ws, W)) = Len(ws) - 1
             /\ \A k \in 1..Len(ws) - 1 : Pop(ws, W)[k] = IF k < i THEN ws[k] ELSE ws[k + 1]
    BY <1>0, <2>1, PopIs
  <2> QED
    BY <1>1, <1>2, <2>2
<1>6. \/ S = {} /\ vs1 = vs
      \/ \E i \in S : /\ vs1 \in Seq(Vector) /\ Len(vs1) = n - 1
                      /\ \A k \in 1..n - 1 : vs1[k] = IF k < i THEN vs[k] ELSE vs[k + 1]
  <2>1. S \in SUBSET (1..Len(vs))
    BY DEF S
  <2>2. \/ S = {} /\ Pop(vs, S) = vs
        \/ \E i \in S :
             /\ Pop(vs, S) \in Seq(Vector) /\ Len(Pop(vs, S)) = Len(vs) - 1
             /\ \A k \in 1..Len(vs) - 1 : Pop(vs, S)[k] = IF k < i THEN vs[k] ELSE vs[k + 1]
    BY <1>0, <2>1, PopIs
  <2> QED
    BY <1>1, <1>2, <2>2
<1>7. /\ \A i \in S : i \in 1..n /\ vs[i].word = w /\ d + i \in W
      /\ \A i \in 1..n : vs[i].word = w => i \in S
      /\ \A i \in W : i \in 1..m /\ ws[i] = w
      /\ \A i \in 1..m : ws[i] = w => i \in W
  BY <1>1, <1>4 DEF S, W
<1>8. CASE W = {}
  <2>1. S = {} /\ ws1 = ws /\ vs1 = vs
    BY <1>5, <1>6, <1>7, <1>8
  <2>2. ~ \E i \in 1..n : vs[i].word = w
    BY <2>1, <1>7
  <2>3. \A i \in 1..m : ws[i] # w
    BY <1>7, <1>8
  <2>4. Len(vs) <= Len(vs)
    BY <1>0
  <2> QED
    BY <2>1, <2>2, <2>3, <2>4, <1>1
<1>9. ASSUME NEW k0 \in W, ws1 \in Seq(Words), Len(ws1) = m - 1,
             \A k \in 1..m - 1 : ws1[k] = IF k < k0 THEN ws[k] ELSE ws[k + 1]
      PROVE  /\ Ordered(vs1, ws1) /\ \A i \in 1..Len(ws1) : ws1[i] # w
             /\ Len(vs1) <= n /\ (S # {} => Len(vs1) = n - 1)
             /\ \A h \in Nat : Honest(vs, h) => Honest(vs1, h)
  <2>1. k0 \in 1..m /\ ws[k0] = w
    BY <1>7
  <2>2. \A i \in 1..m - 1 : ws1[i] # w
    BY <2>1, <1>3, <1>9, <1>1
  <2>3. \A i, j \in 1..m - 1 : ws1[i] = ws1[j] => i = j
    <3> SUFFICES ASSUME NEW i \in 1..m - 1, NEW j \in 1..m - 1, ws1[i] = ws1[j]
                 PROVE  i = j
      OBVIOUS
    <3> DEFINE up(k) == IF k < k0 THEN k ELSE k + 1
    <3>1. ws1[i] = ws[up(i)] /\ ws1[j] = ws[up(j)]
      BY <1>9
    <3>2. up(i) \in 1..m /\ up(j) \in 1..m
      BY <1>1, <2>1
    <3>3. up(i) = up(j)
      BY <3>1, <3>2, <1>3
    <3> QED
      BY <3>3, <2>1, <1>1
  <2>4. CASE S = {}
    <3>1. vs1 = vs
      BY <1>6, <2>4
    <3>2. k0 <= d
      <4>1. SUFFICES ASSUME ~ (k0 <= d) PROVE FALSE
        OBVIOUS
      <4>2. k0 - d \in 1..n /\ d + (k0 - d) = k0
        BY <4>1, <2>1, <1>1
      <4>3. vs[k0 - d].word = w
        BY <4>2, <1>4, <2>1
      <4> QED
        BY <4>2, <4>3, <2>4, <1>7
    <3>3. d - 1 \in Nat /\ m - 1 \in Nat /\ m - 1 = n + (d - 1)
      BY <3>2, <2>1, <1>1
    <3>4. \A i \in 1..n : vs1[i].word = ws1[(d - 1) + i]
      <4> TAKE i \in 1..n
      <4>1. d \in Nat /\ n \in Nat /\ m = n + d /\ k0 \in Nat /\ k0 <= d /\ d - 1 \in Nat
        BY <3>2, <3>3, <2>1, <1>1
      <4>2. (d - 1) + i >= 1 /\ (d - 1) + i <= m - 1
        BY <4>1, <3>3
      <4>3. ~ ((d - 1) + i < k0) /\ (d - 1) + i + 1 = d + i
        BY <4>1
      <4>4. (d - 1) + i \in 1..m - 1
        BY <4>1, <4>2, <3>3
      <4> QED
        BY <4>3, <4>4, <3>1, <1>4, <1>9
    <3>5. Ordered(vs1, ws1)
      <4>1. Len(ws1) - Len(vs1) = d - 1 /\ Len(vs1) <= Len(ws1)
        BY <3>1, <3>3, <1>1, <1>9
      <4>2. /\ \A i, j \in 1..Len(ws1) : ws1[i] = ws1[j] => i = j
            /\ \A i \in 1..Len(vs1) : vs1[i].word = ws1[Len(ws1) - Len(vs1) + i]
        BY <4>1, <3>1, <3>4, <2>3, <1>1, <1>9
      <4> QED
        BY <4>1, <4>2, <3>1, <1>0, <1>9 DEF Ordered
    <3> QED
      <4>1. Len(vs1) <= n
        BY <3>1, <1>1
      <4>2. \A i \in 1..Len(ws1) : ws1[i] # w
        BY <2>2, <1>9
      <4>3. \A h \in Nat : Honest(vs, h) => Honest(vs1, h)
        BY <3>1
      <4> QED
        BY <4>1, <4>2, <4>3, <3>5, <2>4
  <2>5. ASSUME NEW i0 \in S, vs1 \in Seq(Vector), Len(vs1) = n - 1,
               \A k \in 1..n - 1 : vs1[k] = IF k < i0 THEN vs[k] ELSE vs[k + 1]
        PROVE  Ordered(vs1, ws1) /\ \A h \in Nat : Honest(vs, h) => Honest(vs1, h)
    <3>1. i0 \in 1..n /\ k0 = d + i0
      BY <1>7, <1>3, <2>1
    <3>2. \A i \in 1..n - 1 : vs1[i].word = ws1[d + i]
      <4> TAKE i \in 1..n - 1
      <4>1. d + i \in 1..m - 1 /\ i \in 1..n
        BY <1>1
      <4>2. CASE i < i0
        <5>1. d + i < k0 /\ vs1[i] = vs[i]
          BY <4>2, <3>1, <2>5, <1>1
        <5> QED
          BY <5>1, <4>1, <1>4, <1>9
      <4>3. CASE ~ (i < i0)
        <5>1. i + 1 \in 1..n /\ vs1[i] = vs[i + 1] /\ ~ (d + i < k0) /\ d + (i + 1) = d + i + 1
          BY <4>3, <3>1, <2>5, <1>1
        <5>2. ws1[d + i] = ws[d + i + 1]
          BY <5>1, <4>1, <1>9
        <5> QED
          BY <5>1, <5>2, <1>4
      <4> QED
        BY <4>2, <4>3
    <3>3. n - 1 \in Nat /\ m - 1 \in Nat /\ m - 1 = (n - 1) + d
      BY <3>1, <1>1
    <3>4. Ordered(vs1, ws1)
      <4>1. Len(ws1) - Len(vs1) = d /\ Len(vs1) <= Len(ws1)
        BY <3>3, <2>5, <1>9
      <4>2. /\ \A i, j \in 1..Len(ws1) : ws1[i] = ws1[j] => i = j
            /\ \A i \in 1..Len(vs1) : vs1[i].word = ws1[Len(ws1) - Len(vs1) + i]
        BY <4>1, <3>2, <2>3, <2>5, <1>9
      <4> QED
        BY <4>1, <4>2, <2>5, <1>9 DEF Ordered
    <3>5. \A i \in 1..n - 1 : \E j \in 1..n : vs1[i] = vs[j]
      <4> TAKE i \in 1..n - 1
      <4>1. i \in 1..n /\ i + 1 \in 1..n
        BY <1>1
      <4>2. vs1[i] = vs[i] \/ vs1[i] = vs[i + 1]
        BY <2>5
      <4> QED
        BY <4>1, <4>2
    <3>6. ASSUME NEW h \in Nat, Honest(vs, h)
          PROVE  Honest(vs1, h)
      <4>1. \A j \in 1..n : vs[j].time <= h /\ vs[j].put = vs[j].time
        BY <3>6, <1>1 DEF Honest
      <4>2. \A i \in 1..n - 1 : vs1[i].time <= h /\ vs1[i].put = vs1[i].time
        BY <3>5, <4>1
      <4> QED
        BY <4>2, <2>5 DEF Honest
    <3> QED
      BY <3>4, <3>6
  <2>6. S = {} => vs1 = vs /\ Len(vs1) = n
    BY <1>1, <1>6
  <2>7. S # {} => /\ Len(vs1) = n - 1 /\ Ordered(vs1, ws1)
                 /\ \A h \in Nat : Honest(vs, h) => Honest(vs1, h)
    BY <1>6, <2>5
  <2>8. n - 1 <= n
    BY <1>1
  <2> QED
    BY <2>2, <2>4, <2>6, <2>7, <2>8, <1>9
<1>10. (\E i \in 1..Len(vs) : vs[i].word = w) => S # {}
  BY <1>1, <1>7
<1> QED
  <2>1. CASE W = {}
    BY <1>8, <2>1
  <2>2. CASE W # {}
    BY <1>1, <1>5, <1>9, <1>10, <2>2
  <2> QED
    BY <2>1, <2>2

\* A text that is taken out, with its vector if it has one, leaves the rest in order.
LEMMA BesidesIs ==
  ASSUME OrderInv, NEW w \in Words
  PROVE  /\ Ordered(Besides(w), Unlike(w))
         /\ \A i \in 1..Len(Unlike(w)) : Unlike(w)[i] # w
         /\ Len(Besides(w)) <= Len(vectors) /\ Honest(Besides(w), hour)
         /\ (\E i \in 1..Len(vectors) : vectors[i].word = w) => Len(Besides(w)) = Len(vectors) - 1
<1>1. Ordered(vectors, wordsUsed) /\ Honest(vectors, hour) /\ hour \in Nat
  BY DEF OrderInv
<1>2. \A vs1, ws1 :
        vs1 = Besides(w) /\ ws1 = Unlike(w) =>
          /\ Ordered(vs1, ws1) /\ \A i \in 1..Len(ws1) : ws1[i] # w
          /\ Len(vs1) <= Len(vectors)
          /\ (\E i \in 1..Len(vectors) : vectors[i].word = w) => Len(vs1) = Len(vectors) - 1
          /\ \A h \in Nat : Honest(vectors, h) => Honest(vs1, h)
  BY <1>1, DroppedKeepsOrder DEF Besides, Unlike
<1> QED
  BY <1>1, <1>2

\* A vector that is put at the end is that of the text used last.
LEMMA AppendedKeepsOrder ==
  ASSUME NEW vs, NEW ws, Ordered(vs, ws), NEW v \in Vector, \A i \in 1..Len(ws) : ws[i] # v.word
  PROVE  Ordered(Append(vs, v), Append(ws, v.word))
<1>1. v.word \in Words
  BY DEF Vector
<1>2. /\ Append(ws, v.word) \in Seq(Words) /\ Append(vs, v) \in Seq(Vector)
      /\ Len(Append(ws, v.word)) = Len(ws) + 1 /\ Len(Append(vs, v)) = Len(vs) + 1
      /\ \A i \in 1..Len(ws) : Append(ws, v.word)[i] = ws[i]
      /\ \A i \in 1..Len(vs) : Append(vs, v)[i] = vs[i]
      /\ Append(ws, v.word)[Len(ws) + 1] = v.word /\ Append(vs, v)[Len(vs) + 1] = v
      /\ Len(ws) \in Nat /\ Len(vs) \in Nat /\ Len(vs) <= Len(ws)
  BY <1>1 DEF Ordered
<1>3. \A i, j \in 1..Len(ws) + 1 : Append(ws, v.word)[i] = Append(ws, v.word)[j] => i = j
  BY <1>2 DEF Ordered
<1>4. PICK d \in Nat : Len(ws) = Len(vs) + d
  <2>1. Len(ws) - Len(vs) \in Nat /\ Len(ws) = Len(vs) + (Len(ws) - Len(vs))
    BY <1>2
  <2> QED
    BY <2>1
<1>5. \A i \in 1..Len(vs) : vs[i].word = ws[d + i]
  <2>1. Len(ws) - Len(vs) = d
    BY <1>2, <1>4
  <2> QED
    BY <2>1 DEF Ordered
<1>6. \A i \in 1..Len(vs) + 1 : Append(vs, v)[i].word = Append(ws, v.word)[d + i]
  <2> TAKE i \in 1..Len(vs) + 1
  <2>2. CASE i <= Len(vs)
    <3>1. i \in 1..Len(vs) /\ d + i \in 1..Len(ws)
      BY <2>2, <1>2, <1>4
    <3> QED
      BY <3>1, <1>2, <1>5
  <2>3. CASE i = Len(vs) + 1
    <3>1. d + i = Len(ws) + 1
      BY <2>3, <1>2, <1>4
    <3>2. Append(vs, v)[i] = v
      BY <2>3, <1>2
    <3>3. Append(ws, v.word)[d + i] = v.word
      BY <3>1, <1>2
    <3> QED
      BY <3>2, <3>3
  <2>4. i <= Len(vs) \/ i = Len(vs) + 1
    BY <1>2
  <2> QED
    BY <2>2, <2>3, <2>4
<1>7. Len(vs) + 1 \in Nat /\ Len(ws) + 1 \in Nat /\ Len(ws) + 1 = (Len(vs) + 1) + d
  BY <1>2, <1>4
<1> QED
  <2> DEFINE vs1 == Append(vs, v)
             ws1 == Append(ws, v.word)
  <2>1. vs1 \in Seq(Vector) /\ ws1 \in Seq(Words) /\ Len(vs1) = Len(vs) + 1 /\ Len(ws1) = Len(ws) + 1
    BY <1>2
  <2>2. \A i \in 1..Len(vs) + 1 : vs1[i].word = ws1[d + i]
    BY <1>6
  <2>3. \A i, j \in 1..Len(ws) + 1 : ws1[i] = ws1[j] => i = j
    BY <1>3
  <2> HIDE DEF vs1, ws1
  <2>4. Len(ws1) - Len(vs1) = d /\ Len(vs1) <= Len(ws1)
    BY <2>1, <1>7
  <2>5. Ordered(vs1, ws1)
    BY <2>1, <2>2, <2>3, <2>4 DEF Ordered
  <2> QED
    BY <2>5 DEF vs1, ws1

\* A vector of now is added to those that are honest.
LEMMA AppendedIsHonest ==
  ASSUME NEW vs \in Seq(Vector), NEW v \in Vector, NEW h, Honest(vs, h), v.time <= h, v.put = v.time
  PROVE  Honest(Append(vs, v), h) /\ Len(Append(vs, v)) = Len(vs) + 1
<1>1. /\ Len(Append(vs, v)) = Len(vs) + 1 /\ Append(vs, v)[Len(vs) + 1] = v
      /\ \A i \in 1..Len(vs) : Append(vs, v)[i] = vs[i]
  OBVIOUS
<1> QED
  BY <1>1 DEF Honest

\* What has not been used for longest may go.
LEMMA TailKeepsOrder ==
  ASSUME NEW vs, NEW ws, Ordered(vs, ws), Len(vs) > 0
  PROVE  Ordered(Tail(vs), ws) /\ Len(Tail(vs)) = Len(vs) - 1
<1>1. /\ vs \in Seq(Vector) /\ Len(vs) \in Nat /\ Len(ws) \in Nat /\ vs # << >>
      /\ Len(vs) <= Len(ws)
  BY DEF Ordered
<1>2. /\ Tail(vs) \in Seq(Vector) /\ Len(Tail(vs)) = Len(vs) - 1
      /\ \A i \in 1..Len(vs) - 1 : Tail(vs)[i] = vs[i + 1]
  BY <1>1
<1>3. ASSUME NEW i \in 1..Len(vs) - 1
      PROVE  Tail(vs)[i].word = ws[Len(ws) - (Len(vs) - 1) + i]
  <2>1. i + 1 \in 1..Len(vs) /\ Len(ws) - (Len(vs) - 1) + i = Len(ws) - Len(vs) + (i + 1)
    BY <1>1
  <2> QED
    BY <2>1, <1>2 DEF Ordered
<1> QED
  BY <1>2, <1>3, <1>1 DEF Ordered

-----------------------------------------------------------------------------
\* What an idle request is, and one that begins.
LEMMA UnaskedIs == Unasked \in Asked /\ AnsweredFor(Unasked)
BY DEF Unasked, Asked, AnsweredFor

\* A new request is typed and has found nothing yet.
LEMMA AskedIs ==
  ASSUME NEW texts \in Seq(Words), Len(texts) > 0,
         NEW r, r = [Unasked EXCEPT !.at = "get", !.words = texts]
  PROVE  r \in Asked /\ AnsweredFor(r)
<1>1. r \in Asked
  BY UnaskedIs DEF Asked
<1>2. r.at = "get" /\ r.words = texts /\ r.found = << >> /\ r.new = << >> /\ r.stored = 0
  BY DEF Unasked
<1> QED
  BY <1>1, <1>2 DEF AnsweredFor

\* It holds at the start, and each action of the module keeps it.
LEMMA CacheInit_Inv ==
  ASSUME CacheAssumption, CacheInit
  PROVE  CacheInv
<1>1. OrderInv
  BY DEF CacheAssumption, CacheInit, OrderInv, Ordered, Honest
<1>3. RequestsInv
  BY UnaskedIs DEF CacheInit, RequestsInv
<1> QED
  BY <1>1, <1>3 DEF CacheInv

LEMMA Ask_Inv ==
  ASSUME CacheAssumption, CacheInv, NEW q \in Embedders, Ask(q)
  PROVE  CacheInv'
<1>1. OrderInv'
  BY DEF CacheInv, OrderInv, Ask
<1>a. PICK n \in 1..MaxWords : \E words \in [1..n -> Words] :
        request' = [request EXCEPT ![q] = [Unasked EXCEPT !.at = "get", !.words = words]]
  BY DEF Ask
<1>2. PICK words \in [1..n -> Words] :
        request' = [request EXCEPT ![q] = [Unasked EXCEPT !.at = "get", !.words = words]]
  BY <1>a
<1> DEFINE r == [Unasked EXCEPT !.at = "get", !.words = words]
<1>3. words \in Seq(Words) /\ Len(words) > 0
  BY DEF CacheAssumption
<1> HIDE DEF r
<1>4. r = [Unasked EXCEPT !.at = "get", !.words = words]
  BY DEF r
<1>5. r \in Asked /\ AnsweredFor(r)
  BY <1>3, <1>4, AskedIs
<1>6. request' = [request EXCEPT ![q] = r]
  BY <1>2 DEF r
<1>7. RequestsInv'
  BY <1>5, <1>6 DEF CacheInv, RequestsInv
<1> QED
  BY <1>1, <1>7 DEF CacheInv

LEMMA HourPasses_Inv ==
  ASSUME CacheAssumption, CacheInv, HourPasses
  PROVE  CacheInv'
<1>1. hour \in Nat /\ hour' = hour + 1 /\ UNCHANGED <<vectors, request, wordsUsed>>
  BY DEF CacheInv, OrderInv, HourPasses
<1>2. Honest(vectors, hour')
  <2>1. ASSUME NEW i \in 1..Len(vectors)
        PROVE  vectors[i].time <= hour' /\ vectors[i].put = vectors[i].time
    <3>1. vectors[i] \in Vector
      BY DEF CacheInv, OrderInv, Ordered
    <3>2. vectors[i].time \in Nat
      BY <3>1 DEF Vector
    <3>3. vectors[i].time <= hour /\ vectors[i].put = vectors[i].time
      BY DEF CacheInv, OrderInv, Honest
    <3> QED
      BY <3>2, <3>3, <1>1
  <2> QED
    BY <2>1 DEF Honest
<1>3. OrderInv'
  BY <1>1, <1>2 DEF CacheInv, OrderInv
<1> QED
  BY <1>1, <1>3 DEF CacheInv, RequestsInv

\* What was found of a text is added; after the last the missed ones are computed.
LEMMA FoundKeeps ==
  ASSUME NEW r \in Asked, AnsweredFor(r), r.at = "get",
         NEW v \in Finding, v = Miss \/ v.word = r.words[Len(r.found) + 1],
         NEW place,
         place = IF Len(Append(r.found, v)) < Len(r.words) THEN "get"
                 ELSE IF v = Miss \/ MissedTo(r.found, Len(r.found)) # {} THEN "embed" ELSE "put",
         NEW r1, r1 = [r EXCEPT !.found = Append(r.found, v), !.at = place]
  PROVE  r1 \in Asked /\ AnsweredFor(r1)
<1> DEFINE all == Append(r.found, v)
<1>1. /\ r.found \in Seq(Finding) /\ r.words \in Seq(Words) /\ Len(r.found) \in Nat /\ Len(r.words) \in Nat
      /\ Len(r.found) < Len(r.words) /\ r.stored = 0 /\ r.new \in Seq(Words) /\ Len(r.new) \in Nat
  BY DEF Asked, AnsweredFor
<1>2. /\ all \in Seq(Finding) /\ Len(all) = Len(r.found) + 1 /\ all[Len(r.found) + 1] = v
      /\ \A i \in 1..Len(r.found) : all[i] = r.found[i]
  BY <1>1
<1> HIDE DEF all
<1>3. place \in {"get", "embed", "put"}
  OBVIOUS
<1>4. r1 = [r EXCEPT !.found = all, !.at = place]
  BY DEF all
<1>5. r1 \in Asked
  BY <1>2, <1>3, <1>4 DEF Asked
<1>6. r1.at = place /\ r1.found = all /\ r1.words = r.words /\ r1.new = r.new /\ r1.stored = 0
  BY <1>1, <1>4 DEF Asked
<1>7. \A i \in 1..Len(all) : all[i] = Miss \/ all[i].word = r.words[i]
  <2> TAKE i \in 1..Len(all)
  <2>1. CASE i \in 1..Len(r.found)
    <3>1. r.found[i] = Miss \/ r.found[i].word = r.words[i]
      BY <2>1 DEF AnsweredFor
    <3> QED
      BY <2>1, <3>1, <1>2
  <2>2. CASE i = Len(r.found) + 1
    BY <2>2, <1>2
  <2> QED
    BY <2>1, <2>2, <1>1, <1>2
<1>8. Len(all) <= Len(r.words) /\ (place = "get" => Len(all) < Len(r.words))
  BY <1>1, <1>2 DEF all
<1>9. place # "get" => Len(all) = Len(r.words)
  <2>1. Len(all) < Len(r.words) => place = "get"
    BY DEF all
  <2> QED
    BY <2>1, <1>1, <1>2
<1>10. place = "put" => \A i \in 1..Len(all) : all[i] # Miss
  <2> SUFFICES ASSUME place = "put", NEW i \in 1..Len(all), all[i] = Miss
               PROVE  FALSE
    OBVIOUS
  <2>1. v # Miss /\ MissedTo(r.found, Len(r.found)) = {}
    OBVIOUS
  <2>2. i \in 1..Len(r.found)
    BY <2>1, <1>1, <1>2
  <2>3. r.found[i] = Miss
    BY <2>2, <1>2
  <2> QED
    BY <2>1, <2>2, <2>3 DEF MissedTo
<1> QED
  BY <1>1, <1>5, <1>6, <1>7, <1>8, <1>9, <1>10 DEF AnsweredFor

LEMMA Get_Inv ==
  ASSUME CacheAssumption, CacheInv, NEW q \in Embedders, Get(q)
  PROVE  CacheInv'
<1> DEFINE r == request[q]
           w == r.words[Len(r.found) + 1]
           fresh == {i \in DOMAIN vectors : vectors[i].word = w /\ hour - vectors[i].time <= Ttl}
           place(v) == IF Len(Append(r.found, v)) < Len(r.words) THEN "get"
                       ELSE IF v = Miss \/ Misses(q) # {} THEN "embed" ELSE "put"
           adds(v) == request' = [request EXCEPT ![q] =
                                    [request[q] EXCEPT !.found = Append(r.found, v), !.at = place(v)]]
           hit(i) == [word |-> w, age |-> hour - vectors[i].put]
<1>1. /\ request[q].at = "get" /\ UNCHANGED hour
      /\ \/ \E i \in fresh : adds(hit(i)) /\ vectors' = Touched(vectors[i]) /\ MarkUsed(w)
         \/ fresh = {} /\ adds(Miss) /\ vectors' = Besides(w) /\ wordsUsed' = Unlike(w)
  BY DEF Get
<1>2. r \in Asked /\ AnsweredFor(r) /\ r.at = "get"
  BY <1>1 DEF CacheInv, RequestsInv
<1>3. w \in Words
  BY <1>2 DEF Asked, AnsweredFor
<1>4. Misses(q) = MissedTo(r.found, Len(r.found))
  BY DEF Misses, MissesTo, MissedTo
<1>5. ASSUME NEW v \in Finding, v = Miss \/ v.word = w, adds(v)
      PROVE  RequestsInv'
  <2> DEFINE r1 == [request[q] EXCEPT !.found = Append(r.found, v), !.at = place(v)]
  <2>1. r1 \in Asked /\ AnsweredFor(r1)
    BY <1>2, <1>4, <1>5, FoundKeeps
  <2>2. request' = [request EXCEPT ![q] = r1]
    BY <1>5
  <2> HIDE DEF r1
  <2> QED
    BY <2>1, <2>2 DEF CacheInv, RequestsInv
<1>6. Ordered(Besides(w), Unlike(w)) /\ \A i \in 1..Len(Unlike(w)) : Unlike(w)[i] # w
  BY <1>3, BesidesIs DEF CacheInv
<1>7. /\ Len(Besides(w)) <= Len(vectors) /\ Honest(Besides(w), hour)
      /\ (\E i \in 1..Len(vectors) : vectors[i].word = w) => Len(Besides(w)) = Len(vectors) - 1
  BY <1>3, BesidesIs DEF CacheInv
<1>8. CASE fresh = {} /\ adds(Miss) /\ vectors' = Besides(w) /\ wordsUsed' = Unlike(w)
  <2>1. Miss \in Finding
    BY DEF Miss, Finding, CacheAssumption
  <2>2. RequestsInv'
    BY <1>5, <1>8, <2>1
  <2>3. OrderInv'
    <3>1. Len(vectors') <= MaxVectors
      <4>1. Len(Besides(w)) \in Nat
        BY <1>6, OrderedLens
      <4>2. Len(vectors) \in Nat /\ Len(vectors) <= MaxVectors
        BY OrderedLens DEF CacheInv, OrderInv
      <4>3. MaxVectors \in Nat
        BY CacheAssumption
      <4> QED
        BY <4>1, <4>2, <4>3, <1>7, <1>8
    <3> QED
      BY <3>1, <1>1, <1>6, <1>7, <1>8 DEF CacheInv, OrderInv
  <2> QED
    BY <2>2, <2>3 DEF CacheInv
<1>9. ASSUME NEW i \in fresh, adds(hit(i)), vectors' = Touched(vectors[i]), MarkUsed(w)
      PROVE  CacheInv'
  <2>1. /\ i \in 1..Len(vectors) /\ vectors[i].word = w /\ hour - vectors[i].time <= Ttl
        /\ vectors[i] \in Vector /\ vectors[i].time <= hour /\ vectors[i].put = vectors[i].time
    BY DEF CacheInv, OrderInv, Ordered, Honest
  <2>2. hit(i) \in Finding /\ hit(i).word = w
    <3>1. vectors[i].put \in Nat /\ vectors[i].put <= hour /\ hour - vectors[i].put <= Ttl
      BY <2>1 DEF Vector
    <3>2. hour - vectors[i].put \in 0..Ttl
      BY <3>1 DEF CacheInv, OrderInv, CacheAssumption
    <3> QED
      BY <3>2, <1>3 DEF Finding
  <2>3. RequestsInv'
    BY <1>5, <1>9, <2>2
  <2>4. vectors' = Append(Besides(w), vectors[i]) /\ wordsUsed' = Append(Unlike(w), vectors[i].word)
    BY <1>9, <2>1 DEF Touched, MarkUsed
  <2>5. Ordered(vectors', wordsUsed')
    BY <1>6, <2>1, <2>4, AppendedKeepsOrder
  <2>6. Len(vectors') = Len(vectors) /\ Honest(vectors', hour)
    <3>1. /\ Besides(w) \in Seq(Vector) /\ Len(Besides(w)) \in Nat /\ Len(vectors) \in Nat
          /\ Len(Besides(w)) = Len(vectors) - 1
      <4>1. Besides(w) \in Seq(Vector) /\ Len(Besides(w)) \in Nat
        BY <1>6, OrderedLens
      <4>2. Len(vectors) \in Nat
        BY OrderedLens DEF CacheInv, OrderInv
      <4>3. Len(Besides(w)) = Len(vectors) - 1
        BY <1>7, <2>1
      <4> QED
        BY <4>1, <4>2, <4>3
    <3>2. /\ Honest(Append(Besides(w), vectors[i]), hour)
          /\ Len(Append(Besides(w), vectors[i])) = Len(Besides(w)) + 1
      BY <3>1, <1>7, <2>1, AppendedIsHonest
    <3> HIDE DEF w
    <3>3. Len(Besides(w)) + 1 = Len(vectors)
      BY <3>1
    <3> QED
      BY <3>2, <3>3, <2>4
  <2>7. OrderInv'
    BY <1>1, <2>5, <2>6 DEF CacheInv, OrderInv
  <2> QED
    BY <2>3, <2>7 DEF CacheInv
<1> QED
  BY <1>1, <1>8, <1>9

LEMMA Embed_Inv ==
  ASSUME CacheAssumption, CacheInv, NEW q \in Embedders, Embed(q)
  PROVE  CacheInv'
<1> DEFINE r == request[q]
           n == Len(r.words)
           vain == Misses(q)
           upTo(i) == Cardinality(MissesTo(q, i))
           nth(k) == CHOOSE i \in vain : upTo(i) = k
           new == [k \in 1..Cardinality(vain) |-> r.words[nth(k)]]
           r1 == [r EXCEPT !.at = "put", !.new = new]
<1>1. r \in Asked /\ AnsweredFor(r) /\ r.at = "embed"
  BY DEF CacheInv, RequestsInv, Embed
<1>2. r.words \in Seq(Words) /\ Len(r.found) = n /\ n \in Nat /\ r.stored = 0
  BY <1>1 DEF Asked, AnsweredFor
<1>3. request' = [request EXCEPT ![q] = r1]
  BY DEF Embed
<1>a. vain = MissedTo(r.found, n) /\ \A i : upTo(i) = Cardinality(MissedTo(r.found, i))
  BY <1>2 DEF Misses, MissesTo, MissedTo
<1> HIDE DEF vain, upTo
<1>4. vain \in SUBSET (1..n) /\ IsFiniteSet(vain)
  <2>1. IsFiniteSet(1..n)
    BY <1>2, FS_Interval
  <2>2. vain \in SUBSET (1..n)
    BY <1>a DEF MissedTo
  <2> QED
    BY <2>1, <2>2, FS_Subset
<1>5. \A i \in vain : /\ IsFiniteSet(MissedTo(r.found, i)) /\ i \in MissedTo(r.found, i)
                         /\ MissedTo(r.found, i) \subseteq vain
  <2> TAKE i \in vain
  <2>1. i \in 1..n /\ r.found[i] = Miss
    BY <1>2, <1>a DEF MissedTo
  <2>2. MissedTo(r.found, i) \subseteq vain /\ i \in MissedTo(r.found, i)
    BY <2>1, <1>2, <1>a DEF MissedTo
  <2> QED
    BY <2>2, <1>4, FS_Subset
<1>6. \A i \in vain : upTo(i) \in 1..Cardinality(vain)
  <2> TAKE i \in vain
  <2>1. upTo(i) \in Nat /\ Cardinality(vain) \in Nat /\ upTo(i) <= Cardinality(vain)
    BY <1>a, <1>4, <1>5, FS_CardinalityType, FS_Subset
  <2>2. upTo(i) # 0
    BY <1>a, <1>5, FS_EmptySet
  <2> QED
    BY <2>1, <2>2
<1>7. \A i, j \in vain : upTo(i) = upTo(j) => i = j
  <2>1. ASSUME NEW i \in vain, NEW j \in vain, i < j
        PROVE  upTo(i) # upTo(j)
    <3>1. MissedTo(r.found, i) \subseteq MissedTo(r.found, j)
      BY <1>4, <2>1 DEF MissedTo
    <3>2. j \notin MissedTo(r.found, i)
      BY <1>4, <2>1 DEF MissedTo
    <3>3. j \in MissedTo(r.found, j)
      BY <1>5
    <3> QED
      BY <3>1, <3>2, <3>3, <1>a, <1>5, FS_Subset
  <2> QED
    BY <2>1, <1>4
<1>8. \A i \in vain : nth(upTo(i)) = i
  BY <1>7
<1>9. \A k \in 1..Cardinality(vain) : nth(k) \in vain
  <2> DEFINE K == Cardinality(vain)
             f == [i \in vain |-> upTo(i)]
  <2>1. K \in Nat /\ IsFiniteSet(1..K) /\ Cardinality(1..K) = K
    BY <1>4, FS_CardinalityType, FS_Interval
  <2>2. f \in Injection(vain, 1..K)
    BY <1>6, <1>7 DEF Injection, IsInjective
  <2>3. f \in Surjection(vain, 1..K)
    BY <2>1, <2>2, FS_Injection
  <2>4. \A k \in 1..K : \E i \in vain : upTo(i) = k
    BY <2>3 DEF Surjection
  <2> QED
    BY <2>4
<1> HIDE DEF nth
<1>10. new \in Seq(Words) /\ Len(new) = Cardinality(vain)
  <2>1. Cardinality(vain) \in Nat
    BY <1>4, FS_CardinalityType
  <2>2. \A k \in 1..Cardinality(vain) : r.words[nth(k)] \in Words
    <3> TAKE k \in 1..Cardinality(vain)
    <3>1. nth(k) \in 1..n
      BY <1>4, <1>9
    <3> QED
      BY <3>1, <1>2
  <2> QED
    BY <2>1, <2>2
<1>11. \A i \in vain : new[upTo(i)] = r.words[i]
  BY <1>6, <1>8
<1> HIDE DEF new
<1>12. r1 \in Asked
  BY <1>1, <1>10 DEF Asked
<1>13. /\ r1.at = "put" /\ r1.words = r.words /\ r1.found = r.found /\ r1.new = new /\ r1.stored = 0
  BY <1>1, <1>2 DEF Asked
<1>14. \A i \in 1..n : r.found[i] = Miss =>
        /\ Cardinality(MissedTo(r.found, i)) \in 1..Len(new)
        /\ new[Cardinality(MissedTo(r.found, i))] = r.words[i]
  <2> SUFFICES ASSUME NEW i \in 1..n, r.found[i] = Miss
               PROVE  upTo(i) \in 1..Len(new) /\ new[upTo(i)] = r.words[i]
    BY <1>a
  <2>1. i \in vain
    BY <1>2, <1>a DEF MissedTo
  <2> QED
    BY <2>1, <1>6, <1>10, <1>11
<1>15. AnsweredFor(r1)
  BY <1>1, <1>2, <1>10, <1>13, <1>14 DEF AnsweredFor
<1> HIDE DEF r1
<1>16. RequestsInv'
  BY <1>3, <1>12, <1>15 DEF CacheInv, RequestsInv
<1>17. OrderInv'
  BY DEF CacheInv, OrderInv, Embed
<1> QED
  BY <1>16, <1>17 DEF CacheInv

LEMMA EmbedRaises_Inv ==
  ASSUME CacheInv, NEW q \in Embedders, EmbedRaises(q) \/ Return(q)
  PROVE  CacheInv'
<1>1. request' = [request EXCEPT ![q] = Unasked] /\ UNCHANGED <<hour, vectors, wordsUsed>>
  BY DEF EmbedRaises, Return
<1>2. RequestsInv'
  BY <1>1, UnaskedIs DEF CacheInv, RequestsInv
<1> QED
  BY <1>1, <1>2 DEF CacheInv, OrderInv

LEMMA PutVector_Inv ==
  ASSUME CacheAssumption, CacheInv, NEW q \in Embedders, PutVector(q)
  PROVE  CacheInv'
<1> DEFINE r == request[q]
           w == r.new[r.stored + 1]
           v == [word |-> w, time |-> hour, put |-> hour]
           all == Append(Besides(w), v)
<1>1. r \in Asked /\ AnsweredFor(r) /\ r.at = "put" /\ r.stored < Len(r.new)
  BY DEF CacheInv, RequestsInv, PutVector
<1>2. r.new \in Seq(Words) /\ r.stored \in Nat /\ Len(r.new) \in Nat
  BY <1>1 DEF Asked
<1>3. w \in Words
  BY <1>1, <1>2
<1>4. /\ vectors' = IF Len(all) > MaxVectors THEN Tail(all) ELSE all
      /\ wordsUsed' = Append(Unlike(w), v.word) /\ UNCHANGED hour
  BY DEF PutVector, MarkUsed
<1>5. Ordered(Besides(w), Unlike(w)) /\ \A i \in 1..Len(Unlike(w)) : Unlike(w)[i] # w
  BY <1>3, BesidesIs DEF CacheInv
<1>6. Len(Besides(w)) <= Len(vectors) /\ Honest(Besides(w), hour)
  BY <1>3, BesidesIs DEF CacheInv
<1>7. hour \in Nat /\ Len(vectors) <= MaxVectors /\ Len(vectors) \in Nat
  BY DEF CacheInv, OrderInv, Ordered
<1>8. v \in Vector /\ v.word = w /\ v.time <= hour /\ v.put = v.time
  BY <1>3, <1>7 DEF Vector
<1> HIDE DEF v
<1>9. Ordered(all, wordsUsed')
  BY <1>4, <1>5, <1>8, AppendedKeepsOrder
<1>10. Honest(all, hour) /\ Len(all) = Len(Besides(w)) + 1
  BY <1>5, <1>6, <1>8, AppendedIsHonest DEF Ordered
<1>11. Len(all) <= MaxVectors + 1 /\ Len(all) > 0
  <2>1. Len(Besides(w)) \in Nat /\ MaxVectors \in Nat
    BY <1>5, OrderedLens, CacheAssumption
  <2> QED
    BY <2>1, <1>6, <1>7, <1>10
<1>12. Ordered(Tail(all), wordsUsed') /\ Len(Tail(all)) = Len(all) - 1
  BY <1>9, <1>11, TailKeepsOrder
<1>13. Honest(Tail(all), hour)
  <2>1. all \in Seq(Vector) /\ Len(all) \in Nat
    BY <1>9 DEF Ordered
  <2> HIDE DEF all
  <2>2. \A i \in 1..Len(all) - 1 : Tail(all)[i] = all[i + 1] /\ i + 1 \in 1..Len(all)
    BY <2>1, <1>11
  <2> QED
    BY <2>1, <2>2, <1>10, <1>12 DEF Honest
<1>14. OrderInv'
  <2>1. Len(all) \in Nat /\ MaxVectors \in Nat
    BY <1>9 DEF Ordered, CacheAssumption
  <2> HIDE DEF all
  <2>2. CASE Len(all) > MaxVectors
    BY <2>1, <2>2, <1>4, <1>7, <1>11, <1>12, <1>13 DEF OrderInv
  <2>3. CASE ~ (Len(all) > MaxVectors)
    BY <2>1, <2>3, <1>4, <1>7, <1>9, <1>10 DEF OrderInv
  <2> QED
    BY <2>2, <2>3
<1> DEFINE r1 == [r EXCEPT !.stored = r.stored + 1]
<1>15. request' = [request EXCEPT ![q] = r1]
  BY DEF PutVector
<1>16. r1 \in Asked
  <2>1. r.stored + 1 \in Nat
    BY <1>2
  <2> QED
    BY <1>1, <2>1 DEF Asked
<1>17. /\ r1.at = r.at /\ r1.words = r.words /\ r1.found = r.found /\ r1.new = r.new
       /\ r1.stored = r.stored + 1
  BY <1>1 DEF Asked
<1>18. AnsweredFor(r1)
  BY <1>1, <1>2, <1>17 DEF AnsweredFor
<1> HIDE DEF r1
<1>19. RequestsInv'
  BY <1>15, <1>16, <1>18 DEF CacheInv, RequestsInv
<1> QED
  BY <1>14, <1>19 DEF CacheInv

\* So every step keeps it.
LEMMA CacheNext_Inv ==
  ASSUME CacheAssumption, CacheInv, [CacheNext]_cacheVars
  PROVE  CacheInv'
<1>1. CASE UNCHANGED cacheVars
  BY <1>1 DEF cacheVars, CacheInv, OrderInv, RequestsInv
<1>2. CASE CacheNext
  BY <1>2, HourPasses_Inv, Ask_Inv, Get_Inv, Embed_Inv, EmbedRaises_Inv, PutVector_Inv DEF CacheNext
<1> QED
  BY <1>1, <1>2

\* And it implies what is promised.
LEMMA CacheInv_Safe ==
  ASSUME CacheAssumption, CacheInv
  PROVE  CacheSafe
<1>1. \A q \in Embedders : request[q] \in Asked /\ AnsweredFor(request[q])
  BY DEF CacheInv, RequestsInv
<1>2. CacheTypeOK
  <2>1. \A i \in DOMAIN vectors : vectors[i].word \in Words /\ vectors[i].time \in 0..hour
    <3> TAKE i \in DOMAIN vectors
    <3>1. vectors[i] \in Vector /\ vectors[i].time <= hour /\ hour \in Nat
      BY DEF CacheInv, OrderInv, Ordered, Honest
    <3> QED
      BY <3>1 DEF Vector
  <2>2. \A q \in Embedders :
          /\ request[q].at \in {"idle", "get", "embed", "put"}
          /\ Len(request[q].found) <= Len(request[q].words)
          /\ request[q].stored <= Len(request[q].new)
    BY <1>1 DEF Asked, AnsweredFor
  <2> QED
    BY <2>1, <2>2 DEF CacheInv, OrderInv, CacheTypeOK
<1>3. VectorsMatchTexts
  <2> SUFFICES ASSUME NEW q \in Embedders, request[q].at = "put"
               PROVE  Merged(q) = request[q].words
    BY DEF VectorsMatchTexts
  <2> DEFINE r == request[q]
  <2>1. r.words \in Seq(Words) /\ r.found \in Seq(Finding) /\ AnsweredFor(r)
    BY <1>1 DEF Asked
  <2>2. DOMAIN r.words = 1..Len(r.words) /\ DOMAIN r.found = 1..Len(r.words)
    BY <2>1 DEF AnsweredFor
  <2>3. \A i \in 1..Len(r.words) :
          (IF r.found[i] # Miss THEN r.found[i].word
           ELSE r.new[Cardinality(MissesTo(q, i))]) = r.words[i]
    BY <2>1 DEF AnsweredFor, MissesTo, MissedTo
  <2>4. Merged(q) = [i \in 1..Len(r.words) |-> r.words[i]]
    BY <2>2, <2>3 DEF Merged
  <2> QED
    BY <2>1, <2>2, <2>4
<1>4. VectorsGrowOld
  <2> SUFFICES ASSUME NEW q \in Embedders, NEW i \in DOMAIN request[q].found
               PROVE  request[q].found[i].age <= Ttl
    BY DEF VectorsGrowOld
  <2>1. request[q].found \in Seq(Finding)
    BY <1>1 DEF Asked
  <2>2. request[q].found[i] \in Finding
    BY <2>1
  <2> QED
    BY <2>2 DEF Finding, CacheAssumption
<1>5. CacheKeepsLatest
  <2> DEFINE n == Len(vectors)
             m == Len(wordsUsed)
             last == SubSeq(wordsUsed, m - n + 1, m)
  <2>1. /\ vectors \in Seq(Vector) /\ wordsUsed \in Seq(Words) /\ n \in Nat /\ m \in Nat /\ n <= m
        /\ \A i \in 1..n : vectors[i].word = wordsUsed[m - n + i]
    BY DEF CacheInv, OrderInv, Ordered
  <2>2. last = [i \in 1..n |-> wordsUsed[m - n + i]]
    <3>1. m - n + 1 \in 1..m + 1 /\ m - (m - n + 1) + 1 = n
      BY <2>1
    <3>2. last \in Seq(Words) /\ Len(last) = n
      BY <2>1, <3>1
    <3>3. \A i \in 1..n : last[i] = wordsUsed[m - n + i]
      BY <2>1, <3>1
    <3> HIDE DEF last, n, m
    <3> QED
      BY <3>2, <3>3
  <2>3. [i \in DOMAIN vectors |-> vectors[i].word] = [i \in 1..n |-> wordsUsed[m - n + i]]
    BY <2>1
  <2> QED
    BY <2>1, <2>2, <2>3 DEF CacheKeepsLatest
<1> QED
  BY <1>2, <1>3, <1>4, <1>5 DEF CacheSafe

-----------------------------------------------------------------------------
(* The encoder and the replies (Retrieval)                                 *)

\* Where the lock is held, and where the encoder is about to be used.
Locked == {"unload?", "unset", "unflag", "loading", "flag"}
InUse == {"use", "predict"}
ThreadState ==
  [at : {"idle", "idle?", "unload lock", "load", "load lock", "done"} \cup Locked \cup InUse,
   searching : BOOLEAN, rows : SUBSET Hits, reply : Seq(Hits),
   scorer : {"none", "legacy", "cross_encoder"}, excused : BOOLEAN]

Agree == encoderLoaded <=> encoder # "none"

EncoderInv ==
  /\ encoder \in {"none", "loaded"} /\ encoderLoaded \in BOOLEAN /\ encoderFailed \in BOOLEAN
  /\ loads \in [made : Nat, dropped : Nat]
  /\ loads.made - loads.dropped = (IF encoder = "none" THEN 0 ELSE 1)

\* Who is at work with the encoder has the lock, and the flag is true of it but
\* between the two assignments.
LockInv ==
  /\ loadLock \in Threads \cup {Unheld}
  /\ \A t \in Threads : thread[t].at \in Locked <=> loadLock = t
  /\ loadLock = Unheld => Agree
  /\ \A t \in Threads :
       /\ thread[t].at \in {"unload?", "unset", "loading"} => Agree
       /\ thread[t].at \in {"unset", "flag"} => encoder # "none"
       /\ thread[t].at \in {"unflag", "loading"} => encoder = "none"

\* Who goes on without an encoder has an excuse before it replies.
ExcuseInv == \A t \in Threads : thread[t].at \in InUse => encoderFailed \/ thread[t].excused \/ encoder # "none"

RetrievalInv ==
  /\ thread \in [Threads -> ThreadState]
  /\ EncoderInv /\ LockInv /\ ExcuseInv /\ LegacyIsExcused /\ ReplyIsBest

-----------------------------------------------------------------------------
\* A reply is one of the rows that are best, in order.
LEMMA RankedIsBest ==
  ASSUME RetrievalAssumption, NEW rows \in SUBSET Hits, NEW scorer, NEW reply \in Ranked(rows, scorer)
  PROVE  /\ reply \in Seq(Hits)
         /\ \A i \in DOMAIN reply, h \in rows \ ToSet(reply) :
              Score(reply[i], scorer) >= Score(h, scorer)
         /\ \A i, j \in DOMAIN reply : i < j => Final(reply[i], scorer) >= Final(reply[j], scorer)
<1> DEFINE score == [h \in rows |-> Score(h, scorer)]
           final == [h \in rows |-> Final(h, scorer)]
<1>1. PICK all \in Orders(rows, score) : reply \in Orders(ToSet(FirstOf(all)), final)
  BY DEF Ranked
<1> DEFINE best == ToSet(FirstOf(all))
           n == Cardinality(rows)
           m == IF Len(all) < Kept THEN Len(all) ELSE Kept
<1>2. IsFiniteSet(rows) /\ n \in Nat
  BY FS_Subset, FS_CardinalityType DEF RetrievalAssumption
<1>3. /\ all \in [1..n -> rows] /\ ToSet(all) = rows
      /\ \A i, j \in DOMAIN all : i < j => score[all[i]] >= score[all[j]]
  BY <1>1 DEF Orders
<1>4. all \in Seq(rows) /\ Len(all) = n /\ DOMAIN all = 1..n
  BY <1>2, <1>3
<1>5. m \in 0..n /\ FirstOf(all) = SubSeq(all, 1, m)
  BY <1>2, <1>4 DEF FirstOf, RetrievalAssumption
<1>6. /\ FirstOf(all) \in Seq(rows) /\ DOMAIN FirstOf(all) = 1..m
      /\ \A k \in 1..m : FirstOf(all)[k] = all[k]
  BY <1>2, <1>4, <1>5
<1>7. \A h \in best : \E k \in 1..m : h = all[k]
  BY <1>6 DEF ToSet
<1>8. \A k \in 1..m : all[k] \in best
  BY <1>6 DEF ToSet
<1>9. best \subseteq rows
  <2>1. \A k \in 1..m : k \in 1..n
    BY <1>2, <1>5
  <2>2. \A k \in 1..n : all[k] \in rows
    BY <1>3
  <2> HIDE DEF m, n, best
  <2> QED
    BY <2>1, <2>2, <1>7
<1>10. /\ reply \in [1..Cardinality(best) -> best] /\ ToSet(reply) = best
       /\ \A i, j \in DOMAIN reply : i < j => final[reply[i]] >= final[reply[j]]
  BY <1>1 DEF Orders
<1>11. Cardinality(best) \in Nat
  BY <1>2, <1>9, FS_Subset, FS_CardinalityType
<1> HIDE DEF best, n, m
<1>12. reply \in Seq(Hits)
  BY <1>9, <1>10, <1>11
<1>13. ASSUME NEW i \in DOMAIN reply, NEW h \in rows \ ToSet(reply)
       PROVE  Score(reply[i], scorer) >= Score(h, scorer)
  <2>1. PICK k \in 1..m : reply[i] = all[k]
    BY <1>7, <1>10
  <2>2. PICK j \in 1..n : h = all[j]
    BY <1>3, <1>4 DEF ToSet
  <2>3. ~ (j \in 1..m)
    BY <2>2, <1>8, <1>10
  <2>4. k < j /\ k \in 1..n
    BY <2>1, <2>3, <1>2, <1>5
  <2>5. score[all[k]] >= score[all[j]] /\ all[k] \in rows
    BY <2>4, <1>3, <1>4
  <2> QED
    BY <2>1, <2>2, <2>5
<1>14. ASSUME NEW i \in DOMAIN reply, NEW j \in DOMAIN reply, i < j
       PROVE  Final(reply[i], scorer) >= Final(reply[j], scorer)
  <2>1. final[reply[i]] >= final[reply[j]] /\ reply[i] \in rows /\ reply[j] \in rows
    BY <1>9, <1>10, <1>14
  <2> QED
    BY <2>1
<1> QED
  BY <1>12, <1>13, <1>14

\* What is done stays as it is.
LEMMA DoneStays ==
  ASSUME LegacyIsExcused, ReplyIsBest, encoderFailed => encoderFailed',
         \A u \in Threads : thread'[u].at = "done" =>
           /\ thread[u].at = "done" /\ thread'[u].rows = thread[u].rows
           /\ thread'[u].reply = thread[u].reply /\ thread'[u].scorer = thread[u].scorer
           /\ thread[u].excused => thread'[u].excused
  PROVE  LegacyIsExcused' /\ ReplyIsBest'
BY DEF LegacyIsExcused, ReplyIsBest

\* Only t has gone anywhere.
Moves(t, to) ==
  /\ thread' \in [Threads -> ThreadState] /\ thread'[t].at = to
  /\ \A u \in Threads :
       /\ u # t => thread'[u].at = thread[u].at
       /\ thread'[u].rows = thread[u].rows /\ thread'[u].reply = thread[u].reply
       /\ thread'[u].scorer = thread[u].scorer /\ thread'[u].excused = thread[u].excused

\* Goes moves a thread and leaves what it holds.
LEMMA GoesIs ==
  ASSUME thread \in [Threads -> ThreadState], NEW t \in Threads, NEW to, Goes(t, to),
         to \in {"idle", "idle?", "unload lock", "load", "load lock"} \cup Locked \cup InUse
  PROVE  Moves(t, to)
<1> DEFINE r == [thread[t] EXCEPT !.at = to]
<1>1. /\ thread' = [thread EXCEPT ![t] = r] /\ thread'[t] = r
      /\ \A u \in Threads : u # t => thread'[u] = thread[u]
  BY DEF Goes
<1>2. /\ r \in ThreadState /\ r.at = to /\ r.rows = thread[t].rows /\ r.reply = thread[t].reply
      /\ r.scorer = thread[t].scorer /\ r.excused = thread[t].excused
  BY DEF ThreadState
<1> HIDE DEF r
<1>3. thread' \in [Threads -> ThreadState]
  BY <1>1, <1>2
<1> QED
  BY <1>1, <1>2, <1>3 DEF Moves

\* A step of t between places that are neither locked nor those of a reply.
LEMMA MovesFreely ==
  ASSUME RetrievalInv, NEW t \in Threads, NEW to, Moves(t, to),
         thread[t].at \notin Locked, to \notin Locked \cup {"done"},
         to \in InUse => encoderFailed \/ encoder # "none",
         UNCHANGED <<encoder, encoderLoaded, encoderFailed, loadLock, loads>>
  PROVE  RetrievalInv'
<1>1. LegacyIsExcused' /\ ReplyIsBest'
  BY DoneStays DEF RetrievalInv, Moves
<1>2. EncoderInv'
  BY DEF RetrievalInv, EncoderInv
<1>3. LockInv'
  BY DEF RetrievalInv, LockInv, Moves, Agree, Locked
<1>4. ExcuseInv'
  BY DEF RetrievalInv, ExcuseInv, Moves
<1> QED
  BY <1>1, <1>2, <1>3, <1>4 DEF RetrievalInv, Moves

\* It holds at the start, and each action of the module keeps it.
LEMMA RetrievalInit_Inv ==
  ASSUME RetrievalAssumption, RetrievalInit
  PROVE  RetrievalInv
<1>1. thread \in [Threads -> ThreadState] /\ \A t \in Threads : thread[t].at = "idle"
  BY DEF RetrievalInit, NoRequest, ThreadState
<1>2. EncoderInv
  <2>1. loads = [made |-> 0, dropped |-> 0] /\ encoder = "none"
    BY DEF RetrievalInit
  <2>2. loads \in [made : Nat, dropped : Nat] /\ loads.made - loads.dropped = 0
    BY <2>1
  <2> QED
    BY <2>1, <2>2 DEF RetrievalInit, EncoderInv
<1>3. LockInv
  BY <1>1 DEF RetrievalInit, RetrievalAssumption, LockInv, Agree, Locked
<1> QED
  BY <1>1, <1>2, <1>3 DEF RetrievalInv, ExcuseInv, InUse, LegacyIsExcused, ReplyIsBest

\* Requests begin and end.
LEMMA Begins_Inv ==
  ASSUME RetrievalAssumption, RetrievalInv, NEW t \in Threads, StartSearch(t) \/ AskStatus(t) \/ Done(t)
  PROVE  RetrievalInv'
<1> DEFINE IsNext(r) ==
      /\ r \in ThreadState /\ thread' = [thread EXCEPT ![t] = r] /\ r.at \in {"idle", "idle?", "load"}
<1>a. NoRequest \in ThreadState /\ NoRequest.at = "idle"
  BY DEF NoRequest, ThreadState
<1>1. \E r : IsNext(r)
  <2>1. CASE StartSearch(t)
    <3>1. PICK rows \in Found : thread' = [thread EXCEPT
            ![t] = [NoRequest EXCEPT !.at = "idle?", !.searching = TRUE, !.rows = rows]]
      BY <2>1 DEF StartSearch
    <3> DEFINE r == [NoRequest EXCEPT !.at = "idle?", !.searching = TRUE, !.rows = rows]
    <3>2. rows \in SUBSET Hits
      BY DEF RetrievalAssumption
    <3>3. r \in ThreadState /\ r.at = "idle?"
      BY <1>a, <3>2 DEF ThreadState
    <3> HIDE DEF r
    <3>4. IsNext(r)
      BY <3>1, <3>3 DEF r
    <3> QED
      BY <3>4
  <2>2. CASE AskStatus(t)
    <3> DEFINE r == [NoRequest EXCEPT !.at = "load"]
    <3>1. r \in ThreadState /\ r.at = "load"
      BY <1>a DEF ThreadState
    <3>2. IsNext(r)
      BY <2>2, <3>1 DEF AskStatus
    <3> QED
      BY <3>2
  <2>3. CASE Done(t)
    <3>1. IsNext(NoRequest)
      BY <1>a, <2>3 DEF Done
    <3> QED
      BY <3>1
  <2> QED
    BY <2>1, <2>2, <2>3
<1>b. PICK r : IsNext(r)
  BY <1>1
<1>2. /\ thread[t].at \in {"idle", "done"}
      /\ UNCHANGED <<encoder, encoderLoaded, encoderFailed, loadLock, loads>>
  BY DEF StartSearch, AskStatus, Done, encoderVars
<1>3. /\ thread' \in [Threads -> ThreadState] /\ thread'[t] = r
      /\ \A u \in Threads : u # t => thread'[u] = thread[u]
  BY <1>b DEF RetrievalInv
<1>4. \A u \in Threads : thread'[u].at = "done" => u # t /\ thread'[u] = thread[u]
  BY <1>b, <1>3
<1>5. LegacyIsExcused' /\ ReplyIsBest'
  BY <1>2, <1>4, DoneStays DEF RetrievalInv
<1>6. EncoderInv'
  BY <1>2 DEF RetrievalInv, EncoderInv
<1>7. LockInv'
  BY <1>b, <1>2, <1>3 DEF RetrievalInv, LockInv, Agree, Locked
<1>8. ExcuseInv'
  BY <1>b, <1>2, <1>3 DEF RetrievalInv, ExcuseInv, InUse
<1> QED
  BY <1>3, <1>5, <1>6, <1>7, <1>8 DEF RetrievalInv

LEMMA Looks_Inv ==
  ASSUME RetrievalInv, NEW t \in Threads, MaybeUnload(t) \/ LoadModel(t)
  PROVE  RetrievalInv'
<1>1. UNCHANGED <<encoder, encoderLoaded, encoderFailed, loadLock, loads>>
  BY DEF MaybeUnload, LoadModel, encoderVars
<1>2. thread[t].at \in {"idle?", "load"} /\ thread \in [Threads -> ThreadState]
  BY DEF MaybeUnload, LoadModel, RetrievalInv
<1>3. PICK to \in {"unload lock", "load", "use", "idle", "load lock"} :
        Goes(t, to) /\ (to = "use" => encoderFailed \/ encoder # "none")
  BY DEF MaybeUnload, LoadModel, Onwards
<1>4. Moves(t, to)
  BY <1>2, <1>3, GoesIs DEF InUse
<1> QED
  BY <1>1, <1>2, <1>3, <1>4, MovesFreely DEF Locked, InUse

\* The lock is taken to load.
LEMMA TakeLoadLock_Inv ==
  ASSUME RetrievalAssumption, RetrievalInv, NEW t \in Threads, TakeLoadLock(t)
  PROVE  RetrievalInv'
<1>1. /\ UNCHANGED <<encoder, encoderLoaded, encoderFailed, loads>>
      /\ thread[t].at = "load lock" /\ loadLock = Unheld /\ thread \in [Threads -> ThreadState]
  BY DEF TakeLoadLock, RetrievalInv
<1>2. CASE encoderFailed \/ (encoderLoaded /\ encoder # "none")
  <2>1. Goes(t, Onwards(t)) /\ UNCHANGED loadLock
    BY <1>2 DEF TakeLoadLock
  <2>2. Onwards(t) \in {"use", "idle"}
    BY DEF Onwards
  <2>3. Moves(t, Onwards(t))
    BY <1>1, <2>1, <2>2, GoesIs DEF InUse
  <2> QED
    BY <1>1, <1>2, <2>1, <2>2, <2>3, MovesFreely DEF Locked, InUse
<1>3. CASE ~ encoderFailed /\ ~ (encoderLoaded /\ encoder # "none")
  <2>1. Goes(t, "loading") /\ loadLock' = t
    BY <1>3 DEF TakeLoadLock
  <2>2. Moves(t, "loading")
    BY <1>1, <2>1, GoesIs DEF Locked
  <2>3. LegacyIsExcused' /\ ReplyIsBest'
    BY <1>1, <2>2, DoneStays DEF RetrievalInv, Moves
  <2>4. LockInv'
    BY <1>1, <1>3, <2>1, <2>2 DEF RetrievalInv, RetrievalAssumption, LockInv, Moves, Agree, Locked
  <2>5. EncoderInv' /\ ExcuseInv'
    BY <1>1, <2>2 DEF RetrievalInv, EncoderInv, ExcuseInv, Moves, InUse
  <2> QED
    BY <2>2, <2>3, <2>4, <2>5 DEF RetrievalInv, Moves
<1> QED
  BY <1>2, <1>3

\* Who holds the lock goes on with it.
LEMMA Holder_Inv ==
  ASSUME RetrievalAssumption, RetrievalInv, NEW t \in Threads,
         \/ TakeUnloadLock(t) \/ CheckIdle(t) \/ Unflag(t) \/ Loaded(t) \/ Flag(t) \/ LoadFails(t)
  PROVE  RetrievalInv'
<1>0. thread \in [Threads -> ThreadState]
  BY DEF RetrievalInv
<1>a. Onwards(t) \in {"use", "idle"}
  BY DEF Onwards
<1>1. CASE TakeUnloadLock(t)
  <2>1. Goes(t, "unload?") /\ thread[t].at = "unload lock" /\ loadLock = Unheld /\ loadLock' = t
    BY <1>1 DEF TakeUnloadLock
  <2>2. UNCHANGED <<encoder, encoderLoaded, encoderFailed, loads>>
    BY <1>1 DEF TakeUnloadLock, encoderVars
  <2>3. Moves(t, "unload?")
    BY <1>0, <2>1, GoesIs DEF Locked
  <2>4. LegacyIsExcused' /\ ReplyIsBest'
    BY <2>2, <2>3, DoneStays DEF RetrievalInv, Moves
  <2>5. LockInv'
    BY <2>1, <2>2, <2>3 DEF RetrievalInv, RetrievalAssumption, LockInv, Moves, Agree, Locked
  <2>6. EncoderInv' /\ ExcuseInv'
    BY <2>2, <2>3 DEF RetrievalInv, EncoderInv, ExcuseInv, Moves, InUse
  <2> QED
    BY <2>3, <2>4, <2>5, <2>6 DEF RetrievalInv, Moves
<1>2. CASE CheckIdle(t)
  <2>1. /\ thread[t].at = "unload?"
        /\ \/ encoder # "none" /\ Goes(t, "unset") /\ UNCHANGED loadLock
           \/ Goes(t, "load") /\ loadLock' = Unheld
    BY <1>2 DEF CheckIdle
  <2>2. UNCHANGED <<encoder, encoderLoaded, encoderFailed, loads>>
    BY <1>2 DEF CheckIdle, encoderVars
  <2>3. \/ encoder # "none" /\ Moves(t, "unset") /\ UNCHANGED loadLock
        \/ Moves(t, "load") /\ loadLock' = Unheld
    BY <1>0, <2>1, GoesIs DEF Locked
  <2>4. LegacyIsExcused' /\ ReplyIsBest'
    BY <2>2, <2>3, DoneStays DEF RetrievalInv, Moves
  <2>5. LockInv'
    BY <2>1, <2>2, <2>3 DEF RetrievalInv, RetrievalAssumption, LockInv, Moves, Agree, Locked
  <2>6. EncoderInv' /\ ExcuseInv'
    BY <2>2, <2>3 DEF RetrievalInv, EncoderInv, ExcuseInv, Moves, InUse
  <2> QED
    BY <2>3, <2>4, <2>5, <2>6 DEF RetrievalInv, Moves
<1>3. CASE Unflag(t)
  <2>1. /\ Goes(t, "load") /\ thread[t].at = "unflag" /\ loadLock' = Unheld
        /\ encoderLoaded' = FALSE /\ UNCHANGED <<encoder, encoderFailed, loads>>
    BY <1>3 DEF Unflag
  <2>3. Moves(t, "load")
    BY <1>0, <2>1, GoesIs
  <2>4. LegacyIsExcused' /\ ReplyIsBest'
    BY <2>1, <2>3, DoneStays DEF RetrievalInv, Moves
  <2>5. LockInv'
    BY <2>1, <2>3 DEF RetrievalInv, RetrievalAssumption, LockInv, Moves, Agree, Locked
  <2>6. EncoderInv' /\ ExcuseInv'
    BY <2>1, <2>3 DEF RetrievalInv, EncoderInv, ExcuseInv, Moves, InUse
  <2> QED
    BY <2>3, <2>4, <2>5, <2>6 DEF RetrievalInv, Moves
<1>4. CASE Loaded(t)
  <2>1. /\ Goes(t, "flag") /\ thread[t].at = "loading" /\ encoder' = "loaded"
        /\ loads' = [loads EXCEPT !.made = loads.made + 1]
        /\ UNCHANGED <<encoderLoaded, encoderFailed, loadLock>>
    BY <1>4 DEF Loaded
  <2>3. Moves(t, "flag")
    BY <1>0, <2>1, GoesIs DEF Locked
  <2>4. LegacyIsExcused' /\ ReplyIsBest'
    BY <2>1, <2>3, DoneStays DEF RetrievalInv, Moves
  <2>5. LockInv'
    BY <2>1, <2>3 DEF RetrievalInv, RetrievalAssumption, LockInv, Moves, Agree, Locked
  <2>6. EncoderInv'
    <3>1. encoder = "none" /\ loads \in [made : Nat, dropped : Nat] /\ loads.made - loads.dropped = 0
      BY <2>1 DEF RetrievalInv, LockInv, EncoderInv
    <3>2. /\ loads' \in [made : Nat, dropped : Nat] /\ loads'.made = loads.made + 1
          /\ loads'.dropped = loads.dropped
      BY <2>1, <3>1
    <3>3. loads'.made - loads'.dropped = 1
      BY <3>1, <3>2
    <3> QED
      BY <2>1, <3>2, <3>3 DEF RetrievalInv, EncoderInv
  <2>7. ExcuseInv'
    BY <2>1, <2>3 DEF RetrievalInv, ExcuseInv, Moves, InUse
  <2> QED
    BY <2>3, <2>4, <2>5, <2>6, <2>7 DEF RetrievalInv, Moves
<1>5. CASE Flag(t)
  <2>1. /\ Goes(t, Onwards(t)) /\ thread[t].at = "flag" /\ loadLock' = Unheld
        /\ encoderLoaded' = TRUE /\ UNCHANGED <<encoder, encoderFailed, loads>>
    BY <1>5 DEF Flag
  <2>3. Moves(t, Onwards(t))
    BY <1>0, <1>a, <2>1, GoesIs DEF InUse
  <2>4. LegacyIsExcused' /\ ReplyIsBest'
    BY <1>a, <2>1, <2>3, DoneStays DEF RetrievalInv, Moves
  <2>5. LockInv'
    BY <1>a, <2>1, <2>3 DEF RetrievalInv, RetrievalAssumption, LockInv, Moves, Agree, Locked
  <2>6. EncoderInv' /\ ExcuseInv'
    BY <2>1, <2>3 DEF RetrievalInv, EncoderInv, ExcuseInv, LockInv, Moves, InUse
  <2> QED
    BY <2>3, <2>4, <2>5, <2>6 DEF RetrievalInv, Moves
<1>6. CASE LoadFails(t)
  <2>1. /\ Goes(t, Onwards(t)) /\ thread[t].at = "loading" /\ loadLock' = Unheld
        /\ encoderFailed' = TRUE /\ UNCHANGED <<encoder, encoderLoaded, loads>>
    BY <1>6 DEF LoadFails
  <2>3. Moves(t, Onwards(t))
    BY <1>0, <1>a, <2>1, GoesIs DEF InUse
  <2>4. LegacyIsExcused' /\ ReplyIsBest'
    BY <1>a, <2>1, <2>3, DoneStays DEF RetrievalInv, Moves
  <2>5. LockInv'
    BY <1>a, <2>1, <2>3 DEF RetrievalInv, RetrievalAssumption, LockInv, Moves, Agree, Locked
  <2>6. EncoderInv' /\ ExcuseInv'
    BY <2>1, <2>3 DEF RetrievalInv, EncoderInv, ExcuseInv, Moves, InUse
  <2> QED
    BY <2>3, <2>4, <2>5, <2>6 DEF RetrievalInv, Moves
<1> QED
  BY <1>1, <1>2, <1>3, <1>4, <1>5, <1>6

LEMMA Unload_Inv ==
  ASSUME RetrievalAssumption, RetrievalInv, NEW t \in Threads, Unload(t)
  PROVE  RetrievalInv'
<1>0. thread \in [Threads -> ThreadState]
  BY DEF RetrievalInv
<1>1. /\ thread[t].at = "unset" /\ encoder' = "none"
      /\ loads' = [loads EXCEPT !.dropped = loads.dropped + 1]
      /\ UNCHANGED <<encoderLoaded, encoderFailed, loadLock>>
  BY DEF Unload
<1>2. /\ thread' \in [Threads -> ThreadState] /\ thread'[t].at = "unflag"
      /\ \A u \in Threads :
           /\ u # t => thread'[u].at = thread[u].at
           /\ thread'[u].rows = thread[u].rows /\ thread'[u].reply = thread[u].reply
           /\ thread'[u].scorer = thread[u].scorer
           /\ u # t /\ (thread[u].excused \/ thread[u].at \in InUse) => thread'[u].excused
  <2> DEFINE r(u) == IF u = t THEN [thread[u] EXCEPT !.at = "unflag"]
                     ELSE [thread[u] EXCEPT !.excused = thread[u].excused \/ thread[u].at \in {"use", "predict"}]
  <2>1. thread' = [u \in Threads |-> r(u)]
    BY DEF Unload
  <2>2. ASSUME NEW u \in Threads
        PROVE  /\ r(u) \in ThreadState
               /\ r(u).rows = thread[u].rows /\ r(u).reply = thread[u].reply
               /\ r(u).scorer = thread[u].scorer
               /\ u # t => r(u).at = thread[u].at
               /\ u # t /\ (thread[u].excused \/ thread[u].at \in InUse) => r(u).excused
    BY <1>0 DEF ThreadState, InUse, Locked
  <2>3. r(t).at = "unflag"
    BY <1>0 DEF ThreadState
  <2> HIDE DEF r
  <2> QED
    BY <2>1, <2>2, <2>3
<1>3. LegacyIsExcused' /\ ReplyIsBest'
  BY <1>1, <1>2, DoneStays DEF RetrievalInv
<1>4. LockInv'
  <2>1. loadLock = t /\ loadLock # Unheld /\ \A u \in Threads : u # t => thread[u].at \notin Locked
    BY <1>1 DEF RetrievalInv, RetrievalAssumption, LockInv, Locked
  <2>2. \A u \in Threads : u # t => thread'[u].at \notin Locked
    BY <1>2, <2>1
  <2> QED
    BY <1>1, <1>2, <2>1, <2>2 DEF RetrievalInv, LockInv, Locked
<1>5. EncoderInv'
  <2>1. encoder # "none" /\ loads \in [made : Nat, dropped : Nat] /\ loads.made - loads.dropped = 1
    BY <1>1 DEF RetrievalInv, LockInv, EncoderInv
  <2>2. /\ loads' \in [made : Nat, dropped : Nat] /\ loads'.made = loads.made
        /\ loads'.dropped = loads.dropped + 1
    BY <1>1, <2>1
  <2>3. loads'.made - loads'.dropped = 0
    BY <2>1, <2>2
  <2> QED
    BY <1>1, <2>2, <2>3 DEF RetrievalInv, EncoderInv
<1>6. ExcuseInv'
  BY <1>1, <1>2 DEF RetrievalInv, ExcuseInv, InUse
<1> QED
  BY <1>2, <1>3, <1>4, <1>5, <1>6 DEF RetrievalInv

\* A reply is scored without the encoder with an excuse.
LEMMA Replies_Inv ==
  ASSUME RetrievalAssumption, RetrievalInv, NEW t \in Threads, thread[t].at \in InUse,
         NEW scorer \in {"legacy", "cross_encoder"}, NEW excuse \in BOOLEAN, Replies(t, scorer, excuse),
         scorer = "legacy" => excuse \/ encoder = "none",
         UNCHANGED <<encoder, encoderLoaded, encoderFailed, loadLock, loads>>
  PROVE  RetrievalInv'
<1>0. thread \in [Threads -> ThreadState] /\ thread[t].rows \in SUBSET Hits
  BY DEF RetrievalInv, ThreadState
<1>1. PICK reply \in Ranked(thread[t].rows, scorer) :
        thread' = [thread EXCEPT ![t] = [thread[t] EXCEPT !.at = "done", !.scorer = scorer, !.reply = reply,
                                           !.excused = thread[t].excused \/ excuse]]
  BY DEF Replies
<1> DEFINE r == [thread[t] EXCEPT !.at = "done", !.scorer = scorer, !.reply = reply,
                                  !.excused = thread[t].excused \/ excuse]
<1>2. reply \in Seq(Hits)
  BY <1>0, RankedIsBest
<1>3. /\ r.at = "done" /\ r.scorer = scorer /\ r.reply = reply /\ r.rows = thread[t].rows
      /\ r.excused = (thread[t].excused \/ excuse)
  BY <1>0 DEF ThreadState
<1>4. r \in ThreadState
  <2>1. PICK b \in BOOLEAN : b = (thread[t].excused \/ excuse)
    OBVIOUS
  <2>2. r = [thread[t] EXCEPT !.at = "done", !.scorer = scorer, !.reply = reply, !.excused = b]
    BY <2>1
  <2>3. thread[t] \in ThreadState /\ scorer \in {"none", "legacy", "cross_encoder"}
    BY <1>0
  <2>4. ASSUME NEW q \in ThreadState
        PROVE  [q EXCEPT !.at = "done", !.scorer = scorer, !.reply = reply, !.excused = b] \in ThreadState
    BY <1>2, <2>3 DEF ThreadState
  <2> HIDE DEF r
  <2> QED
    BY <2>2, <2>3, <2>4
<1> HIDE DEF r
<1>5. /\ thread' \in [Threads -> ThreadState] /\ thread'[t] = r
      /\ \A u \in Threads : u # t => thread'[u] = thread[u]
  BY <1>0, <1>1, <1>4 DEF r
<1>6. ReplyIsBest'
  <2> DEFINE Best(q) ==
        /\ \A i \in DOMAIN q.reply, h \in q.rows \ ToSet(q.reply) :
             Score(q.reply[i], q.scorer) >= Score(h, q.scorer)
        /\ \A i, j \in DOMAIN q.reply :
             i < j => Final(q.reply[i], q.scorer) >= Final(q.reply[j], q.scorer)
  <2>1. Best(r)
    BY <1>0, <1>3, RankedIsBest
  <2>2. \A u \in Threads : thread[u].at = "done" => Best(thread[u])
    BY DEF RetrievalInv, ReplyIsBest
  <2>3. \A u \in Threads : thread'[u].at = "done" => Best(thread'[u])
    BY <1>5, <2>1, <2>2
  <2> QED
    BY <2>3 DEF ReplyIsBest
<1>7. LegacyIsExcused'
  BY <1>3, <1>5 DEF RetrievalInv, LegacyIsExcused, ExcuseInv
<1>8. EncoderInv' /\ ExcuseInv'
  BY <1>3, <1>5 DEF RetrievalInv, EncoderInv, ExcuseInv, InUse
<1>9. LockInv'
  BY <1>3, <1>5 DEF RetrievalInv, LockInv, Agree, Locked, InUse
<1> QED
  BY <1>5, <1>6, <1>7, <1>8, <1>9 DEF RetrievalInv

LEMMA Uses_Inv ==
  ASSUME RetrievalAssumption, RetrievalInv, NEW t \in Threads, UseEncoder(t) \/ Predict(t)
  PROVE  RetrievalInv'
<1>1. thread[t].at \in InUse /\ UNCHANGED <<encoder, encoderLoaded, encoderFailed, loadLock, loads>>
  BY DEF UseEncoder, Predict, encoderVars, InUse
<1>2. \/ Goes(t, "predict") /\ encoder # "none"
      \/ encoder = "none" /\ Replies(t, "legacy", FALSE)
      \/ Replies(t, "cross_encoder", FALSE)
      \/ Replies(t, "legacy", TRUE)
  BY DEF UseEncoder, Predict
<1>3. CASE Goes(t, "predict") /\ encoder # "none"
  <2>1. Moves(t, "predict")
    BY <1>3, GoesIs DEF RetrievalInv, InUse
  <2> QED
    BY <1>1, <1>3, <2>1, MovesFreely DEF Locked, InUse
<1> QED
  BY <1>1, <1>2, <1>3, Replies_Inv

\* So every step keeps it.
LEMMA RetrievalNext_Inv ==
  ASSUME RetrievalAssumption, RetrievalInv, [RetrievalNext]_retrievalVars
  PROVE  RetrievalInv'
<1>1. CASE UNCHANGED <<encoder, encoderLoaded, encoderFailed, loadLock, thread, loads>>
  BY <1>1 DEF RetrievalInv, EncoderInv, LockInv, Agree, ExcuseInv, LegacyIsExcused, ReplyIsBest
<1>2. CASE SecondsPass \/ UNCHANGED retrievalVars
  BY <1>1, <1>2 DEF SecondsPass, retrievalVars, encoderVars
<1>3. CASE \E t \in Threads :
        \/ StartSearch(t) \/ AskStatus(t) \/ MaybeUnload(t) \/ TakeUnloadLock(t) \/ CheckIdle(t)
        \/ Unload(t) \/ Unflag(t) \/ LoadModel(t) \/ TakeLoadLock(t) \/ Loaded(t) \/ Flag(t)
        \/ LoadFails(t) \/ UseEncoder(t) \/ Predict(t) \/ Done(t)
  BY <1>3, Begins_Inv, Looks_Inv, TakeLoadLock_Inv, Holder_Inv, Unload_Inv, Uses_Inv
<1> QED
  BY <1>2, <1>3 DEF RetrievalNext

\* And it implies what is promised.
LEMMA RetrievalInv_Safe ==
  ASSUME RetrievalInv
  PROVE  RetrievalSafe
BY DEF RetrievalInv, EncoderInv, LockInv, Agree, RetrievalSafe, OneEncoder

-----------------------------------------------------------------------------
(* The switches of the agents (Delegation)                                  *)

\* A name whose toggles have met no other request is toggled by one at a time,
\* which writes the opposite of what is, and is on after an even number.
SwitchHolds(n) ==
  /\ \A o, q \in TogglesOf(n) : o = q
  /\ \A o \in TogglesOf(n) :
       agents[n] # "none" /\ toggling[o].to = IF agents[n] = "on" THEN "off" ELSE "on"
  /\ agents[n] = "on" => switched[n] % 2 = 0
  /\ agents[n] = "off" => switched[n] % 2 = 1

SwitchInv ==
  /\ agents \in [Custom -> {"on", "off", "none"}]
  /\ toggling \in [Operators -> [name : Custom, to : {"on", "off"}] \cup {NoToggle}]
  /\ switched \in [Custom -> Nat]
  /\ \A n \in Custom \ crossed : SwitchHolds(n)

-----------------------------------------------------------------------------
\* It holds at the start, and each action of the module keeps it.
LEMMA DelegationInit_Inv == DelegationInit => SwitchInv
<1> SUFFICES ASSUME DelegationInit PROVE SwitchInv
  OBVIOUS
<1> USE DEF DelegationInit
<1>1. ASSUME NEW n \in Custom PROVE SwitchHolds(n)
  <2>1. TogglesOf(n) = {}
    BY DelegationAssumption DEF TogglesOf, NoToggle
  <2> QED
    BY <2>1 DEF SwitchHolds
<1> QED
  BY <1>1 DEF SwitchInv

\* What a name is for the toggles stays, where its row and its toggles do.
LEMMA SwitchStays ==
  ASSUME NEW n \in Custom, SwitchHolds(n), TogglesOf(n)' = TogglesOf(n),
         \A o \in TogglesOf(n) : toggling'[o].to = toggling[o].to,
         agents'[n] = agents[n], switched'[n] = switched[n]
  PROVE  SwitchHolds(n)'
  BY DEF SwitchHolds

LEMMA CreateAgent_Inv == ASSUME SwitchInv, NEW n \in Custom, CreateAgent(n) PROVE SwitchInv'
<1>1. /\ agents' = [agents EXCEPT ![n] = "on"] /\ switched' = [switched EXCEPT ![n] = 0]
      /\ crossed' = (IF TogglesOf(n) = {} THEN crossed \ {n} ELSE crossed)
      /\ toggling' = toggling /\ agents[n] = "none"
  BY DEF CreateAgent
<1>2. agents' \in [Custom -> {"on", "off", "none"}] /\ switched' \in [Custom -> Nat]
  BY <1>1 DEF SwitchInv
<1>3. ASSUME NEW m \in Custom \ crossed' PROVE SwitchHolds(m)'
  <2>1. CASE m = n
    <3>1. TogglesOf(n) = {}
      BY <1>1, <2>1 DEF SwitchInv, SwitchHolds
    <3>2. TogglesOf(n)' = {}
      BY <1>1, <3>1 DEF TogglesOf
    <3>3. agents'[n] = "on" /\ switched'[n] = 0 /\ 0 % 2 = 0
      BY <1>1 DEF SwitchInv
    <3> QED
      BY <2>1, <3>2, <3>3 DEF SwitchHolds
  <2>2. CASE m # n
    <3>1. TogglesOf(m)' = TogglesOf(m) /\ agents'[m] = agents[m] /\ switched'[m] = switched[m] /\ m \notin crossed
      BY <1>1, <2>2 DEF TogglesOf, SwitchInv
    <3> QED
      BY <1>1, <3>1, SwitchStays DEF SwitchInv
  <2> QED
    BY <2>1, <2>2
<1> QED
  BY <1>1, <1>2, <1>3 DEF SwitchInv

LEMMA DeleteAgent_Inv == ASSUME SwitchInv, NEW n \in Custom, DeleteAgent(n) PROVE SwitchInv'
<1>1. /\ agents' = [agents EXCEPT ![n] = "none"] /\ switched' = switched
      /\ crossed' = (IF TogglesOf(n) = {} THEN crossed ELSE crossed \cup {n})
      /\ toggling' = toggling
  BY DEF DeleteAgent
<1>2. agents' \in [Custom -> {"on", "off", "none"}]
  BY <1>1 DEF SwitchInv
<1>3. ASSUME NEW m \in Custom \ crossed' PROVE SwitchHolds(m)'
  <2>1. CASE m = n
    <3>1. TogglesOf(n)' = {}
      BY <1>1, <2>1 DEF TogglesOf
    <3>2. agents'[n] = "none"
      BY <1>1 DEF SwitchInv
    <3> QED
      BY <2>1, <3>1, <3>2 DEF SwitchHolds
  <2>2. CASE m # n
    <3>1. TogglesOf(m)' = TogglesOf(m) /\ agents'[m] = agents[m] /\ m \notin crossed
      BY <1>1, <2>2 DEF TogglesOf, SwitchInv
    <3> QED
      BY <1>1, <3>1, SwitchStays DEF SwitchInv
  <2> QED
    BY <2>1, <2>2
<1> QED
  BY <1>1, <1>2, <1>3 DEF SwitchInv

LEMMA ToggleReads_Inv ==
  ASSUME SwitchInv, NEW n \in Custom, NEW o \in Operators, ToggleReads(o, n) PROVE SwitchInv'
<1> DEFINE to == IF agents[n] = "on" THEN "off" ELSE "on"
           toggle == [name |-> n, to |-> to]
<1>1. /\ toggling[o] = NoToggle /\ agents[n] # "none"
      /\ toggling' = [toggling EXCEPT ![o] = toggle]
      /\ crossed' = (IF TogglesOf(n) = {} THEN crossed ELSE crossed \cup {n})
      /\ agents' = agents /\ switched' = switched
  BY DEF ToggleReads
<1>2. toggle \in [name : Custom, to : {"on", "off"}] /\ toggle.name = n /\ toggle.to = to
  OBVIOUS
<1> HIDE DEF toggle
<1>3. toggling' \in [Operators -> [name : Custom, to : {"on", "off"}] \cup {NoToggle}]
  BY <1>1, <1>2 DEF SwitchInv
<1>4. toggling'[o] = toggle /\ \A q \in Operators : q # o => toggling'[q] = toggling[q]
  BY <1>1 DEF SwitchInv
<1>5. \A m \in Custom : m # "none"
  BY DelegationAssumption
<1>6. ASSUME NEW m \in Custom \ crossed' PROVE SwitchHolds(m)'
  <2>1. CASE m = n
    <3>1. TogglesOf(n) = {}
      BY <1>1, <2>1
    <3>2. TogglesOf(n)' = {o}
      BY <1>2, <1>4, <3>1 DEF TogglesOf
    <3> QED
      BY <1>1, <1>2, <1>4, <2>1, <3>2 DEF SwitchHolds, SwitchInv
  <2>2. CASE m # n
    <3>1. m \notin crossed
      BY <1>1
    <3>2. o \notin TogglesOf(m)
      BY <1>1, <1>5 DEF TogglesOf, NoToggle
    <3>3. TogglesOf(m)' = TogglesOf(m)
      BY <1>2, <1>4, <2>2, <3>2 DEF TogglesOf
    <3>4. \A q \in TogglesOf(m) : toggling'[q].to = toggling[q].to
      BY <1>4, <3>2 DEF TogglesOf
    <3> QED
      BY <1>1, <3>1, <3>3, <3>4, SwitchStays DEF SwitchInv
  <2> QED
    BY <2>1, <2>2
<1> QED
  BY <1>1, <1>3, <1>6 DEF SwitchInv

LEMMA ToggleWrites_Inv == ASSUME SwitchInv, NEW o \in Operators, ToggleWrites(o) PROVE SwitchInv'
<1>0. toggling[o] \in [name : Custom, to : {"on", "off"}] /\ toggling[o] # NoToggle
  BY DEF ToggleWrites, SwitchInv
<1>1. PICK n \in Custom : n = toggling[o].name
  BY <1>0
<1>2. /\ agents' = (IF agents[n] = "none" THEN agents ELSE [agents EXCEPT ![n] = toggling[o].to])
      /\ switched' = [switched EXCEPT ![n] = switched[n] + 1]
      /\ toggling' = [toggling EXCEPT ![o] = NoToggle]
      /\ crossed' = crossed
  BY <1>1 DEF ToggleWrites
<1>3. toggling' \in [Operators -> [name : Custom, to : {"on", "off"}] \cup {NoToggle}]
  BY <1>2 DEF SwitchInv
<1>4. toggling'[o] = NoToggle /\ \A q \in Operators : q # o => toggling'[q] = toggling[q]
  BY <1>2 DEF SwitchInv
<1>5. switched' \in [Custom -> Nat] /\ agents' \in [Custom -> {"on", "off", "none"}]
  BY <1>0, <1>2 DEF SwitchInv
<1>6. \A m \in Custom : m # "none"
  BY DelegationAssumption
<1>7. ASSUME NEW m \in Custom \ crossed PROVE SwitchHolds(m)'
  <2>0. SwitchHolds(m)
    BY DEF SwitchInv
  <2>1. CASE m = n
    <3>1. o \in TogglesOf(n) /\ TogglesOf(n) \subseteq {o}
      BY <1>1, <2>0, <2>1 DEF TogglesOf, SwitchHolds
    <3>2. TogglesOf(n)' = {}
      BY <1>4, <1>6, <3>1 DEF TogglesOf, NoToggle
    <3>3. agents[n] \in {"on", "off"} /\ toggling[o].to = IF agents[n] = "on" THEN "off" ELSE "on"
      BY <2>0, <2>1, <3>1 DEF SwitchHolds, SwitchInv
    <3>4. agents'[n] = toggling[o].to
      BY <1>2, <3>3 DEF SwitchInv
    <3>5. switched[n] \in Nat /\ switched'[n] = switched[n] + 1
      BY <1>2 DEF SwitchInv
    <3>6. /\ switched[n] % 2 = 0 => switched'[n] % 2 = 1
          /\ switched[n] % 2 = 1 => switched'[n] % 2 = 0
      BY <3>5
    <3>7. CASE agents[n] = "on"
      <4>1. switched[n] % 2 = 0
        BY <2>0, <2>1, <3>7 DEF SwitchHolds
      <4> QED
        BY <2>1, <3>2, <3>3, <3>4, <3>6, <3>7, <4>1 DEF SwitchHolds
    <3>8. CASE agents[n] = "off"
      <4>1. switched[n] % 2 = 1
        BY <2>0, <2>1, <3>8 DEF SwitchHolds
      <4> QED
        BY <2>1, <3>2, <3>3, <3>4, <3>6, <3>8, <4>1 DEF SwitchHolds
    <3> QED
      BY <3>3, <3>7, <3>8
  <2>2. CASE m # n
    <3>1. o \notin TogglesOf(m)
      BY <1>1, <2>2 DEF TogglesOf
    <3>2. TogglesOf(m)' = TogglesOf(m)
      BY <1>4, <1>6, <3>1 DEF TogglesOf, NoToggle
    <3>3. \A q \in TogglesOf(m) : toggling'[q].to = toggling[q].to
      BY <1>4, <3>1 DEF TogglesOf
    <3>4. agents'[m] = agents[m] /\ switched'[m] = switched[m]
      BY <1>2, <2>2 DEF SwitchInv
    <3> QED
      BY <2>0, <3>2, <3>3, <3>4, SwitchStays
  <2> QED
    BY <2>1, <2>2
<1> QED
  BY <1>2, <1>3, <1>5, <1>7 DEF SwitchInv

\* So every step keeps it.
LEMMA DelegationNext_Inv ==
  ASSUME SwitchInv, [DelegationNext]_delegationVars PROVE SwitchInv'
<1>1. CASE UNCHANGED tableVars
  <2>1. UNCHANGED <<agents, toggling, switched, crossed>>
    BY <1>1 DEF tableVars
  <2>2. ASSUME NEW n \in Custom \ crossed PROVE SwitchHolds(n)'
    BY <2>1 DEF SwitchInv, SwitchHolds, TogglesOf
  <2> QED
    BY <2>1, <2>2 DEF SwitchInv
<1>2. CASE \E n \in Custom : CreateAgent(n)
  BY <1>2, CreateAgent_Inv
<1>3. CASE \E n \in Custom : DeleteAgent(n)
  BY <1>3, DeleteAgent_Inv
<1>4. CASE \E n \in Custom : \E o \in Operators : ToggleReads(o, n)
  BY <1>4, ToggleReads_Inv
<1>5. CASE \E o \in Operators : ToggleWrites(o)
  BY <1>5, ToggleWrites_Inv
<1>6. CASE Decompose \/ Delegate \/ SubtaskReturns \/ UNCHANGED delegationVars
  BY <1>1, <1>6 DEF Decompose, Delegate, SubtaskReturns, delegationVars
<1> QED
  BY <1>2, <1>3, <1>4, <1>5, <1>6 DEF DelegationNext

\* And it implies what is promised.
LEMMA SwitchInv_Safe == SwitchInv => SwitchFollowsToggles
<1> SUFFICES ASSUME SwitchInv, NEW n \in Custom, n \notin crossed, agents[n] # "none"
             PROVE  (agents[n] = "on") = (switched[n] % 2 = 0)
  BY DEF SwitchFollowsToggles
<1>1. SwitchHolds(n) /\ agents[n] \in {"on", "off", "none"}
  BY DEF SwitchInv
<1>2. agents[n] = "on" => switched[n] % 2 = 0
  BY <1>1 DEF SwitchHolds
<1>3. agents[n] # "on" => switched[n] % 2 # 0
  BY <1>1 DEF SwitchHolds
<1> QED
  BY <1>2, <1>3

-----------------------------------------------------------------------------
(* The plans (Plans)                                                        *)

PlanShape ==
  /\ deps \in [Steps -> SUBSET (Steps \cup Absent)]
  /\ mode \in Modes \cup {"none"} /\ remaining \subseteq Steps
  /\ workers \in Nat /\ IsFiniteSet(running)
  /\ workers = 0 => queue = {} /\ running = {} /\ returned = {}
  /\ workers = 1 => \A s, t \in running \cup returned : s = t
  /\ mode # "parallel" => workers <= 1
  /\ mode = "none" => workers = 0 /\ remaining = Steps /\ seen = <<>>
  /\ mode \in {"none", "parallel"} => order = <<>>

InTurn ==
  /\ queue \cap running = {} /\ queue \cap returned = {} /\ running \cap returned = {}
  /\ queue \cup running \cup returned \subseteq remaining

ReadyPhase ==
  /\ \A s \in Completed : deps[s] \subseteq Completed /\ s \notin Needs[s]
  /\ \A s \in queue \cup running \cup returned : deps[s] \subseteq Completed
  /\ \A s \in Started : s \in Steps /\ deps[s] \subseteq Completed /\ seen[s] = deps[s]

StuckPhase ==
  /\ workers <= 1 /\ remaining \subseteq queue \cup running \cup returned
  /\ Orderable \subseteq Completed
  /\ \A s \in Started \cap Orderable : seen[s] = deps[s]

PlanInv == PlanShape /\ (mode = "parallel" => InTurn /\ (ReadyPhase \/ StuckPhase))

-----------------------------------------------------------------------------
\* What a step needs is closed, and the least that is and holds what it depends on.
LEMMA NeedsAre ==
  ASSUME PlanShape, NEW s \in Steps
  PROVE  /\ Needs[s] \subseteq Steps \cup Absent /\ deps[s] \subseteq Needs[s]
         /\ \A d \in Needs[s] \cap Steps : deps[d] \subseteq Needs[s]
         /\ \A C \in SUBSET (Steps \cup Absent) :
              (\A d \in C \cap Steps : deps[d] \subseteq C) /\ deps[s] \subseteq C => Needs[s] \subseteq C
<1>1. \A d \in Steps : deps[d] \subseteq Steps \cup Absent
  BY DEF PlanShape
<1>2. Needs[s] = Closure(deps[s])
  BY DEF Needs
<1>3. \A C : C \in Closed <=> C \in SUBSET (Steps \cup Absent) /\ \A d \in C \cap Steps : deps[d] \subseteq C
  BY DEF Closed
<1>4. \A x : x \in Needs[s] <=> x \in Steps \cup Absent /\ \A C \in Closed : deps[s] \subseteq C => x \in C
  BY <1>2 DEF Closure
<1>5. deps[s] \subseteq Needs[s]
  BY <1>1, <1>4
<1>6. ASSUME NEW d \in Needs[s] \cap Steps
      PROVE  deps[d] \subseteq Needs[s]
  <2> SUFFICES ASSUME NEW x \in deps[d], NEW C \in Closed, deps[s] \subseteq C
               PROVE  x \in C
    BY <1>1, <1>4
  <2>1. d \in C
    BY <1>4
  <2> QED
    BY <1>3, <2>1
<1>7. ASSUME NEW C \in SUBSET (Steps \cup Absent), \A d \in C \cap Steps : deps[d] \subseteq C, deps[s] \subseteq C
      PROVE  Needs[s] \subseteq C
  BY <1>3, <1>4, <1>7
<1> QED
  BY <1>4, <1>5, <1>6, <1>7

\* What a step that is needed needs is needed too.
LEMMA NeedsOfNeeds ==
  ASSUME PlanShape, NEW s \in Steps, NEW d \in Needs[s] \cap Steps
  PROVE  Needs[d] \subseteq Needs[s]
BY NeedsAre

\* A step can be ordered if nothing it needs is absent or needs itself.
LEMMA OrderableAre ==
  ASSUME NEW s
  PROVE  s \in Orderable <=> s \in Steps /\ \A t \in Needs[s] : t \in Steps /\ t \notin Needs[t]
BY DEF Orderable

\* A set of numbers has a least one.
LEMMA LeastNumber ==
  ASSUME NEW S \in SUBSET Nat, S # {}
  PROVE  \E m \in S : \A n \in S : m <= n
<1> DEFINE less == OpToRel(<, Nat)
<1>1. less = {p \in Nat \X Nat : p[1] < p[2]}
  BY DEF OpToRel
<1>2. IsWellFoundedOn(less, Nat)
  BY NatLessThanWellFounded
<1> HIDE DEF less
<1>3. PICK m \in S : \A n \in S : ~ (<<n, m>> \in less)
  BY <1>2, WFMin
<1>4. ASSUME NEW n \in S PROVE m <= n
  <2>1. m \in Nat /\ n \in Nat
    OBVIOUS
  <2>2. ~ (n < m)
    BY <1>1, <1>3, <2>1
  <2> QED
    BY <2>1, <2>2
<1> QED
  BY <1>4

\* Where no step is ready, all that can be ordered are done: of those that are
\* not, one that needs the fewest would be ready.
LEMMA StuckIsDone ==
  ASSUME PlansAssumption, PlanShape, Ready = {}
  PROVE  Orderable \subseteq Completed
<1> SUFFICES ASSUME Orderable \ Completed # {}
             PROVE  FALSE
  OBVIOUS
<1>1. IsFiniteSet(Steps) /\ \A s \in Orderable : s \in Steps /\ Needs[s] \subseteq Steps
  BY OrderableAre DEF PlansAssumption
<1>2. \A s \in Orderable : IsFiniteSet(Needs[s]) /\ Cardinality(Needs[s]) \in Nat
  BY <1>1, FS_Subset, FS_CardinalityType
<1> DEFINE Sizes == {n \in Nat : \E s \in Orderable \ Completed : n = Cardinality(Needs[s])}
<1>3. Sizes \in SUBSET Nat /\ Sizes # {}
  <2>1. PICK s \in Orderable \ Completed : TRUE
    OBVIOUS
  <2>2. Cardinality(Needs[s]) \in Sizes
    BY <1>2, <2>1
  <2> QED
    BY <2>2
<1>4. PICK m \in Sizes : \A n \in Sizes : m <= n
  BY <1>3, LeastNumber
<1>5. PICK s \in Orderable \ Completed : m = Cardinality(Needs[s])
  BY <1>4
<1>6. \A r \in Orderable \ Completed : Cardinality(Needs[s]) <= Cardinality(Needs[r])
  BY <1>2, <1>4, <1>5
<1>7. s \in Steps /\ s \in remaining /\ ~ (deps[s] \subseteq Completed)
  BY <1>1 DEF Completed, Ready
<1>8. PICK d \in deps[s] : d \notin Completed
  BY <1>7
<1>9. /\ d \in Needs[s] /\ d \in Steps /\ d \notin Needs[d]
      /\ \A t \in Needs[s] : t \in Steps /\ t \notin Needs[t]
  BY <1>5, <1>7, <1>8, NeedsAre, OrderableAre
<1>10. Needs[d] \subseteq Needs[s]
  BY <1>7, <1>9, NeedsOfNeeds
<1>11. d \in Orderable
  BY <1>9, <1>10, OrderableAre
<1>12. Cardinality(Needs[d]) < Cardinality(Needs[s])
  <2>1. Needs[d] # Needs[s]
    BY <1>9
  <2> QED
    <3>1. PICK a, b : a = Needs[d] /\ b = Needs[s]
      OBVIOUS
    <3>2. IsFiniteSet(b) /\ a \in SUBSET b /\ a # b
      BY <1>2, <1>5, <1>10, <2>1, <3>1
    <3>3. Cardinality(a) < Cardinality(b)
      <4>1. IsFiniteSet(a) /\ Cardinality(a) <= Cardinality(b) /\ Cardinality(a) # Cardinality(b)
        BY <3>2, FS_Subset
      <4>2. Cardinality(a) \in Nat /\ Cardinality(b) \in Nat
        BY <3>2, <4>1, FS_CardinalityType
      <4> QED
        BY <4>1, <4>2
    <3> QED
      BY <3>1, <3>3
<1>13. Cardinality(Needs[s]) <= Cardinality(Needs[d])
  BY <1>6, <1>8, <1>11
<1>14. Cardinality(Needs[s]) \in Nat /\ Cardinality(Needs[d]) \in Nat
  BY <1>2, <1>5, <1>11
<1> QED
  BY <1>12, <1>13, <1>14

\* What is needed is the plan's.
LEMMA NeedsStay ==
  ASSUME deps' = deps
  PROVE  Needs' = Needs /\ Orderable' = Orderable
<1>1. Closed' = Closed
  BY DEF Closed
<1>2. Needs' = Needs
  BY <1>1 DEF Needs, Closure
<1>3. Orderable' = Orderable
  BY <1>2 DEF Orderable
<1> QED
  BY <1>2, <1>3

\* It holds at the start, and each action of the module keeps it.
LEMMA PlanInit_Inv ==
  ASSUME PlanInit
  PROVE  PlanInv
<1>1. IsFiniteSet(running)
  BY FS_EmptySet DEF PlanInit
<1> QED
  BY <1>1 DEF PlanInit, PlanInv, PlanShape, Modes

\* Any plan: none of its steps is done.
LEMMA MakePlan_Inv ==
  ASSUME PlanInv, MakePlan
  PROVE  PlanInv'
<1>1. /\ PlanShape /\ mode = "none" /\ mode' \in Modes
      /\ deps' \in [Steps -> {D \in SUBSET (Steps \cup Absent) : Cardinality(D) <= MaxDeps}]
      /\ UNCHANGED <<remaining, order, queue, workers, running, returned, seen>>
  BY DEF MakePlan, PlanInv
<1>2. deps' \in [Steps -> SUBSET (Steps \cup Absent)]
  BY <1>1
<1>3. /\ remaining = Steps /\ seen = <<>> /\ order = <<>> /\ workers = 0
      /\ queue = {} /\ running = {} /\ returned = {}
  BY <1>1 DEF PlanShape
<1>4. PlanShape'
  BY <1>1, <1>2, <1>3 DEF PlanShape, Modes
<1>5. InTurn'
  BY <1>1, <1>3 DEF InTurn
<1>6. ReadyPhase'
  <2>1. Completed' = {} /\ Started' = {}
    BY <1>1, <1>3 DEF Completed, Started
  <2> QED
    BY <1>1, <1>3, <2>1 DEF ReadyPhase
<1> QED
  BY <1>4, <1>5, <1>6 DEF PlanInv

\* What is ready has its results; what was executed before is done.
LEMMA RunReady_Inv ==
  ASSUME PlansAssumption, PlanInv, RunReady
  PROVE  PlanInv'
<1>1. /\ PlanShape /\ InTurn /\ (ReadyPhase \/ StuckPhase) /\ mode = "parallel"
      /\ workers = 0 /\ remaining # {} /\ Ready # {}
      /\ queue' = Ready /\ workers' = Fewer(Cardinality(Ready), MaxWorkers)
      /\ UNCHANGED <<deps, mode, remaining, order, running, returned, seen>>
  BY DEF RunReady, PlanInv, Idle, Execute
<1>2. queue = {} /\ running = {} /\ returned = {} /\ Ready \subseteq remaining /\ remaining \subseteq Steps
  BY <1>1 DEF PlanShape, Ready
<1>3. ReadyPhase
  BY <1>1, <1>2 DEF StuckPhase
<1>4. workers' \in Nat \ {0}
  <2>1. IsFiniteSet(Ready)
    BY <1>2, FS_Subset DEF PlansAssumption
  <2>2. Cardinality(Ready) \in Nat /\ Cardinality(Ready) # 0
    BY <1>1, <2>1, FS_CardinalityType, FS_EmptySet
  <2> QED
    BY <1>1, <2>2 DEF Fewer, PlansAssumption
<1>5. PlanShape'
  BY <1>1, <1>2, <1>4 DEF PlanShape
<1>6. InTurn'
  BY <1>1, <1>2 DEF InTurn
<1>7. ReadyPhase'
  <2>1. Completed' = Completed /\ Started' = Started /\ Needs' = Needs
    BY <1>1, NeedsStay DEF Completed, Started
  <2>2. \A s \in Ready : deps[s] \subseteq Completed
    BY DEF Ready
  <2> QED
    BY <1>1, <1>2, <1>3, <2>1, <2>2 DEF ReadyPhase
<1> QED
  BY <1>5, <1>6, <1>7 DEF PlanInv

\* Where none is ready, what can be ordered is done.
LEMMA RunStuck_Inv ==
  ASSUME PlansAssumption, PlanInv, RunStuck
  PROVE  PlanInv'
<1>1. /\ PlanShape /\ InTurn /\ (ReadyPhase \/ StuckPhase) /\ mode = "parallel"
      /\ workers = 0 /\ remaining # {} /\ Ready = {}
      /\ queue' = remaining /\ workers' = 1
      /\ UNCHANGED <<deps, mode, remaining, order, running, returned, seen>>
  BY DEF RunStuck, PlanInv, Idle, Execute
<1>2. queue = {} /\ running = {} /\ returned = {} /\ remaining \subseteq Steps
  BY <1>1 DEF PlanShape
<1>3. ReadyPhase
  BY <1>1, <1>2 DEF StuckPhase
<1>4. Orderable \subseteq Completed
  BY <1>1, StuckIsDone
<1>5. PlanShape'
  BY <1>1, <1>2 DEF PlanShape
<1>6. InTurn'
  BY <1>1, <1>2 DEF InTurn
<1>7. StuckPhase'
  <2>1. Completed' = Completed /\ Started' = Started /\ Orderable' = Orderable
    BY <1>1, NeedsStay DEF Completed, Started
  <2>2. \A s \in Started \cap Orderable : seen[s] = deps[s]
    BY <1>3 DEF ReadyPhase
  <2>3. workers' <= 1 /\ remaining' \subseteq queue' \cup running' \cup returned'
    BY <1>1
  <2>4. \A s \in (Started \cap Orderable)' : seen'[s] = deps'[s]
    BY <1>1, <2>1, <2>2
  <2> QED
    BY <1>4, <2>1, <2>3, <2>4 DEF StuckPhase
<1> QED
  BY <1>5, <1>6, <1>7 DEF PlanInv

LEMMA RunInOrder_Inv ==
  ASSUME PlanInv, RunInOrder
  PROVE  PlanInv'
<1>1. /\ PlanShape /\ mode \in {"sequential", "orchestrator"} /\ workers = 0
      /\ workers' = 1
      /\ UNCHANGED <<deps, mode, remaining, running, returned, seen>>
  BY DEF RunInOrder, PlanInv, Idle, Execute
<1>2. PlanShape'
  BY <1>1 DEF PlanShape
<1> QED
  BY <1>1, <1>2 DEF PlanInv

\* A step that starts has the results of all it depends on, but for one that
\* cannot be ordered.
LEMMA StartStep_Inv ==
  ASSUME PlanInv, StartStep
  PROVE  PlanInv'
<1>1. /\ PlanShape /\ (mode = "parallel" => InTurn /\ (ReadyPhase \/ StuckPhase))
      /\ queue # {} /\ Cardinality(running) < workers /\ (workers = 1 => returned = {})
      /\ UNCHANGED <<deps, mode, remaining, order, workers, returned>>
  BY DEF StartStep, PlanInv
<1>2. PICK s \in NextOf(queue) :
       /\ running' = running \cup {s} /\ queue' = queue \ {s}
       /\ seen' = [t \in Started \cup {s} |-> IF t = s THEN deps[s] \cap Completed ELSE seen[t]]
  BY DEF StartStep
<1>3. workers \in Nat \ {0} /\ mode # "none" /\ IsFiniteSet(running) /\ Cardinality(running) \in Nat
  BY <1>1, FS_CardinalityType DEF PlanShape
<1>4. workers = 1 => running = {}
  <2> SUFFICES ASSUME workers = 1 PROVE running = {}
    OBVIOUS
  <2>1. Cardinality(running) = 0
    BY <1>1, <1>3
  <2> QED
    BY <1>3, <2>1, FS_EmptySet
<1>5. PlanShape'
  <2>1. IsFiniteSet(running')
    BY <1>2, <1>3, FS_AddElement
  <2>2. workers' = 1 => \A t, u \in running' \cup returned' : t = u
    BY <1>1, <1>2, <1>4
  <2> QED
    BY <1>1, <1>3, <2>1, <2>2 DEF PlanShape
<1>6. ASSUME mode = "parallel"
      PROVE  InTurn' /\ (ReadyPhase' \/ StuckPhase')
  <2>1. InTurn /\ (ReadyPhase \/ StuckPhase)
    BY <1>1, <1>6
  <2>2. s \in queue /\ s \in remaining /\ s \in Steps
    BY <1>1, <1>2, <1>6, <2>1 DEF NextOf, PlanShape, InTurn
  <2>3. InTurn'
    BY <1>1, <1>2, <2>1, <2>2 DEF InTurn
  <2>4. /\ Completed' = Completed /\ Needs' = Needs /\ Orderable' = Orderable /\ deps' = deps
        /\ Started' = Started \cup {s}
    BY <1>1, <1>2, NeedsStay DEF Completed, Started
  <2>5. seen'[s] = deps[s] \cap Completed /\ \A t \in Started : t # s => seen'[t] = seen[t]
    BY <1>2
  <2>6. ASSUME ReadyPhase
        PROVE  ReadyPhase'
    <3>1. deps[s] \subseteq Completed
      BY <2>2, <2>6 DEF ReadyPhase
    <3>2. \A t \in Started' : t \in Steps /\ deps[t] \subseteq Completed /\ seen'[t] = deps[t]
      BY <2>2, <2>4, <2>5, <2>6, <3>1 DEF ReadyPhase
    <3>3. queue' \cup running' \cup returned' = queue \cup running \cup returned
      BY <1>1, <1>2, <2>2
    <3> QED
      BY <2>4, <2>6, <3>2, <3>3 DEF ReadyPhase
  <2>7. ASSUME StuckPhase
        PROVE  StuckPhase'
    <3>1. s \notin Orderable
      BY <2>2, <2>7 DEF StuckPhase, Completed
    <3>2. \A t \in (Started \cap Orderable)' : seen'[t] = deps'[t]
      BY <2>4, <2>5, <2>7, <3>1 DEF StuckPhase
    <3>3. queue' \cup running' \cup returned' = queue \cup running \cup returned
      BY <1>1, <1>2, <2>2
    <3>4. workers' <= 1 /\ remaining' \subseteq queue' \cup running' \cup returned'
      BY <1>1, <2>7, <3>3 DEF StuckPhase
    <3>5. Orderable' \subseteq Completed'
      BY <2>4, <2>7 DEF StuckPhase
    <3> QED
      BY <3>2, <3>4, <3>5 DEF StuckPhase
  <2> QED
    BY <2>1, <2>3, <2>6, <2>7
<1> QED
  BY <1>1, <1>5, <1>6 DEF PlanInv

LEMMA StepReturns_Inv ==
  ASSUME PlanInv, NEW s, StepReturns(s)
  PROVE  PlanInv'
<1>1. /\ PlanShape /\ (mode = "parallel" => InTurn /\ (ReadyPhase \/ StuckPhase)) /\ s \in running
      /\ running' = running \ {s} /\ returned' = returned \cup {s}
      /\ UNCHANGED <<deps, mode, remaining, order, queue, workers, seen>>
  BY DEF StepReturns, PlanInv
<1>2. running' \cup returned' = running \cup returned /\ IsFiniteSet(running')
  BY <1>1, FS_RemoveElement DEF PlanShape
<1>3. PlanShape'
  BY <1>1, <1>2 DEF PlanShape
<1>4. ASSUME mode = "parallel"
      PROVE  InTurn' /\ (ReadyPhase' \/ StuckPhase')
  <2>1. InTurn /\ (ReadyPhase \/ StuckPhase)
    BY <1>1, <1>4
  <2>2. InTurn'
    BY <1>1, <1>2, <2>1 DEF InTurn
  <2>3. /\ Completed' = Completed /\ Needs' = Needs /\ Orderable' = Orderable /\ Started' = Started
        /\ queue' \cup running' \cup returned' = queue \cup running \cup returned
    BY <1>1, <1>2, NeedsStay DEF Completed, Started
  <2>4. ReadyPhase => ReadyPhase'
    BY <1>1, <2>3 DEF ReadyPhase
  <2>5. StuckPhase => StuckPhase'
    BY <1>1, <2>3 DEF StuckPhase
  <2> QED
    BY <2>1, <2>2, <2>4, <2>5
<1> QED
  BY <1>1, <1>3, <1>4 DEF PlanInv

\* What is done was not needed by what is done.
LEMMA CollectStep_Inv ==
  ASSUME PlanInv, NEW s \in Steps, CollectStep(s)
  PROVE  PlanInv'
<1>1. /\ PlanShape /\ (mode = "parallel" => InTurn /\ (ReadyPhase \/ StuckPhase)) /\ s \in returned
      /\ returned' = returned \ {s} /\ remaining' = remaining \ {s}
      /\ workers' = IF queue = {} /\ running = {} /\ returned = {s} THEN 0 ELSE workers
      /\ UNCHANGED <<deps, mode, order, queue, running, seen>>
  BY DEF CollectStep, PlanInv
<1>2. workers # 0 /\ mode # "none" /\ workers' \in {0, workers}
      /\ (workers' = 0 => queue' = {} /\ running' = {} /\ returned' = {})
  BY <1>1 DEF PlanShape
<1>3. PlanShape'
  BY <1>1, <1>2 DEF PlanShape
<1>4. ASSUME mode = "parallel"
      PROVE  InTurn' /\ (ReadyPhase' \/ StuckPhase')
  <2>1. InTurn /\ (ReadyPhase \/ StuckPhase)
    BY <1>1, <1>4
  <2>2. s \in remaining /\ s \notin queue /\ s \notin running
    BY <1>1, <2>1 DEF InTurn
  <2>3. InTurn'
    BY <1>1, <2>1, <2>2 DEF InTurn
  <2>4. /\ Completed' = Completed \cup {s} /\ Needs' = Needs /\ Orderable' = Orderable /\ Started' = Started
        /\ s \notin Completed
    BY <1>1, <2>2, NeedsStay DEF Completed, Started
  <2>5. ASSUME ReadyPhase
        PROVE  ReadyPhase'
    <3>1. deps[s] \subseteq Completed
      BY <1>1, <2>5 DEF ReadyPhase
    <3>2. Needs[s] \subseteq Completed
      <4>1. Completed \in SUBSET (Steps \cup Absent) /\ \A d \in Completed \cap Steps : deps[d] \subseteq Completed
        BY <2>5 DEF ReadyPhase, Completed
      <4> QED
        BY <1>1, <3>1, <4>1, NeedsAre
    <3>3. s \notin Needs[s]
      BY <2>4, <3>2
    <3>4. \A t \in Completed' : deps'[t] \subseteq Completed' /\ t \notin Needs'[t]
      BY <1>1, <2>4, <2>5, <3>1, <3>3 DEF ReadyPhase
    <3>5. \A t \in queue' \cup running' \cup returned' : deps'[t] \subseteq Completed'
      BY <1>1, <2>4, <2>5 DEF ReadyPhase
    <3>6. \A t \in Started' : t \in Steps /\ deps'[t] \subseteq Completed' /\ seen'[t] = deps'[t]
      BY <1>1, <2>4, <2>5 DEF ReadyPhase
    <3> QED
      BY <3>4, <3>5, <3>6 DEF ReadyPhase
  <2>6. ASSUME StuckPhase
        PROVE  StuckPhase'
    <3>1. workers' <= 1
      BY <1>2, <2>6 DEF StuckPhase
    <3>2. remaining' \subseteq queue' \cup running' \cup returned'
      BY <1>1, <2>6 DEF StuckPhase
    <3>3. Orderable' \subseteq Completed' /\ \A t \in (Started \cap Orderable)' : seen'[t] = deps'[t]
      BY <1>1, <2>4, <2>6 DEF StuckPhase
    <3> QED
      BY <3>1, <3>2, <3>3 DEF StuckPhase
  <2> QED
    BY <2>1, <2>3, <2>5, <2>6
<1> QED
  BY <1>1, <1>3, <1>4 DEF PlanInv

\* So every step keeps it.
LEMMA PlanNext_Inv ==
  ASSUME PlansAssumption, PlanInv, [PlanNext]_planVars
  PROVE  PlanInv'
<1>1. CASE UNCHANGED planVars
  <2>1. UNCHANGED <<deps, mode, remaining, order, queue, workers, running, returned, seen>>
    BY <1>1 DEF planVars
  <2>2. Completed' = Completed /\ Needs' = Needs /\ Orderable' = Orderable /\ Started' = Started
    BY <2>1, NeedsStay DEF Completed, Started
  <2>3. PlanShape' /\ (mode = "parallel" => InTurn')
    BY <2>1 DEF PlanInv, PlanShape, InTurn
  <2>4. (ReadyPhase => ReadyPhase') /\ (StuckPhase => StuckPhase')
    BY <2>1, <2>2 DEF ReadyPhase, StuckPhase
  <2> QED
    BY <2>1, <2>3, <2>4 DEF PlanInv
<1> QED
  BY <1>1, MakePlan_Inv, RunReady_Inv, RunStuck_Inv, RunInOrder_Inv, StartStep_Inv, StepReturns_Inv,
     CollectStep_Inv DEF PlanNext

\* And it implies what is promised.
LEMMA PlanInv_Safe ==
  ASSUME PlanInv
  PROVE  ParallelRespectsOrder /\ ParallelAreIndependent
<1>1. PlanShape /\ (mode = "parallel" => InTurn /\ (ReadyPhase \/ StuckPhase))
  BY DEF PlanInv
<1>2. ASSUME ReadyPhase, NEW s \in Steps, deps[s] \subseteq Completed
      PROVE  Needs[s] \subseteq Completed
  <2>1. Completed \in SUBSET (Steps \cup Absent) /\ \A d \in Completed \cap Steps : deps[d] \subseteq Completed
    BY <1>2 DEF ReadyPhase, Completed
  <2> QED
    BY <1>1, <1>2, <2>1, NeedsAre
<1>3. ParallelRespectsOrder
  <2> SUFFICES ASSUME mode = "parallel"
               PROVE  /\ \A s \in Started \cap Orderable : seen[s] = deps[s]
                      /\ Started \subseteq Orderable \/ Orderable \subseteq Completed
    BY DEF ParallelRespectsOrder
  <2>1. CASE ReadyPhase
    <3>1. ASSUME NEW s \in Started
          PROVE  s \in Orderable
      <4>1. s \in Steps /\ Needs[s] \subseteq Completed
        BY <1>2, <2>1 DEF ReadyPhase
      <4>2. \A t \in Needs[s] : t \in Steps /\ t \notin Needs[t]
        BY <2>1, <4>1 DEF ReadyPhase, Completed
      <4> QED
        BY <4>1, <4>2, OrderableAre
    <3> QED
      BY <2>1, <3>1 DEF ReadyPhase
  <2>2. CASE StuckPhase
    BY <2>2 DEF StuckPhase
  <2> QED
    BY <1>1, <2>1, <2>2
<1>4. ParallelAreIndependent
  <2> SUFFICES ASSUME NEW s \in running \cup returned, NEW t \in running \cup returned, s # t
               PROVE  s \notin Needs[t]
    BY DEF ParallelAreIndependent
  <2>1. ~ (workers <= 1)
    BY <1>1 DEF PlanShape
  <2>2. mode = "parallel" /\ InTurn /\ ReadyPhase
    BY <1>1, <2>1 DEF PlanShape, StuckPhase
  <2>3. s \in remaining /\ t \in Steps /\ deps[t] \subseteq Completed
    BY <1>1, <2>2 DEF InTurn, ReadyPhase, PlanShape
  <2>4. Needs[t] \subseteq Completed
    BY <1>2, <2>2, <2>3
  <2> QED
    BY <2>3, <2>4 DEF Completed
<1> QED
  BY <1>3, <1>4

-----------------------------------------------------------------------------
(* The smart chat (SmartChat)                                               *)

ChatObject == [id : Sessions, seen : SUBSET Chunks, shown : SUBSET Chunks, stale : BOOLEAN]
ChatSummary == [session : Sessions, upto : Nat]
ChatTurn ==
  [at : {"silent", "compress", "summarise", "retrieve", "track", "answer"},
   session : Sessions, object : Nat, length : Nat, kept : Nat, summed : Nat,
   source : {"whole", "summary", "cache", "empty"}, found : SUBSET Chunks]

\* One object for each of the sessions used last, in their order; f: of which
\* session an object is.
RanksAs(os, ns, f) ==
  /\ ns \in Seq(Sessions) /\ \A i, j \in 1..Len(ns) : ns[i] = ns[j] => i = j
  /\ os \in Seq(Nat) /\ Len(os) <= Len(ns)
  /\ \A i \in 1..Len(os) : f[os[i]] = ns[Len(ns) - Len(os) + i]

\* Everything of os1 is of os.
From(os1, os) == \A i \in 1..Len(os1) : \E j \in 1..Len(os) : os1[i] = os[j]

Belongs == [o \in DOMAIN sessions |-> sessions[o].id]

MemoriesAre ==
  /\ sessions \in Seq(ChatObject)
  /\ \A o \in DOMAIN sessions : sessions[o].shown \subseteq sessions[o].seen
  /\ RanksAs(lru, asked, Belongs) /\ Len(lru) <= MaxSessions
  /\ \A i \in 1..Len(lru) : lru[i] \in DOMAIN sessions

\* Every summary is of a session of its own, and of messages that were sent
\* before those that stay.
SummariesAre ==
  /\ sent \in [Sessions -> Nat]
  /\ summaries \in Seq(ChatSummary) /\ Len(summaries) <= MaxSummaries
  /\ \A i, j \in 1..Len(summaries) : summaries[i].session = summaries[j].session => i = j
  /\ \A i \in 1..Len(summaries) : summaries[i].upto + Recent <= sent[summaries[i].session]

\* What a chat has compressed is of the conversation it was sent.
TurnIs(r, all) ==
  /\ r.length <= all
  /\ r.source = "whole" => r.kept = r.length /\ r.summed = 0
  /\ r.source # "whole" => r.kept = Recent /\ Recent <= r.length
  /\ r.source = "summary" => r.summed = r.length - Recent
  /\ r.summed = 0 \/ r.summed + Recent <= all
  /\ r.at = "compress" => r.source = "whole"
  /\ r.at \notin {"track", "answer"} => r.found = {}
  /\ r.at = "summarise" => r.source = "whole" /\ Long < r.length

TurnsAre ==
  /\ chat \in [Chats -> ChatTurn]
  /\ \A c \in Chats : TurnIs(chat[c], sent[chat[c].session])
  /\ \A c \in Chats : chat[c].at # "silent" => chat[c].object \in DOMAIN sessions

\* A chat that still holds a chunk the session was shown, or that another chat
\* of the session holds as well, is one of two that looked for it unseen.
Holds(c, o, x) == chat[c].at \in {"track", "answer"} /\ chat[c].object = o /\ x \in chat[c].found

ChunksAre ==
  /\ \A c \in Chats : chat[c].at = "answer" => chat[c].found \subseteq sessions[chat[c].object].seen
  /\ \A c \in Chats, o \in DOMAIN sessions, x \in Chunks :
       Holds(c, o, x) /\ x \in sessions[o].shown => <<o, x>> \in collided
  /\ \A c, d \in Chats, o \in DOMAIN sessions, x \in Chunks :
       c # d /\ Holds(c, o, x) /\ Holds(d, o, x) => <<o, x>> \in collided
  /\ twice \subseteq collided

ChatInv == MemoriesAre /\ SummariesAre /\ TurnsAre /\ ChunksAre

-----------------------------------------------------------------------------
\* What a sequence is without one of its places, or without none.
LEMMA DropIs ==
  ASSUME NEW T, NEW s \in Seq(T), NEW places \in SUBSET (1..Len(s))
  PROVE  \/ places = {} /\ Drop(s, places) = s
         \/ \E i \in places :
              /\ Drop(s, places) \in Seq(T) /\ Len(Drop(s, places)) = Len(s) - 1
              /\ \A k \in 1..Len(s) - 1 : Drop(s, places)[k] = IF k < i THEN s[k] ELSE s[k + 1]
BY PopIs DEF Drop, Pop

\* Without a session, the order is that of the others.
LEMMA DroppedRanks ==
  ASSUME NEW f, NEW os, NEW ns, RanksAs(os, ns, f), NEW n0 \in Sessions,
         NEW os1, os1 = Drop(os, {i \in DOMAIN os : f[os[i]] = n0}),
         NEW ns1, ns1 = Drop(ns, {i \in DOMAIN ns : ns[i] = n0})
  PROVE  /\ RanksAs(os1, ns1, f)
         /\ \A i \in 1..Len(ns1) : ns1[i] # n0
         /\ Len(os1) <= Len(os)
         /\ (\E i \in 1..Len(os) : f[os[i]] = n0) => Len(os1) = Len(os) - 1
         /\ From(os1, os)
<1> DEFINE S == {i \in 1..Len(os) : f[os[i]] = n0}
           W == {i \in 1..Len(ns) : ns[i] = n0}
<1>0. /\ os \in Seq(Nat) /\ ns \in Seq(Sessions) /\ Len(os) \in Nat /\ Len(ns) \in Nat
      /\ Len(os) <= Len(ns) /\ DOMAIN os = 1..Len(os) /\ DOMAIN ns = 1..Len(ns)
  BY DEF RanksAs
<1>1. PICK n \in Nat, m \in Nat, d \in Nat : n = Len(os) /\ m = Len(ns) /\ m = n + d
  <2>1. Len(ns) - Len(os) \in Nat /\ Len(ns) = Len(os) + (Len(ns) - Len(os))
    BY <1>0
  <2> QED
    BY <1>0, <2>1
<1>2. os1 = Drop(os, S) /\ ns1 = Drop(ns, W)
  BY <1>0
<1>3. \A i, j \in 1..m : ns[i] = ns[j] => i = j
  BY <1>1 DEF RanksAs
<1>4. \A i \in 1..n : f[os[i]] = ns[d + i]
  <2>1. Len(ns) - Len(os) = d
    BY <1>1
  <2> QED
    BY <1>1, <2>1 DEF RanksAs
<1> HIDE DEF S, W
<1>5. \/ W = {} /\ ns1 = ns
      \/ \E i \in W : /\ ns1 \in Seq(Sessions) /\ Len(ns1) = m - 1
                      /\ \A k \in 1..m - 1 : ns1[k] = IF k < i THEN ns[k] ELSE ns[k + 1]
  <2>1. W \in SUBSET (1..Len(ns))
    BY DEF W
  <2>2. \/ W = {} /\ Drop(ns, W) = ns
        \/ \E i \in W :
             /\ Drop(ns, W) \in Seq(Sessions) /\ Len(Drop(ns, W)) = Len(ns) - 1
             /\ \A k \in 1..Len(ns) - 1 : Drop(ns, W)[k] = IF k < i THEN ns[k] ELSE ns[k + 1]
    BY <1>0, <2>1, DropIs
  <2> QED
    BY <1>1, <1>2, <2>2
<1>6. \/ S = {} /\ os1 = os
      \/ \E i \in S : /\ os1 \in Seq(Nat) /\ Len(os1) = n - 1
                      /\ \A k \in 1..n - 1 : os1[k] = IF k < i THEN os[k] ELSE os[k + 1]
  <2>1. S \in SUBSET (1..Len(os))
    BY DEF S
  <2>2. \/ S = {} /\ Drop(os, S) = os
        \/ \E i \in S :
             /\ Drop(os, S) \in Seq(Nat) /\ Len(Drop(os, S)) = Len(os) - 1
             /\ \A k \in 1..Len(os) - 1 : Drop(os, S)[k] = IF k < i THEN os[k] ELSE os[k + 1]
    BY <1>0, <2>1, DropIs
  <2> QED
    BY <1>1, <1>2, <2>2
<1>7. /\ \A i \in S : i \in 1..n /\ f[os[i]] = n0 /\ d + i \in W
      /\ \A i \in 1..n : f[os[i]] = n0 => i \in S
      /\ \A i \in W : i \in 1..m /\ ns[i] = n0
      /\ \A i \in 1..m : ns[i] = n0 => i \in W
  BY <1>1, <1>4 DEF S, W
<1>8. CASE W = {}
  <2>1. S = {} /\ ns1 = ns /\ os1 = os
    BY <1>5, <1>6, <1>7, <1>8
  <2>2. ~ \E i \in 1..n : f[os[i]] = n0
    BY <2>1, <1>7
  <2>3. \A i \in 1..m : ns[i] # n0
    BY <1>7, <1>8
  <2>4. Len(os) <= Len(os) /\ From(os, os)
    BY <1>0 DEF From
  <2> QED
    BY <2>1, <2>2, <2>3, <2>4, <1>1
<1>9. ASSUME NEW k0 \in W, ns1 \in Seq(Sessions), Len(ns1) = m - 1,
             \A k \in 1..m - 1 : ns1[k] = IF k < k0 THEN ns[k] ELSE ns[k + 1]
      PROVE  /\ RanksAs(os1, ns1, f) /\ \A i \in 1..Len(ns1) : ns1[i] # n0
             /\ Len(os1) <= n /\ (S # {} => Len(os1) = n - 1)
             /\ From(os1, os)
  <2>1. k0 \in 1..m /\ ns[k0] = n0
    BY <1>7
  <2>2. \A i \in 1..m - 1 : ns1[i] # n0
    BY <2>1, <1>3, <1>9, <1>1
  <2>3. \A i, j \in 1..m - 1 : ns1[i] = ns1[j] => i = j
    <3> SUFFICES ASSUME NEW i \in 1..m - 1, NEW j \in 1..m - 1, ns1[i] = ns1[j]
                 PROVE  i = j
      OBVIOUS
    <3> DEFINE up(k) == IF k < k0 THEN k ELSE k + 1
    <3>1. ns1[i] = ns[up(i)] /\ ns1[j] = ns[up(j)]
      BY <1>9
    <3>2. up(i) \in 1..m /\ up(j) \in 1..m
      BY <1>1, <2>1
    <3>3. up(i) = up(j)
      BY <3>1, <3>2, <1>3
    <3> QED
      BY <3>3, <2>1, <1>1
  <2>4. CASE S = {}
    <3>1. os1 = os
      BY <1>6, <2>4
    <3>2. k0 <= d
      <4>1. SUFFICES ASSUME ~ (k0 <= d) PROVE FALSE
        OBVIOUS
      <4>2. k0 - d \in 1..n /\ d + (k0 - d) = k0
        BY <4>1, <2>1, <1>1
      <4>3. f[os[k0 - d]] = n0
        BY <4>2, <1>4, <2>1
      <4> QED
        BY <4>2, <4>3, <2>4, <1>7
    <3>3. d - 1 \in Nat /\ m - 1 \in Nat /\ m - 1 = n + (d - 1)
      BY <3>2, <2>1, <1>1
    <3>4. \A i \in 1..n : f[os1[i]] = ns1[(d - 1) + i]
      <4> TAKE i \in 1..n
      <4>1. d \in Nat /\ n \in Nat /\ m = n + d /\ k0 \in Nat /\ k0 <= d /\ d - 1 \in Nat
        BY <3>2, <3>3, <2>1, <1>1
      <4>2. (d - 1) + i >= 1 /\ (d - 1) + i <= m - 1
        BY <4>1, <3>3
      <4>3. ~ ((d - 1) + i < k0) /\ (d - 1) + i + 1 = d + i
        BY <4>1
      <4>4. (d - 1) + i \in 1..m - 1
        BY <4>1, <4>2, <3>3
      <4> QED
        BY <4>3, <4>4, <3>1, <1>4, <1>9
    <3>5. RanksAs(os1, ns1, f)
      <4>1. Len(ns1) - Len(os1) = d - 1 /\ Len(os1) <= Len(ns1)
        BY <3>1, <3>3, <1>1, <1>9
      <4>2. /\ \A i, j \in 1..Len(ns1) : ns1[i] = ns1[j] => i = j
            /\ \A i \in 1..Len(os1) : f[os1[i]] = ns1[Len(ns1) - Len(os1) + i]
        BY <4>1, <3>1, <3>4, <2>3, <1>1, <1>9
      <4> QED
        BY <4>1, <4>2, <3>1, <1>0, <1>9 DEF RanksAs
    <3> QED
      <4>1. Len(os1) <= n
        BY <3>1, <1>1
      <4>2. \A i \in 1..Len(ns1) : ns1[i] # n0
        BY <2>2, <1>9
      <4>3. From(os1, os)
        BY <3>1 DEF From
      <4> QED
        BY <4>1, <4>2, <4>3, <3>5, <2>4
  <2>5. ASSUME NEW i0 \in S, os1 \in Seq(Nat), Len(os1) = n - 1,
               \A k \in 1..n - 1 : os1[k] = IF k < i0 THEN os[k] ELSE os[k + 1]
        PROVE  RanksAs(os1, ns1, f) /\ From(os1, os)
    <3>1. i0 \in 1..n /\ k0 = d + i0
      BY <1>7, <1>3, <2>1
    <3>2. \A i \in 1..n - 1 : f[os1[i]] = ns1[d + i]
      <4> TAKE i \in 1..n - 1
      <4>1. d + i \in 1..m - 1 /\ i \in 1..n
        BY <1>1
      <4>2. CASE i < i0
        <5>1. d + i < d + i0
          BY <4>2, <3>1, <1>1
        <5>2. os1[i] = os[i]
          BY <4>2, <2>5
        <5>3. ns1[d + i] = ns[d + i]
          BY <5>1, <4>1, <3>1, <1>9
        <5> QED
          BY <5>2, <5>3, <4>1, <1>4
      <4>3. CASE ~ (i < i0)
        <5>1. i + 1 \in 1..n /\ os1[i] = os[i + 1] /\ ~ (d + i < k0) /\ d + (i + 1) = d + i + 1
          BY <4>3, <3>1, <2>5, <1>1
        <5>2. ns1[d + i] = ns[d + i + 1]
          BY <5>1, <4>1, <1>9
        <5> QED
          BY <5>1, <5>2, <1>4
      <4> QED
        BY <4>2, <4>3
    <3>3. n - 1 \in Nat /\ m - 1 \in Nat /\ m - 1 = (n - 1) + d
      BY <3>1, <1>1
    <3>4. RanksAs(os1, ns1, f)
      <4>1. Len(ns1) - Len(os1) = d /\ Len(os1) <= Len(ns1)
        BY <3>3, <2>5, <1>9
      <4>2. /\ \A i, j \in 1..Len(ns1) : ns1[i] = ns1[j] => i = j
            /\ \A i \in 1..Len(os1) : f[os1[i]] = ns1[Len(ns1) - Len(os1) + i]
        BY <4>1, <3>2, <2>3, <2>5, <1>9
      <4> QED
        BY <4>1, <4>2, <2>5, <1>9 DEF RanksAs
    <3>5. \A i \in 1..n - 1 : \E j \in 1..n : os1[i] = os[j]
      <4> TAKE i \in 1..n - 1
      <4>1. i \in 1..n /\ i + 1 \in 1..n
        BY <1>1
      <4>2. os1[i] = os[i] \/ os1[i] = os[i + 1]
        BY <2>5
      <4> QED
        BY <4>1, <4>2
    <3>6. From(os1, os)
      BY <3>5, <2>5, <1>1 DEF From
    <3> QED
      BY <3>4, <3>6
  <2>6. S = {} => os1 = os /\ Len(os1) = n
    BY <1>1, <1>6
  <2>7. S # {} => /\ Len(os1) = n - 1 /\ RanksAs(os1, ns1, f)
                 /\ From(os1, os)
    BY <1>6, <2>5
  <2>8. n - 1 <= n
    BY <1>1
  <2> QED
    BY <2>2, <2>4, <2>6, <2>7, <2>8, <1>9
<1>10. (\E i \in 1..Len(os) : f[os[i]] = n0) => S # {}
  BY <1>1, <1>7
<1> QED
  <2>1. CASE W = {}
    BY <1>8, <2>1
  <2>2. CASE W # {}
    BY <1>1, <1>5, <1>9, <1>10, <2>2
  <2> QED
    BY <2>1, <2>2

\* An object of a session that is not in the order comes last.
LEMMA AppendedRanks ==
  ASSUME NEW f, NEW os, NEW ns, RanksAs(os, ns, f), NEW v \in Nat, f[v] \in Sessions, \A i \in 1..Len(ns) : ns[i] # f[v]
  PROVE  RanksAs(Append(os, v), Append(ns, f[v]), f)
<1>1. f[v] \in Sessions
  OBVIOUS
<1>2. /\ Append(ns, f[v]) \in Seq(Sessions) /\ Append(os, v) \in Seq(Nat)
      /\ Len(Append(ns, f[v])) = Len(ns) + 1 /\ Len(Append(os, v)) = Len(os) + 1
      /\ \A i \in 1..Len(ns) : Append(ns, f[v])[i] = ns[i]
      /\ \A i \in 1..Len(os) : Append(os, v)[i] = os[i]
      /\ Append(ns, f[v])[Len(ns) + 1] = f[v] /\ Append(os, v)[Len(os) + 1] = v
      /\ Len(ns) \in Nat /\ Len(os) \in Nat /\ Len(os) <= Len(ns)
  BY <1>1 DEF RanksAs
<1>3. \A i, j \in 1..Len(ns) + 1 : Append(ns, f[v])[i] = Append(ns, f[v])[j] => i = j
  <2>1. PICK w, l : w = Append(ns, f[v]) /\ l = f[v]
    OBVIOUS
  <2>2. /\ \A i \in 1..Len(ns) : w[i] = ns[i] /\ w[i] # l
        /\ w[Len(ns) + 1] = l /\ Len(ns) \in Nat
    BY <1>2, <2>1
  <2>3. \A i, j \in 1..Len(ns) : ns[i] = ns[j] => i = j
    BY DEF RanksAs
  <2>4. \A i \in 1..Len(ns) + 1 : i \in 1..Len(ns) \/ i = Len(ns) + 1
    BY <2>2
  <2>5. \A i, j \in 1..Len(ns) + 1 : w[i] = w[j] => i = j
    BY <2>2, <2>3, <2>4
  <2> QED
    BY <2>1, <2>5
<1>4. PICK d \in Nat : Len(ns) = Len(os) + d
  <2>1. Len(ns) - Len(os) \in Nat /\ Len(ns) = Len(os) + (Len(ns) - Len(os))
    BY <1>2
  <2> QED
    BY <2>1
<1>5. \A i \in 1..Len(os) : f[os[i]] = ns[d + i]
  <2>1. Len(ns) - Len(os) = d
    BY <1>2, <1>4
  <2> QED
    BY <2>1 DEF RanksAs
<1>6. \A i \in 1..Len(os) + 1 : f[Append(os, v)[i]] = Append(ns, f[v])[d + i]
  <2> TAKE i \in 1..Len(os) + 1
  <2>2. CASE i <= Len(os)
    <3>1. i \in 1..Len(os) /\ d + i \in 1..Len(ns)
      BY <2>2, <1>2, <1>4
    <3> QED
      BY <3>1, <1>2, <1>5
  <2>3. CASE i = Len(os) + 1
    <3>1. d + i = Len(ns) + 1
      BY <2>3, <1>2, <1>4
    <3>2. Append(os, v)[i] = v
      BY <2>3, <1>2
    <3>3. Append(ns, f[v])[d + i] = f[v]
      BY <3>1, <1>2
    <3> QED
      BY <3>2, <3>3
  <2>4. i <= Len(os) \/ i = Len(os) + 1
    BY <1>2
  <2> QED
    BY <2>2, <2>3, <2>4
<1>7. Len(os) + 1 \in Nat /\ Len(ns) + 1 \in Nat /\ Len(ns) + 1 = (Len(os) + 1) + d
  BY <1>2, <1>4
<1> QED
  <2> DEFINE os1 == Append(os, v)
             ns1 == Append(ns, f[v])
  <2>1. os1 \in Seq(Nat) /\ ns1 \in Seq(Sessions) /\ Len(os1) = Len(os) + 1 /\ Len(ns1) = Len(ns) + 1
    BY <1>2
  <2>2. \A i \in 1..Len(os) + 1 : f[os1[i]] = ns1[d + i]
    BY <1>6
  <2>3. \A i, j \in 1..Len(ns) + 1 : ns1[i] = ns1[j] => i = j
    BY <1>3
  <2> HIDE DEF os1, ns1
  <2>4. Len(ns1) - Len(os1) = d /\ Len(os1) <= Len(ns1)
    BY <2>1, <1>7
  <2>5. RanksAs(os1, ns1, f)
    BY <2>1, <2>2, <2>3, <2>4 DEF RanksAs
  <2> QED
    BY <2>5 DEF os1, ns1

\* The object used least recently may go.
LEMMA TailRanks ==
  ASSUME NEW f, NEW os, NEW ns, RanksAs(os, ns, f), Len(os) > 0
  PROVE  RanksAs(Tail(os), ns, f) /\ Len(Tail(os)) = Len(os) - 1
<1>1. /\ os \in Seq(Nat) /\ Len(os) \in Nat /\ Len(ns) \in Nat /\ os # << >>
      /\ Len(os) <= Len(ns)
  BY DEF RanksAs
<1>2. /\ Tail(os) \in Seq(Nat) /\ Len(Tail(os)) = Len(os) - 1
      /\ \A i \in 1..Len(os) - 1 : Tail(os)[i] = os[i + 1]
  BY <1>1
<1>3. ASSUME NEW i \in 1..Len(os) - 1
      PROVE  f[Tail(os)[i]] = ns[Len(ns) - (Len(os) - 1) + i]
  <2>1. i + 1 \in 1..Len(os) /\ Len(ns) - (Len(os) - 1) + i = Len(ns) - Len(os) + (i + 1)
    BY <1>1
  <2> QED
    BY <2>1, <1>2 DEF RanksAs
<1> QED
  BY <1>2, <1>3, <1>1 DEF RanksAs

-----------------------------------------------------------------------------
\* The session of what is in the store.
LEMMA BelongsIs ==
  ASSUME MemoriesAre
  PROVE  /\ Belongs = [o \in DOMAIN sessions |-> sessions[o].id]
         /\ DOMAIN sessions = 1..Len(sessions) /\ Len(sessions) \in Nat
         /\ \A o \in DOMAIN sessions : sessions[o] \in ChatObject /\ Belongs[o] = sessions[o].id /\ Belongs[o] \in Sessions
         /\ DOMAIN lru = 1..Len(lru) /\ DOMAIN asked = 1..Len(asked)
         /\ Len(lru) \in Nat /\ Len(asked) \in Nat
<1>1. /\ DOMAIN sessions = 1..Len(sessions) /\ Len(sessions) \in Nat
      /\ \A o \in DOMAIN sessions : sessions[o] \in ChatObject
  BY DEF MemoriesAre
<1>2. \A o \in DOMAIN sessions : sessions[o].id \in Sessions
  BY <1>1 DEF ChatObject
<1>3. /\ DOMAIN lru = 1..Len(lru) /\ DOMAIN asked = 1..Len(asked)
      /\ Len(lru) \in Nat /\ Len(asked) \in Nat
  BY DEF MemoriesAre, RanksAs
<1>4. Belongs = [o \in DOMAIN sessions |-> sessions[o].id]
  BY DEF Belongs
<1> QED
  BY <1>1, <1>2, <1>3, <1>4

\* A function that agrees on the objects of the store ranks them the same.
LEMMA RanksAgree ==
  ASSUME NEW os, NEW ns, NEW f, NEW g, RanksAs(os, ns, f), \A i \in 1..Len(os) : g[os[i]] = f[os[i]]
  PROVE  RanksAs(os, ns, g)
BY DEF RanksAs

\* The rest of the store, without a session.
LEMMA OthersAre ==
  ASSUME MemoriesAre, NEW n0 \in Sessions, NEW ns1, ns1 = AskedBut(n0)
  PROVE  /\ RanksAs(Others(n0), ns1, Belongs)
         /\ \A i \in 1..Len(ns1) : ns1[i] # n0
         /\ Len(Others(n0)) <= Len(lru) /\ From(Others(n0), lru)
<1>1. RanksAs(lru, asked, Belongs) /\ DOMAIN lru = 1..Len(lru)
  BY BelongsIs DEF MemoriesAre
<1>2. \A i \in DOMAIN lru : Belongs[lru[i]] = sessions[lru[i]].id
  BY <1>1, BelongsIs DEF MemoriesAre
<1>3. {i \in DOMAIN lru : sessions[lru[i]].id = n0} = {i \in DOMAIN lru : Belongs[lru[i]] = n0}
  BY <1>2
<1>4. Others(n0) = Drop(lru, {i \in DOMAIN lru : Belongs[lru[i]] = n0})
  BY <1>3 DEF Others
<1>5. \A f, os, ns, os1, m1 :
        RanksAs(os, ns, f) /\ os1 = Drop(os, {i \in DOMAIN os : f[os[i]] = n0})
          /\ m1 = Drop(ns, {i \in DOMAIN ns : ns[i] = n0}) =>
          /\ RanksAs(os1, m1, f) /\ \A i \in 1..Len(m1) : m1[i] # n0
          /\ Len(os1) <= Len(os) /\ From(os1, os)
  BY DroppedRanks
<1>6. PICK f, os, ns, os1 : f = Belongs /\ os = lru /\ ns = asked /\ os1 = Others(n0)
  OBVIOUS
<1>7. RanksAs(os, ns, f) /\ os1 = Drop(os, {i \in DOMAIN os : f[os[i]] = n0})
        /\ ns1 = Drop(ns, {i \in DOMAIN ns : ns[i] = n0})
  BY <1>1, <1>4, <1>6 DEF AskedBut
<1>8. /\ RanksAs(os1, ns1, f) /\ \A i \in 1..Len(ns1) : ns1[i] # n0
      /\ Len(os1) <= Len(os) /\ From(os1, os)
  BY <1>5, <1>7
<1> QED
  BY <1>6, <1>8

\* The object of the session that asks comes last, and the oldest goes when
\* there are too many; g: the sessions of the objects, with a new one.
LEMMA UsedLastRanks ==
  ASSUME ChatAssumption, MemoriesAre, NEW n0 \in Sessions, NEW o \in Nat, NEW g, g[o] = n0,
         \A i \in DOMAIN sessions : g[i] = Belongs[i]
  PROVE  /\ RanksAs(UsedLast(n0, o), Append(AskedBut(n0), n0), g)
         /\ Len(UsedLast(n0, o)) <= MaxSessions
         /\ \A i \in 1..Len(UsedLast(n0, o)) : UsedLast(n0, o)[i] \in DOMAIN sessions \cup {o}
<1> DEFINE ns1 == AskedBut(n0)
           os1 == Others(n0)
<1>1. /\ RanksAs(os1, ns1, Belongs) /\ \A i \in 1..Len(ns1) : ns1[i] # n0
      /\ Len(os1) <= Len(lru) /\ From(os1, lru)
  BY OthersAre
<1>2. UsedLast(n0, o) = IF Len(Append(os1, o)) > MaxSessions THEN Tail(Append(os1, o)) ELSE Append(os1, o)
  BY DEF UsedLast
<1> HIDE DEF ns1, os1
<1>3. /\ \A i \in 1..Len(lru) : lru[i] \in DOMAIN sessions
      /\ Len(lru) <= MaxSessions /\ Len(lru) \in Nat /\ MaxSessions \in Nat \ {0}
  BY BelongsIs DEF MemoriesAre, ChatAssumption
<1>4. \A i \in 1..Len(os1) : os1[i] \in DOMAIN sessions
  BY <1>1, <1>3 DEF From
<1>5. RanksAs(os1, ns1, g)
  BY <1>1, <1>4, RanksAgree
<1>6. RanksAs(Append(os1, o), Append(ns1, n0), g)
  BY <1>1, <1>5, AppendedRanks
<1>7. /\ os1 \in Seq(Nat) /\ Len(os1) \in Nat /\ Len(Append(os1, o)) = Len(os1) + 1
      /\ \A i \in 1..Len(os1) + 1 : Append(os1, o)[i] = IF i <= Len(os1) THEN os1[i] ELSE o
  BY <1>1 DEF RanksAs
<1>8. \A i \in 1..Len(os1) + 1 : Append(os1, o)[i] \in DOMAIN sessions \cup {o}
  BY <1>4, <1>7
<1>9. PICK all : all = Append(os1, o)
  OBVIOUS
<1>10. /\ RanksAs(all, Append(ns1, n0), g) /\ Len(all) = Len(os1) + 1 /\ all \in Seq(Nat)
       /\ \A i \in 1..Len(all) : all[i] \in DOMAIN sessions \cup {o}
  BY <1>6, <1>7, <1>8, <1>9 DEF RanksAs
<1>11. CASE Len(all) > MaxSessions
  <2>1. UsedLast(n0, o) = Tail(all)
    BY <1>2, <1>9, <1>11
  <2>2. Len(all) > 0
    BY <1>10, <1>7
  <2>3. RanksAs(Tail(all), Append(ns1, n0), g) /\ Len(Tail(all)) = Len(all) - 1
    BY <1>10, <2>2, TailRanks
  <2>4. \A i \in 1..Len(all) - 1 : Tail(all)[i] = all[i + 1] /\ i + 1 \in 1..Len(all)
    BY <1>10, <2>2, <1>7
  <2>5. Len(Tail(all)) <= MaxSessions
    BY <2>3, <1>10, <1>7, <1>3, <1>1
  <2>6. \A i \in 1..Len(Tail(all)) : Tail(all)[i] \in DOMAIN sessions \cup {o}
    BY <2>3, <2>4, <1>10
  <2> QED
    BY <2>1, <2>3, <2>5, <2>6 DEF ns1
<1>12. CASE ~ (Len(all) > MaxSessions)
  <2>1. UsedLast(n0, o) = all
    BY <1>2, <1>9, <1>12
  <2>2. Len(all) <= MaxSessions
    BY <1>12, <1>10, <1>7, <1>3
  <2> QED
    BY <2>1, <2>2, <1>10 DEF ns1
<1> QED
  BY <1>11, <1>12

\* What a chat goes on with, while more is sent and sessions are added.
LEMMA TurnsGo ==
  ASSUME TurnsAre, ChatAssumption, SummariesAre, NEW c \in Chats, NEW r \in ChatTurn, chat' = [chat EXCEPT ![c] = r],
         sent' \in [Sessions -> Nat], \A n \in Sessions : sent[n] <= sent'[n],
         DOMAIN sessions \subseteq DOMAIN sessions',
         TurnIs(r, sent'[r.session]), r.at # "silent" => r.object \in DOMAIN sessions'
  PROVE  TurnsAre'
<1>1. /\ chat' \in [Chats -> ChatTurn] /\ chat'[c] = r /\ chat \in [Chats -> ChatTurn]
      /\ \A d \in Chats : d # c => chat'[d] = chat[d]
  BY DEF TurnsAre
<1>2. ASSUME NEW d \in Chats, d # c
      PROVE  TurnIs(chat[d], sent'[chat[d].session])
  <2>1. PICK x \in ChatTurn : x = chat[d]
    BY <1>1
  <2>2. /\ x.session \in Sessions /\ x.length \in Nat /\ x.summed \in Nat
    BY DEF ChatTurn
  <2>3. PICK m \in Nat, n \in Nat : m = sent[x.session] /\ n = sent'[x.session]
    BY <2>2 DEF SummariesAre
  <2>4. m <= n /\ TurnIs(x, m)
    BY <2>1, <2>2, <2>3 DEF TurnsAre
  <2>5. TurnIs(x, n)
    BY <2>2, <2>4 DEF TurnIs, ChatAssumption
  <2> QED
    BY <2>1, <2>3, <2>5
<1>3. \A d \in Chats : TurnIs(chat'[d], sent'[chat'[d].session])
  BY <1>1, <1>2
<1>4. \A d \in Chats : chat'[d].at # "silent" => chat'[d].object \in DOMAIN sessions'
  BY <1>1 DEF TurnsAre
<1> QED
  BY <1>1, <1>3, <1>4 DEF TurnsAre

\* What a chat with no chunk does to those that hold some: nothing.
LEMMA ChunksGo ==
  ASSUME TurnsAre, ChunksAre, NEW c \in Chats, NEW r, chat' = [chat EXCEPT ![c] = r],
         r.found = {}, DOMAIN sessions \subseteq DOMAIN sessions',
         \A o \in DOMAIN sessions : sessions'[o].seen = sessions[o].seen /\ sessions'[o].shown = sessions[o].shown,
         collided' = collided, twice' = twice
  PROVE  ChunksAre'
<1>1. /\ chat'[c] = r /\ \A d \in Chats : d # c => chat'[d] = chat[d]
      /\ \A d \in Chats : chat[d].at # "silent" => chat[d].object \in DOMAIN sessions
  BY DEF TurnsAre
<1>2. \A d \in Chats : \A o, x : Holds(d, o, x)' => d # c /\ Holds(d, o, x) /\ o \in DOMAIN sessions
  BY <1>1 DEF Holds
<1>3. \A d \in Chats : chat'[d].at = "answer" => chat'[d].found \subseteq sessions'[chat'[d].object].seen
  BY <1>1 DEF ChunksAre
<1>4. \A d \in Chats, o \in DOMAIN sessions', x \in Chunks :
        Holds(d, o, x)' /\ x \in sessions'[o].shown => <<o, x>> \in collided'
  BY <1>2 DEF ChunksAre
<1>5. \A d, e \in Chats, o \in DOMAIN sessions', x \in Chunks :
        d # e /\ Holds(d, o, x)' /\ Holds(e, o, x)' => <<o, x>> \in collided'
  BY <1>2 DEF ChunksAre
<1>6. twice' \subseteq collided'
  BY DEF ChunksAre
<1> QED
  BY <1>3, <1>4, <1>5, <1>6 DEF ChunksAre

\* One object changes, but not its session.
LEMMA ObjectChanges ==
  ASSUME MemoriesAre, NEW o \in DOMAIN sessions, NEW m \in ChatObject, m.id = sessions[o].id,
         m.shown \subseteq m.seen, sessions' = [sessions EXCEPT ![o] = m], lru' = lru, asked' = asked
  PROVE  /\ MemoriesAre' /\ DOMAIN sessions' = DOMAIN sessions
         /\ sessions'[o] = m /\ \A p \in DOMAIN sessions : p # o => sessions'[p] = sessions[p]
<1>1. sessions \in Seq(ChatObject) /\ o \in 1..Len(sessions)
  BY BelongsIs DEF MemoriesAre
<1>2. sessions' \in Seq(ChatObject) /\ DOMAIN sessions' = DOMAIN sessions
  BY <1>1, ExceptSeq
<1>3. sessions'[o] = m /\ \A p \in DOMAIN sessions : p # o => sessions'[p] = sessions[p]
  BY <1>1
<1>4. \A p \in DOMAIN sessions' : sessions'[p].shown \subseteq sessions'[p].seen
  BY <1>2, <1>3 DEF MemoriesAre
<1>5. PICK g : g = Belongs
  OBVIOUS
<1>6. Belongs' = [p \in DOMAIN sessions' |-> sessions'[p].id]
  BY DEF Belongs
<1>7. \A p \in DOMAIN sessions : Belongs'[p] = g[p]
  BY <1>2, <1>3, <1>5, <1>6, BelongsIs
<1>8. PICK f : f = Belongs'
  OBVIOUS
<1>9. RanksAs(lru, asked, g) /\ \A i \in 1..Len(lru) : lru[i] \in DOMAIN sessions /\ f[lru[i]] = g[lru[i]]
  BY <1>5, <1>7, <1>8 DEF MemoriesAre
<1>10. RanksAs(lru, asked, f)
  <2>1. PICK os, ns : os = lru /\ ns = asked
    OBVIOUS
  <2>2. RanksAs(os, ns, f)
    BY <2>1, <1>9, RanksAgree
  <2> QED
    BY <2>1, <2>2
<1>11. RanksAs(lru', asked', Belongs')
  BY <1>8, <1>10
<1>12. Len(lru') <= MaxSessions /\ \A i \in 1..Len(lru') : lru'[i] \in DOMAIN sessions'
  BY <1>2 DEF MemoriesAre
<1> QED
  BY <1>2, <1>3, <1>4, <1>11, <1>12 DEF MemoriesAre

\* A step that touches neither the store nor its order.
LEMMA MemoriesStay ==
  ASSUME MemoriesAre, UNCHANGED <<sessions, lru, asked>>
  PROVE  MemoriesAre'
BY DEF MemoriesAre, RanksAs, Belongs

\* A step that touches neither the summaries nor the conversations.
LEMMA SummariesStay ==
  ASSUME SummariesAre, UNCHANGED <<summaries, sent>>
  PROVE  SummariesAre'
BY DEF SummariesAre

\* A summary, part by part.
LEMMA SummaryOf ==
  ASSUME SummariesAre, NEW i \in 1..Len(summaries)
  PROVE  summaries[i].upto \in Nat /\ summaries[i].session \in Sessions
<1>1. summaries[i] \in ChatSummary
  BY DEF SummariesAre
<1> QED
  BY <1>1 DEF ChatSummary

\* The turn of a chat, part by part.
LEMMA TurnOf ==
  ASSUME TurnsAre, NEW c \in Chats
  PROVE  /\ chat[c] \in ChatTurn /\ TurnIs(chat[c], sent[chat[c].session]) /\ chat[c].session \in Sessions
         /\ chat[c].at # "silent" => chat[c].object \in DOMAIN sessions
BY DEF TurnsAre, ChatTurn

\* What a thread without a chat has.
LEMMA SilentIs ==
  ASSUME ChatAssumption, NEW all \in Nat
  PROVE  Silent \in ChatTurn /\ TurnIs(Silent, all) /\ Silent.at = "silent" /\ Silent.found = {}
BY DEF Silent, ChatTurn, TurnIs, ChatAssumption

\* It holds at the start, and each action of the module keeps it.
LEMMA ChatInit_Inv ==
  ASSUME ChatAssumption, ChatInit
  PROVE  ChatInv
<1>1. MemoriesAre
  <2>1. /\ sessions \in Seq(ChatObject) /\ lru \in Seq(Nat) /\ asked \in Seq(Sessions)
        /\ Len(sessions) = 0 /\ Len(lru) = 0 /\ Len(asked) = 0 /\ DOMAIN sessions = {}
    BY DEF ChatInit
  <2>2. RanksAs(lru, asked, Belongs)
    BY <2>1 DEF RanksAs
  <2> QED
    BY <2>1, <2>2 DEF MemoriesAre, ChatAssumption
<1>2. SummariesAre
  <2>1. /\ summaries \in Seq(ChatSummary) /\ Len(summaries) = 0 /\ sent \in [Sessions -> Nat]
    BY DEF ChatInit
  <2> QED
    BY <2>1 DEF SummariesAre, ChatAssumption
<1>3. /\ \A c \in Chats : chat[c] = Silent
      /\ chat \in [Chats -> ChatTurn]
  BY SilentIs DEF ChatInit
<1>4. TurnsAre
  <2>1. \A c \in Chats : TurnIs(chat[c], sent[chat[c].session])
    <3> TAKE c \in Chats
    <3>1. PICK x : x = chat[c].session
      OBVIOUS
    <3>2. x \in Sessions
      BY <1>3, <3>1 DEF ChatTurn
    <3>3. sent[x] \in Nat
      BY <3>2, <1>2 DEF SummariesAre
    <3> QED
      BY <1>3, <3>1, <3>3, SilentIs
  <2> QED
    BY <1>3, <2>1, SilentIs DEF TurnsAre
<1>5. ChunksAre
  BY <1>3 DEF ChunksAre, ChatInit, Holds, Silent
<1> QED
  BY <1>1, <1>2, <1>4, <1>5 DEF ChatInv

LEMMA SessionExpires_Inv ==
  ASSUME ChatAssumption, ChatInv, SessionExpires
  PROVE  ChatInv'
<1>1. MemoriesAre /\ SummariesAre /\ TurnsAre /\ ChunksAre
  BY DEF ChatInv
<1>2. PICK i \in DOMAIN lru : sessions' = [sessions EXCEPT ![lru[i]].stale = TRUE]
  BY DEF SessionExpires
<1>3. UNCHANGED <<lru, summaries, chat, sent, asked, collided, twice>>
  BY DEF SessionExpires
<1>4. PICK o : o = lru[i]
  OBVIOUS
<1>5. o \in DOMAIN sessions /\ sessions[o] \in ChatObject /\ sessions[o].shown \subseteq sessions[o].seen
  BY <1>1, <1>4, BelongsIs DEF MemoriesAre
<1>6. PICK m : m = [sessions[o] EXCEPT !.stale = TRUE]
  OBVIOUS
<1>7. m \in ChatObject /\ m.id = sessions[o].id /\ m.shown = sessions[o].shown /\ m.seen = sessions[o].seen
  BY <1>5, <1>6 DEF ChatObject
<1>8. sessions' = [sessions EXCEPT ![o] = m]
  BY <1>2, <1>4, <1>5, <1>6
<1>9. /\ MemoriesAre' /\ DOMAIN sessions' = DOMAIN sessions
      /\ sessions'[o] = m /\ \A p \in DOMAIN sessions : p # o => sessions'[p] = sessions[p]
  BY <1>1, <1>3, <1>5, <1>7, <1>8, ObjectChanges
<1>10. \A p \in DOMAIN sessions : sessions'[p].seen = sessions[p].seen /\ sessions'[p].shown = sessions[p].shown
  BY <1>7, <1>9
<1>11. SummariesAre' /\ TurnsAre'
  BY <1>1, <1>3, <1>9 DEF SummariesAre, TurnsAre
<1>12. ChunksAre'
  <2>1. \A c \in Chats : chat[c].at # "silent" => chat[c].object \in DOMAIN sessions
    BY <1>1 DEF TurnsAre
  <2>2. \A c \in Chats : \A p, x : Holds(c, p, x)' <=> Holds(c, p, x)
    BY <1>3 DEF Holds
  <2>3. \A c \in Chats : chat'[c].at = "answer" => chat'[c].found \subseteq sessions'[chat'[c].object].seen
    BY <1>1, <1>3, <1>10, <2>1 DEF ChunksAre
  <2>4. \A c \in Chats, p \in DOMAIN sessions', x \in Chunks :
          Holds(c, p, x)' /\ x \in sessions'[p].shown => <<p, x>> \in collided'
    BY <1>1, <1>3, <1>9, <1>10, <2>2 DEF ChunksAre
  <2>5. \A c, d \in Chats, p \in DOMAIN sessions', x \in Chunks :
          c # d /\ Holds(c, p, x)' /\ Holds(d, p, x)' => <<p, x>> \in collided'
    BY <1>1, <1>3, <1>9, <2>2 DEF ChunksAre
  <2>6. twice' \subseteq collided'
    BY <1>1, <1>3 DEF ChunksAre
  <2> QED
    BY <2>3, <2>4, <2>5, <2>6 DEF ChunksAre
<1> QED
  BY <1>9, <1>11, <1>12 DEF ChatInv

\* The object of the session, found or made.
LEMMA GetSession_Inv ==
  ASSUME ChatAssumption, MemoriesAre, NEW n \in Sessions, NEW o \in 1..Len(sessions) + 1, GetSession(n, o)
  PROVE  /\ MemoriesAre' /\ DOMAIN sessions \subseteq DOMAIN sessions' /\ o \in DOMAIN sessions'
         /\ \A p \in DOMAIN sessions : sessions'[p] = sessions[p]
<1>1. /\ DOMAIN sessions = 1..Len(sessions) /\ Len(sessions) \in Nat /\ sessions \in Seq(ChatObject)
      /\ \A p \in DOMAIN sessions : sessions[p] \in ChatObject /\ Belongs[p] = sessions[p].id /\ Belongs[p] \in Sessions
  BY BelongsIs DEF MemoriesAre
<1>2. /\ lru' = UsedLast(n, o)
      /\ asked' = Append(AskedBut(n), n)
  BY DEF GetSession
<1>3. /\ sessions' \in Seq(ChatObject) /\ DOMAIN sessions \subseteq DOMAIN sessions' /\ o \in DOMAIN sessions'
      /\ DOMAIN sessions' = 1..Len(sessions') /\ sessions'[o].id = n
      /\ \A p \in DOMAIN sessions : sessions'[p] = sessions[p]
      /\ \A p \in DOMAIN sessions' : sessions'[p].shown \subseteq sessions'[p].seen
  <2>1. CASE Live(n) # {}
    <3>1. o = lru[CHOOSE i \in Live(n) : TRUE] /\ sessions' = sessions
      BY <2>1 DEF GetSession
    <3>2. PICK i \in Live(n) : o = lru[i]
      BY <2>1, <3>1
    <3>3. o \in DOMAIN sessions /\ sessions[o].id = n
      BY <3>2, BelongsIs DEF Live, MemoriesAre
    <3> QED
      BY <1>1, <3>1, <3>3 DEF MemoriesAre
  <2>2. CASE Live(n) = {}
    <3> DEFINE m == [id |-> n, seen |-> {}, shown |-> {}, stale |-> FALSE]
    <3>1. o = Len(sessions) + 1 /\ sessions' = Append(sessions, m)
      BY <2>2 DEF GetSession
    <3>2. m \in ChatObject /\ m.id = n /\ m.shown \subseteq m.seen
      BY DEF ChatObject
    <3> HIDE DEF m
    <3>3. /\ sessions' \in Seq(ChatObject) /\ Len(sessions') = Len(sessions) + 1 /\ sessions'[Len(sessions) + 1] = m
          /\ \A p \in 1..Len(sessions) : sessions'[p] = sessions[p]
      BY <1>1, <3>1, <3>2
    <3>4. DOMAIN sessions' = 1..Len(sessions) + 1
      BY <3>3
    <3> QED
      BY <1>1, <3>1, <3>2, <3>3, <3>4 DEF MemoriesAre
  <2> QED
    BY <2>1, <2>2
<1>4. PICK g : g = Belongs'
  OBVIOUS
<1>5. \A p \in DOMAIN sessions' : g[p] = sessions'[p].id
  BY <1>4 DEF Belongs
<1>6. g[o] = n /\ \A p \in DOMAIN sessions : g[p] = Belongs[p]
  BY <1>1, <1>3, <1>5
<1>7. PICK ns, os : ns = Append(AskedBut(n), n) /\ os = UsedLast(n, o)
  OBVIOUS
<1>8. /\ RanksAs(os, ns, g) /\ Len(os) <= MaxSessions
      /\ \A i \in 1..Len(os) : os[i] \in DOMAIN sessions \cup {o}
  <2>1. o \in Nat
    OBVIOUS
  <2>2. /\ RanksAs(UsedLast(n, o), Append(AskedBut(n), n), g)
        /\ Len(UsedLast(n, o)) <= MaxSessions
        /\ \A i \in 1..Len(UsedLast(n, o)) : UsedLast(n, o)[i] \in DOMAIN sessions \cup {o}
    <3>1. g[o] = n /\ \A i \in DOMAIN sessions : g[i] = Belongs[i]
      BY <1>6
    <3> HIDE <1>1, <1>2
    <3> QED
      BY <2>1, <3>1, UsedLastRanks
  <2> QED
    BY <1>7, <2>2
<1>9. lru' = os /\ asked' = ns
  BY <1>2, <1>7
<1>10. RanksAs(lru', asked', Belongs')
  BY <1>4, <1>8, <1>9
<1> QED
  BY <1>3, <1>8, <1>9, <1>10 DEF MemoriesAre

LEMMA StartChat_Inv ==
  ASSUME ChatAssumption, ChatInv, NEW c \in Chats, StartChat(c)
  PROVE  ChatInv'
<1>1. MemoriesAre /\ SummariesAre /\ TurnsAre /\ ChunksAre
  BY DEF ChatInv
<1>2. PICK n \in Sessions, o \in 1..(Len(sessions) + 1) :
       /\ GetSession(n, o)
       /\ sent' = [sent EXCEPT ![n] = @ + 1]
       /\ chat' = [chat EXCEPT ![c] =
            [Silent EXCEPT !.at = "compress", !.session = n, !.object = o,
               !.length = sent[n] + 1, !.kept = sent[n] + 1]]
  BY DEF StartChat
<1>3. UNCHANGED <<summaries, collided, twice>>
  BY DEF StartChat
<1>4. /\ MemoriesAre' /\ DOMAIN sessions \subseteq DOMAIN sessions' /\ o \in DOMAIN sessions'
      /\ \A p \in DOMAIN sessions : sessions'[p] = sessions[p]
  BY <1>1, <1>2, GetSession_Inv
<1>5. PICK k \in Nat : k = sent[n]
  BY <1>1 DEF SummariesAre
<1>6. /\ sent' \in [Sessions -> Nat] /\ sent'[n] = k + 1 /\ \A m \in Sessions : sent[m] <= sent'[m]
  <2>1. sent \in [Sessions -> Nat]
    BY <1>1 DEF SummariesAre
  <2> QED
    BY <1>2, <1>5, <2>1
<1>7. SummariesAre'
  <2>1. ASSUME NEW i \in 1..Len(summaries)
        PROVE  summaries[i].upto + Recent <= sent'[summaries[i].session]
    <3>1. summaries[i].upto \in Nat /\ summaries[i].session \in Sessions
      BY <1>1, SummaryOf
    <3>2. summaries[i].upto + Recent <= sent[summaries[i].session]
      BY <1>1 DEF SummariesAre
    <3>3. PICK h \in Sessions, u \in Nat, w \in Nat :
             h = summaries[i].session /\ u = summaries[i].upto /\ w = Recent
      BY <3>1 DEF ChatAssumption
    <3>4. sent[h] \in Nat /\ sent'[h] \in Nat /\ sent[h] <= sent'[h]
      BY <1>1, <1>6 DEF SummariesAre
    <3>5. u + w <= sent[h]
      BY <3>2, <3>3
    <3>6. u + w <= sent'[h]
      BY <3>4, <3>5
    <3> QED
      BY <3>3, <3>6
  <2> QED
    BY <1>1, <1>3, <1>6, <2>1 DEF SummariesAre
<1>8. PICK r : r = [Silent EXCEPT !.at = "compress", !.session = n, !.object = o,
               !.length = sent[n] + 1, !.kept = sent[n] + 1]
  OBVIOUS
<1>9. /\ r \in ChatTurn /\ r.session = n /\ r.object = o /\ r.at = "compress" /\ r.found = {}
      /\ r.length = k + 1 /\ r.kept = k + 1 /\ r.summed = 0 /\ r.source = "whole"
  <2>1. o \in Nat
    OBVIOUS
  <2> QED
    <3>1. /\ DOMAIN r = {"at", "session", "object", "length", "kept", "summed", "source", "found"}
          /\ r.session = n /\ r.object = o /\ r.at = "compress" /\ r.found = {}
          /\ r.length = k + 1 /\ r.kept = k + 1 /\ r.summed = 0 /\ r.source = "whole"
      BY <1>5, <1>8 DEF Silent
    <3>2. r = [at |-> "compress", session |-> n, object |-> o, length |-> k + 1, kept |-> k + 1,
               summed |-> 0, source |-> "whole", found |-> {}]
      BY <1>5, <1>8 DEF Silent
    <3>3. k + 1 \in Nat
      BY <1>5
    <3>4. r \in ChatTurn
      BY <2>1, <3>2, <3>3 DEF ChatTurn
    <3> QED
      BY <3>1, <3>4
<1>10. TurnIs(r, k + 1)
  BY <1>9 DEF TurnIs
<1>11. chat' = [chat EXCEPT ![c] = r]
  BY <1>2, <1>8
<1>12. TurnIs(r, sent'[r.session]) /\ r.object \in DOMAIN sessions'
  BY <1>4, <1>6, <1>9, <1>10
<1>13. TurnsAre'
  BY <1>1, <1>4, <1>6, <1>9, <1>11, <1>12, TurnsGo
<1>14. ChunksAre'
  BY <1>1, <1>3, <1>4, <1>9, <1>11, ChunksGo
<1> QED
  BY <1>4, <1>7, <1>13, <1>14 DEF ChatInv

\* A step of a chat that has no chunk yet, or none any more, and that leaves
\* the store alone.
LEMMA ChatGoes ==
  ASSUME ChatAssumption, ChatInv, NEW c \in Chats, NEW r \in ChatTurn, chat' = [chat EXCEPT ![c] = r],
         TurnIs(r, sent[r.session]), r.at # "silent" => r.object \in DOMAIN sessions, r.found = {},
         UNCHANGED <<sessions, lru, sent, asked, collided, twice>>
  PROVE  MemoriesAre' /\ TurnsAre' /\ ChunksAre'
<1>1. MemoriesAre /\ SummariesAre /\ TurnsAre /\ ChunksAre
  BY DEF ChatInv
<1>2. MemoriesAre'
  BY <1>1, MemoriesStay
<1>3. /\ sent' \in [Sessions -> Nat] /\ \A n \in Sessions : sent[n] <= sent'[n]
      /\ DOMAIN sessions \subseteq DOMAIN sessions'
  BY <1>1 DEF SummariesAre
<1>4. TurnsAre'
  BY <1>1, <1>3, TurnsGo
<1>5. ChunksAre'
  BY <1>1, ChunksGo
<1> QED
  BY <1>2, <1>4, <1>5

LEMMA ChatFails_Inv ==
  ASSUME ChatAssumption, ChatInv, NEW c \in Chats, ChatFails(c)
  PROVE  ChatInv'
<1>1. chat' = [chat EXCEPT ![c] = Silent] /\ UNCHANGED <<sessions, lru, summaries, sent, asked, collided, twice>>
  BY DEF ChatFails
<1>2. Silent.session \in Sessions
  BY DEF Silent, ChatAssumption
<1>3. sent[Silent.session] \in Nat
  BY <1>2 DEF ChatInv, SummariesAre
<1>4. Silent \in ChatTurn /\ TurnIs(Silent, sent[Silent.session]) /\ Silent.at = "silent" /\ Silent.found = {}
  BY <1>3, SilentIs
<1>5. MemoriesAre' /\ TurnsAre' /\ ChunksAre'
  BY <1>1, <1>4, ChatGoes
<1>6. SummariesAre'
  BY <1>1, SummariesStay DEF ChatInv
<1> QED
  BY <1>5, <1>6 DEF ChatInv

LEMMA Compress_Inv ==
  ASSUME ChatAssumption, ChatInv, NEW c \in Chats, Compress(c)
  PROVE  ChatInv'
<1>1. MemoriesAre /\ SummariesAre /\ TurnsAre /\ ChunksAre
  BY DEF ChatInv
<1>2. chat[c].at = "compress" /\ UNCHANGED <<sessions, lru, summaries, sent, asked, collided, twice>>
  BY DEF Compress
<1>3. PICK r \in ChatTurn, k \in Nat : r = chat[c] /\ k = sent[r.session]
  BY <1>1, TurnOf DEF SummariesAre
<1>4. /\ r.at = "compress" /\ r.source = "whole" /\ r.kept = r.length /\ r.summed = 0 /\ r.found = {}
      /\ r.length <= k /\ r.object \in DOMAIN sessions /\ TurnIs(r, k)
  BY <1>1, <1>2, <1>3, TurnOf DEF TurnIs
<1>5. SummariesAre'
  BY <1>1, <1>2, SummariesStay
<1>6. ASSUME NEW q \in ChatTurn, chat' = [chat EXCEPT ![c] = q], q.session = r.session, q.object = r.object,
             q.found = {}, TurnIs(q, k)
      PROVE  ChatInv'
  BY <1>2, <1>3, <1>4, <1>5, <1>6, ChatGoes DEF ChatInv
<1>7. CASE r.length <= Long /\ Enter(c, "retrieve")
  <2>1. PICK q : q = [r EXCEPT !.at = "retrieve"]
    OBVIOUS
  <2>2. q \in ChatTurn /\ q.session = r.session /\ q.object = r.object /\ q.found = {} /\ TurnIs(q, k)
    BY <1>4, <2>1 DEF ChatTurn, TurnIs
  <2>3. chat' = [chat EXCEPT ![c] = q]
    BY <1>1, <1>3, <1>7, <2>1 DEF Enter, TurnsAre
  <2> QED
    BY <2>2, <2>3, <1>6
<1>8. CASE r.length > Long /\ Enter(c, "summarise")
  <2>1. PICK q : q = [r EXCEPT !.at = "summarise"]
    OBVIOUS
  <2>2. q \in ChatTurn /\ q.session = r.session /\ q.object = r.object /\ q.found = {} /\ TurnIs(q, k)
    BY <1>4, <1>8, <2>1 DEF ChatTurn, TurnIs, ChatAssumption
  <2>3. chat' = [chat EXCEPT ![c] = q]
    BY <1>1, <1>3, <1>8, <2>1 DEF Enter, TurnsAre
  <2> QED
    BY <2>2, <2>3, <1>6
<1>9. ASSUME r.length > Long, NEW i \in Cached(r.session),
             chat' = [chat EXCEPT ![c] = [@ EXCEPT !.at = "retrieve", !.source = "cache",
                        !.kept = Recent, !.summed = summaries[i].upto]]
      PROVE  ChatInv'
  <2>1. i \in 1..Len(summaries) /\ summaries[i].session = r.session
    BY <1>1 DEF Cached, SummariesAre
  <2>2. summaries[i].upto \in Nat /\ summaries[i].upto + Recent <= k
    BY <1>1, <1>3, <2>1, SummaryOf DEF SummariesAre
  <2>3. PICK q : q = [r EXCEPT !.at = "retrieve", !.source = "cache", !.kept = Recent, !.summed = summaries[i].upto]
    OBVIOUS
  <2>4. /\ q \in ChatTurn /\ q.session = r.session /\ q.object = r.object /\ q.found = {}
        /\ q.length = r.length /\ q.kept = Recent /\ q.summed = summaries[i].upto /\ q.at = "retrieve" /\ q.source = "cache"
    BY <1>4, <2>2, <2>3 DEF ChatTurn, ChatAssumption
  <2>5. r.length \in Nat /\ Long \in Nat /\ Recent \in Nat /\ Recent <= Long
    BY DEF ChatTurn, ChatAssumption
  <2>6. TurnIs(q, k)
    BY <1>4, <1>9, <2>2, <2>4, <2>5 DEF TurnIs
  <2>7. chat' = [chat EXCEPT ![c] = q]
    BY <1>1, <1>3, <1>9, <2>3 DEF TurnsAre
  <2> QED
    BY <2>4, <2>6, <2>7, <1>6
<1>10. \/ r.length <= Long /\ Enter(c, "retrieve")
       \/ r.length > Long /\ \E i \in Cached(r.session) :
             chat' = [chat EXCEPT ![c] = [@ EXCEPT !.at = "retrieve", !.source = "cache",
                        !.kept = Recent, !.summed = summaries[i].upto]]
       \/ r.length > Long /\ Enter(c, "summarise")
  BY <1>3 DEF Compress
<1> QED
  BY <1>7, <1>8, <1>9, <1>10

\* The dict of the summaries: one for each session, and the first is left out
\* when there are too many.
LEMMA SetSummary_Inv ==
  ASSUME ChatAssumption, SummariesAre, NEW n \in Sessions, NEW upto \in Nat,
         upto + Recent <= sent[n], SetSummary(n, upto), sent' = sent
  PROVE  SummariesAre'
<1> DEFINE new == [session |-> n, upto |-> upto]
           renewed == [i \in DOMAIN summaries |-> IF i \in Cached(n) THEN new ELSE summaries[i]]
<1>1. PICK l \in Nat : l = Len(summaries) /\ l <= MaxSummaries /\ DOMAIN summaries = 1..l
  BY DEF SummariesAre
<1>2. new \in ChatSummary /\ new.session = n /\ new.upto = upto
  BY DEF ChatSummary
<1> HIDE DEF new
<1>3. /\ \A i \in 1..l : i \in Cached(n) <=> summaries[i].session = n
      /\ \A i, j \in 1..l : summaries[i].session = summaries[j].session => i = j
      /\ \A i \in 1..l : summaries[i].upto + Recent <= sent[summaries[i].session]
      /\ \A i \in 1..l : summaries[i] \in ChatSummary
      /\ Cached(n) \subseteq 1..l
  <2>1. /\ \A i \in 1..l : i \in Cached(n) <=> summaries[i].session = n
        /\ Cached(n) \subseteq 1..l
    BY <1>1 DEF Cached
  <2>2. /\ \A i, j \in 1..l : summaries[i].session = summaries[j].session => i = j
        /\ \A i \in 1..l : summaries[i].upto + Recent <= sent[summaries[i].session]
    BY <1>1 DEF SummariesAre
  <2>3. summaries \in Seq(ChatSummary)
    BY DEF SummariesAre
  <2>4. \A i \in 1..l : summaries[i] \in ChatSummary
    BY <1>1, <2>3
  <2> QED
    BY <2>1, <2>2, <2>4
<1>4. PICK all : /\ all = IF Cached(n) # {} THEN renewed ELSE Append(summaries, new)
                 /\ summaries' = IF Len(all) > MaxSummaries THEN Tail(all) ELSE all
  BY DEF SetSummary, new
<1>5. PICK m \in Nat :
        /\ all \in Seq(ChatSummary) /\ Len(all) = m
        /\ \A i, j \in 1..m : all[i].session = all[j].session => i = j
        /\ \A i \in 1..m : all[i].upto + Recent <= sent[all[i].session]
        /\ m <= MaxSummaries + 1
  <2>1. CASE Cached(n) # {}
    <3>1. all = renewed /\ DOMAIN all = 1..l
      BY <1>1, <1>4, <2>1
    <3>2. \A i \in 1..l : all[i] = IF summaries[i].session = n THEN new ELSE summaries[i]
      BY <1>1, <1>3, <3>1
    <3> HIDE DEF renewed
    <3>3. \A i \in 1..l : all[i] \in ChatSummary
      BY <1>2, <1>3, <3>2
    <3>4. all \in Seq(ChatSummary) /\ Len(all) = l
      <4>1. all = [i \in 1..l |-> all[i]]
        BY <3>1 DEF renewed
      <4>2. PICK k : k = all
        OBVIOUS
      <4>3. [i \in 1..l |-> k[i]] \in Seq(ChatSummary) /\ Len([i \in 1..l |-> k[i]]) = l
        <5>1. \A i \in 1..l : k[i] \in ChatSummary
          BY <3>3, <4>2
        <5> QED
          BY <5>1
      <4> QED
        BY <4>1, <4>2, <4>3
    <3>5. \A i \in 1..l : all[i].session = summaries[i].session
      BY <1>2, <3>2
    <3>6. \A i \in 1..l : all[i].upto + Recent <= sent[all[i].session]
      BY <1>2, <1>3, <3>2
    <3>7. l <= MaxSummaries + 1
      BY <1>1 DEF ChatAssumption
    <3> QED
      BY <1>3, <3>4, <3>5, <3>6, <3>7
  <2>2. CASE Cached(n) = {}
    <3>1. all = Append(summaries, new) /\ summaries \in Seq(ChatSummary)
      BY <1>4, <2>2 DEF SummariesAre
    <3>2. /\ all \in Seq(ChatSummary) /\ Len(all) = l + 1 /\ all[l + 1] = new
          /\ \A i \in 1..l : all[i] = summaries[i]
      BY <1>1, <1>2, <3>1
    <3>3. \A i \in 1..l + 1 : i \in 1..l \/ i = l + 1
      BY <1>1
    <3>4. \A i \in 1..l : all[i].session # n
      BY <1>3, <2>2, <3>2
    <3>5. \A i, j \in 1..l + 1 : all[i].session = all[j].session => i = j
      BY <1>2, <1>3, <3>2, <3>3, <3>4
    <3>6. \A i \in 1..l + 1 : all[i].upto + Recent <= sent[all[i].session]
      BY <1>2, <1>3, <3>2, <3>3
    <3>7. l + 1 \in Nat /\ l + 1 <= MaxSummaries + 1
      BY <1>1 DEF ChatAssumption
    <3> QED
      BY <3>2, <3>5, <3>6, <3>7
  <2> QED
    BY <2>1, <2>2
<1>6. MaxSummaries \in Nat \ {0} /\ sent' \in [Sessions -> Nat]
  BY DEF ChatAssumption, SummariesAre
<1>7. CASE m > MaxSummaries
  <2>0. m = MaxSummaries + 1 /\ m - 1 \in Nat /\ m > 0
    BY <1>5, <1>6, <1>7
  <2>1. summaries' = Tail(all) /\ m = MaxSummaries + 1 /\ m - 1 \in Nat /\ all # << >>
    <3>1. Len(all) = m
      BY <1>5
    <3>2. summaries' = Tail(all)
      BY <1>4, <1>7, <3>1
    <3>3. all # << >>
      BY <2>0, <3>1
    <3> QED
      BY <2>0, <3>2, <3>3
  <2>2. /\ Tail(all) \in Seq(ChatSummary) /\ Len(Tail(all)) = m - 1
        /\ \A i \in 1..m - 1 : Tail(all)[i] = all[i + 1]
    BY <1>5, <2>1
  <2>3. PICK t : t = Tail(all)
    OBVIOUS
  <2>4. /\ t \in Seq(ChatSummary) /\ Len(t) = m - 1 /\ \A i \in 1..m - 1 : t[i] = all[i + 1] /\ i + 1 \in 1..m
    BY <2>1, <2>2, <2>3
  <2>5. \A i, j \in 1..m - 1 : t[i].session = t[j].session => i = j
    <3> TAKE i, j \in 1..m - 1
    <3> HAVE t[i].session = t[j].session
    <3>1. i + 1 = j + 1
      BY <1>5, <2>4
    <3> QED
      BY <3>1
  <2>6. \A i \in 1..m - 1 : t[i].upto + Recent <= sent[t[i].session]
    BY <1>5, <2>4
  <2>7. summaries' = t /\ Len(t) = m - 1 /\ m - 1 <= MaxSummaries
    BY <1>6, <2>1, <2>3, <2>4
  <2> QED
    BY <1>6, <2>4, <2>5, <2>6, <2>7 DEF SummariesAre
<1>8. CASE ~ (m > MaxSummaries)
  <2>1. summaries' = all /\ m <= MaxSummaries
    BY <1>4, <1>5, <1>6, <1>8
  <2> QED
    BY <1>5, <1>6, <2>1 DEF SummariesAre
<1> QED
  BY <1>7, <1>8

LEMMA Summarise_Inv ==
  ASSUME ChatAssumption, ChatInv, NEW c \in Chats, Summarise(c)
  PROVE  ChatInv'
<1>1. MemoriesAre /\ SummariesAre /\ TurnsAre /\ ChunksAre
  BY DEF ChatInv
<1>2. chat[c].at = "summarise" /\ UNCHANGED <<sessions, lru, sent, asked, collided, twice>>
  BY DEF Summarise
<1>3. PICK r \in ChatTurn, k \in Nat : r = chat[c] /\ k = sent[r.session]
  BY <1>1, TurnOf DEF SummariesAre
<1>4. /\ r.at = "summarise" /\ r.source = "whole" /\ r.kept = r.length /\ r.summed = 0 /\ r.found = {}
      /\ r.length <= k /\ r.object \in DOMAIN sessions /\ TurnIs(r, k) /\ Long < r.length
      /\ r.length \in Nat /\ r.session \in Sessions /\ r.object \in Nat
  BY <1>1, <1>2, <1>3, TurnOf DEF TurnIs, ChatTurn
<1>5. Recent \in Nat \ {0} /\ Long \in Nat /\ Recent <= Long
  BY DEF ChatAssumption
<1>6. PICK upto \in Nat : upto = r.length - Recent
  <2>1. r.length - Recent \in Nat
    BY <1>4, <1>5
  <2> QED
    BY <2>1
<1>7. upto + Recent = r.length
  BY <1>4, <1>5, <1>6
<1>8. ASSUME NEW q \in ChatTurn, chat' = [chat EXCEPT ![c] = q], q.session = r.session, q.object = r.object,
             q.found = {}, TurnIs(q, k), SummariesAre'
      PROVE  ChatInv'
  BY <1>2, <1>3, <1>4, <1>8, ChatGoes DEF ChatInv
<1>9. ASSUME UNCHANGED summaries
      PROVE  SummariesAre'
  BY <1>1, <1>2, <1>9, SummariesStay
<1>10. CASE /\ chat' = [chat EXCEPT ![c] = [@ EXCEPT !.at = "retrieve", !.source = "summary",
                          !.kept = Recent, !.summed = upto]]
            /\ IF chat[c].session = Default THEN UNCHANGED summaries ELSE SetSummary(chat[c].session, upto)
  <2>1. PICK q : q = [r EXCEPT !.at = "retrieve", !.source = "summary", !.kept = Recent, !.summed = upto]
    OBVIOUS
  <2>2. /\ q \in ChatTurn /\ q.session = r.session /\ q.object = r.object /\ q.found = {}
        /\ q.length = r.length /\ q.kept = Recent /\ q.summed = upto /\ q.at = "retrieve" /\ q.source = "summary"
    BY <1>4, <1>5, <2>1 DEF ChatTurn
  <2>3. TurnIs(q, k)
    BY <1>4, <1>5, <1>6, <1>7, <2>2 DEF TurnIs
  <2>4. chat' = [chat EXCEPT ![c] = q]
    BY <1>1, <1>3, <1>10, <2>1 DEF TurnsAre
  <2>5. SummariesAre'
    <3>1. CASE r.session = Default
      BY <1>3, <1>9, <1>10, <3>1
    <3>2. CASE r.session # Default
      <4>1. SetSummary(r.session, upto)
        BY <1>3, <1>10, <3>2
      <4>2. upto + Recent <= sent[r.session] /\ sent' = sent
        BY <1>2, <1>3, <1>4, <1>7
      <4> QED
        BY <1>1, <1>4, <4>1, <4>2, SetSummary_Inv
    <3> QED
      BY <3>1, <3>2
  <2> QED
    BY <1>8, <2>2, <2>3, <2>4, <2>5
<1>11. CASE /\ chat' = [chat EXCEPT ![c] = [@ EXCEPT !.at = "retrieve", !.source = "empty", !.kept = Recent]]
            /\ UNCHANGED summaries
  <2>1. PICK q : q = [r EXCEPT !.at = "retrieve", !.source = "empty", !.kept = Recent]
    OBVIOUS
  <2>2. /\ q \in ChatTurn /\ q.session = r.session /\ q.object = r.object /\ q.found = {}
        /\ q.length = r.length /\ q.kept = Recent /\ q.summed = 0 /\ q.at = "retrieve" /\ q.source = "empty"
    BY <1>4, <1>5, <2>1 DEF ChatTurn
  <2>3. TurnIs(q, k)
    BY <1>4, <1>5, <2>2 DEF TurnIs
  <2>4. chat' = [chat EXCEPT ![c] = q]
    BY <1>1, <1>3, <1>11, <2>1 DEF TurnsAre
  <2> QED
    BY <1>8, <1>9, <1>11, <2>2, <2>3, <2>4
<1>12. CASE Enter(c, "retrieve") /\ UNCHANGED summaries
  <2>1. PICK q : q = [r EXCEPT !.at = "retrieve"]
    OBVIOUS
  <2>2. q \in ChatTurn /\ q.session = r.session /\ q.object = r.object /\ q.found = {} /\ TurnIs(q, k)
    BY <1>4, <2>1 DEF ChatTurn, TurnIs
  <2>3. chat' = [chat EXCEPT ![c] = q]
    BY <1>1, <1>3, <1>12, <2>1 DEF Enter, TurnsAre
  <2> QED
    BY <1>8, <1>9, <1>12, <2>2, <2>3
<1> QED
  BY <1>3, <1>6, <1>10, <1>11, <1>12 DEF Summarise

LEMMA Retrieve_Inv ==
  ASSUME ChatAssumption, ChatInv, NEW c \in Chats, Retrieve(c)
  PROVE  ChatInv'
<1>1. MemoriesAre /\ SummariesAre /\ TurnsAre /\ ChunksAre
  BY DEF ChatInv
<1>2. chat[c].at = "retrieve" /\ UNCHANGED <<sessions, lru, summaries, sent, asked, twice>>
  BY DEF Retrieve
<1>3. PICK r \in ChatTurn, k \in Nat : r = chat[c] /\ k = sent[r.session]
  BY <1>1, TurnOf DEF SummariesAre
<1>4. /\ r.at = "retrieve" /\ r.found = {} /\ r.object \in DOMAIN sessions /\ TurnIs(r, k)
      /\ r.session \in Sessions /\ r.object \in Nat
  BY <1>1, <1>2, <1>3, TurnOf DEF TurnIs, ChatTurn
<1>5. SummariesAre'
  BY <1>1, <1>2, SummariesStay
<1>6. CASE Enter(c, "answer") /\ UNCHANGED collided
  <2>1. PICK q : q = [r EXCEPT !.at = "answer"]
    OBVIOUS
  <2>2. q \in ChatTurn /\ q.session = r.session /\ q.object = r.object /\ q.found = {} /\ TurnIs(q, k)
    BY <1>4, <2>1 DEF ChatTurn, TurnIs
  <2>3. chat' = [chat EXCEPT ![c] = q]
    BY <1>1, <1>3, <1>6, <2>1 DEF Enter, TurnsAre
  <2> QED
    BY <1>2, <1>3, <1>4, <1>5, <1>6, <2>2, <2>3, ChatGoes DEF ChatInv
<1>7. ASSUME NEW hits \in SUBSET Chunks, NEW o, o = r.object, NEW found, found = hits \ sessions[o].seen,
             NEW others,
             \A d : d \in others <=> d \in Chats \ {c} /\ chat[d].at = "track" /\ chat[d].object = o,
             chat' = [chat EXCEPT ![c] = [@ EXCEPT !.at = "track", !.found = found]],
             collided' = collided \cup ({o} \X (found \cap UNION {chat[d].found : d \in others}))
      PROVE  ChatInv'
  <2>1. PICK q : q = [r EXCEPT !.at = "track", !.found = found]
    OBVIOUS
  <2>2. found \in SUBSET Chunks
    BY <1>7
  <2>3. q \in ChatTurn /\ q.session = r.session /\ q.object = o /\ q.found = found /\ TurnIs(q, k) /\ q.at = "track"
    BY <1>4, <1>7, <2>1, <2>2 DEF ChatTurn, TurnIs
  <2>4. chat' = [chat EXCEPT ![c] = q]
    BY <1>1, <1>3, <1>7, <2>1 DEF TurnsAre
  <2>5. /\ sent' \in [Sessions -> Nat] /\ \A n \in Sessions : sent[n] <= sent'[n]
        /\ DOMAIN sessions \subseteq DOMAIN sessions'
    BY <1>1, <1>2 DEF SummariesAre
  <2>6. TurnsAre'
    <3>1. TurnIs(q, sent'[q.session]) /\ q.object \in DOMAIN sessions'
      BY <1>2, <1>3, <1>4, <1>7, <2>3
    <3> QED
      BY <1>1, <2>3, <2>4, <2>5, <3>1, TurnsGo
  <2>7. MemoriesAre'
    BY <1>1, <1>2, MemoriesStay
  <2>8. chat'[c] = q /\ \A d \in Chats : d # c => chat'[d] = chat[d]
    BY <1>1, <2>4 DEF TurnsAre
  <2>9. \A p, x : Holds(c, p, x)' => p = o /\ x \in found
    BY <2>3, <2>8 DEF Holds
  <2>10. \A d \in Chats : \A p, x : d # c => (Holds(d, p, x)' <=> Holds(d, p, x))
    BY <2>8 DEF Holds
  <2>11. \A p, x : p = o /\ x \in found => x \notin sessions[o].seen
    BY <1>7
  <2>12. \A x : x \in found => x \notin sessions[o].shown
    BY <1>1, <1>4, <1>7, <2>11 DEF MemoriesAre
  <2>13. \A d \in Chats : chat'[d].at = "answer" => chat'[d].found \subseteq sessions'[chat'[d].object].seen
    BY <1>1, <1>2, <2>3, <2>8 DEF ChunksAre
  <2>14. \A d \in Chats, p \in DOMAIN sessions', x \in Chunks :
           Holds(d, p, x)' /\ x \in sessions'[p].shown => <<p, x>> \in collided'
    BY <1>1, <1>2, <1>7, <2>9, <2>10, <2>12 DEF ChunksAre
  <2>15. ASSUME NEW d \in Chats, d # c, NEW p, NEW x \in Chunks, Holds(c, p, x)', Holds(d, p, x)
         PROVE  <<p, x>> \in collided'
    <3>1. p = o /\ x \in found /\ x \notin sessions[o].seen
      BY <2>9, <2>11, <2>15
    <3>2. chat[d].at = "track" /\ chat[d].object = o /\ x \in chat[d].found
      BY <1>1, <2>15, <3>1 DEF Holds, ChunksAre
    <3>3. d \in others
      BY <1>7, <2>15, <3>2
    <3>4. x \in found \cap UNION {chat[e].found : e \in others}
      BY <3>1, <3>2, <3>3
    <3> QED
      BY <1>7, <3>1, <3>4
  <2>16. \A d, e \in Chats, p \in DOMAIN sessions', x \in Chunks :
           d # e /\ Holds(d, p, x)' /\ Holds(e, p, x)' => <<p, x>> \in collided'
    <3> SUFFICES ASSUME NEW d \in Chats, NEW e \in Chats, NEW p \in DOMAIN sessions', NEW x \in Chunks,
                        d # e, Holds(d, p, x)', Holds(e, p, x)'
                 PROVE  <<p, x>> \in collided'
      OBVIOUS
    <3>1. CASE d = c
      BY <2>10, <2>15, <3>1
    <3>2. CASE e = c
      BY <2>10, <2>15, <3>2
    <3>3. CASE d # c /\ e # c
      <4>1. Holds(d, p, x) /\ Holds(e, p, x) /\ p \in DOMAIN sessions
        BY <1>2, <2>10, <3>3
      <4> QED
        BY <1>1, <1>7, <4>1 DEF ChunksAre
    <3> QED
      BY <3>1, <3>2, <3>3
  <2>17. twice' \subseteq collided'
    BY <1>1, <1>2, <1>7 DEF ChunksAre
  <2>18. ChunksAre'
    BY <2>13, <2>14, <2>16, <2>17 DEF ChunksAre
  <2> QED
    BY <1>5, <2>6, <2>7, <2>18 DEF ChatInv
<1>8. CASE \E hits \in SUBSET Chunks \ {{}} :
          LET o == chat[c].object
              found == hits \ sessions[o].seen
              others == {d \in Chats \ {c} : chat[d].at = "track" /\ chat[d].object = o}
          IN /\ chat' = [chat EXCEPT ![c] = [@ EXCEPT !.at = "track", !.found = found]]
             /\ collided' = collided \cup ({o} \X (found \cap UNION {chat[d].found : d \in others}))
  <2>1. PICK hits \in SUBSET Chunks :
          LET o == chat[c].object
              found == hits \ sessions[o].seen
              others == {d \in Chats \ {c} : chat[d].at = "track" /\ chat[d].object = o}
          IN /\ chat' = [chat EXCEPT ![c] = [@ EXCEPT !.at = "track", !.found = found]]
             /\ collided' = collided \cup ({o} \X (found \cap UNION {chat[d].found : d \in others}))
    BY <1>8
  <2>2. PICK o : o = r.object
    OBVIOUS
  <2>3. PICK found, others : /\ found = hits \ sessions[o].seen
                             /\ others = {d \in Chats \ {c} : chat[d].at = "track" /\ chat[d].object = o}
    OBVIOUS
  <2>4. /\ chat' = [chat EXCEPT ![c] = [@ EXCEPT !.at = "track", !.found = found]]
        /\ collided' = collided \cup ({o} \X (found \cap UNION {chat[d].found : d \in others}))
    BY <1>3, <2>1, <2>2, <2>3
  <2>5. \A d : d \in others <=> d \in Chats \ {c} /\ chat[d].at = "track" /\ chat[d].object = o
    BY <2>3
  <2> QED
    BY <1>7, <2>2, <2>3, <2>4, <2>5
<1> QED
  BY <1>6, <1>8 DEF Retrieve

LEMMA TrackRetrieval_Inv ==
  ASSUME ChatAssumption, ChatInv, NEW c \in Chats, TrackRetrieval(c)
  PROVE  ChatInv'
<1>1. MemoriesAre /\ SummariesAre /\ TurnsAre /\ ChunksAre
  BY DEF ChatInv
<1>2. /\ chat[c].at = "track" /\ UNCHANGED <<lru, summaries, sent, asked, collided, twice>>
      /\ sessions' = [sessions EXCEPT ![chat[c].object].seen = @ \cup chat[c].found]
  BY DEF TrackRetrieval
<1>3. PICK r \in ChatTurn, k \in Nat : r = chat[c] /\ k = sent[r.session]
  BY <1>1, TurnOf DEF SummariesAre
<1>4. /\ r.at = "track" /\ r.object \in DOMAIN sessions /\ TurnIs(r, k)
      /\ r.session \in Sessions /\ r.object \in Nat /\ r.found \in SUBSET Chunks
  BY <1>1, <1>2, <1>3, TurnOf DEF TurnIs, ChatTurn
<1>5. PICK given \in SUBSET r.found : chat' = [chat EXCEPT ![c] = [@ EXCEPT !.at = "answer", !.found = given]]
  BY <1>3 DEF TrackRetrieval
<1>6. PICK o : o = r.object
  OBVIOUS
<1>7. sessions[o] \in ChatObject /\ sessions[o].shown \subseteq sessions[o].seen /\ o \in DOMAIN sessions
  BY <1>1, <1>4, <1>6, BelongsIs DEF MemoriesAre
<1>8. PICK m : m = [sessions[o] EXCEPT !.seen = @ \cup r.found]
  OBVIOUS
<1>9. /\ m \in ChatObject /\ m.id = sessions[o].id /\ m.shown = sessions[o].shown
      /\ m.seen = sessions[o].seen \cup r.found /\ m.shown \subseteq m.seen
  BY <1>4, <1>7, <1>8 DEF ChatObject
<1>10. sessions' = [sessions EXCEPT ![o] = m]
  BY <1>2, <1>3, <1>6, <1>7, <1>8
<1>11. /\ MemoriesAre' /\ DOMAIN sessions' = DOMAIN sessions
       /\ sessions'[o] = m /\ \A p \in DOMAIN sessions : p # o => sessions'[p] = sessions[p]
  BY <1>1, <1>2, <1>7, <1>9, <1>10, ObjectChanges
<1>12. SummariesAre'
  BY <1>1, <1>2, SummariesStay
<1>13. PICK q : q = [r EXCEPT !.at = "answer", !.found = given]
  OBVIOUS
<1>14. q \in ChatTurn /\ q.session = r.session /\ q.object = o /\ q.found = given /\ TurnIs(q, k) /\ q.at = "answer"
  BY <1>4, <1>5, <1>6, <1>13 DEF ChatTurn, TurnIs
<1>15. chat' = [chat EXCEPT ![c] = q]
  BY <1>1, <1>3, <1>5, <1>13 DEF TurnsAre
<1>16. TurnsAre'
  <2>1. /\ sent' \in [Sessions -> Nat] /\ \A n \in Sessions : sent[n] <= sent'[n]
        /\ DOMAIN sessions \subseteq DOMAIN sessions'
    BY <1>1, <1>2, <1>11 DEF SummariesAre
  <2>2. TurnIs(q, sent'[q.session]) /\ q.object \in DOMAIN sessions'
    BY <1>2, <1>3, <1>7, <1>11, <1>14
  <2> QED
    BY <1>1, <1>14, <1>15, <2>1, <2>2, TurnsGo
<1>17. chat'[c] = q /\ \A d \in Chats : d # c => chat'[d] = chat[d]
  BY <1>1, <1>15 DEF TurnsAre
<1>18. \A d \in Chats : \A p, x : Holds(d, p, x)' => Holds(d, p, x)
  <2> TAKE d \in Chats
  <2> TAKE p, x
  <2>1. CASE d = c
    BY <1>2, <1>3, <1>5, <1>6, <1>14, <1>17, <2>1 DEF Holds
  <2>2. CASE d # c
    BY <1>17, <2>2 DEF Holds
  <2> QED
    BY <2>1, <2>2
<1>19. \A p \in DOMAIN sessions : sessions'[p].shown = sessions[p].shown /\ sessions[p].seen \subseteq sessions'[p].seen
  BY <1>9, <1>11
<1>20. ASSUME NEW d \in Chats, chat'[d].at = "answer"
       PROVE  chat'[d].found \subseteq sessions'[chat'[d].object].seen
  <2>1. CASE d = c
    BY <1>5, <1>9, <1>11, <1>14, <1>17, <2>1
  <2>2. CASE d # c
    <3>1. PICK x \in ChatTurn : x = chat[d]
      BY <1>1, TurnOf
    <3>2. chat'[d] = x /\ x.at = "answer" /\ x.object \in DOMAIN sessions /\ x.found \subseteq sessions[x.object].seen
      BY <1>1, <1>17, <1>20, <2>2, <3>1, TurnOf DEF ChunksAre
    <3> QED
      BY <1>19, <3>2
  <2> QED
    BY <2>1, <2>2
<1>21. /\ \A d \in Chats, p \in DOMAIN sessions', x \in Chunks :
            Holds(d, p, x)' /\ x \in sessions'[p].shown => <<p, x>> \in collided'
       /\ \A d, e \in Chats, p \in DOMAIN sessions', x \in Chunks :
            d # e /\ Holds(d, p, x)' /\ Holds(e, p, x)' => <<p, x>> \in collided'
       /\ twice' \subseteq collided'
  BY <1>1, <1>2, <1>11, <1>18, <1>19 DEF ChunksAre
<1>22. ChunksAre'
  BY <1>20, <1>21 DEF ChunksAre
<1> QED
  BY <1>11, <1>12, <1>16, <1>22 DEF ChatInv

LEMMA Answer_Inv ==
  ASSUME ChatAssumption, ChatInv, NEW c \in Chats, Answer(c)
  PROVE  ChatInv'
<1>1. MemoriesAre /\ SummariesAre /\ TurnsAre /\ ChunksAre
  BY DEF ChatInv
<1>2. /\ chat[c].at = "answer" /\ UNCHANGED <<lru, summaries, sent, asked, collided>>
      /\ chat' = [chat EXCEPT ![c] = Silent]
  BY DEF Answer
<1>3. PICK r \in ChatTurn : r = chat[c]
  BY <1>1, TurnOf
<1>4. PICK o : o = r.object
  OBVIOUS
<1>5. /\ sessions' = [sessions EXCEPT ![o] = [sessions[o] EXCEPT !.shown = @ \cup r.found, !.stale = FALSE]]
      /\ twice' = twice \cup ({o} \X (r.found \cap sessions[o].shown))
  BY <1>3, <1>4 DEF Answer
<1>6. /\ r.at = "answer" /\ o \in DOMAIN sessions /\ r.found \in SUBSET Chunks
      /\ r.found \subseteq sessions[o].seen
      /\ \A x : x \in r.found => Holds(c, o, x)
  BY <1>1, <1>2, <1>3, <1>4, TurnOf DEF ChatTurn, ChunksAre, Holds
<1>7. sessions[o] \in ChatObject /\ sessions[o].shown \subseteq sessions[o].seen
  BY <1>1, <1>6, BelongsIs DEF MemoriesAre
<1>8. PICK m : m = [sessions[o] EXCEPT !.shown = @ \cup r.found, !.stale = FALSE]
  OBVIOUS
<1>9. /\ m \in ChatObject /\ m.id = sessions[o].id /\ m.shown = sessions[o].shown \cup r.found
      /\ m.seen = sessions[o].seen /\ m.shown \subseteq m.seen
  BY <1>6, <1>7, <1>8 DEF ChatObject
<1>10. sessions' = [sessions EXCEPT ![o] = m]
  BY <1>5, <1>8
<1>11. /\ MemoriesAre' /\ DOMAIN sessions' = DOMAIN sessions
       /\ sessions'[o] = m /\ \A p \in DOMAIN sessions : p # o => sessions'[p] = sessions[p]
  BY <1>1, <1>2, <1>6, <1>9, <1>10, ObjectChanges
<1>12. SummariesAre'
  BY <1>1, <1>2, SummariesStay
<1>13. Silent.session \in Sessions
  BY DEF Silent, ChatAssumption
<1>14. sent[Silent.session] \in Nat
  BY <1>1, <1>13 DEF SummariesAre
<1>15. Silent \in ChatTurn /\ TurnIs(Silent, sent[Silent.session]) /\ Silent.at = "silent" /\ Silent.found = {}
  BY <1>14, SilentIs
<1>16. TurnsAre'
  <2>1. /\ sent' \in [Sessions -> Nat] /\ \A n \in Sessions : sent[n] <= sent'[n]
        /\ DOMAIN sessions \subseteq DOMAIN sessions'
    BY <1>1, <1>2, <1>11 DEF SummariesAre
  <2>2. TurnIs(Silent, sent'[Silent.session])
    BY <1>2, <1>15
  <2> QED
    BY <1>1, <1>2, <1>15, <2>1, <2>2, TurnsGo
<1>17. chat'[c].at = "silent" /\ \A d \in Chats : d # c => chat'[d] = chat[d]
  BY <1>1, <1>2, <1>15 DEF TurnsAre
<1>18. \A d \in Chats : \A p, x : Holds(d, p, x)' => d # c /\ Holds(d, p, x)
  BY <1>17 DEF Holds
<1>19. \A p \in DOMAIN sessions : sessions'[p].seen = sessions[p].seen
  BY <1>9, <1>11
<1>20. ASSUME NEW d \in Chats, chat'[d].at = "answer"
       PROVE  chat'[d].found \subseteq sessions'[chat'[d].object].seen
  <2>1. d # c /\ chat'[d] = chat[d]
    BY <1>17, <1>20
  <2>2. PICK x \in ChatTurn : x = chat[d]
    BY <1>1, TurnOf
  <2>3. chat'[d] = x /\ x.at = "answer" /\ x.object \in DOMAIN sessions /\ x.found \subseteq sessions[x.object].seen
    BY <1>1, <1>20, <2>1, <2>2, TurnOf DEF ChunksAre
  <2> QED
    BY <1>19, <2>3
<1>21. ASSUME NEW d \in Chats, NEW p \in DOMAIN sessions', NEW x \in Chunks,
              Holds(d, p, x)', x \in sessions'[p].shown
       PROVE  <<p, x>> \in collided'
  <2>1. d # c /\ Holds(d, p, x) /\ p \in DOMAIN sessions
    BY <1>11, <1>18, <1>21
  <2>2. CASE x \in sessions[p].shown
    BY <1>1, <1>2, <2>1, <2>2 DEF ChunksAre
  <2>3. CASE x \notin sessions[p].shown
    <3>1. p = o /\ x \in r.found
      BY <1>9, <1>11, <1>21, <2>1, <2>3
    <3>2. Holds(c, p, x)
      BY <1>6, <3>1
    <3> QED
      BY <1>1, <1>2, <2>1, <3>2 DEF ChunksAre
  <2> QED
    BY <2>2, <2>3
<1>22. \A d, e \in Chats, p \in DOMAIN sessions', x \in Chunks :
         d # e /\ Holds(d, p, x)' /\ Holds(e, p, x)' => <<p, x>> \in collided'
  BY <1>1, <1>2, <1>11, <1>18 DEF ChunksAre
<1>23. twice' \subseteq collided'
  <2>1. \A x : x \in r.found \cap sessions[o].shown => <<o, x>> \in collided
    BY <1>1, <1>6 DEF ChunksAre
  <2>2. {o} \X (r.found \cap sessions[o].shown) \subseteq collided
    BY <2>1
  <2> QED
    BY <1>1, <1>2, <1>5, <2>2 DEF ChunksAre
<1>24. ChunksAre'
  BY <1>20, <1>21, <1>22, <1>23 DEF ChunksAre
<1> QED
  BY <1>11, <1>12, <1>16, <1>24 DEF ChatInv

\* So every step keeps it.
LEMMA ChatNext_Inv ==
  ASSUME ChatAssumption, ChatInv, [ChatNext]_chatVars
  PROVE  ChatInv'
<1>1. CASE UNCHANGED chatVars
  <2>1. UNCHANGED <<sessions, lru, summaries, chat, sent, asked, collided, twice>>
    BY <1>1 DEF chatVars
  <2>2. MemoriesAre' /\ SummariesAre'
    BY <2>1, MemoriesStay, SummariesStay DEF ChatInv
  <2>3. TurnsAre' /\ ChunksAre'
    BY <2>1 DEF ChatInv, TurnsAre, ChunksAre, Holds
  <2> QED
    BY <2>2, <2>3 DEF ChatInv
<1> QED
  BY <1>1, SessionExpires_Inv, StartChat_Inv, Compress_Inv, Summarise_Inv, Retrieve_Inv,
     TrackRetrieval_Inv, Answer_Inv, ChatFails_Inv DEF ChatNext

\* One summary for each session.
LEMMA CachedOnce ==
  ASSUME SummariesAre, NEW n \in Sessions
  PROVE  Cardinality(Cached(n)) <= 1
<1>1. \A i, j \in Cached(n) : i = j
  BY DEF Cached, SummariesAre
<1>2. CASE Cached(n) = {}
  BY <1>2, FS_EmptySet
<1>3. CASE Cached(n) # {}
  <2>1. PICK i \in Cached(n) : TRUE
    BY <1>3
  <2>2. Cached(n) = {i}
    BY <1>1, <2>1
  <2>3. Cardinality({i}) = 1
    BY FS_Singleton
  <2> QED
    BY <2>2, <2>3
<1> QED
  BY <1>2, <1>3

\* And it implies what is promised.
LEMMA ChatInv_Safe ==
  ASSUME ChatAssumption, ChatInv
  PROVE  ChatSafe
<1>1. MemoriesAre /\ SummariesAre /\ TurnsAre /\ ChunksAre
  BY DEF ChatInv
<1>2. ChatTypeOK
  <2>1. \A i \in DOMAIN sessions :
          /\ sessions[i].id \in Sessions /\ sessions[i].stale \in BOOLEAN
          /\ sessions[i].shown \subseteq sessions[i].seen /\ sessions[i].seen \subseteq Chunks
    <3> TAKE i \in DOMAIN sessions
    <3>1. sessions[i] \in ChatObject
      BY <1>1, BelongsIs
    <3> QED
      BY <1>1, <3>1 DEF ChatObject, MemoriesAre
  <2>2. Len(lru) <= MaxSessions /\ \A i \in DOMAIN lru : lru[i] \in DOMAIN sessions
    BY <1>1, BelongsIs DEF MemoriesAre
  <2>3. /\ Len(summaries) <= MaxSummaries /\ sent \in [Sessions -> Nat]
        /\ \A n \in Sessions : Cardinality(Cached(n)) <= 1
    BY <1>1, CachedOnce DEF SummariesAre
  <2>4. \A c \in Chats :
          /\ chat[c].at \in {"silent", "compress", "summarise", "retrieve", "track", "answer"}
          /\ chat[c].found \subseteq Chunks /\ chat[c].kept \in 0..chat[c].length
          /\ chat[c].source \in {"whole", "summary", "cache", "empty"}
    <3> TAKE c \in Chats
    <3>1. PICK r \in ChatTurn : r = chat[c]
      BY <1>1, TurnOf
    <3>2. TurnIs(r, sent[r.session])
      BY <1>1, <3>1, TurnOf
    <3>3. r.kept \in 0..r.length
      BY <3>2 DEF TurnIs, ChatTurn, ChatAssumption
    <3> QED
      BY <3>1, <3>3 DEF ChatTurn
  <2> QED
    BY <2>1, <2>2, <2>3, <2>4 DEF ChatTypeOK
<1>3. StoreKeepsLatest
  <2>1. PICK n \in Nat, m \in Nat : n = Len(lru) /\ m = Len(asked)
    BY <1>1, BelongsIs
  <2>2. /\ n <= m /\ DOMAIN lru = 1..n /\ asked \in Seq(Sessions)
        /\ \A i \in 1..n : Belongs[lru[i]] = asked[m - n + i] /\ lru[i] \in DOMAIN sessions
    BY <1>1, <2>1, BelongsIs DEF MemoriesAre, RanksAs
  <2>3. \A i \in 1..n : sessions[lru[i]].id = asked[m - n + i]
    BY <1>1, <2>2, BelongsIs
  <2>4. PICK a, b : a = m - n + 1 /\ b = m
    OBVIOUS
  <2>5. a \in 1..m + 1 /\ b \in Nat /\ b - a + 1 = n /\ \A i \in 1..n : i + a - 1 = m - n + i
    BY <2>1, <2>2, <2>4
  <2>6. SubSeq(asked, a, b) = [i \in 1..b - a + 1 |-> asked[i + a - 1]]
    BY <2>1, <2>2, <2>4, <2>5
  <2>7. SubSeq(asked, a, b) = [i \in 1..n |-> asked[m - n + i]]
    BY <2>5, <2>6
  <2>8. [i \in DOMAIN lru |-> sessions[lru[i]].id] = [i \in 1..n |-> asked[m - n + i]]
    BY <2>2, <2>3
  <2> QED
    BY <2>1, <2>2, <2>4, <2>7, <2>8 DEF StoreKeepsLatest
<1>4. ShownOnce
  BY <1>1 DEF ShownOnce, ChunksAre
<1>5. MessagesReach
  <2> SUFFICES ASSUME NEW c \in Chats
               PROVE  LET given == 1..chat[c].summed \cup (chat[c].length - chat[c].kept + 1)..chat[c].length IN
                        /\ chat[c].source \in {"whole", "summary"} => given = 1..chat[c].length
                        /\ chat[c].summed + Recent <= sent[chat[c].session] \/ chat[c].summed = 0
    BY DEF MessagesReach, Talking
  <2>1. PICK r \in ChatTurn : r = chat[c]
    BY <1>1, TurnOf
  <2>2. TurnIs(r, sent[r.session])
    BY <1>1, <2>1, TurnOf
  <2>3. PICK s \in Nat, k \in Nat, l \in Nat, n \in Nat \ {0} : s = r.summed /\ k = r.kept /\ l = r.length /\ n = Recent
    BY DEF ChatTurn, ChatAssumption
  <2>4. ASSUME r.source = "whole"
        PROVE  1..s \cup (l - k + 1)..l = 1..l
    <3>1. s = 0 /\ k = l
      BY <2>2, <2>3, <2>4 DEF TurnIs
    <3> QED
      BY <2>3, <3>1
  <2>5. ASSUME r.source = "summary"
        PROVE  1..s \cup (l - k + 1)..l = 1..l
    <3>1. s = l - n /\ k = n /\ n <= l
      BY <2>2, <2>3, <2>5 DEF TurnIs
    <3> QED
      BY <2>3, <3>1
  <2>6. r.summed + Recent <= sent[r.session] \/ r.summed = 0
    BY <2>2 DEF TurnIs
  <2> QED
    BY <2>1, <2>3, <2>4, <2>5, <2>6
<1> QED
  BY <1>2, <1>3, <1>4, <1>5 DEF ChatSafe

-----------------------------------------------------------------------------
(* The streams (Streaming)                                                  *)

\* What a stream can tell.
PhaseNames ==
  {"sentiment", "classify", "hyde", "compress", "profile", "retrieve", "generate", "self_critique"}
AnswerEvent == <<"answer", "">>
ErrorEvent == <<"error", "">>
DoneEvent == <<"done", "">>
Events == (PhaseNames \X {"started", "done", "error"}) \cup {AnswerEvent, ErrorEvent, DoneEvent}

StreamTyped(r) ==
  /\ DOMAIN r = {"at", "todo", "open", "found", "took", "told"}
  /\ r.at \in {"waiting", "running", "told", "ended", "broken", "left"}
  /\ r.open \in BOOLEAN /\ r.took \in {"none", "cached", "made"} /\ r.told \in Seq(Events)

\* Every phase that was told to start, but the generation and x, was told to end.
EndedBut(told, x) ==
  \A i \in 1..Len(told) :
    told[i][2] = "started" /\ told[i][1] # "generate" =>
      told[i][1] = x \/ \E j \in 1..Len(told) : j > i /\ told[j] = <<told[i][1], "done">>

Tells(told, event) == \E i \in 1..Len(told) : told[i] = event

\* The phase that is its turn.
Turn(todo, phase) ==
  /\ phase \in todo
  /\ \A i, j \in DOMAIN Phases : Phases[j] = phase /\ i < j => Phases[i] \notin todo

\* A stream that runs has told the end of all phases but the one that is open,
\* and no answer; one that has told its answer has told one.
ToldHolds(r) ==
  /\ r.at = "waiting" => r.told = <<>> /\ ~ r.open /\ r.took = "none"
  /\ r.at = "running" =>
       /\ r.open => \E p \in PhaseNames : Turn(r.todo, p) /\ EndedBut(r.told, p)
       /\ ~ r.open => EndedBut(r.told, "none")
       /\ ~ Tells(r.told, AnswerEvent) /\ ~ Tells(r.told, ErrorEvent)
       /\ "compress" \in r.todo => r.took = "none"
  /\ r.at \in {"told", "ended"} =>
       /\ EndedBut(r.told, "none")
       /\ Tells(r.told, AnswerEvent) => ~ Tells(r.told, ErrorEvent)
       /\ Tells(r.told, AnswerEvent) \/ Tells(r.told, ErrorEvent)
  /\ r.at = "ended" => Last(r.told) = DoneEvent

EventsInv ==
  /\ DOMAIN stream = Streams
  /\ \A s \in Streams : StreamTyped(stream[s]) /\ ToldHolds(stream[s])

\* What a stream was given was seen, by no other; and the summary was made once.
SharesInv ==
  /\ \A s \in Streams : stream[s].found \subseteq seenPieces
  /\ \A s, t \in Streams : s # t => stream[s].found \cap stream[t].found = {}
  /\ summary.cached = FALSE =>
       summary.made = 0 /\ \A s \in Streams : stream[s].took # "made"
  /\ summary.cached # FALSE =>
       summary.made = 1 /\ \E s \in Streams : \A t \in Streams : (stream[t].took = "made" <=> t = s)

StreamInv == EventsInv /\ SharesInv

-----------------------------------------------------------------------------
\* It holds at the start, and each action of the module keeps it.
LEMMA StreamInit_Inv == StreamInit => StreamInv
<1> SUFFICES ASSUME StreamInit PROVE StreamInv
  OBVIOUS
<1> USE DEF StreamInit
<1>1. \A s \in Streams : stream[s] = Waiting /\ DOMAIN stream = Streams
  OBVIOUS
<1>2. StreamTyped(Waiting) /\ ToldHolds(Waiting)
  BY DEF StreamTyped, ToldHolds, Waiting
<1>3. SharesInv
  BY DEF SharesInv, Waiting
<1> QED
  BY <1>1, <1>2, <1>3 DEF StreamInv, EventsInv

\* The phases, one by one.
LEMMA PhasesAre ==
  \A i \in DOMAIN Phases : Phases[i] \in PhaseNames
  BY DEF Phases, PhaseNames

\* What is told at last is told after all that was told.
LEMMA ToldMore ==
  ASSUME NEW t \in Seq(Events), NEW e \in Seq(Events), \A i \in 1..Len(e) : e[i][2] # "started"
  PROVE  /\ t \o e \in Seq(Events)
         /\ \A x : Tells(t \o e, x) <=> Tells(t, x) \/ Tells(e, x)
         /\ \A x : EndedBut(t, x) => EndedBut(t \o e, x)
         /\ \A x : EndedBut(t, x) /\ Tells(e, <<x, "done">>) => EndedBut(t \o e, "none")
<1> DEFINE u == t \o e
<1>1. /\ u \in Seq(Events) /\ Len(u) = Len(t) + Len(e) /\ Len(t) \in Nat /\ Len(e) \in Nat
      /\ \A i \in 1..Len(t) : u[i] = t[i]
  BY ConcatProperties
<1>2. \A i \in 1..Len(e) : Len(t) + i \in 1..Len(u) /\ u[Len(t) + i] = e[i]
  <2> TAKE i \in 1..Len(e)
  <2>1. Len(t) + i \in 1..Len(u) /\ ~ (Len(t) + i <= Len(t)) /\ (Len(t) + i) - Len(t) = i
    BY <1>1
  <2>2. u[Len(t) + i] = e[(Len(t) + i) - Len(t)]
    BY <1>1, <2>1, ConcatProperties
  <2> QED
    BY <2>1, <2>2
<1> HIDE DEF u
<1>3. \A i \in 1..Len(u) : i \in 1..Len(t) \/ \E k \in 1..Len(e) : i = Len(t) + k
  <2> TAKE i \in 1..Len(u)
  <2>1. CASE i <= Len(t)
    BY <1>1, <2>1
  <2>2. CASE ~ (i <= Len(t))
    <3>1. i - Len(t) \in 1..Len(e) /\ i = Len(t) + (i - Len(t))
      BY <1>1, <2>2
    <3> QED
      BY <3>1
  <2> QED
    BY <2>1, <2>2
<1>4. \A i \in 1..Len(t) : i \in 1..Len(u) /\ \A k \in 1..Len(e) : Len(t) + k > i
  BY <1>1
<1>5. \A x : Tells(u, x) <=> Tells(t, x) \/ Tells(e, x)
  <2> TAKE x
  <2>1. ASSUME Tells(u, x) PROVE Tells(t, x) \/ Tells(e, x)
    <3>1. PICK i \in 1..Len(u) : u[i] = x
      BY <2>1 DEF Tells
    <3>2. CASE i \in 1..Len(t)
      BY <1>1, <3>1, <3>2 DEF Tells
    <3>3. CASE \E k \in 1..Len(e) : i = Len(t) + k
      BY <1>2, <3>1, <3>3 DEF Tells
    <3> QED
      BY <1>3, <3>2, <3>3
  <2>2. ASSUME Tells(t, x) PROVE Tells(u, x)
    BY <1>1, <1>4, <2>2 DEF Tells
  <2>3. ASSUME Tells(e, x) PROVE Tells(u, x)
    BY <1>2, <2>3 DEF Tells
  <2> QED
    BY <2>1, <2>2, <2>3
<1>6. ASSUME NEW x, EndedBut(t, x)
      PROVE  EndedBut(u, x) /\ (Tells(e, <<x, "done">>) => EndedBut(u, "none"))
  <2> SUFFICES ASSUME NEW i \in 1..Len(u), u[i][2] = "started", u[i][1] # "generate"
               PROVE  /\ u[i][1] = x \/ \E j \in 1..Len(u) : j > i /\ u[j] = <<u[i][1], "done">>
                      /\ Tells(e, <<x, "done">>) =>
                           \E j \in 1..Len(u) : j > i /\ u[j] = <<u[i][1], "done">>
    BY DEF EndedBut
  <2>1. i \in 1..Len(t) /\ u[i] = t[i]
    <3>1. CASE \E k \in 1..Len(e) : i = Len(t) + k
      BY <1>2, <3>1
    <3> QED
      BY <1>1, <1>3, <3>1
  <2>2. \/ t[i][1] = x
        \/ \E j \in 1..Len(t) : j > i /\ t[j] = <<t[i][1], "done">>
    BY <1>6, <2>1 DEF EndedBut
  <2>3. CASE \E j \in 1..Len(t) : j > i /\ t[j] = <<t[i][1], "done">>
    BY <1>1, <1>4, <2>1, <2>3
  <2>4. CASE t[i][1] = x
    <3>1. ASSUME Tells(e, <<x, "done">>)
          PROVE  \E j \in 1..Len(u) : j > i /\ u[j] = <<u[i][1], "done">>
      <4>1. PICK k \in 1..Len(e) : e[k] = <<x, "done">>
        BY <3>1 DEF Tells
      <4> QED
        BY <1>2, <1>4, <2>1, <2>4, <4>1
    <3> QED
      BY <2>1, <2>4, <3>1
  <2> QED
    BY <2>2, <2>3, <2>4
<1> QED
  BY <1>1, <1>5, <1>6 DEF u

\* No event has the name that stands for no phase.
LEMMA EventsAreNamed ==
  ASSUME NEW e \in Events
  PROVE  e[1] # "none"
<1>1. CASE e \in PhaseNames \X {"started", "done", "error"}
  <2>1. e[1] \in PhaseNames
    BY <1>1
  <2> QED
    BY <2>1 DEF PhaseNames
<1>2. CASE e \in {AnswerEvent, ErrorEvent, DoneEvent}
  <2>1. e = AnswerEvent \/ e = ErrorEvent \/ e = DoneEvent
    BY <1>2
  <2>2. AnswerEvent[1] = "answer" /\ ErrorEvent[1] = "error" /\ DoneEvent[1] = "done"
    BY DEF AnswerEvent, ErrorEvent, DoneEvent
  <2> QED
    BY <2>1, <2>2
<1> QED
  BY <1>1, <1>2 DEF Events

\* And so is the start of a phase.
LEMMA ToldStart ==
  ASSUME NEW t \in Seq(Events), NEW p \in PhaseNames, EndedBut(t, "none")
  PROVE  /\ t \o <<<<p, "started">>>> \in Seq(Events)
         /\ EndedBut(t \o <<<<p, "started">>>>, p)
         /\ \A x : Tells(t \o <<<<p, "started">>>>, x) => Tells(t, x) \/ x = <<p, "started">>
<1> DEFINE e == <<p, "started">>
           u == t \o <<e>>
<1>0. e \in Events /\ e[1] = p
  BY DEF Events
<1> HIDE DEF e
<1>1. /\ u \in Seq(Events) /\ Len(u) = Len(t) + 1 /\ Len(t) \in Nat
      /\ \A i \in 1..Len(t) : u[i] = t[i]
      /\ u[Len(t) + 1] = e
  <2>1. u = Append(t, e)
    BY <1>0
  <2> QED
    BY <1>0, <2>1
<1> HIDE DEF u
<1>2. \A i \in 1..Len(u) : i \in 1..Len(t) \/ i = Len(t) + 1
  BY <1>1
<1>3. \A i \in 1..Len(t) : i \in 1..Len(u)
  BY <1>1
<1>4. EndedBut(u, p)
  <2> SUFFICES ASSUME NEW i \in 1..Len(u), u[i][2] = "started", u[i][1] # "generate"
               PROVE  u[i][1] = p \/ \E j \in 1..Len(u) : j > i /\ u[j] = <<u[i][1], "done">>
    BY DEF EndedBut
  <2>1. CASE i \in 1..Len(t)
    <3>1. u[i] = t[i] /\ t[i] \in Events
      BY <1>1, <2>1
    <3>2. t[i][1] = "none" \/ \E j \in 1..Len(t) : j > i /\ t[j] = <<t[i][1], "done">>
      BY <2>1, <3>1 DEF EndedBut
    <3>3. t[i][1] # "none"
      BY <3>1, EventsAreNamed
    <3> QED
      BY <1>1, <1>3, <3>1, <3>2, <3>3
  <2>2. CASE i = Len(t) + 1
    BY <1>0, <1>1, <2>2
  <2> QED
    BY <1>2, <2>1, <2>2
<1>5. \A x : Tells(u, x) => Tells(t, x) \/ x = e
  BY <1>1, <1>2 DEF Tells
<1> QED
  BY <1>1, <1>4, <1>5 DEF u, e

-----------------------------------------------------------------------------
\* A step of one stream leaves the others as they are.
LEMMA StreamGoes ==
  ASSUME EventsInv, NEW s \in Streams, NEW r, stream' = [stream EXCEPT ![s] = r]
  PROVE  /\ DOMAIN stream' = Streams /\ stream'[s] = r
         /\ \A t \in Streams : t # s => stream'[t] = stream[t]
         /\ StreamTyped(r) /\ ToldHolds(r) => EventsInv'
<1>1. DOMAIN stream' = Streams /\ stream'[s] = r /\ \A t \in Streams : t # s => stream'[t] = stream[t]
  BY DEF EventsInv
<1>2. ASSUME StreamTyped(r), ToldHolds(r), NEW t \in Streams
      PROVE  StreamTyped(stream'[t]) /\ ToldHolds(stream'[t])
  BY <1>1, <1>2 DEF EventsInv
<1> QED
  BY <1>1, <1>2 DEF EventsInv

\* What is given to whom, and the summary, while neither changes.
LEMMA SharesStay ==
  ASSUME EventsInv, SharesInv, NEW s \in Streams, NEW r, stream' = [stream EXCEPT ![s] = r],
         r.found = stream[s].found, r.took = stream[s].took \/ {r.took, stream[s].took} \subseteq {"none", "cached"},
         seenPieces \subseteq seenPieces', summary' = summary
  PROVE  SharesInv'
<1>1. \A t \in Streams : stream'[t].found = stream[t].found /\ (stream'[t].took = "made" <=> stream[t].took = "made")
  BY StreamGoes
<1> QED
  BY <1>1 DEF SharesInv

\* A step that tells at most the end of the phase that is open.
LEMMA EndsPhase ==
  ASSUME EventsInv, NEW s \in Streams, NEW phase \in PhaseNames, InPhase(s, phase), stream[s].open
  PROVE  /\ StreamTyped(stream[s]) /\ ToldHolds(stream[s]) /\ stream[s].at = "running"
         /\ EndedBut(stream[s].told, phase)
         /\ phase \in stream[s].todo /\ stream[s].told \in Seq(Events)
         /\ ~ Tells(stream[s].told, AnswerEvent) /\ ~ Tells(stream[s].told, ErrorEvent)
<1>1. StreamTyped(stream[s]) /\ ToldHolds(stream[s]) /\ stream[s].at = "running" /\ Turn(stream[s].todo, phase)
  BY DEF EventsInv, InPhase, Turn
<1>2. PICK p \in PhaseNames : Turn(stream[s].todo, p) /\ EndedBut(stream[s].told, p)
  BY <1>1 DEF ToldHolds
<1>3. \A x \in PhaseNames : \E i \in DOMAIN Phases : Phases[i] = x
  BY DEF Phases, PhaseNames
<1>4. p = phase
  <2>1. PICK i \in DOMAIN Phases : Phases[i] = p
    BY <1>3
  <2>2. PICK j \in DOMAIN Phases : Phases[j] = phase
    BY <1>3
  <2>3. DOMAIN Phases \subseteq Nat
    BY DEF Phases
  <2>4. ~ (i < j) /\ ~ (j < i)
    BY <1>1, <1>2, <2>1, <2>2 DEF Turn
  <2>5. i = j
    BY <2>3, <2>4
  <2> QED
    BY <2>1, <2>2, <2>5
<1> QED
  BY <1>1, <1>2, <1>4 DEF StreamTyped, ToldHolds, Turn

\* The state after it.
LEMMA PhaseEnded ==
  ASSUME EventsInv, NEW s \in Streams, NEW phase \in PhaseNames, InPhase(s, phase), stream[s].open,
         NEW e \in Seq(Events), \A i \in 1..Len(e) : e[i][2] # "started",
         Tells(e, <<phase, "done">>) \/ phase = "generate",
         ~ Tells(e, AnswerEvent) /\ ~ Tells(e, ErrorEvent),
         NEW r, DOMAIN r = DOMAIN stream[s], r.at = "running", r.open = FALSE,
         r.todo = stream[s].todo \ {phase}, r.told = stream[s].told \o e,
         r.took \in {"none", "cached", "made"}, r.took = stream[s].took \/ phase = "compress"
  PROVE  StreamTyped(r) /\ ToldHolds(r)
<1> DEFINE t == stream[s].told
<1>1. /\ StreamTyped(stream[s]) /\ ToldHolds(stream[s]) /\ stream[s].at = "running"
      /\ EndedBut(t, phase) /\ phase \in stream[s].todo /\ t \in Seq(Events)
      /\ ~ Tells(t, AnswerEvent) /\ ~ Tells(t, ErrorEvent)
  BY EndsPhase
<1> HIDE DEF t
<1>2. r.told = t \o e
  BY DEF t
<1>3. /\ t \o e \in Seq(Events)
      /\ \A x : Tells(t \o e, x) <=> Tells(t, x) \/ Tells(e, x)
      /\ \A x : EndedBut(t, x) => EndedBut(t \o e, x)
      /\ \A x : EndedBut(t, x) /\ Tells(e, <<x, "done">>) => EndedBut(t \o e, "none")
  BY <1>1, ToldMore
<1>4. EndedBut(t, "generate") => EndedBut(t, "none")
  BY DEF EndedBut
<1>5. EndedBut(t \o e, "none")
  BY <1>1, <1>3, <1>4
<1>6. ~ Tells(t \o e, AnswerEvent) /\ ~ Tells(t \o e, ErrorEvent)
  BY <1>1, <1>3
<1>7. "compress" \in r.todo => r.took = "none"
  BY <1>1 DEF ToldHolds
<1>8. StreamTyped(r)
  BY <1>1, <1>2, <1>3 DEF StreamTyped
<1> QED
  BY <1>2, <1>5, <1>6, <1>7, <1>8 DEF ToldHolds

\* What the steps of a phase tell.
LEMMA EndEvents ==
  ASSUME NEW phase \in PhaseNames,
         NEW e \in {<<<<phase, "done">>>>, <<<<phase, "error">>, <<phase, "done">>>>}
  PROVE  /\ e \in Seq(Events) /\ \A i \in 1..Len(e) : e[i][2] # "started"
         /\ Tells(e, <<phase, "done">>)
         /\ ~ Tells(e, AnswerEvent) /\ ~ Tells(e, ErrorEvent)
<1> DEFINE d == <<phase, "done">>
           f == <<phase, "error">>
<1>1. d \in Events /\ f \in Events
  BY DEF Events
<1>2. d[2] = "done" /\ f[2] = "error" /\ AnswerEvent[2] = "" /\ ErrorEvent[2] = ""
  BY DEF AnswerEvent, ErrorEvent
<1> HIDE DEF d, f
<1>3. e = <<d>> \/ e = <<f, d>>
  BY DEF d, f
<1>4. CASE e = <<d>>
  <2>1. e \in Seq(Events) /\ Len(e) = 1 /\ e[1] = d
    BY <1>1, <1>4
  <2>2. \A i \in 1..Len(e) : e[i] = d
    BY <2>1
  <2>3. \A i \in 1..Len(e) : e[i][2] # "started" /\ e[i] # AnswerEvent /\ e[i] # ErrorEvent
    BY <1>2, <2>2
  <2>4. Tells(e, d)
    BY <2>1 DEF Tells
  <2>5. ~ Tells(e, AnswerEvent) /\ ~ Tells(e, ErrorEvent)
    BY <2>3 DEF Tells
  <2> QED
    BY <2>1, <2>3, <2>4, <2>5 DEF d
<1>5. CASE e = <<f, d>>
  <2>1. e \in Seq(Events) /\ Len(e) = 2 /\ e[1] = f /\ e[2] = d
    BY <1>1, <1>5
  <2>2. \A i \in 1..Len(e) : e[i] = d \/ e[i] = f
    BY <2>1
  <2>3. \A i \in 1..Len(e) : e[i][2] # "started" /\ e[i] # AnswerEvent /\ e[i] # ErrorEvent
    BY <1>2, <2>2
  <2>4. Tells(e, d)
    BY <2>1 DEF Tells
  <2>5. ~ Tells(e, AnswerEvent) /\ ~ Tells(e, ErrorEvent)
    BY <2>3 DEF Tells
  <2> QED
    BY <2>1, <2>3, <2>4, <2>5 DEF d
<1> QED
  BY <1>3, <1>4, <1>5

-----------------------------------------------------------------------------
LEMMA StartStream_Inv == ASSUME StreamInv, NEW s \in Streams, StartStream(s) PROVE StreamInv'
<1>1. stream[s].at = "waiting" /\ UNCHANGED <<seenPieces, summary>>
  BY DEF StartStream
<1>2. StreamTyped(stream[s]) /\ stream[s].told = <<>> /\ ~ stream[s].open /\ stream[s].took = "none"
  BY <1>1 DEF StreamInv, EventsInv, ToldHolds
<1>3. EndedBut(<<>>, "none") /\ \A x : ~ Tells(<<>>, x)
  BY DEF EndedBut, Tells
<1>4. CASE \E asks \in Requests :
             stream' = [stream EXCEPT ![s].at = "running", ![s].todo = asks]
  <2>1. PICK asks \in Requests :
          stream' = [stream EXCEPT ![s].at = "running", ![s].todo = asks]
    BY <1>4
  <2> DEFINE r == [stream[s] EXCEPT !.at = "running", !.todo = asks]
  <2>2. stream' = [stream EXCEPT ![s] = r]
    BY <2>1 DEF StreamInv, EventsInv
  <2>3. /\ DOMAIN r = DOMAIN stream[s] /\ r.at = "running" /\ r.open = stream[s].open
        /\ r.told = stream[s].told /\ r.took = stream[s].took /\ r.found = stream[s].found
    BY <1>2 DEF StreamTyped
  <2> HIDE DEF r
  <2>4. StreamTyped(r)
    BY <1>2, <2>3 DEF StreamTyped
  <2>5. ToldHolds(r)
    BY <1>2, <1>3, <2>3 DEF ToldHolds
  <2> QED
    BY <1>1, <2>2, <2>3, <2>4, <2>5, StreamGoes, SharesStay DEF StreamInv
<1>5. CASE stream' = [stream EXCEPT ![s].at = "broken"]
  <2> DEFINE r == [stream[s] EXCEPT !.at = "broken"]
  <2>2. stream' = [stream EXCEPT ![s] = r]
    BY <1>5 DEF StreamInv, EventsInv
  <2>3. /\ DOMAIN r = DOMAIN stream[s] /\ r.at = "broken" /\ r.open = stream[s].open
        /\ r.told = stream[s].told /\ r.took = stream[s].took /\ r.found = stream[s].found
    BY <1>2 DEF StreamTyped
  <2> HIDE DEF r
  <2>4. StreamTyped(r) /\ ToldHolds(r)
    BY <1>2, <2>3 DEF StreamTyped, ToldHolds
  <2> QED
    BY <1>1, <2>2, <2>3, <2>4, StreamGoes, SharesStay DEF StreamInv
<1> QED
  BY <1>4, <1>5 DEF StartStream

LEMMA StartPhase_Inv == ASSUME StreamInv, NEW s \in Streams, StartPhase(s) PROVE StreamInv'
<1>1. PICK i \in DOMAIN Phases :
        /\ InPhase(s, Phases[i]) /\ ~ stream[s].open
        /\ stream' = [stream EXCEPT ![s] = [[stream[s] EXCEPT !.open = TRUE]
                        EXCEPT !.told = [stream[s] EXCEPT !.open = TRUE].told \o <<<<Phases[i], "started">>>>]]
        /\ UNCHANGED <<seenPieces, summary>>
  BY DEF StartPhase, Yields
<1>2. PICK p \in PhaseNames : p = Phases[i]
  BY PhasesAre
<1> DEFINE t == stream[s].told
           e == <<p, "started">>
           r == [[stream[s] EXCEPT !.open = TRUE]
                   EXCEPT !.told = [stream[s] EXCEPT !.open = TRUE].told \o <<e>>]
<1>3. StreamTyped(stream[s]) /\ ToldHolds(stream[s]) /\ stream[s].at = "running" /\ Turn(stream[s].todo, p)
  BY <1>1, <1>2 DEF StreamInv, EventsInv, InPhase, Turn
<1>4. stream' = [stream EXCEPT ![s] = r]
  BY <1>1, <1>2
<1>5. /\ DOMAIN r = DOMAIN stream[s] /\ r.at = stream[s].at /\ r.open = TRUE /\ r.todo = stream[s].todo
      /\ r.told = t \o <<e>> /\ r.took = stream[s].took /\ r.found = stream[s].found
  BY <1>3 DEF StreamTyped
<1> HIDE DEF r
<1>6. t \in Seq(Events) /\ EndedBut(t, "none") /\ ~ Tells(t, AnswerEvent) /\ ~ Tells(t, ErrorEvent)
  BY <1>1, <1>3 DEF StreamTyped, ToldHolds
<1> HIDE DEF t
<1>7. t \o <<e>> \in Seq(Events) /\ EndedBut(t \o <<e>>, p)
      /\ \A x : Tells(t \o <<e>>, x) => Tells(t, x) \/ x = e
  BY <1>6, ToldStart
<1>8. e # AnswerEvent /\ e # ErrorEvent
  <2>1. e[2] = "started" /\ AnswerEvent[2] = "" /\ ErrorEvent[2] = ""
    BY DEF AnswerEvent, ErrorEvent
  <2> QED
    BY <2>1
<1> HIDE DEF e
<1>9. StreamTyped(r)
  BY <1>3, <1>5, <1>7 DEF StreamTyped
<1>10. ToldHolds(r)
  BY <1>3, <1>5, <1>6, <1>7, <1>8 DEF ToldHolds
<1>11. EventsInv /\ SharesInv
  BY DEF StreamInv
<1>12. EventsInv'
  BY <1>4, <1>9, <1>10, <1>11, StreamGoes
<1>13. SharesInv'
  BY <1>1, <1>4, <1>5, <1>11, SharesStay
<1> QED
  BY <1>12, <1>13 DEF StreamInv

LEMMA EndPhase_Inv == ASSUME StreamInv, NEW s \in Streams, EndPhase(s) PROVE StreamInv'
<1>1. PICK phase \in {"sentiment", "classify", "hyde", "profile", "self_critique"} :
        /\ InPhase(s, phase) /\ stream[s].open
        /\ stream' = [stream EXCEPT ![s] = [Ended(s, phase) EXCEPT !.told = Ended(s, phase).told \o <<<<phase, "done">>>>]]
        /\ UNCHANGED <<seenPieces, summary>>
  BY DEF EndPhase, Yields
<1> DEFINE r == [Ended(s, phase) EXCEPT !.told = Ended(s, phase).told \o <<<<phase, "done">>>>]
<1>2. phase \in PhaseNames /\ phase # "compress"
  BY DEF PhaseNames
<1>3. EventsInv /\ SharesInv /\ StreamTyped(stream[s]) /\ stream[s].at = "running"
  BY <1>1 DEF StreamInv, EventsInv, InPhase
<1>4. /\ DOMAIN r = DOMAIN stream[s] /\ r.at = stream[s].at /\ r.open = FALSE
      /\ r.todo = stream[s].todo \ {phase} /\ r.told = stream[s].told \o <<<<phase, "done">>>>
      /\ r.took = stream[s].took /\ r.found = stream[s].found
  BY <1>3 DEF StreamTyped, Ended
<1>5. stream' = [stream EXCEPT ![s] = r]
  BY <1>1
<1> HIDE DEF r
<1>6. StreamTyped(r) /\ ToldHolds(r)
  <2>1. r.took \in {"none", "cached", "made"}
    BY <1>3, <1>4 DEF StreamTyped
  <2> QED
    BY <1>1, <1>2, <1>3, <1>4, <2>1, EndEvents, PhaseEnded
<1> QED
  BY <1>1, <1>3, <1>4, <1>5, <1>6, StreamGoes, SharesStay DEF StreamInv

LEMMA CompressStream_Inv == ASSUME StreamInv, NEW s \in Streams, CompressStream(s) PROVE StreamInv'
<1> DEFINE next == Ended(s, "compress")
           e == <<<<"compress", "done">>>>
           cached == [[next EXCEPT !.took = "cached"] EXCEPT !.told = [next EXCEPT !.took = "cached"].told \o e]
           fresh == [[next EXCEPT !.took = "made"] EXCEPT !.told = [next EXCEPT !.took = "made"].told \o e]
           none == [next EXCEPT !.told = next.told \o e]
<1>1. /\ InPhase(s, "compress") /\ stream[s].open /\ seenPieces' = seenPieces
      /\ \/ stream' = [stream EXCEPT ![s] = cached] /\ summary' = summary
         \/ /\ stream' = [stream EXCEPT ![s] = fresh]
            /\ ~ summary.cached /\ summary' = [cached |-> TRUE, made |-> summary.made + 1]
         \/ stream' = [stream EXCEPT ![s] = none] /\ summary' = summary
  BY DEF CompressStream, Yields
<1>2. "compress" \in PhaseNames
  BY DEF PhaseNames
<1>3. EventsInv /\ SharesInv /\ StreamTyped(stream[s]) /\ stream[s].at = "running"
  BY <1>1 DEF StreamInv, EventsInv, InPhase
<1>4. stream[s].took = "none"
  BY <1>1, <1>3 DEF EventsInv, InPhase, ToldHolds
<1>5. ASSUME NEW r \in {cached, fresh, none}
      PROVE  /\ DOMAIN r = DOMAIN stream[s] /\ r.at = stream[s].at /\ r.open = FALSE
             /\ r.todo = stream[s].todo \ {"compress"} /\ r.told = stream[s].told \o e
             /\ r.found = stream[s].found /\ r.took \in {"none", "cached", "made"}
  <2>1. CASE r = cached
    BY <1>3, <2>1 DEF StreamTyped, Ended
  <2>2. CASE r = fresh
    BY <1>3, <2>2 DEF StreamTyped, Ended
  <2>3. CASE r = none
    BY <1>3, <1>4, <2>3 DEF StreamTyped, Ended
  <2> QED
    BY <2>1, <2>2, <2>3
<1>6. cached.took = "cached" /\ fresh.took = "made" /\ none.took = "none"
  BY <1>3, <1>4 DEF StreamTyped, Ended
<1> HIDE DEF cached, fresh, none, next
<1>7. ASSUME NEW r \in {cached, fresh, none}
      PROVE  StreamTyped(r) /\ ToldHolds(r)
  <2>1. /\ DOMAIN r = DOMAIN stream[s] /\ r.at = stream[s].at /\ r.open = FALSE
        /\ r.todo = stream[s].todo \ {"compress"} /\ r.told = stream[s].told \o e
        /\ r.took \in {"none", "cached", "made"}
    BY <1>5
  <2>2. e \in {<<<<"compress", "done">>>>, <<<<"compress", "error">>, <<"compress", "done">>>>}
    OBVIOUS
  <2> HIDE DEF e
  <2>3. /\ e \in Seq(Events) /\ \A i \in 1..Len(e) : e[i][2] # "started"
        /\ Tells(e, <<"compress", "done">>)
        /\ ~ Tells(e, AnswerEvent) /\ ~ Tells(e, ErrorEvent)
    BY <1>2, <2>2, EndEvents
  <2> QED
    BY <1>1, <1>2, <1>3, <2>1, <2>3, PhaseEnded
<1>8. PICK r \in {cached, fresh, none} : stream' = [stream EXCEPT ![s] = r]
  BY <1>1
<1>9. EventsInv'
  BY <1>3, <1>7, <1>8, StreamGoes
<1>10. CASE r # fresh
  <2>1. summary' = summary
    BY <1>1, <1>3, <1>6, <1>8, <1>10, StreamGoes
  <2>2. r.took \in {"none", "cached"} /\ r.found = stream[s].found
    BY <1>5, <1>6, <1>10
  <2>3. SharesInv'
    BY <1>1, <1>3, <1>4, <1>8, <2>1, <2>2, SharesStay
  <2> QED
    BY <1>9, <2>3 DEF StreamInv
<1>11. CASE r = fresh
  <2>1. stream'[s] = fresh /\ \A t \in Streams : t # s => stream'[t] = stream[t]
    BY <1>3, <1>8, <1>11, StreamGoes
  <2>2. ~ summary.cached /\ summary' = [cached |-> TRUE, made |-> summary.made + 1]
    BY <1>1, <1>3, <1>6, <1>8, <1>11, <2>1, StreamGoes
  <2>3. summary.made = 0 /\ \A t \in Streams : stream[t].took # "made"
    BY <1>3, <2>2 DEF SharesInv
  <2>4. summary'.made = 1 /\ summary'.cached # FALSE
    BY <2>2, <2>3
  <2>5. \A t \in Streams : (stream'[t].took = "made" <=> t = s)
    BY <1>6, <2>1, <2>3
  <2>6. \A t \in Streams : stream'[t].found = stream[t].found
    BY <1>5, <2>1
  <2>7. SharesInv'
    BY <1>1, <1>3, <2>4, <2>5, <2>6 DEF SharesInv
  <2> QED
    BY <1>9, <2>7 DEF StreamInv
<1> QED
  BY <1>10, <1>11

LEMMA RetrieveStream_Inv == ASSUME StreamInv, NEW s \in Streams, RetrieveStream(s) PROVE StreamInv'
<1> DEFINE next == Ended(s, "retrieve")
           e == <<<<"retrieve", "done">>>>
           f == <<<<"retrieve", "error">>, <<"retrieve", "done">>>>
           none == [next EXCEPT !.told = next.told \o f]
<1>1. /\ InPhase(s, "retrieve") /\ stream[s].open /\ UNCHANGED summary
      /\ \/ \E hits \in SUBSET Snippets : \E given \in SUBSET (hits \ seenPieces) :
              /\ seenPieces' = seenPieces \cup hits
              /\ \/ stream' = [stream EXCEPT ![s] = [[next EXCEPT !.found = given]
                                 EXCEPT !.told = [next EXCEPT !.found = given].told \o e]]
                 \/ stream' = [stream EXCEPT ![s] = none]
         \/ seenPieces' = seenPieces /\ stream' = [stream EXCEPT ![s] = none]
  BY DEF RetrieveStream, Yields
<1>2. "retrieve" \in PhaseNames
  BY DEF PhaseNames
<1>3. EventsInv /\ SharesInv /\ StreamTyped(stream[s]) /\ stream[s].at = "running"
  BY <1>1 DEF StreamInv, EventsInv, InPhase
<1>4. ASSUME NEW r, NEW g \in {e, f}, DOMAIN r = DOMAIN stream[s], r.at = stream[s].at, r.open = FALSE,
             r.todo = stream[s].todo \ {"retrieve"}, r.told = stream[s].told \o g, r.took = stream[s].took
      PROVE  StreamTyped(r) /\ ToldHolds(r)
  <2>1. /\ g \in Seq(Events) /\ \A i \in 1..Len(g) : g[i][2] # "started"
        /\ Tells(g, <<"retrieve", "done">>)
        /\ ~ Tells(g, AnswerEvent) /\ ~ Tells(g, ErrorEvent)
    BY <1>2, EndEvents
  <2>2. r.took \in {"none", "cached", "made"}
    BY <1>3, <1>4 DEF StreamTyped
  <2> HIDE DEF e, f
  <2> QED
    BY <1>1, <1>2, <1>3, <1>4, <2>1, <2>2, PhaseEnded
<1>5. CASE stream' = [stream EXCEPT ![s] = none]
  <2>1. /\ DOMAIN none = DOMAIN stream[s] /\ none.at = stream[s].at /\ none.open = FALSE
        /\ none.todo = stream[s].todo \ {"retrieve"} /\ none.told = stream[s].told \o f
        /\ none.took = stream[s].took /\ none.found = stream[s].found
    BY <1>3 DEF StreamTyped, Ended
  <2>2. seenPieces \subseteq seenPieces'
    BY <1>1
  <2> HIDE DEF none, e, f
  <2>3. PICK r : r = none
    OBVIOUS
  <2>4. StreamTyped(r) /\ ToldHolds(r)
    BY <1>4, <2>1, <2>3
  <2>5. EventsInv'
    BY <1>3, <1>5, <2>3, <2>4, StreamGoes
  <2>6. SharesInv'
    BY <1>1, <1>3, <1>5, <2>1, <2>2, <2>3, SharesStay
  <2> QED
    BY <2>5, <2>6 DEF StreamInv
<1>6. CASE \E hits \in SUBSET Snippets : \E given \in SUBSET (hits \ seenPieces) :
             /\ seenPieces' = seenPieces \cup hits
             /\ stream' = [stream EXCEPT ![s] = [[next EXCEPT !.found = given]
                             EXCEPT !.told = [next EXCEPT !.found = given].told \o e]]
  <2>1. PICK hits \in SUBSET Snippets : \E given \in SUBSET (hits \ seenPieces) :
             /\ seenPieces' = seenPieces \cup hits
             /\ stream' = [stream EXCEPT ![s] = [[next EXCEPT !.found = given]
                             EXCEPT !.told = [next EXCEPT !.found = given].told \o e]]
    BY <1>6
  <2>2. PICK given \in SUBSET (hits \ seenPieces) :
             /\ seenPieces' = seenPieces \cup hits
             /\ stream' = [stream EXCEPT ![s] = [[next EXCEPT !.found = given]
                             EXCEPT !.told = [next EXCEPT !.found = given].told \o e]]
    BY <2>1
  <2> DEFINE r == [[next EXCEPT !.found = given] EXCEPT !.told = [next EXCEPT !.found = given].told \o e]
  <2>3. /\ DOMAIN r = DOMAIN stream[s] /\ r.at = stream[s].at /\ r.open = FALSE
        /\ r.todo = stream[s].todo \ {"retrieve"} /\ r.told = stream[s].told \o e
        /\ r.took = stream[s].took /\ r.found = given
    BY <1>3 DEF StreamTyped, Ended
  <2>4. stream' = [stream EXCEPT ![s] = r] /\ seenPieces' = seenPieces \cup hits
    BY <2>2
  <2> HIDE DEF r, next, e, f
  <2>5. StreamTyped(r) /\ ToldHolds(r)
    BY <1>4, <2>3
  <2>6. stream'[s] = r /\ \A t \in Streams : t # s => stream'[t] = stream[t]
    BY <1>3, <2>4, StreamGoes
  <2>7. EventsInv'
    BY <1>3, <2>4, <2>5, StreamGoes
  <2>8. \A t \in Streams : stream'[t].found \subseteq seenPieces'
    BY <1>3, <2>3, <2>4, <2>6 DEF SharesInv
  <2>9. \A t \in Streams : t # s => stream'[t].found \cap given = {}
    BY <1>3, <2>6 DEF SharesInv
  <2>10. \A t, u \in Streams : t # u => stream'[t].found \cap stream'[u].found = {}
    BY <1>3, <2>3, <2>6, <2>9 DEF SharesInv
  <2>11. \A t \in Streams : stream'[t].took = stream[t].took
    BY <2>3, <2>6
  <2>12. PICK taken : taken = [t \in Streams |-> stream[t].took]
    OBVIOUS
  <2>13. \A t \in Streams : stream[t].took = taken[t] /\ stream'[t].took = taken[t]
    BY <2>11, <2>12
  <2>14. /\ summary'.cached = FALSE => summary'.made = 0 /\ \A t \in Streams : stream'[t].took # "made"
         /\ summary'.cached # FALSE => /\ summary'.made = 1
                                      /\ \E t \in Streams : \A u \in Streams : (stream'[u].took = "made" <=> u = t)
    <3>1. summary' = summary
      BY <1>1
    <3>2. ASSUME summary.cached = FALSE
          PROVE  summary.made = 0 /\ \A t \in Streams : stream'[t].took # "made"
      <4>1. summary.made = 0 /\ \A t \in Streams : stream[t].took # "made"
        BY <1>3, <3>2 DEF SharesInv
      <4> QED
        BY <4>1, <2>13
    <3>3. ASSUME summary.cached # FALSE
          PROVE  summary.made = 1 /\ \E t \in Streams : \A u \in Streams : (stream'[u].took = "made" <=> u = t)
      <4>1. summary.made = 1 /\ \E t \in Streams : \A u \in Streams : (stream[u].took = "made" <=> u = t)
        BY <1>3, <3>3 DEF SharesInv
      <4>2. PICK t \in Streams : \A u \in Streams : (stream[u].took = "made" <=> u = t)
        BY <4>1
      <4>3. \A u \in Streams : (stream'[u].took = "made" <=> u = t)
        BY <4>2, <2>13
      <4> QED
        BY <4>1, <4>3
    <3> QED
      BY <3>1, <3>2, <3>3
  <2>15. SharesInv'
    BY <2>8, <2>10, <2>14 DEF SharesInv
  <2> QED
    BY <2>7, <2>15 DEF StreamInv
<1> QED
  BY <1>1, <1>5, <1>6

\* A word that is none of a phase is told after all.
LEMMA SaysLast ==
  ASSUME NEW t \in Seq(Events), NEW e \in {AnswerEvent, ErrorEvent, DoneEvent}
  PROVE  /\ t \o <<e>> \in Seq(Events) /\ Last(t \o <<e>>) = e
         /\ \A x : Tells(t \o <<e>>, x) <=> (Tells(t, x) \/ x = e)
         /\ \A x : EndedBut(t, x) => EndedBut(t \o <<e>>, x)
<1> DEFINE f == <<e>>
<1>1. e \in Events /\ e[2] # "started"
  <2>1. e \in Events
    BY DEF Events
  <2>2. AnswerEvent[2] = "" /\ ErrorEvent[2] = "" /\ DoneEvent[2] = ""
    BY DEF AnswerEvent, ErrorEvent, DoneEvent
  <2>3. e[2] = ""
    <3>1. CASE e = AnswerEvent
      BY <2>2, <3>1
    <3>2. CASE e = ErrorEvent
      BY <2>2, <3>2
    <3>3. CASE e = DoneEvent
      BY <2>2, <3>3
    <3> QED
      BY <3>1, <3>2, <3>3
  <2> QED
    BY <2>1, <2>3
<1>2. f \in Seq(Events) /\ Len(f) = 1 /\ f[1] = e
  BY <1>1
<1> HIDE DEF f
<1>3. \A i \in 1..Len(f) : f[i][2] # "started"
  BY <1>1, <1>2
<1>4. \A x : Tells(f, x) <=> x = e
  BY <1>2 DEF Tells
<1>5. /\ t \o f \in Seq(Events)
      /\ \A x : Tells(t \o f, x) <=> Tells(t, x) \/ Tells(f, x)
      /\ \A x : EndedBut(t, x) => EndedBut(t \o f, x)
  BY <1>2, <1>3, ToldMore
<1>6. Last(t \o f) = e
  <2>1. t \o f = Append(t, e) /\ Len(Append(t, e)) = Len(t) + 1 /\ Append(t, e)[Len(t) + 1] = e
    BY <1>1 DEF f
  <2> QED
    BY <2>1 DEF Last
<1>7. \A x : Tells(t \o f, x) <=> (Tells(t, x) \/ x = e)
  BY <1>4, <1>5
<1> QED
  BY <1>5, <1>6, <1>7 DEF f

LEMMA Generate_Inv == ASSUME StreamInv, NEW s \in Streams, Generate(s) PROVE StreamInv'
<1> DEFINE t == stream[s].told
           done == Ended(s, "generate")
           last == [stream[s] EXCEPT !.todo = {}, !.open = FALSE, !.at = "told"]
           failed == [last EXCEPT !.told = last.told \o <<<<"error", "">>>>]
<1>1. /\ InPhase(s, "generate") /\ stream[s].open /\ UNCHANGED <<seenPieces, summary>>
      /\ \/ stream' = [stream EXCEPT ![s] = done]
         \/ stream' = [stream EXCEPT ![s] = failed]
  BY DEF Generate, Yields
<1>2. "generate" \in PhaseNames
  BY DEF PhaseNames
<1>3. EventsInv /\ SharesInv
  BY DEF StreamInv
<1>4. /\ StreamTyped(stream[s]) /\ ToldHolds(stream[s]) /\ stream[s].at = "running"
      /\ EndedBut(t, "generate") /\ t \in Seq(Events)
      /\ ~ Tells(t, AnswerEvent) /\ ~ Tells(t, ErrorEvent)
  BY <1>1, <1>2, <1>3, EndsPhase
<1>5. EndedBut(t, "none")
  BY <1>4 DEF EndedBut
<1>6. CASE stream' = [stream EXCEPT ![s] = done]
  <2>1. /\ DOMAIN done = DOMAIN stream[s] /\ done.at = stream[s].at /\ done.open = FALSE
        /\ done.todo \subseteq stream[s].todo /\ done.told = t
        /\ done.took = stream[s].took /\ done.found = stream[s].found
    BY <1>4 DEF StreamTyped, Ended
  <2> HIDE DEF done, t
  <2>2. StreamTyped(done) /\ ToldHolds(done)
    BY <1>4, <1>5, <2>1 DEF StreamTyped, ToldHolds
  <2>3. PICK r : r = done
    OBVIOUS
  <2>4. EventsInv'
    BY <1>3, <1>6, <2>2, <2>3, StreamGoes
  <2>5. SharesInv'
    BY <1>1, <1>3, <1>6, <2>1, <2>3, SharesStay
  <2> QED
    BY <2>4, <2>5 DEF StreamInv
<1>7. CASE stream' = [stream EXCEPT ![s] = failed]
  <2>1. /\ DOMAIN failed = DOMAIN stream[s] /\ failed.at = "told" /\ failed.open = FALSE
        /\ failed.told = t \o <<ErrorEvent>>
        /\ failed.took = stream[s].took /\ failed.found = stream[s].found
    BY <1>4 DEF StreamTyped, ErrorEvent
  <2> HIDE DEF failed, last, t
  <2>2. /\ t \o <<ErrorEvent>> \in Seq(Events)
        /\ \A x : Tells(t \o <<ErrorEvent>>, x) <=> (Tells(t, x) \/ x = ErrorEvent)
        /\ \A x : EndedBut(t, x) => EndedBut(t \o <<ErrorEvent>>, x)
    BY <1>4, SaysLast
  <2>3. AnswerEvent # ErrorEvent
    <3>1. AnswerEvent[1] = "answer" /\ ErrorEvent[1] = "error"
      BY DEF AnswerEvent, ErrorEvent
    <3> QED
      BY <3>1
  <2>4. StreamTyped(failed)
    BY <1>4, <2>1, <2>2 DEF StreamTyped
  <2>5. ToldHolds(failed)
    BY <1>4, <1>5, <2>1, <2>2, <2>3 DEF ToldHolds
  <2>6. PICK r : r = failed
    OBVIOUS
  <2>7. EventsInv'
    BY <1>3, <1>7, <2>4, <2>5, <2>6, StreamGoes
  <2>8. SharesInv'
    BY <1>1, <1>3, <1>7, <2>1, <2>6, SharesStay
  <2> QED
    BY <2>7, <2>8 DEF StreamInv
<1> QED
  BY <1>1, <1>6, <1>7

LEMMA TellAnswer_Inv == ASSUME StreamInv, NEW s \in Streams, TellAnswer(s) PROVE StreamInv'
<1> DEFINE t == stream[s].told
           last == [stream[s] EXCEPT !.at = "told"]
           r == [last EXCEPT !.told = last.told \o <<<<"answer", "">>>>]
<1>1. /\ stream[s].at = "running" /\ stream[s].todo = {} /\ UNCHANGED <<seenPieces, summary>>
      /\ stream' = [stream EXCEPT ![s] = r]
  BY DEF TellAnswer, Yields
<1>2. EventsInv /\ SharesInv /\ StreamTyped(stream[s]) /\ ToldHolds(stream[s])
  BY DEF StreamInv, EventsInv
<1>3. /\ t \in Seq(Events) /\ EndedBut(t, "none")
      /\ ~ Tells(t, AnswerEvent) /\ ~ Tells(t, ErrorEvent) /\ ~ stream[s].open
  BY <1>1, <1>2 DEF StreamTyped, ToldHolds, Turn
<1>4. /\ DOMAIN r = DOMAIN stream[s] /\ r.at = "told" /\ r.open = stream[s].open
      /\ r.told = t \o <<AnswerEvent>>
      /\ r.took = stream[s].took /\ r.found = stream[s].found
  BY <1>2 DEF StreamTyped, AnswerEvent
<1> HIDE DEF r, last, t
<1>5. /\ t \o <<AnswerEvent>> \in Seq(Events)
      /\ \A x : Tells(t \o <<AnswerEvent>>, x) <=> (Tells(t, x) \/ x = AnswerEvent)
      /\ \A x : EndedBut(t, x) => EndedBut(t \o <<AnswerEvent>>, x)
  BY <1>3, SaysLast
<1>6. AnswerEvent # ErrorEvent
  <2>1. AnswerEvent[1] = "answer" /\ ErrorEvent[1] = "error"
    BY DEF AnswerEvent, ErrorEvent
  <2> QED
    BY <2>1
<1>7. StreamTyped(r) /\ ToldHolds(r)
  <2>1. StreamTyped(r)
    BY <1>2, <1>4, <1>5 DEF StreamTyped
  <2>2. ToldHolds(r)
    BY <1>3, <1>4, <1>5, <1>6 DEF ToldHolds
  <2> QED
    BY <2>1, <2>2
<1>8. EventsInv'
  BY <1>1, <1>2, <1>7, StreamGoes
<1>9. SharesInv'
  BY <1>1, <1>2, <1>4, SharesStay
<1> QED
  BY <1>8, <1>9 DEF StreamInv

LEMMA EndStream_Inv == ASSUME StreamInv, NEW s \in Streams, EndStream(s) PROVE StreamInv'
<1> DEFINE t == stream[s].told
           last == [stream[s] EXCEPT !.at = "ended"]
           r == [last EXCEPT !.told = last.told \o <<<<"done", "">>>>]
<1>1. /\ stream[s].at = "told" /\ UNCHANGED <<seenPieces, summary>>
      /\ stream' = [stream EXCEPT ![s] = r]
  BY DEF EndStream, Yields
<1>2. EventsInv /\ SharesInv /\ StreamTyped(stream[s]) /\ ToldHolds(stream[s])
  BY DEF StreamInv, EventsInv
<1>3. /\ t \in Seq(Events) /\ EndedBut(t, "none")
      /\ Tells(t, AnswerEvent) => ~ Tells(t, ErrorEvent)
      /\ Tells(t, AnswerEvent) \/ Tells(t, ErrorEvent)
  BY <1>1, <1>2 DEF StreamTyped, ToldHolds
<1>4. /\ DOMAIN r = DOMAIN stream[s] /\ r.at = "ended" /\ r.open = stream[s].open
      /\ r.told = t \o <<DoneEvent>>
      /\ r.took = stream[s].took /\ r.found = stream[s].found
  BY <1>2 DEF StreamTyped, DoneEvent
<1> HIDE DEF r, last, t
<1>5. /\ t \o <<DoneEvent>> \in Seq(Events) /\ Last(t \o <<DoneEvent>>) = DoneEvent
      /\ \A x : Tells(t \o <<DoneEvent>>, x) <=> (Tells(t, x) \/ x = DoneEvent)
      /\ \A x : EndedBut(t, x) => EndedBut(t \o <<DoneEvent>>, x)
  BY <1>3, SaysLast
<1>6. AnswerEvent # DoneEvent /\ ErrorEvent # DoneEvent
  <2>1. AnswerEvent[1] = "answer" /\ ErrorEvent[1] = "error" /\ DoneEvent[1] = "done"
    BY DEF AnswerEvent, ErrorEvent, DoneEvent
  <2> QED
    BY <2>1
<1>7. StreamTyped(r) /\ ToldHolds(r)
  <2>1. StreamTyped(r)
    BY <1>2, <1>4, <1>5 DEF StreamTyped
  <2>2. ToldHolds(r)
    BY <1>3, <1>4, <1>5, <1>6 DEF ToldHolds
  <2> QED
    BY <2>1, <2>2
<1>8. EventsInv'
  BY <1>1, <1>2, <1>7, StreamGoes
<1>9. SharesInv'
  BY <1>1, <1>2, <1>4, SharesStay
<1> QED
  BY <1>8, <1>9 DEF StreamInv

LEMMA PageCloses_Inv == ASSUME StreamInv, NEW s \in Streams, PageCloses(s) PROVE StreamInv'
<1> DEFINE r == [stream[s] EXCEPT !.at = "left"]
<1>1. EventsInv /\ SharesInv /\ StreamTyped(stream[s])
  BY DEF StreamInv, EventsInv
<1>2. stream' = [stream EXCEPT ![s] = r] /\ UNCHANGED <<seenPieces, summary>>
  BY DEF PageCloses
<1>3. /\ DOMAIN r = DOMAIN stream[s] /\ r.at = "left" /\ r.open = stream[s].open
      /\ r.told = stream[s].told /\ r.took = stream[s].took /\ r.found = stream[s].found
  BY <1>1 DEF StreamTyped
<1> HIDE DEF r
<1>4. StreamTyped(r) /\ ToldHolds(r)
  BY <1>1, <1>3 DEF StreamTyped, ToldHolds
<1>5. EventsInv'
  BY <1>1, <1>2, <1>4, StreamGoes
<1>6. SharesInv'
  BY <1>1, <1>2, <1>3, SharesStay
<1> QED
  BY <1>5, <1>6 DEF StreamInv

\* So every step keeps it.
LEMMA StreamNext_Inv ==
  ASSUME StreamInv, [StreamNext]_streamVars PROVE StreamInv'
<1>1. CASE UNCHANGED <<stream, seenPieces, summary>>
  BY <1>1 DEF StreamInv, EventsInv, SharesInv
<1>2. CASE UNCHANGED streamVars
  BY <1>1, <1>2 DEF streamVars
<1>3. ASSUME NEW s \in Streams, ReadWire(s) \/ ReadingEnds(s) PROVE StreamInv'
  BY <1>1, <1>3 DEF ReadWire, ReadingEnds
<1> QED
  BY <1>2, <1>3, StartStream_Inv, StartPhase_Inv, EndPhase_Inv, CompressStream_Inv, RetrieveStream_Inv,
     Generate_Inv, TellAnswer_Inv, EndStream_Inv, PageCloses_Inv DEF StreamNext

\* And it implies what is promised.
LEMMA StreamInv_Safe == StreamInv => EveryPhaseEnds /\ StreamsShareOut
<1> SUFFICES ASSUME StreamInv PROVE EveryPhaseEnds /\ StreamsShareOut
  OBVIOUS
<1>1. EveryPhaseEnds
  <2> SUFFICES ASSUME NEW s \in Streams, stream[s].at = "ended"
               PROVE  /\ \A i \in DOMAIN stream[s].told : LET e == stream[s].told[i]
                           IN e[2] = "started" /\ e[1] # "generate" =>
                                \E j \in DOMAIN stream[s].told :
                                  j > i /\ stream[s].told[j] = <<e[1], "done">>
                      /\ Told(s, AnswerEvent) # Told(s, ErrorEvent)
                      /\ Last(stream[s].told) = DoneEvent
    BY DEF EveryPhaseEnds, AnswerEvent, ErrorEvent, DoneEvent
  <2> DEFINE t == stream[s].told
  <2>1. /\ t \in Seq(Events) /\ EndedBut(t, "none")
        /\ Tells(t, AnswerEvent) => ~ Tells(t, ErrorEvent)
        /\ Tells(t, AnswerEvent) \/ Tells(t, ErrorEvent)
        /\ Last(t) = DoneEvent
    BY DEF StreamInv, EventsInv, StreamTyped, ToldHolds
  <2>2. DOMAIN t = 1..Len(t)
    BY <2>1
  <2>3. Told(s, AnswerEvent) <=> Tells(t, AnswerEvent)
    BY <2>2 DEF Told, Tells, ToSet
  <2>4. Told(s, ErrorEvent) <=> Tells(t, ErrorEvent)
    BY <2>2 DEF Told, Tells, ToSet
  <2>5. Told(s, AnswerEvent) # Told(s, ErrorEvent)
    BY <2>1, <2>3, <2>4
  <2>6. ASSUME NEW i \in 1..Len(t), t[i][2] = "started", t[i][1] # "generate"
        PROVE  \E j \in 1..Len(t) : j > i /\ t[j] = <<t[i][1], "done">>
    <3>1. t[i] \in Events
      BY <2>1
    <3>2. t[i][1] # "none"
      BY <3>1, EventsAreNamed
    <3> QED
      BY <2>1, <2>6, <3>2 DEF EndedBut
  <2> QED
    BY <2>1, <2>2, <2>5, <2>6
<1>2. StreamsShareOut
  <2> DEFINE makers == {s \in Streams : stream[s].took = "made"}
  <2>1. \A s, t \in Streams : s # t => stream[s].found \cap stream[t].found = {}
    BY DEF StreamInv, SharesInv
  <2>2. CASE summary.cached = FALSE
    <3>1. makers = {} /\ summary.made = 0
      BY <2>2 DEF StreamInv, SharesInv
    <3>2. Cardinality(makers) = 0
      BY <3>1, FS_EmptySet
    <3> QED
      BY <2>1, <3>1, <3>2 DEF StreamsShareOut
  <2>3. CASE summary.cached # FALSE
    <3>1. PICK s \in Streams : \A t \in Streams : (stream[t].took = "made" <=> t = s)
      BY <2>3 DEF StreamInv, SharesInv
    <3>2. makers = {s} /\ summary.made = 1
      BY <2>3, <3>1 DEF StreamInv, SharesInv
    <3>3. Cardinality(makers) = 1
      BY <3>2, FS_Singleton
    <3> QED
      BY <2>1, <3>2, <3>3 DEF StreamsShareOut
  <2> QED
    BY <2>2, <2>3
<1> QED
  BY <1>1, <1>2
=============================================================================
