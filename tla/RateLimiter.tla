----------------------------- MODULE RateLimiter -----------------------------
(***************************************************************************)
(* The token buckets of rate_limiter.py: one for every registered name, and *)
(* for POST /remember one for every user.  A request looks its bucket up    *)
(* under the lock of the registry and takes a token under the lock of the    *)
(* bucket; between the two others may come.  Time counts in the seconds a    *)
(* token takes.                                                            *)
(***************************************************************************)
EXTENDS Naturals, Sequences

CONSTANTS
  Clients,        \* threads, numbers: the first that is free takes a request
  Guests,         \* users with an id
  Nobody,         \* a request without one, of the registered bucket
  Capacity,       \* REMEMBER_RATE_CAPACITY
  MaxBuckets,     \* 500
  MaxNow,         \* bound: time
  MaxMade         \* bound: buckets ever made

ASSUME LimitAssumption ==
  /\ Nobody \notin Guests /\ Clients \subseteq Nat
  /\ Capacity \in Nat \ {0} /\ MaxBuckets \in Nat \ {0} /\ MaxNow \in Nat /\ MaxMade \in Nat \ {0}

VARIABLES
  now,
  made,           \* TokenBucket objects, in the order they were made
  kept,           \* those of users in the registry, oldest first
  holding,        \* the object every thread has looked up, 0: none
  spent           \* history: tokens spent from every object

limitVars == <<now, made, kept, holding, spent>>

LimitTypeOK ==
  /\ now \in 0..MaxNow
  /\ DOMAIN made = DOMAIN spent /\ made[1].user = Nobody
  /\ \A o \in DOMAIN made :
       /\ made[o].tokens \in 0..Capacity /\ made[o].filled \in made[o].since..now
  /\ \A i \in DOMAIN kept : kept[i] \in 2..Len(made)
  /\ holding \in [Clients -> 0..Len(made)]

NewBucket(u) == [user |-> u, tokens |-> Capacity, filled |-> now, since |-> now]

LimitInit ==
  /\ now = 0 /\ made = <<NewBucket(Nobody)>> /\ kept = <<>>
  /\ holding = [c \in Clients |-> 0] /\ spent = <<0>>

NowTicks == now < MaxNow /\ now' = now + 1 /\ UNCHANGED <<made, kept, holding, spent>>

BucketsOf(u) == {i \in DOMAIN kept : made[kept[i]].user = u}

\* The oldest goes when there are too many, in use or not.
Evict(s) == IF Len(s) > MaxBuckets THEN Tail(s) ELSE s

\* check_per_user, up to the end of the lock of the registry.
CheckPerUser(c) ==
  /\ holding[c] = 0 /\ \A d \in Clients : d < c => holding[d] # 0
  /\ \/ /\ holding' = [holding EXCEPT ![c] = 1]
        /\ UNCHANGED <<made, kept, spent>>
     \/ \E u \in Guests :
          \/ /\ \E i \in BucketsOf(u) : holding' = [holding EXCEPT ![c] = kept[i]]
             /\ UNCHANGED <<made, kept, spent>>
          \/ /\ BucketsOf(u) = {} /\ Len(made) < MaxMade
             /\ made' = Append(made, NewBucket(u))
             /\ spent' = Append(spent, 0)
             /\ kept' = Evict(Append(kept, Len(made) + 1))
             /\ holding' = [holding EXCEPT ![c] = Len(made) + 1]
  /\ UNCHANGED now

\* Mutant of Refill: _last_refill stays.
RefillAgain(b) == [b EXCEPT !.tokens = IF @ + (now - b.filled) > Capacity THEN Capacity ELSE @ + (now - b.filled)]

Refill(b) ==
  [b EXCEPT !.tokens = IF @ + (now - b.filled) > Capacity THEN Capacity ELSE @ + (now - b.filled),
            !.filled = now]

\* A token, or 429.
TryConsume(c) ==
  /\ holding[c] # 0
  /\ LET o == holding[c]
         b == Refill(made[o])
     IN IF b.tokens >= 1
          THEN /\ made' = [made EXCEPT ![o] = [b EXCEPT !.tokens = @ - 1]]
               /\ spent' = [spent EXCEPT ![o] = @ + 1]
          ELSE made' = [made EXCEPT ![o] = b] /\ UNCHANGED spent
  /\ holding' = [holding EXCEPT ![c] = 0]
  /\ UNCHANGED <<now, kept>>

\* GET /rate-limits looks at the registered buckets only.
Status == made' = [made EXCEPT ![1] = Refill(@)] /\ UNCHANGED <<now, kept, holding, spent>>

LimitNext == NowTicks \/ Status \/ \E c \in Clients : CheckPerUser(c) \/ TryConsume(c)

LimitSpec == LimitInit /\ [][LimitNext]_limitVars

-----------------------------------------------------------------------------
(* Properties. *)

\* However the requests of a user interleave, a bucket gives no more than its
\* capacity and what time has added since it was made.
BucketGivesNoMore ==
  \A o \in DOMAIN made : spent[o] <= Capacity + (now - made[o].since)

\* The allowance of a user begins anew only after as many other users have
\* come as there may be buckets.
BeginsAnewLate ==
  \A o, p \in 2..Len(made) : o < p /\ made[o].user = made[p].user => p - o > MaxBuckets

\* There is one bucket for each user, and never too many.
OneBucketEach ==
  /\ Len(kept) <= MaxBuckets
  /\ \A i, j \in DOMAIN kept : made[kept[i]].user = made[kept[j]].user => i = j

LimitSafe == LimitTypeOK /\ BucketGivesNoMore /\ BeginsAnewLate /\ OneBucketEach
=============================================================================
