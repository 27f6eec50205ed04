---------------------------- MODULE RunRouteProofs ----------------------------
(***************************************************************************)
(* What guards a run: the limiter every mutation route asks first          *)
(* (app/api/run-exception/route.ts), and the idempotency of the run itself.*)
(*                                                                         *)
(* The limiter, for any routes, callers, limit, window and cap: its map    *)
(* never outgrows its cap, a caller loses a running window only when the   *)
(* map is full of running windows, and whoever is denied is told when its  *)
(* window ends.                                                            *)
(*                                                                         *)
(* A run, for any servers, keys, callers, runs and bounds: one idempotency *)
(* key gives one stored packet, and one run at a time per server.  What    *)
(* that rests on is what an open transaction and the map of an instance    *)
(* know: an uncommitted key is still free and nobody else's uncommitted    *)
(* key, a stored packet's run has ended, and an active run is the one its  *)
(* key names on its instance.                                              *)
(***************************************************************************)
EXTENDS RateLimiter, RunIdempotency, FiniteSetTheorems, WellFoundedInduction, TLAPS

-----------------------------------------------------------------------------
(* The limiter.                                                            *)

MapBounded ==
    /\ IsFiniteSet(tracked)
    /\ Cardinality(tracked) <= MaxTracked

-----------------------------------------------------------------------------
(* Types.                                                                  *)

LEMMA KeyType ==
    ASSUME NEW r \in Request
    PROVE  BucketKey(r) \in Key /\ BucketKey(r) = <<r.route, Caller(r)>>
BY LimiterAssumption DEF Request, Client, Key, BucketKey, ClientId, Caller

LEMMA AdmitType ==
    ASSUME LimiterTypeOK, NEW r \in Request, Admit(r)
    PROVE  recent' \in [Key -> [Age -> Nat]]
<1>1. 0 \in Age
  BY LimiterAssumption DEF Age
<1> DEFINE k == <<r.route, Caller(r)>>
<1>2. k \in Key
  BY KeyType
<1>3. recent' = IF k \in dropped THEN recent ELSE [recent EXCEPT ![k][0] = @ + 1]
  BY DEF Admit
<1> HIDE DEF k
<1>4. [recent EXCEPT ![k][0] = @ + 1] \in [Key -> [Age -> Nat]]
  BY <1>1, <1>2 DEF LimiterTypeOK
<1> QED
  BY <1>3, <1>4 DEF LimiterTypeOK

LEMMA LimiterTypeInit == LimiterInit => LimiterTypeOK
BY DEF LimiterInit, LimiterTypeOK, NoWindow, WindowState

LEMMA CheckType ==
    ASSUME LimiterTypeOK, NEW r \in Request, Check(r)
    PROVE  LimiterTypeOK'
<1> DEFINE k == BucketKey(r)
<1>0. k \in Key
  BY KeyType
<1>1. CASE OpenWindow(r)
  <2>1. PICK rest \in SUBSET tracked :
              /\ tracked' = rest \cup {k}
              /\ bucket' = [Keep(rest) EXCEPT ![k] = [count |-> 1, start |-> now]]
              /\ dropped' = dropped \cup {j \in tracked \ rest : ~Elapsed(j)}
              /\ told' = {d \in told : d.key \in rest}
    BY <1>1 DEF OpenWindow
  <2>2. Keep(rest) \in [Key -> WindowState]
    BY DEF Keep, LimiterTypeOK, NoWindow, WindowState
  <2>3. bucket' \in [Key -> WindowState]
    BY <2>1, <2>2 DEF LimiterTypeOK, WindowState
  <2>4. recent' \in [Key -> [Age -> Nat]] /\ UNCHANGED <<now, back>>
    BY <1>1, AdmitType DEF OpenWindow
  <2> QED
    BY <1>0, <2>1, <2>3, <2>4 DEF LimiterTypeOK
<1>2. CASE RenewWindow(r)
  <2>1. bucket' \in [Key -> WindowState]
    BY <1>0, <1>2 DEF RenewWindow, LimiterTypeOK, WindowState
  <2> QED
    BY <1>2, <2>1, AdmitType DEF RenewWindow, LimiterTypeOK
<1>3. CASE CountRequest(r)
  <2>1. bucket' \in [Key -> WindowState]
    BY <1>0, <1>3 DEF CountRequest, LimiterTypeOK, WindowState
  <2> QED
    BY <1>3, <2>1, AdmitType DEF CountRequest, LimiterTypeOK
<1>4. CASE Deny(r)
  <2>1. RetryAfterSeconds(k) \in Int
    BY <1>0, LimiterAssumption DEF RetryAfterSeconds, LimiterTypeOK, WindowState
  <2>2. now + RetryAfterSeconds(k) * Second \in Int
    BY <2>1, LimiterAssumption DEF LimiterTypeOK
  <2> QED
    BY <1>0, <1>4, <2>2 DEF Deny, LimiterTypeOK
<1> QED
  BY <1>1, <1>2, <1>3, <1>4 DEF Check

LEMMA LimiterTypeStep == LimiterTypeOK /\ [LimiterNext]_limiterVars => LimiterTypeOK'
<1> SUFFICES ASSUME LimiterTypeOK, [LimiterNext]_limiterVars PROVE LimiterTypeOK'
  OBVIOUS
<1>1. ASSUME NEW r \in Request, Check(r) PROVE LimiterTypeOK'
  BY <1>1, CheckType
<1>2. CASE Tick
  <2>1. \A age \in Age : age # 0 => age - 1 \in Age
    BY LimiterAssumption DEF Age
  <2>2. recent' \in [Key -> [Age -> Nat]]
    BY <1>2, <2>1 DEF Tick, LimiterTypeOK
  <2> QED
    BY <1>2, <2>2 DEF Tick, LimiterTypeOK
<1>3. CASE SetBack
  BY <1>3 DEF SetBack, LimiterTypeOK, historyVars
<1>4. CASE UNCHANGED limiterVars
  BY <1>4 DEF limiterVars, historyVars, LimiterTypeOK
<1> QED
  BY <1>1, <1>2, <1>3, <1>4 DEF LimiterNext
-----------------------------------------------------------------------------
(* The map.                                                                *)

\* What enforceKeyCap leaves has room for one more window, and a running window
\* goes only if the map is full of running windows, the oldest first.
LEMMA RoomMade ==
    ASSUME LimiterTypeOK, MapBounded, NEW rest \in SUBSET tracked, MakeRoom(rest)
    PROVE  /\ IsFiniteSet(rest) /\ Cardinality(rest) < MaxTracked
           /\ \A k \in tracked \ rest :
                 Elapsed(k) \/ (/\ Cardinality(tracked) = MaxTracked
                                /\ \A j \in tracked : /\ ~Elapsed(j)
                                                       /\ bucket[k].start <= bucket[j].start)
<1> DEFINE running == {k \in tracked : ~Elapsed(k)}
<1>0. /\ IsFiniteSet(tracked) /\ Cardinality(tracked) \in Nat
      /\ Cardinality(tracked) <= MaxTracked /\ MaxTracked \in Nat \ {0}
  BY FS_CardinalityType, LimiterAssumption DEF MapBounded
<1>1. IsFiniteSet(rest) /\ Cardinality(rest) \in Nat
  BY <1>0, FS_Subset, FS_CardinalityType
<1>2. /\ running \in SUBSET tracked /\ IsFiniteSet(running) /\ Cardinality(running) \in Nat
      /\ Cardinality(running) <= Cardinality(tracked)
      /\ Cardinality(tracked) = Cardinality(running) => tracked = running
  BY <1>0, FS_Subset, FS_CardinalityType
<1>3. CASE Cardinality(tracked) < MaxTracked
  BY <1>1, <1>3 DEF MakeRoom
<1>4. CASE Cardinality(tracked) >= MaxTracked /\ Cardinality(running) < MaxTracked
  BY <1>0, <1>1, <1>4 DEF MakeRoom
<1>5. CASE Cardinality(tracked) >= MaxTracked /\ Cardinality(running) >= MaxTracked
  <2>1. /\ rest \in SUBSET running /\ Cardinality(rest) = MaxTracked - 1
        /\ \A gone \in running \ rest, k \in rest : bucket[gone].start <= bucket[k].start
    BY <1>0, <1>2, <1>5 DEF MakeRoom
  <2>2. running = tracked /\ Cardinality(tracked) = MaxTracked
    BY <1>0, <1>2, <1>5
  <2>3. Cardinality(tracked \cap rest) = Cardinality(rest)
    <3>1. tracked \cap rest = rest
      OBVIOUS
    <3> QED
      BY <3>1, Zenon
  <2>4. IsFiniteSet(tracked \ rest) /\ Cardinality(tracked \ rest) = 1
    <3>1. /\ IsFiniteSet(tracked \ rest)
          /\ Cardinality(tracked \ rest) = Cardinality(tracked) - Cardinality(tracked \cap rest)
      BY <1>0, FS_Difference
    <3> QED
      BY <1>0, <2>1, <2>2, <2>3, <3>1
  <2>5. PICK one : tracked \ rest = {one}
    BY <2>4, FS_Singleton
  <2>6. ASSUME NEW k \in tracked \ rest, NEW j \in tracked
        PROVE  ~Elapsed(j) /\ bucket[k].start <= bucket[j].start
    <3>1. ~Elapsed(j)
      BY <2>2
    <3>2. CASE j \in rest
      BY <2>1, <2>2, <3>1, <3>2
    <3>3. CASE j = k
      BY <3>1, <3>3 DEF LimiterTypeOK, WindowState
    <3>4. j \in rest \/ j = k
      BY <2>5
    <3> QED
      BY <3>2, <3>3, <3>4
  <2> QED
    BY <1>0, <1>1, <2>1, <2>2, <2>6
<1> QED
  BY <1>0, <1>2, <1>3, <1>4, <1>5

\* What a step may do to the map, and to its size.
EvictsOnly ==
    /\ Cardinality(tracked') <= MaxTracked
    /\ \A k \in tracked \ tracked' :
          Elapsed(k) \/ (/\ Cardinality(tracked) = MaxTracked
                         /\ \A j \in tracked : ~Elapsed(j) /\ bucket[k].start <= bucket[j].start)

LEMMA MapInit == LimiterInit => MapBounded
BY FS_EmptySet, LimiterAssumption DEF LimiterInit, MapBounded

LEMMA MapStep == LimiterTypeOK /\ MapBounded /\ [LimiterNext]_limiterVars => MapBounded' /\ EvictsOnly
<1> SUFFICES ASSUME LimiterTypeOK, MapBounded, [LimiterNext]_limiterVars PROVE MapBounded' /\ EvictsOnly
  OBVIOUS
<1>1. ASSUME NEW r \in Request, OpenWindow(r) PROVE MapBounded' /\ EvictsOnly
  <2>1. PICK rest \in SUBSET tracked : MakeRoom(rest) /\ tracked' = rest \cup {BucketKey(r)}
    BY <1>1 DEF OpenWindow
  <2>2. /\ IsFiniteSet(rest) /\ Cardinality(rest) < MaxTracked
        /\ \A k \in tracked \ rest :
              Elapsed(k) \/ (/\ Cardinality(tracked) = MaxTracked
                             /\ \A j \in tracked : /\ ~Elapsed(j)
                                                    /\ bucket[k].start <= bucket[j].start)
    BY <2>1, RoomMade
  <2>3. /\ IsFiniteSet(tracked') /\ Cardinality(rest) \in Nat
        /\ Cardinality(tracked') \in {Cardinality(rest), Cardinality(rest) + 1}
    BY <2>1, <2>2, FS_AddElement, FS_CardinalityType
  <2>4. Cardinality(tracked') <= MaxTracked
    BY <2>2, <2>3, LimiterAssumption
  <2> QED
    BY <2>1, <2>2, <2>3, <2>4 DEF MapBounded, EvictsOnly
<1>2. ASSUME tracked' = tracked PROVE MapBounded' /\ EvictsOnly
  BY <1>2 DEF MapBounded, EvictsOnly
<1>3. ASSUME NEW r \in Request, RenewWindow(r) \/ CountRequest(r) \/ Deny(r)
      PROVE  tracked' = tracked
  BY <1>3 DEF RenewWindow, CountRequest, Deny
<1>4. Tick \/ SetBack \/ UNCHANGED limiterVars => tracked' = tracked
  BY DEF Tick, SetBack, limiterVars
<1> QED
  BY <1>1, <1>2, <1>3, <1>4 DEF LimiterNext, Check

\* The map never outgrows its cap, and a caller loses its running window only when
\* the map is full of running windows, none of them older (rate-limit.ts:48-99).
THEOREM EvictsOnlyWhenFullAlways == LimiterSpec => EvictsOnlyWhenFull
<1>1. LimiterInit => LimiterTypeOK /\ MapBounded
  BY LimiterTypeInit, MapInit
<1>2. LimiterTypeOK /\ MapBounded /\ [LimiterNext]_limiterVars => (LimiterTypeOK /\ MapBounded)'
  BY LimiterTypeStep, MapStep
<1>3. LimiterTypeOK /\ MapBounded /\ [LimiterNext]_limiterVars => EvictsOnly
  BY MapStep
<1> QED
  BY <1>1, <1>2, <1>3, PTL DEF LimiterSpec, EvictsOnlyWhenFull, EvictsOnly

-----------------------------------------------------------------------------
(* What a denied caller is told.                                           *)

\* Rounding up to seconds loses less than a second.
LEMMA RoundUp ==
    ASSUME NEW n \in Nat \ {0}, NEW s \in Nat \ {0}
    PROVE  LET up == ((n + s - 1) \div s) * s IN up \in Int /\ n <= up /\ up < n + s
BY SMT

LEMMA DenyTold ==
    ASSUME LimiterTypeOK, NEW k \in Key, ~Elapsed(k)
    PROVE  LET end  == bucket[k].start + Window
               due  == now + RetryAfterSeconds(k) * Second
           IN  end <= due /\ due < end + Second
<1> DEFINE rest == Window - (now - bucket[k].start)
<1>1. now \in Int /\ bucket[k].start \in Int /\ Window \in Nat /\ Second \in Nat \ {0}
  BY LimiterAssumption DEF LimiterTypeOK, WindowState
<1>2. rest \in Nat \ {0}
  BY <1>1 DEF Elapsed
<1>3. RetryAfterSeconds(k) = (rest + Second - 1) \div Second
  BY <1>2 DEF RetryAfterSeconds
<1> HIDE DEF rest
<1>4. LET up == RetryAfterSeconds(k) * Second IN up \in Int /\ rest <= up /\ up < rest + Second
  BY <1>1, <1>2, <1>3, RoundUp
<1> DEFINE up == RetryAfterSeconds(k) * Second
<1>5. up \in Int /\ rest <= up /\ up < rest + Second
  BY <1>4
<1> HIDE DEF up
<1>6. bucket[k].start + Window <= now + up /\ now + up < bucket[k].start + Window + Second
  BY <1>1, <1>5 DEF rest
<1> QED
  BY <1>6 DEF up

LEMMA RetryStep == LimiterTypeOK /\ RetryIsTold /\ [LimiterNext]_limiterVars => RetryIsTold'
<1> SUFFICES ASSUME LimiterTypeOK, RetryIsTold, [LimiterNext]_limiterVars PROVE RetryIsTold'
  OBVIOUS
\* What was told stays true while the window it was told of stays.
<1>0. ASSUME \A d \in told' : d \in told /\ bucket'[d.key].start = bucket[d.key].start
      PROVE  RetryIsTold'
  BY <1>0 DEF RetryIsTold
<1>a. \A d \in told : d.key \in Key
  BY DEF LimiterTypeOK
<1>1. ASSUME NEW r \in Request, OpenWindow(r) PROVE RetryIsTold'
  <2>1. PICK rest \in SUBSET tracked :
              /\ bucket' = [Keep(rest) EXCEPT ![BucketKey(r)] = [count |-> 1, start |-> now]]
              /\ told' = {d \in told : d.key \in rest}
    BY <1>1 DEF OpenWindow
  <2>2. BucketKey(r) \notin rest
    BY <1>1 DEF OpenWindow
  <2>3. \A d \in told' : d \in told /\ bucket'[d.key] = bucket[d.key]
    BY <1>a, <2>1, <2>2 DEF Keep
  <2> QED
    BY <1>0, <2>3
<1>2. ASSUME NEW r \in Request, RenewWindow(r) PROVE RetryIsTold'
  <2>1. \A d \in told' : d \in told /\ bucket'[d.key] = bucket[d.key]
    BY <1>a, <1>2 DEF RenewWindow, LimiterTypeOK
  <2> QED
    BY <1>0, <2>1
<1>3. ASSUME NEW r \in Request, CountRequest(r) PROVE RetryIsTold'
  <2>1. \A d \in told' : d \in told /\ bucket'[d.key].start = bucket[d.key].start
    BY <1>a, <1>3 DEF CountRequest, LimiterTypeOK, WindowState
  <2> QED
    BY <1>0, <2>1
<1>4. ASSUME NEW r \in Request, Deny(r) PROVE RetryIsTold'
  <2>1. BucketKey(r) \in Key
    BY KeyType
  <2>2. /\ told' = {[key |-> BucketKey(r), back |-> now + RetryAfterSeconds(BucketKey(r)) * Second]}
        /\ bucket' = bucket /\ ~Elapsed(BucketKey(r))
    BY <1>4 DEF Deny
  <2> QED
    BY <2>1, <2>2, DenyTold DEF RetryIsTold
<1>5. CASE Tick \/ SetBack \/ UNCHANGED limiterVars
  BY <1>0, <1>5 DEF Tick, SetBack, limiterVars, historyVars
<1> QED
  BY <1>1, <1>2, <1>3, <1>4, <1>5 DEF LimiterNext, Check

\* Retry-After never ends before the window does, and never a second later,
\* also when the clock is set back (rate-limit.ts:123-128).
THEOREM RetryIsToldAlways == LimiterSpec => []RetryIsTold
<1>1. LimiterInit => LimiterTypeOK /\ RetryIsTold
  BY LimiterTypeInit DEF LimiterInit, RetryIsTold
<1>2. LimiterTypeOK /\ RetryIsTold /\ [LimiterNext]_limiterVars => (LimiterTypeOK /\ RetryIsTold)'
  BY LimiterTypeStep, RetryStep
<1> QED
  BY <1>1, <1>2, PTL DEF LimiterSpec
-----------------------------------------------------------------------------
(* Sums.  The library's induction theorems take a predicate as a parameter; *)
(* the well-ordering of the numbers does not, and serves as well: to show   *)
(* something of every number, take the set of the numbers it holds of.      *)

\* The numbers have a least one of any kind ...
LEMMA LeastNumber ==
    ASSUME NEW T \in SUBSET Nat, T # {}
    PROVE  \E x \in T : \A y \in T : x <= y
<1>1. PICK x \in T : \A y \in T : ~ (<<y, x>> \in OpToRel(<, Nat))
  BY WFMin, NatLessThanWellFounded, Zenon
<1>2. \A y \in T : ~(y < x)
  BY <1>1, Zenon DEF OpToRel
<1> QED
  BY <1>2

\* ... and so a set of numbers with 0 and every successor has them all.
LEMMA Induct ==
    ASSUME NEW T \in SUBSET Nat, 0 \in T, \A n \in T : n + 1 \in T
    PROVE  T = Nat
<1>1. SUFFICES ASSUME Nat \ T # {} PROVE FALSE
  OBVIOUS
<1>2. PICK x \in Nat \ T : \A y \in Nat \ T : x <= y
  BY <1>1, LeastNumber
<1>3. x - 1 \in Nat /\ x - 1 \notin Nat \ T
  BY <1>2
<1>4. (x - 1) + 1 \in T
  BY <1>3
<1> QED
  BY <1>2, <1>4

IsSum(s, f, n) == s = [m \in 0..n |-> IF m = 0 THEN 0 ELSE s[m - 1] + f[m - 1]]

LEMMA SumExists == ASSUME NEW f, NEW n \in Nat PROVE \E s : IsSum(s, f, n)
<1> DEFINE T == {k \in Nat : \E s : IsSum(s, f, k)}
<1>1. 0 \in T
  <2> DEFINE s == [m \in 0..0 |-> 0]
  <2>1. IsSum(s, f, 0)
    BY DEF IsSum
  <2> QED
    BY <2>1
<1>2. ASSUME NEW k \in T PROVE k + 1 \in T
  <2>1. PICK s : IsSum(s, f, k)
    OBVIOUS
  <2> DEFINE t == [m \in 0..(k + 1) |-> IF m = k + 1 THEN s[k] + f[k] ELSE s[m]]
  <2>2. ASSUME NEW m \in 0..(k + 1)
        PROVE  t[m] = IF m = 0 THEN 0 ELSE t[m - 1] + f[m - 1]
    <3>1. CASE m = k + 1
      BY <3>1
    <3>2. CASE m # k + 1
      <4>1. m \in 0..k /\ t[m] = s[m] /\ (m # 0 => m - 1 \in 0..(k + 1) /\ t[m - 1] = s[m - 1])
        BY <3>2
      <4> QED
        BY <2>1, <4>1 DEF IsSum
    <3> QED
      BY <3>1, <3>2
  <2>3. IsSum(t, f, k + 1)
    BY <2>2 DEF IsSum
  <2> QED
    BY <2>3
<1> HIDE DEF T
<1>3. T = Nat
  BY <1>1, <1>2, Induct DEF T
<1> QED
  BY <1>3 DEF T

LEMMA SumIs ==
    ASSUME NEW f, NEW n \in Nat
    PROVE  \E s : IsSum(s, f, n) /\ SumTo(f, n) = s[n]
<1> DEFINE s == CHOOSE s : IsSum(s, f, n)
<1>1. IsSum(s, f, n)
  BY SumExists
<1>2. SumTo(f, n) = s[n]
  BY DEF SumTo, IsSum
<1> QED
  BY <1>1, <1>2

\* Two sums of one function agree.
LEMMA SumUnique ==
    ASSUME NEW f, NEW g, NEW n \in Nat, NEW k \in Nat, k <= n,
           \A i \in 0..(k - 1) : f[i] = g[i],
           NEW s, NEW t, IsSum(s, f, n), IsSum(t, g, k)
    PROVE  s[k] = t[k]
<1> DEFINE T == {m \in Nat : m <= k => s[m] = t[m]}
<1>1. 0 \in T
  BY DEF IsSum
<1>2. ASSUME NEW m \in T PROVE m + 1 \in T
  <2>1. SUFFICES ASSUME m + 1 <= k PROVE s[m + 1] = t[m + 1]
    OBVIOUS
  <2>2. m \in 0..(k - 1) /\ m + 1 \in 0..n /\ m + 1 \in 0..k /\ (m + 1) - 1 = m /\ s[m] = t[m]
    BY <2>1
  <2>3. s[m + 1] = s[m] + f[m] /\ t[m + 1] = t[m] + g[m]
    BY <2>2 DEF IsSum
  <2> QED
    BY <2>2, <2>3
<1> HIDE DEF T
<1>3. T = Nat
  BY <1>1, <1>2, Induct DEF T
<1> QED
  BY <1>3 DEF T

LEMMA SumZero == ASSUME NEW f PROVE SumTo(f, 0) = 0
BY SumIs DEF IsSum

LEMMA SumNext ==
    ASSUME NEW f, NEW n \in Nat
    PROVE  SumTo(f, n + 1) = SumTo(f, n) + f[n]
<1>1. PICK s : IsSum(s, f, n) /\ SumTo(f, n) = s[n]
  BY SumIs
<1>2. PICK t : IsSum(t, f, n + 1) /\ SumTo(f, n + 1) = t[n + 1]
  BY SumIs
<1>3. t[n + 1] = t[n] + f[n]
  BY <1>2 DEF IsSum
<1>4. t[n] = s[n]
  <2>1. n + 1 \in Nat /\ n <= n + 1
    OBVIOUS
  <2> QED
    BY <1>1, <1>2, <2>1, SumUnique
<1> QED
  BY <1>1, <1>2, <1>3, <1>4

LEMMA SumType ==
    ASSUME NEW n \in Nat, NEW f, \A i \in 0..(n - 1) : f[i] \in Nat
    PROVE  SumTo(f, n) \in Nat
<1> DEFINE T == {m \in Nat : m <= n => SumTo(f, m) \in Nat}
<1>1. 0 \in T
  BY SumZero
<1>2. ASSUME NEW m \in T PROVE m + 1 \in T
  BY SumNext
<1> HIDE DEF T
<1>3. T = Nat
  BY <1>1, <1>2, Induct DEF T
<1> QED
  BY <1>3 DEF T

\* Nothing sums to nothing.
LEMMA SumNothing ==
    ASSUME NEW n \in Nat, NEW f, \A i \in 0..(n - 1) : f[i] = 0
    PROVE  SumTo(f, n) = 0
<1> DEFINE T == {m \in Nat : m <= n => SumTo(f, m) = 0}
<1>1. 0 \in T
  BY SumZero
<1>2. ASSUME NEW m \in T PROVE m + 1 \in T
  BY SumNext
<1> HIDE DEF T
<1>3. T = Nat
  BY <1>1, <1>2, Induct DEF T
<1> QED
  BY <1>3 DEF T

\* One more at 0 is one more in the sum.
LEMMA SumBump ==
    ASSUME NEW n \in Nat, NEW f, NEW g,
           \A i \in 0..n : f[i] \in Nat,
           g[0] = f[0] + 1, \A i \in 1..n : g[i] = f[i]
    PROVE  SumTo(g, n + 1) = SumTo(f, n + 1) + 1
<1> DEFINE T == {m \in Nat : m <= n => SumTo(g, m + 1) = SumTo(f, m + 1) + 1}
<1>1. 0 \in T
  <2>1. SumTo(g, 1) = g[0] /\ SumTo(f, 1) = f[0]
    <3>1. SumTo(g, 0 + 1) = SumTo(g, 0) + g[0] /\ SumTo(f, 0 + 1) = SumTo(f, 0) + f[0]
      BY SumNext
    <3>2. f[0] \in Nat
      OBVIOUS
    <3> QED
      BY <3>1, <3>2, SumZero
  <2> QED
    BY <2>1
<1>2. ASSUME NEW m \in T PROVE m + 1 \in T
  <2>1. SUFFICES ASSUME m + 1 <= n PROVE SumTo(g, (m + 1) + 1) = SumTo(f, (m + 1) + 1) + 1
    OBVIOUS
  <2>2. SumTo(g, m + 1) = SumTo(f, m + 1) + 1 /\ g[m + 1] = f[m + 1] /\ f[m + 1] \in Nat
    BY <2>1
  <2>3. SumTo(f, m + 1) \in Nat
    BY <2>1, SumType
  <2>4. /\ SumTo(g, (m + 1) + 1) = SumTo(g, m + 1) + g[m + 1]
        /\ SumTo(f, (m + 1) + 1) = SumTo(f, m + 1) + f[m + 1]
    BY SumNext
  <2> QED
    BY <2>2, <2>3, <2>4
<1> HIDE DEF T
<1>3. T = Nat
  BY <1>1, <1>2, Induct DEF T
<1> QED
  BY <1>3 DEF T

\* What is one older sums to the same, up to one more.
LEMMA SumShift ==
    ASSUME NEW n \in Nat, NEW f, NEW g,
           \A i \in 0..(n - 1) : f[i] \in Nat,
           g[0] = 0, \A i \in 1..n : g[i] = f[i - 1]
    PROVE  SumTo(g, n + 1) = SumTo(f, n)
<1> DEFINE T == {m \in Nat : m <= n => SumTo(g, m + 1) = SumTo(f, m)}
<1>1. 0 \in T
  <2>1. SumTo(g, 0 + 1) = SumTo(g, 0) + g[0]
    BY SumNext
  <2> QED
    BY <2>1, SumZero
<1>2. ASSUME NEW m \in T PROVE m + 1 \in T
  <2>1. SUFFICES ASSUME m + 1 <= n PROVE SumTo(g, (m + 1) + 1) = SumTo(f, m + 1)
    OBVIOUS
  <2>2. /\ SumTo(g, (m + 1) + 1) = SumTo(g, m + 1) + g[m + 1]
        /\ SumTo(f, m + 1) = SumTo(f, m) + f[m]
    BY SumNext
  <2>3. g[m + 1] = f[m] /\ SumTo(g, m + 1) = SumTo(f, m)
    <3>1. (m + 1) - 1 = m /\ m + 1 \in 1..n
      BY <2>1
    <3> QED
      BY <2>1, <3>1
  <2> QED
    BY <2>2, <2>3
<1> HIDE DEF T
<1>3. T = Nat
  BY <1>1, <1>2, Induct DEF T
<1> QED
  BY <1>3 DEF T

-----------------------------------------------------------------------------
(* What a caller gets through.                                             *)
(*                                                                         *)
(* A window that opened w ticks ago, and the clock shows no more than w:   *)
(* what the caller got through since then, its opening request excepted,   *)
(* is counted in it, and what it got through before is less than a limit.  *)

Opened(k, w) ==
    /\ now - bucket[k].start <= w
    /\ bucket[k].count \in 1..Limit
    /\ SumTo(recent[k], IF w < Window THEN w ELSE Window) < bucket[k].count
    /\ SumTo(recent[k], Window) < bucket[k].count + Limit

BurstKnown(k) ==
    IF k \in tracked THEN \E w \in Nat : Opened(k, w)
    ELSE SumTo(recent[k], Window) < Limit

BurstInv == \A k \in Key \ dropped : BurstKnown(k)

\* The sums of a caller's last window.
LEMMA RecentSums ==
    ASSUME LimiterTypeOK, NEW k \in Key, NEW n \in 0..Window
    PROVE  /\ SumTo(recent[k], n) \in Nat
           /\ \A i \in 0..(n - 1) : recent[k][i] \in Nat
<1>1. n \in Nat /\ \A i \in 0..(n - 1) : i \in Age
  BY LimiterAssumption DEF Age
<1>2. \A i \in 0..(n - 1) : recent[k][i] \in Nat
  BY <1>1 DEF LimiterTypeOK
<1> QED
  BY <1>1, <1>2, SumType

LEMMA SumMonotone ==
    ASSUME LimiterTypeOK, NEW k \in Key
    PROVE  /\ SumTo(recent[k], Window - 1) <= SumTo(recent[k], Window)
           /\ SumTo(recent[k], Window - 1) \in Nat
<1>1. Window - 1 \in Nat /\ (Window - 1) + 1 = Window /\ Window - 1 \in 0..Window /\ Window \in 0..Window
  BY LimiterAssumption
<1>2. SumTo(recent[k], (Window - 1) + 1) = SumTo(recent[k], Window - 1) + recent[k][Window - 1]
  BY <1>1, SumNext
<1>3. recent[k][Window - 1] \in Nat /\ SumTo(recent[k], Window - 1) \in Nat
  <2>1. Window - 1 \in 0..(Window - 1)
    BY <1>1
  <2> QED
    BY <1>1, <2>1, RecentSums
<1> QED
  BY <1>1, <1>2, <1>3

\* One more request is one more in every sum that reaches it.
LEMMA AdmitSums ==
    ASSUME LimiterTypeOK, NEW k \in Key, NEW n \in 0..Window,
           recent' = [recent EXCEPT ![k][0] = @ + 1]
    PROVE  SumTo(recent'[k], n) = IF n = 0 THEN 0 ELSE SumTo(recent[k], n) + 1
<1>1. CASE n = 0
  BY <1>1, SumZero
<1>2. CASE n # 0
  <2>1. n - 1 \in Nat /\ (n - 1) + 1 = n /\ \A i \in 0..(n - 1) : i \in Age
    BY <1>2, LimiterAssumption DEF Age
  <2>2. /\ \A i \in 0..(n - 1) : recent[k][i] \in Nat
        /\ recent'[k][0] = recent[k][0] + 1
        /\ \A i \in 1..(n - 1) : recent'[k][i] = recent[k][i]
    BY <2>1, <1>2, LimiterAssumption DEF LimiterTypeOK, Age
  <2>3. SumTo(recent'[k], (n - 1) + 1) = SumTo(recent[k], (n - 1) + 1) + 1
    BY <2>1, <2>2, SumBump
  <2> QED
    BY <1>2, <2>1, <2>3
<1> QED
  BY <1>1, <1>2

\* A tick makes every request one older.
LEMMA TickSums ==
    ASSUME LimiterTypeOK, Tick, NEW k \in Key, NEW n \in 0..(Window - 1)
    PROVE  SumTo(recent'[k], n + 1) = SumTo(recent[k], n)
<1>1. n \in Nat /\ n \in 0..Window /\ \A i \in 0..n : i \in Age
  BY LimiterAssumption DEF Age
<1>2. recent'[k] = [age \in Age |-> IF age = 0 THEN 0 ELSE recent[k][age - 1]]
  BY DEF Tick
<1>3. recent'[k][0] = 0 /\ \A i \in 1..n : recent'[k][i] = recent[k][i - 1]
  BY <1>1, <1>2
<1>4. \A i \in 0..(n - 1) : recent[k][i] \in Nat
  BY <1>1, RecentSums
<1> QED
  BY <1>1, <1>3, <1>4, SumShift
LEMMA BurstInit == LimiterInit => BurstInv
<1> SUFFICES ASSUME LimiterInit, NEW k \in Key PROVE k \notin tracked /\ SumTo(recent[k], Window) < Limit
  BY DEF BurstInv, BurstKnown
<1>1. k \notin tracked /\ \A i \in 0..(Window - 1) : recent[k][i] = 0
  BY DEF LimiterInit, Age
<1> QED
  BY <1>1, SumNothing, LimiterAssumption

\* A step that neither admits the caller nor moves its window.
LEMMA BurstKept ==
    ASSUME BurstInv, NEW k \in Key \ dropped,
           recent'[k] = recent[k], k \in tracked' <=> k \in tracked, now' <= now,
           now \in Int, now' \in Int, bucket[k].start \in Int, bucket'[k] = bucket[k]
    PROVE  BurstKnown(k)'
<1>1. ASSUME NEW w \in Nat, Opened(k, w) PROVE Opened(k, w)'
  BY <1>1 DEF Opened
<1> QED
  BY <1>1 DEF BurstInv, BurstKnown

\* A window whose time is over holds less than a limit of what came last.
LEMMA ElapsedSum ==
    ASSUME LimiterTypeOK, BurstInv, NEW k \in Key \ dropped, k \in tracked, Elapsed(k)
    PROVE  SumTo(recent[k], Window) < Limit
<1>1. PICK w \in Nat : Opened(k, w)
  BY DEF BurstInv, BurstKnown
<1>2. bucket[k].start \in Int /\ now \in Int /\ Window \in Nat /\ Limit \in Nat
  BY LimiterAssumption DEF LimiterTypeOK, WindowState
<1>3. w >= Window
  BY <1>1, <1>2 DEF Opened, Elapsed
<1>4. SumTo(recent[k], Window) < bucket[k].count /\ bucket[k].count \in 1..Limit
  BY <1>1, <1>2, <1>3 DEF Opened
<1>5. Window \in 0..Window
  BY <1>2
<1>6. SumTo(recent[k], Window) \in Nat
  BY <1>5, RecentSums
<1> QED
  BY <1>2, <1>4, <1>6

\* A caller that opens a window had less than a limit before.
LEMMA OpeningBurst ==
    ASSUME LimiterTypeOK, NEW k \in Key, SumTo(recent[k], Window) < Limit,
           recent' = [recent EXCEPT ![k][0] = @ + 1], k \in tracked',
           now' = now, bucket'[k] = [count |-> 1, start |-> now]
    PROVE  BurstKnown(k)'
<1>1. /\ Window \in Nat \ {0} /\ Limit \in Nat \ {0} /\ 0 \in 0..Window /\ Window \in 0..Window
      /\ now \in Int
  BY LimiterAssumption DEF LimiterTypeOK
<1>2. SumTo(recent'[k], 0) = 0 /\ SumTo(recent'[k], Window) = SumTo(recent[k], Window) + 1
  BY <1>1, AdmitSums
<1>3. SumTo(recent[k], Window) \in Nat
  BY <1>1, RecentSums
<1>4. Opened(k, 0)'
  BY <1>1, <1>2, <1>3 DEF Opened
<1> QED
  BY <1>4 DEF BurstKnown

LEMMA BurstOpen ==
    ASSUME LimiterTypeOK, BurstInv, NEW r \in Request, OpenWindow(r)
    PROVE  BurstInv'
<1> DEFINE b == BucketKey(r)
<1>1. b \in Key /\ b \notin tracked /\ b = <<r.route, Caller(r)>> /\ now' = now
      /\ recent' = IF b \in dropped THEN recent ELSE [recent EXCEPT ![b][0] = @ + 1]
  BY KeyType DEF OpenWindow, Admit
<1>2. PICK rest \in SUBSET tracked :
            /\ tracked' = rest \cup {b}
            /\ bucket' = [Keep(rest) EXCEPT ![b] = [count |-> 1, start |-> now]]
            /\ dropped' = dropped \cup {j \in tracked \ rest : ~Elapsed(j)}
  BY DEF OpenWindow
<1>3. ASSUME NEW k \in Key \ dropped' PROVE BurstKnown(k)'
  <2>1. k \in Key \ dropped /\ now \in Int /\ bucket[k].start \in Int
    BY <1>2 DEF LimiterTypeOK, WindowState
  <2>2. CASE k = b
    <3>1. SumTo(recent[k], Window) < Limit
      BY <1>1, <2>1, <2>2 DEF BurstInv, BurstKnown
    <3>2. bucket'[k] = [count |-> 1, start |-> now] /\ k \in tracked'
      BY <1>2, <2>1, <2>2 DEF Keep
    <3>3. recent' = [recent EXCEPT ![k][0] = @ + 1]
      BY <1>1, <2>1, <2>2
    <3> QED
      BY <1>1, <2>1, <3>1, <3>2, <3>3, OpeningBurst
  <2>3. CASE k # b
    <3>1. recent'[k] = recent[k]
      BY <1>1, <2>1, <2>3 DEF LimiterTypeOK
    <3>2. CASE k \in rest
      <4>1. bucket'[k] = bucket[k] /\ k \in tracked /\ k \in tracked'
        BY <1>2, <2>1, <2>3, <3>2 DEF Keep
      <4> QED
        BY <1>1, <2>1, <3>1, <4>1, BurstKept
    <3>3. CASE k \notin rest
      <4>1. k \notin tracked' /\ (k \in tracked => Elapsed(k))
        BY <1>2, <2>3, <3>3
      <4>2. SumTo(recent[k], Window) < Limit
        BY <2>1, <4>1, ElapsedSum DEF BurstInv, BurstKnown
      <4> QED
        BY <3>1, <4>1, <4>2 DEF BurstKnown
    <3> QED
      BY <3>2, <3>3
  <2> QED
    BY <2>2, <2>3
<1> QED
  BY <1>3 DEF BurstInv
LEMMA BurstRenew ==
    ASSUME LimiterTypeOK, BurstInv, NEW r \in Request, RenewWindow(r)
    PROVE  BurstInv'
<1> DEFINE b == BucketKey(r)
<1>1. /\ b \in Key /\ b \in tracked /\ Elapsed(b)
      /\ recent' = IF b \in dropped THEN recent ELSE [recent EXCEPT ![b][0] = @ + 1]
      /\ bucket' = [bucket EXCEPT ![b] = [count |-> 1, start |-> now]]
      /\ UNCHANGED <<tracked, now, dropped>>
  BY KeyType DEF RenewWindow, Admit
<1>2. ASSUME NEW k \in Key \ dropped' PROVE BurstKnown(k)'
  <2>1. k \in Key \ dropped /\ now \in Int /\ bucket[k].start \in Int
    BY <1>1 DEF LimiterTypeOK, WindowState
  <2>2. CASE k = b
    <3>1. SumTo(recent[k], Window) < Limit
      BY <1>1, <2>1, <2>2, ElapsedSum
    <3>2. bucket'[k] = [count |-> 1, start |-> now] /\ k \in tracked'
      BY <1>1, <2>1, <2>2 DEF LimiterTypeOK
    <3>3. recent' = [recent EXCEPT ![k][0] = @ + 1]
      BY <1>1, <2>1, <2>2
    <3> QED
      BY <1>1, <2>1, <3>1, <3>2, <3>3, OpeningBurst
  <2>3. CASE k # b
    <3>1. recent'[k] = recent[k] /\ bucket'[k] = bucket[k]
      BY <1>1, <2>1, <2>3 DEF LimiterTypeOK
    <3> QED
      BY <1>1, <2>1, <3>1, BurstKept
  <2> QED
    BY <2>2, <2>3
<1> QED
  BY <1>2 DEF BurstInv

LEMMA BurstCount ==
    ASSUME LimiterTypeOK, BurstInv, NEW r \in Request, CountRequest(r)
    PROVE  BurstInv'
<1> DEFINE b == BucketKey(r)
<1>1. /\ b \in Key /\ b \in tracked /\ bucket[b].count < Limit
      /\ recent' = IF b \in dropped THEN recent ELSE [recent EXCEPT ![b][0] = @ + 1]
      /\ bucket' = [bucket EXCEPT ![b].count = @ + 1]
      /\ UNCHANGED <<tracked, now, dropped>>
  BY KeyType DEF CountRequest, Admit
<1>2. ASSUME NEW k \in Key \ dropped' PROVE BurstKnown(k)'
  <2>1. k \in Key \ dropped /\ now \in Int /\ bucket[k].start \in Int /\ bucket[k].count \in Nat
    BY <1>1 DEF LimiterTypeOK, WindowState
  <2>2. CASE k = b
    <3>1. PICK w \in Nat : Opened(k, w)
      BY <1>1, <2>1, <2>2 DEF BurstInv, BurstKnown
    <3>2. bucket'[k].count = bucket[k].count + 1 /\ bucket'[k].start = bucket[k].start
      BY <1>1, <2>1, <2>2 DEF LimiterTypeOK, WindowState
    <3> DEFINE n == IF w < Window THEN w ELSE Window
    <3>3. /\ n \in 0..Window /\ Window \in 0..Window
          /\ Window \in Nat \ {0} /\ Limit \in Nat \ {0}
      BY LimiterAssumption
    <3> HIDE DEF n
    <3>4. recent' = [recent EXCEPT ![k][0] = @ + 1]
      BY <1>1, <2>1, <2>2
    <3>5. /\ SumTo(recent'[k], n) <= SumTo(recent[k], n) + 1
          /\ SumTo(recent'[k], n) \in Nat /\ SumTo(recent[k], n) \in Nat
      <4>1. SumTo(recent[k], n) \in Nat
        BY <2>1, <3>3, RecentSums
      <4>2. SumTo(recent'[k], n) = IF n = 0 THEN 0 ELSE SumTo(recent[k], n) + 1
        BY <2>1, <3>3, <3>4, AdmitSums
      <4> QED
        BY <4>1, <4>2
    <3>6. /\ SumTo(recent'[k], Window) = SumTo(recent[k], Window) + 1
          /\ SumTo(recent[k], Window) \in Nat
      BY <2>1, <3>3, <3>4, AdmitSums, RecentSums
    <3>7. SumTo(recent[k], n) < bucket[k].count /\ SumTo(recent[k], Window) < bucket[k].count + Limit
      BY <3>1 DEF Opened, n
    <3>8. now' - bucket'[k].start <= w
      BY <1>1, <3>1, <3>2 DEF Opened
    <3>9. bucket'[k].count \in 1..Limit
      BY <1>1, <2>1, <2>2, <3>2, <3>3
    <3>10. SumTo(recent'[k], n) < bucket'[k].count /\ SumTo(recent'[k], Window) < bucket'[k].count + Limit
      BY <2>1, <3>2, <3>3, <3>5, <3>6, <3>7
    <3>11. Opened(k, w)'
      BY <3>8, <3>9, <3>10 DEF Opened, n
    <3> QED
      BY <1>1, <2>2, <3>11 DEF BurstKnown
  <2>3. CASE k # b
    <3>1. recent'[k] = recent[k] /\ bucket'[k] = bucket[k]
      BY <1>1, <2>1, <2>3 DEF LimiterTypeOK
    <3> QED
      BY <1>1, <2>1, <3>1, BurstKept
  <2> QED
    BY <2>2, <2>3
<1> QED
  BY <1>2 DEF BurstInv

LEMMA BurstTick ==
    ASSUME LimiterTypeOK, BurstInv, Tick
    PROVE  BurstInv'
<1>1. now' = now + 1 /\ UNCHANGED <<tracked, bucket, dropped>>
  BY DEF Tick
<1>2. ASSUME NEW k \in Key \ dropped' PROVE BurstKnown(k)'
  <2>1. /\ k \in Key \ dropped /\ now \in Int /\ bucket[k].start \in Int /\ bucket[k].count \in Nat
        /\ Window \in Nat \ {0} /\ Limit \in Nat \ {0} /\ Window - 1 \in 0..(Window - 1)
        /\ (Window - 1) + 1 = Window /\ Window \in 0..Window
    BY <1>1, LimiterAssumption DEF LimiterTypeOK, WindowState
  <2>2. SumTo(recent'[k], (Window - 1) + 1) = SumTo(recent[k], Window - 1)
    BY <2>1, TickSums
  <2>3. SumTo(recent'[k], Window) <= SumTo(recent[k], Window) /\ SumTo(recent[k], Window) \in Nat
        /\ SumTo(recent'[k], Window) \in Nat
    BY <2>1, <2>2, SumMonotone, RecentSums
  <2>4. CASE k \notin tracked
    BY <1>1, <2>1, <2>3, <2>4 DEF BurstInv, BurstKnown
  <2>5. CASE k \in tracked
    <3>1. PICK w \in Nat : Opened(k, w)
      BY <2>1, <2>5 DEF BurstInv, BurstKnown
    <3>2. SumTo(recent'[k], IF w + 1 < Window THEN w + 1 ELSE Window) < bucket[k].count
      <4>1. CASE w < Window
        <5>1. w \in 0..(Window - 1)
          BY <2>1, <4>1
        <5>2. SumTo(recent'[k], w + 1) = SumTo(recent[k], w)
          BY <2>1, <5>1, TickSums
        <5>3. SumTo(recent[k], w) < bucket[k].count
          BY <3>1, <4>1 DEF Opened
        <5>4. w + 1 < Window \/ w + 1 = Window
          BY <2>1, <4>1
        <5> QED
          BY <5>2, <5>3, <5>4
      <4>2. CASE ~(w < Window)
        <5>1. SumTo(recent[k], Window) < bucket[k].count /\ ~(w + 1 < Window)
          BY <2>1, <3>1, <4>2 DEF Opened
        <5> QED
          BY <2>1, <2>3, <5>1
      <4> QED
        BY <4>1, <4>2
    <3>3. SumTo(recent'[k], Window) < bucket[k].count + Limit
      BY <2>1, <2>3, <3>1 DEF Opened
    <3>4. now' - bucket[k].start <= w + 1 /\ bucket[k].count \in 1..Limit
      BY <1>1, <2>1, <3>1 DEF Opened
    <3>5. Opened(k, w + 1)'
      BY <1>1, <3>2, <3>3, <3>4 DEF Opened
    <3> QED
      BY <1>1, <2>5, <3>5 DEF BurstKnown
  <2> QED
    BY <2>4, <2>5
<1> QED
  BY <1>2 DEF BurstInv

LEMMA BurstStep == LimiterTypeOK /\ BurstInv /\ [LimiterNext]_limiterVars => BurstInv'
<1> SUFFICES ASSUME LimiterTypeOK, BurstInv, [LimiterNext]_limiterVars PROVE BurstInv'
  OBVIOUS
<1>1. CASE Tick
  BY <1>1, BurstTick
<1>2. ASSUME UNCHANGED <<tracked, bucket, recent, dropped>>, now' <= now, now' \in Int
      PROVE  BurstInv'
  <2>1. now \in Int /\ \A k \in Key \ dropped : bucket[k].start \in Int
    BY DEF LimiterTypeOK, WindowState
  <2>2. ASSUME NEW k \in Key \ dropped' PROVE BurstKnown(k)'
    BY <1>2, <2>1, BurstKept
  <2> QED
    BY <2>2 DEF BurstInv
<1>3. ASSUME NEW r \in Request, Deny(r) PROVE BurstInv'
  BY <1>2, <1>3 DEF Deny, LimiterTypeOK
<1>4. CASE SetBack \/ UNCHANGED limiterVars
  BY <1>2, <1>4 DEF SetBack, LimiterTypeOK, limiterVars, historyVars
<1> QED
  BY <1>1, <1>3, <1>4, BurstOpen, BurstRenew, BurstCount DEF LimiterNext, Check

\* In any stretch of one window's length a caller whose window was never evicted
\* gets fewer than twice the limit through, whatever headers it rotates and however
\* the clock is set back, and one that is denied is told when its window ends
\* (rate-limit.ts:31-36, 101-132).
THEOREM AdmittedAsToldAlways == LimiterSpec => []AdmittedAsTold
<1>1. LimiterTypeOK /\ BurstInv => BurstBounded
  <2> SUFFICES ASSUME LimiterTypeOK, BurstInv, NEW k \in Key \ dropped
               PROVE  SumTo(recent[k], Window) < 2 * Limit
    BY DEF BurstBounded
  <2>1. /\ Limit \in Nat \ {0} /\ Window \in 0..Window /\ bucket[k].count \in Nat
        /\ SumTo(recent[k], Window) \in Nat
    BY LimiterAssumption, RecentSums DEF LimiterTypeOK, WindowState
  <2>2. CASE k \notin tracked
    BY <2>1, <2>2 DEF BurstInv, BurstKnown
  <2>3. CASE k \in tracked
    BY <2>1, <2>3 DEF BurstInv, BurstKnown, Opened
  <2> QED
    BY <2>2, <2>3
<1>2. LimiterInit => LimiterTypeOK /\ BurstInv
  BY LimiterTypeInit, BurstInit
<1>3. LimiterTypeOK /\ BurstInv /\ [LimiterNext]_limiterVars => (LimiterTypeOK /\ BurstInv)'
  BY LimiterTypeStep, BurstStep
<1> QED
  BY <1>1, <1>2, <1>3, RetryIsToldAlways, PTL DEF LimiterSpec, AdmittedAsTold

-----------------------------------------------------------------------------
(* The idempotency of a run.                                               *)

Ended(r) == pc[r] \in {"settled", "gone"}

\* A run that waits for its key, or lost it, has one.
KeyKnown(r) ==
    /\ pc[r] \in {"lookup", "reserve", "winner"} => key[r] # NoKey
    /\ pc[r] = "winner" => owner[key[r]] # NoRun

\* An uncommitted key: the transaction is about to commit, and nobody has it.
ReservedKnown(r) ==
    /\ reserved[r] => /\ pc[r] = "commit" /\ key[r] # NoKey
                      /\ owner[key[r]] = NoRun
    /\ pc[r] = "commit" /\ key[r] # NoKey => reserved[r]

\* What a run returns is stored, and is the packet of its key.
OutcomeKnown(r) ==
    outcome[r] # NoRun => /\ Ended(r)
                          /\ outcome[r] \in stored
                          /\ key[r] # NoKey => owner[key[r]] = outcome[r]

\* A stored packet's run has ended, and its key names the packet.
StoredKnown(r) ==
    r \in stored => Ended(r) /\ (key[r] # NoKey => owner[key[r]] = r)

\* A call that came after its key's packet was stored.
LateKnown(r) ==
    r \in late => /\ pc[r] \in {"lookup", "settled", "gone"}
                  /\ key[r] # NoKey /\ owner[key[r]] # NoRun

\* The map of the instance names an active run.
MapKnown(r) ==
    Active(r) /\ key[r] # NoKey => inflight[host[r]][key[r]] = r

RunInv(r) ==
    /\ KeyKnown(r) /\ ReservedKnown(r) /\ OutcomeKnown(r)
    /\ StoredKnown(r) /\ LateKnown(r) /\ MapKnown(r)

\* One open transaction has inserted a key.
ReservationsDiffer ==
    \A r, s \in Runs : (r # s /\ reserved[r] /\ reserved[s]) => key[r] # key[s]

\* A key names a stored packet.
OwnersStored == \A k \in Keys : owner[k] # NoRun => owner[k] \in stored

\* Every answer is the stored packet of its key.
AnswersKnown ==
    \A a \in answers : a.packet \in stored /\ (a.key # NoKey => owner[a.key] = a.packet)

TxInv ==
    /\ \A r \in Runs : RunInv(r)
    /\ ReservationsDiffer
    /\ OwnersStored
    /\ AnswersKnown

-----------------------------------------------------------------------------
(* Types.                                                                  *)

LEMMA TypeInit == Init => TypeOK
<1>1. (CHOOSE i \in Instances : TRUE) \in Instances
  BY RunAssumption
<1> QED
  BY <1>1 DEF Init, TypeOK, Pc

LEMMA PersistType ==
    ASSUME TypeOK, NEW r \in Runs, Persist(r), reserved[r] => key[r] # NoKey
    PROVE  stored' \subseteq Runs /\ owner' \in [Keys -> Runs \cup {NoRun}]
BY DEF TypeOK, Persist

LEMMA TypeStep == TypeOK /\ TxInv /\ [Next]_vars => TypeOK'
<1> SUFFICES ASSUME TypeOK, TxInv, [Next]_vars PROVE TypeOK'
  OBVIOUS
<1> USE DEF dbVars, runVars
<1>1. ASSUME NEW c \in Callers, NEW r \in Runs, NEW i \in Instances, RunUnkeyed(c, r, i)
      PROVE  TypeOK'
  BY <1>1 DEF RunUnkeyed, Call, Begin, TypeOK, Pc
<1>2. ASSUME NEW c \in Callers, NEW r \in Runs, NEW i \in Instances, NEW k \in Keys,
             StartRun(c, r, i, k)
      PROVE  TypeOK'
  <2>1. inflight' \in [Instances -> [Keys -> Runs \cup {NoRun}]]
    BY <1>2 DEF StartRun, TypeOK
  <2> QED
    BY <1>2, <2>1 DEF StartRun, Call, Begin, TypeOK, Pc
<1>3. ASSUME NEW c \in Callers, NEW i \in Instances, NEW k \in Keys, Coalesce(c, i, k)
      PROVE  TypeOK'
  <2>1. inflight[i][k] \in Runs
    BY <1>3 DEF Coalesce, TypeOK
  <2> QED
    BY <1>3, <2>1 DEF Coalesce, Call, TypeOK
<1>4. ASSUME NEW c \in Callers, Receive(c) PROVE TypeOK'
  <2>1. waits[c] \in Runs
    BY <1>4 DEF Receive, TypeOK
  <2>2. outcome[waits[c]] # NoRun =>
            [key |-> key[waits[c]], packet |-> outcome[waits[c]]] \in Answer
    BY <2>1 DEF TypeOK, Answer
  <2>3. answers' \subseteq Answer
    BY <1>4, <2>2 DEF Receive, TypeOK
  <2> QED
    BY <1>4, <2>3 DEF Receive, TypeOK
<1>5. ASSUME NEW r \in Runs, LookupHit(r) PROVE TypeOK'
  <2>1. key[r] \in Keys
    BY <1>5 DEF LookupHit, TxInv, RunInv, KeyKnown, TypeOK
  <2> QED
    BY <1>5, <2>1 DEF LookupHit, Settle, TypeOK, Pc
<1>6. ASSUME NEW r \in Runs, LookupMiss(r) \/ Build(r) \/ Reserve(r) \/ ReserveLost(r)
      PROVE  TypeOK'
  BY <1>6 DEF LookupMiss, Build, Reserve, ReserveLost, TypeOK, Pc
<1>7. ASSUME NEW r \in Runs, Winner(r) PROVE TypeOK'
  <2>1. key[r] \in Keys
    BY <1>7 DEF Winner, TxInv, RunInv, KeyKnown, TypeOK
  <2> QED
    BY <1>7, <2>1 DEF Winner, Settle, TypeOK, Pc
<1>8. ASSUME NEW r \in Runs, Commit(r) PROVE TypeOK'
  <2>1. stored' \subseteq Runs /\ owner' \in [Keys -> Runs \cup {NoRun}]
    BY <1>8, PersistType DEF Commit, TxInv, RunInv, ReservedKnown
  <2> QED
    BY <1>8, <2>1 DEF Commit, Settle, TypeOK, Pc
<1>9. ASSUME NEW r \in Runs, Unregister(r) PROVE TypeOK'
  <2>1. inflight' \in [Instances -> [Keys -> Runs \cup {NoRun}]]
    BY <1>9 DEF Unregister, TypeOK
  <2> QED
    BY <1>9, <2>1 DEF Unregister, TypeOK
<1>10. ASSUME NEW r \in Runs, Fault(r) PROVE TypeOK'
  <2>1. stored' \subseteq Runs /\ owner' \in [Keys -> Runs \cup {NoRun}]
    BY <1>10, PersistType DEF Fault, TxInv, RunInv, ReservedKnown, TypeOK
  <2> QED
    BY <1>10, <2>1 DEF Fault, Settle, TypeOK, Pc
<1>11. ASSUME NEW i \in Instances, Crash(i) PROVE TypeOK'
  <2>1. stored' \subseteq Runs /\ owner' \in [Keys -> Runs \cup {NoRun}]
    BY <1>11, PersistType DEF Crash, TxInv, RunInv, ReservedKnown, TypeOK
  <2>2. pc' \in [Runs -> Pc] /\ reserved' \in [Runs -> BOOLEAN]
    BY <1>11 DEF Crash, TypeOK, Pc
  <2>3. waits' \in [Callers -> Runs \cup {NoRun}]
    BY <1>11 DEF Crash, TypeOK
  <2>4. inflight' \in [Instances -> [Keys -> Runs \cup {NoRun}]]
    BY <1>11 DEF Crash, TypeOK
  <2>5. UNCHANGED <<host, key, outcome, faults, late, answers>> /\ crashes' = crashes + 1
    BY <1>11 DEF Crash
  <2> QED
    BY <2>1, <2>2, <2>3, <2>4, <2>5 DEF TypeOK
<1>12. CASE UNCHANGED vars
  BY <1>12 DEF vars, TypeOK
<1> QED
  BY <1>1, <1>2, <1>3, <1>4, <1>5, <1>6, <1>7, <1>8, <1>9, <1>10, <1>11, <1>12
     DEF Next, RunStep

-----------------------------------------------------------------------------
(* What a run, its transaction and the map know stays true.                *)

LEMMA TxInit == Init => TxInv
<1>1. ASSUME Init, NEW r \in Runs
      PROVE  pc[r] = "new" /\ ~reserved[r] /\ outcome[r] = NoRun /\ key[r] = NoKey
  BY <1>1 DEF Init
<1> QED
  BY <1>1
     DEF Init, TxInv, RunInv, KeyKnown, ReservedKnown, OutcomeKnown, StoredKnown, LateKnown,
         MapKnown, Active, ReservationsDiffer, OwnersStored, AnswersKnown

\* Nothing stored is removed, and no key changes its packet.
Forward ==
    /\ stored \subseteq stored'
    /\ \A k \in Keys : owner[k] # NoRun => owner'[k] = owner[k]

LEMMA SameForward == UNCHANGED dbVars => Forward
BY DEF Forward, dbVars

\* What a commit makes visible.
LEMMA PersistEffect ==
    ASSUME TypeOK, TxInv, NEW r \in Runs, pc[r] = "commit", Persist(r)
    PROVE  /\ Forward /\ OwnersStored'
           /\ stored' = stored \cup {r}
           /\ key[r] # NoKey => owner'[key[r]] = r
           /\ \A s \in Runs \ {r} : reserved[s] => owner'[key[s]] = NoRun
<1>1. RunInv(r) /\ key[r] \in Keys \cup {NoKey}
  BY DEF TxInv, TypeOK
<1>2. CASE key[r] = NoKey
  <2>1. stored' = stored \cup {r} /\ owner' = owner
    BY <1>1, <1>2 DEF RunInv, ReservedKnown, Persist
  <2> QED
    BY <1>2, <2>1 DEF Forward, TxInv, RunInv, ReservedKnown, OwnersStored
<1>3. CASE key[r] # NoKey
  <2>1. /\ reserved[r] /\ owner[key[r]] = NoRun
        /\ stored' = stored \cup {r} /\ owner' = [owner EXCEPT ![key[r]] = r]
    BY <1>1, <1>3 DEF RunInv, ReservedKnown, Persist
  <2>2. \A s \in Runs \ {r} : reserved[s] => key[s] # key[r] /\ owner[key[s]] = NoRun /\ key[s] \in Keys
    BY <2>1 DEF TxInv, ReservationsDiffer, RunInv, ReservedKnown, TypeOK
  <2>3. \A k \in Keys : owner'[k] = IF k = key[r] THEN r ELSE owner[k]
    BY <2>1 DEF TypeOK
  <2>4. Forward /\ OwnersStored'
    BY <2>1, <2>3 DEF Forward, TxInv, OwnersStored
  <2> QED
    BY <1>1, <1>3, <2>1, <2>2, <2>3, <2>4
<1> QED
  BY <1>2, <1>3

\* A run that a step leaves alone, or that dies with its instance.
LEMMA RunKept ==
    ASSUME TypeOK, TxInv, Forward, NEW s \in Runs,
           key'[s] = key[s], outcome'[s] = outcome[s], s \in late' => s \in late,
           \/ /\ pc'[s] = pc[s] /\ reserved'[s] = reserved[s]
              /\ reserved[s] => owner'[key[s]] = NoRun
              /\ s \in stored' => s \in stored
           \/ /\ pc'[s] = "gone" /\ ~reserved'[s]
              /\ s \in stored' => s \in stored \/ (key[s] # NoKey => owner'[key[s]] = s),
           MapKnown(s)'
    PROVE  RunInv(s)'
<1>1. RunInv(s) /\ key[s] \in Keys \cup {NoKey} /\ owner \in [Keys -> Runs \cup {NoRun}]
  BY DEF TxInv, TypeOK
<1>2. NoRun \notin Runs
  BY RunAssumption
<1>3. KeyKnown(s)' /\ ReservedKnown(s)' /\ LateKnown(s)'
  BY <1>1 DEF RunInv, KeyKnown, ReservedKnown, LateKnown, Forward
<1>4. OutcomeKnown(s)'
  BY <1>1 DEF RunInv, OutcomeKnown, Ended, Forward
<1>5. StoredKnown(s)'
  BY <1>1, <1>2 DEF RunInv, StoredKnown, Ended, Forward
<1> QED
  BY <1>3, <1>4, <1>5 DEF RunInv

\* What does not concern a single run.
LEMMA AnswersForward ==
    ASSUME TypeOK, AnswersKnown, Forward, UNCHANGED answers
    PROVE  AnswersKnown'
<1>1. \A a \in answers : a.packet \in Runs /\ a.key \in Keys \cup {NoKey}
  BY DEF TypeOK, Answer
<1> QED
  BY <1>1, RunAssumption DEF AnswersKnown, Forward

\* A step of run r before its end: the database is read, its variables change.
OnlyRun(r) ==
    /\ \A s \in Runs \ {r} :
          /\ pc'[s] = pc[s] /\ host'[s] = host[s] /\ key'[s] = key[s]
          /\ reserved'[s] = reserved[s] /\ outcome'[s] = outcome[s]
          /\ s \in late' => s \in late
          /\ MapKnown(s) => MapKnown(s)'
    /\ UNCHANGED answers

LEMMA OneRunStep ==
    ASSUME TypeOK, TxInv, NEW r \in Runs, OnlyRun(r), UNCHANGED dbVars, RunInv(r)',
           reserved'[r] => \A s \in Runs \ {r} : reserved[s] => key[s] # key'[r]
    PROVE  TxInv'
<1>1. ASSUME NEW s \in Runs \ {r} PROVE RunInv(s)'
  <2>1. RunInv(s)
    BY DEF TxInv
  <2>2. reserved[s] => owner'[key[s]] = NoRun
    BY <2>1 DEF RunInv, ReservedKnown, dbVars
  <2> QED
    BY <2>1, <2>2, RunKept, SameForward DEF OnlyRun, RunInv, dbVars
<1>2. ReservationsDiffer'
  BY DEF TxInv, ReservationsDiffer, OnlyRun
<1>3. OwnersStored' /\ AnswersKnown'
  BY SameForward, AnswersForward DEF TxInv, OwnersStored, OnlyRun, dbVars
<1> QED
  BY <1>1, <1>2, <1>3 DEF TxInv
\* The last step of a run: its transaction commits or rolls back, it is not active.
LEMMA RunEnds ==
    ASSUME TypeOK, TxInv, NEW r \in Runs,
           UNCHANGED dbVars \/ (pc[r] = "commit" /\ Persist(r)),
           pc[r] \notin {"new", "settled", "gone"},
           reserved' = [reserved EXCEPT ![r] = FALSE],
           pc' = [pc EXCEPT ![r] = "settled"],
           \/ outcome' = [outcome EXCEPT ![r] = NoRun]
           \/ pc[r] = "commit" /\ Persist(r) /\ outcome' = [outcome EXCEPT ![r] = r],
           UNCHANGED <<inflight, runVars, late, answers>>
    PROVE  TxInv'
<1>0. /\ Forward /\ OwnersStored'
      /\ \/ UNCHANGED dbVars
         \/ stored' = stored \cup {r} /\ (key[r] # NoKey => owner'[key[r]] = r)
      /\ \A s \in Runs \ {r} : reserved[s] => owner'[key[s]] = NoRun
  BY SameForward, PersistEffect
     DEF TxInv, OwnersStored, RunInv, ReservedKnown, dbVars
<1>1. /\ RunInv(r) /\ pc'[r] = "settled" /\ ~reserved'[r] /\ key' = key
      /\ key[r] \in Keys \cup {NoKey}
  BY DEF TxInv, TypeOK, runVars
<1>2. outcome'[r] # NoRun => r \in stored' /\ outcome'[r] = r /\ (key[r] # NoKey => owner'[key[r]] = r)
  BY PersistEffect DEF TypeOK
<1>3. RunInv(r)'
  BY <1>0, <1>1, <1>2
     DEF RunInv, KeyKnown, ReservedKnown, OutcomeKnown, StoredKnown, LateKnown, MapKnown,
         Active, Ended, Forward, dbVars
<1>4. ASSUME NEW s \in Runs \ {r} PROVE RunInv(s)'
  <2>1. /\ pc'[s] = pc[s] /\ reserved'[s] = reserved[s] /\ outcome'[s] = outcome[s]
        /\ key' = key /\ RunInv(s)
    BY DEF TypeOK, TxInv, runVars
  <2>2. MapKnown(s)'
    BY <2>1 DEF RunInv, MapKnown, Active, runVars
  <2>3. s \in stored' => s \in stored
    BY <1>0 DEF dbVars
  <2> QED
    BY <1>0, <2>1, <2>2, <2>3, RunKept
<1>5. ReservationsDiffer'
  BY DEF TxInv, ReservationsDiffer, TypeOK, runVars
<1>6. AnswersKnown'
  BY <1>0, AnswersForward DEF TxInv
<1> QED
  BY <1>0, <1>3, <1>4, <1>5, <1>6 DEF TxInv

LEMMA CommitTx ==
    ASSUME TypeOK, TxInv, NEW r \in Runs, Commit(r) \/ Fault(r)
    PROVE  TxInv'
<1>1. /\ UNCHANGED dbVars \/ (pc[r] = "commit" /\ Persist(r))
      /\ reserved' = [reserved EXCEPT ![r] = FALSE]
      /\ pc' = [pc EXCEPT ![r] = "settled"]
      /\ \/ outcome' = [outcome EXCEPT ![r] = NoRun]
         \/ pc[r] = "commit" /\ Persist(r) /\ outcome' = [outcome EXCEPT ![r] = r]
      /\ UNCHANGED <<inflight, runVars, late, answers>>
      /\ pc[r] \notin {"new", "settled", "gone"}
  BY DEF Commit, Fault, Settle
<1> QED
  BY <1>1, RunEnds

LEMMA CrashTx ==
    ASSUME TypeOK, TxInv, NEW i \in Instances, Crash(i)
    PROVE  TxInv'
<1> DEFINE mine == {r \in Runs : host[r] = i /\ pc[r] # "new"}
<1>1. /\ pc' = [r \in Runs |-> IF r \in mine THEN "gone" ELSE pc[r]]
      /\ reserved' = [r \in Runs |-> IF r \in mine THEN FALSE ELSE reserved[r]]
      /\ inflight' = [inflight EXCEPT ![i] = [k \in Keys |-> NoRun]]
      /\ UNCHANGED <<host, key, outcome, late, answers>>
  BY DEF Crash, runVars
<1>2. UNCHANGED dbVars \/ \E r \in mine : pc[r] = "commit" /\ Persist(r)
  BY DEF Crash
<1>3. /\ Forward /\ OwnersStored'
      /\ \A s \in Runs \ mine : (reserved[s] => owner'[key[s]] = NoRun)
                               /\ (s \in stored' => s \in stored)
      /\ \A s \in Runs : s \in stored' => s \in stored \/ (key[s] # NoKey => owner'[key[s]] = s)
  <2>1. CASE UNCHANGED dbVars
    BY <2>1, SameForward DEF dbVars, TxInv, OwnersStored, RunInv, ReservedKnown
  <2>2. ASSUME NEW r \in mine, pc[r] = "commit", Persist(r) PROVE <1>3
    BY <2>2, PersistEffect
  <2> QED
    BY <1>2, <2>1, <2>2
<1>4. ASSUME NEW s \in Runs PROVE RunInv(s)'
  <2>1. RunInv(s) /\ host[s] \in Instances
    BY DEF TxInv, TypeOK
  <2>2. CASE s \in mine
    <3>1. pc'[s] = "gone" /\ ~reserved'[s]
      BY <1>1, <2>2
    <3>2. MapKnown(s)'
      BY <3>1 DEF MapKnown, Active
    <3> QED
      BY <1>1, <1>3, <3>1, <3>2, RunKept
  <2>3. CASE s \notin mine
    <3>1. pc'[s] = pc[s] /\ reserved'[s] = reserved[s]
      BY <1>1, <2>3
    <3>2. MapKnown(s)'
      <4>1. Active(s) => host[s] # i
        BY <2>3 DEF Active
      <4>2. host[s] # i => inflight'[host[s]] = inflight[host[s]]
        BY <1>1, <2>1 DEF TypeOK
      <4> QED
        BY <1>1, <2>1, <3>1, <4>1, <4>2 DEF RunInv, MapKnown, Active
    <3> QED
      BY <1>1, <1>3, <2>3, <3>1, <3>2, RunKept
  <2> QED
    BY <2>2, <2>3
<1>5. ReservationsDiffer'
  BY <1>1 DEF TxInv, ReservationsDiffer
<1>6. AnswersKnown'
  BY <1>1, <1>3, AnswersForward DEF TxInv
<1> QED
  BY <1>3, <1>4, <1>5, <1>6 DEF TxInv
\* A call that starts a run: the map has no active run with its key.
LEMMA BeginTx ==
    ASSUME TypeOK, TxInv, NEW r \in Runs, NEW i \in Instances, NEW k \in Keys \cup {NoKey},
           NEW first \in {"lookup", "build"}, Begin(r, i, k, first),
           UNCHANGED <<reserved, outcome, dbVars, answers>>,
           \/ k = NoKey /\ first = "build" /\ UNCHANGED <<inflight, late>>
           \/ /\ k \in Keys /\ first = "lookup" /\ inflight[i][k] = NoRun
              /\ inflight' = [inflight EXCEPT ![i][k] = r]
              /\ late' = IF owner[k] # NoRun THEN late \cup {r} ELSE late
    PROVE  TxInv'
<1>1. /\ pc[r] = "new" /\ pc'[r] = first /\ host'[r] = i /\ key'[r] = k
      /\ \A s \in Runs \ {r} : pc'[s] = pc[s] /\ host'[s] = host[s] /\ key'[s] = key[s]
  BY DEF Begin, IsNext, TypeOK
<1>2. RunInv(r) /\ ~reserved[r] /\ outcome[r] = NoRun /\ r \notin stored /\ r \notin late
  BY <1>1 DEF TxInv, RunInv, ReservedKnown, OutcomeKnown, StoredKnown, LateKnown, Ended
<1>3. k # NoKey => inflight'[i][k] = r
  BY RunAssumption DEF TypeOK
<1>4. MapKnown(r)'
  BY <1>1, <1>3 DEF MapKnown
<1>5. RunInv(r)'
  BY <1>1, <1>2, <1>4, RunAssumption
     DEF RunInv, KeyKnown, ReservedKnown, OutcomeKnown, StoredKnown, LateKnown, dbVars
<1>6. ASSUME NEW s \in Runs \ {r}, MapKnown(s) PROVE MapKnown(s)'
  <2>1. SUFFICES ASSUME Active(s), key[s] # NoKey PROVE inflight'[host[s]][key[s]] = s
    BY <1>1 DEF MapKnown, Active
  <2>2. inflight[host[s]][key[s]] = s /\ s # NoRun /\ host[s] \in Instances /\ key[s] \in Keys
    BY <1>6, <2>1, RunAssumption DEF MapKnown, TypeOK
  <2>3. CASE inflight' = inflight
    BY <2>2, <2>3
  <2>4. CASE inflight[i][k] = NoRun /\ inflight' = [inflight EXCEPT ![i][k] = r]
    <3>1. host[s] # i \/ key[s] # k
      BY <2>2, <2>4
    <3>2. inflight'[host[s]][key[s]] = inflight[host[s]][key[s]]
      BY <2>2, <2>4, <3>1 DEF TypeOK
    <3> QED
      BY <2>2, <3>2
  <2> QED
    BY <2>3, <2>4
<1>7. OnlyRun(r)
  BY <1>1, <1>6 DEF OnlyRun
<1> QED
  BY <1>2, <1>5, <1>7, OneRunStep

\* A statement of a run before its end.
LEMMA RunStepTx ==
    ASSUME TypeOK, TxInv, NEW r \in Runs,
           LookupHit(r) \/ LookupMiss(r) \/ Build(r) \/ Reserve(r) \/ ReserveLost(r) \/ Winner(r)
    PROVE  TxInv'
<1> USE DEF RunInv, KeyKnown, ReservedKnown, OutcomeKnown, StoredKnown, LateKnown, MapKnown,
            Active, Ended, dbVars, runVars
<1>1. RunInv(r) /\ key[r] \in Keys \cup {NoKey}
  BY DEF TxInv, TypeOK
<1>2. OnlyRun(r) /\ UNCHANGED dbVars
  BY DEF OnlyRun, LookupHit, LookupMiss, Build, Reserve, ReserveLost, Winner, Settle, TypeOK
<1>3. ASSUME LookupHit(r) \/ Winner(r) PROVE RunInv(r)' /\ ~reserved'[r]
  <2>1. /\ pc[r] \in {"lookup", "winner"} /\ key[r] \in Keys /\ owner[key[r]] # NoRun
        /\ pc'[r] = "settled" /\ outcome'[r] = owner[key[r]]
        /\ UNCHANGED <<inflight, host, key, reserved, stored, owner, late>>
    BY <1>1, <1>3 DEF LookupHit, Winner, Settle, TypeOK
  <2>2. owner[key[r]] \in stored
    BY <2>1 DEF TxInv, OwnersStored
  <2> QED
    BY <1>1, <2>1, <2>2
<1>4. ASSUME LookupMiss(r) \/ Build(r) PROVE RunInv(r)' /\ ~reserved'[r]
  <2>1. \/ pc[r] = "lookup" /\ pc'[r] = "build" /\ owner[key[r]] = NoRun
        \/ pc[r] = "build" /\ pc'[r] = IF key[r] = NoKey THEN "commit" ELSE "reserve"
    BY <1>4 DEF LookupMiss, Build, TypeOK
  <2>2. UNCHANGED <<inflight, host, key, reserved, outcome, stored, owner, late>>
    BY <1>4 DEF LookupMiss, Build
  <2> QED
    BY <1>1, <2>1, <2>2
<1>5. ASSUME Reserve(r) PROVE RunInv(r)' /\ KeyFree(r) /\ key' = key
  <2>1. /\ pc[r] = "reserve" /\ pc'[r] = "commit" /\ owner[key[r]] = NoRun /\ reserved'[r]
        /\ UNCHANGED <<inflight, host, key, outcome, stored, owner, late>> /\ KeyFree(r)
    BY <1>5 DEF Reserve, TypeOK
  <2> QED
    BY <1>1, <2>1
<1>6. ASSUME ReserveLost(r) PROVE RunInv(r)' /\ ~reserved'[r]
  <2>1. /\ pc[r] = "reserve" /\ pc'[r] = "winner" /\ owner[key[r]] # NoRun
        /\ UNCHANGED <<inflight, host, key, reserved, outcome, stored, owner, late>>
    BY <1>6 DEF ReserveLost, TypeOK
  <2> QED
    BY <1>1, <2>1
<1> QED
  BY <1>2, <1>3, <1>4, <1>5, <1>6, OneRunStep DEF KeyFree

LEMMA TxStep == TypeOK /\ TxInv /\ [Next]_vars => TxInv'
<1> SUFFICES ASSUME TypeOK, TxInv, [Next]_vars PROVE TxInv'
  OBVIOUS
<1>1. ASSUME NEW c \in Callers, NEW r \in Runs, NEW i \in Instances, RunUnkeyed(c, r, i)
      PROVE  TxInv'
  BY <1>1, BeginTx DEF RunUnkeyed
<1>2. ASSUME NEW c \in Callers, NEW r \in Runs, NEW i \in Instances, NEW k \in Keys,
             StartRun(c, r, i, k)
      PROVE  TxInv'
  BY <1>2, BeginTx DEF StartRun
<1>3. ASSUME UNCHANGED <<inflight, pc, runVars, reserved, outcome, dbVars, late>>, AnswersKnown'
      PROVE  TxInv'
  BY <1>3
     DEF TxInv, RunInv, KeyKnown, ReservedKnown, OutcomeKnown, StoredKnown, LateKnown, MapKnown,
         Active, Ended, ReservationsDiffer, OwnersStored, runVars, dbVars
<1>4. ASSUME NEW c \in Callers, NEW i \in Instances, NEW k \in Keys, Coalesce(c, i, k)
      PROVE  TxInv'
  BY <1>3, <1>4 DEF Coalesce, TxInv, AnswersKnown, dbVars
<1>5. ASSUME NEW c \in Callers, Receive(c) PROVE TxInv'
  <2> DEFINE r == waits[c]
  <2>1. r \in Runs /\ RunInv(r)
    BY <1>5 DEF Receive, TypeOK, TxInv
  <2>2. answers' = answers \/ (/\ outcome[r] # NoRun
                              /\ answers' = answers \cup {[key |-> key[r], packet |-> outcome[r]]})
    BY <1>5 DEF Receive
  <2>3. AnswersKnown'
    BY <1>5, <2>1, <2>2 DEF Receive, TxInv, AnswersKnown, RunInv, OutcomeKnown, dbVars
  <2> QED
    BY <1>3, <1>5, <2>3 DEF Receive
<1>6. ASSUME NEW r \in Runs, Unregister(r) PROVE TxInv'
  <2>1. ASSUME NEW s \in Runs, MapKnown(s) PROVE MapKnown(s)'
    <3>1. /\ ~Active(r) /\ inflight[host[r]][key[r]] = r
          /\ inflight' = [inflight EXCEPT ![host[r]][key[r]] = NoRun]
          /\ UNCHANGED <<pc, host, key>>
      BY <1>6 DEF Unregister, Active, runVars
    <3>2. SUFFICES ASSUME Active(s), key[s] # NoKey PROVE inflight'[host[s]][key[s]] = s
      BY <3>1 DEF MapKnown, Active
    <3>3. /\ inflight[host[s]][key[s]] = s /\ s # r
          /\ host[s] \in Instances /\ key[s] \in Keys
      BY <2>1, <3>1, <3>2 DEF MapKnown, TypeOK
    <3> QED
      BY <3>1, <3>3 DEF TypeOK
  <2>2. UNCHANGED <<pc, host, key, reserved, outcome, stored, owner, late, answers>>
    BY <1>6 DEF Unregister, runVars, dbVars
  <2> QED
    BY <2>1, <2>2
       DEF TxInv, RunInv, KeyKnown, ReservedKnown, OutcomeKnown, StoredKnown, LateKnown, Ended,
           ReservationsDiffer, OwnersStored, AnswersKnown
<1>7. CASE UNCHANGED vars
  BY <1>3, <1>7 DEF vars, TxInv, AnswersKnown, dbVars
<1> QED
  BY <1>1, <1>2, <1>4, <1>5, <1>6, <1>7, RunStepTx, CommitTx, CrashTx DEF Next, RunStep

-----------------------------------------------------------------------------
(* The theorems.                                                           *)

LEMMA InvAlways == Spec => [](TypeOK /\ TxInv)
<1>1. Init => TypeOK /\ TxInv
  BY TypeInit, TxInit
<1>2. TypeOK /\ TxInv /\ [Next]_vars => (TypeOK /\ TxInv)'
  BY TypeStep, TxStep
<1> QED
  BY <1>1, <1>2, PTL DEF Spec

\* On one server at most one run works on a key at a time, and a call that comes
\* after its key's packet was stored never runs the agents again
\* (run-exception.ts:15-57): the active run of a key is the one its map names.
THEOREM RunsOncePerKeyAlways == Spec => []RunsOncePerKey
<1>1. ASSUME TypeOK, TxInv PROVE RunsOncePerKey
  <2>1. \A r \in Runs : MapKnown(r) /\ LateKnown(r)
    BY <1>1 DEF TxInv, RunInv
  <2>2. ASSUME NEW r \in Runs, NEW s \in Runs, r # s, Active(r), Active(s),
               host[r] = host[s], key[r] # NoKey
        PROVE  key[r] # key[s]
    BY <2>1, <2>2 DEF MapKnown
  <2> QED
    BY <1>1, <2>1, <2>2 DEF TypeOK, LateKnown, RunsOncePerKey
<1> QED
  BY <1>1, InvAlways, PTL

\* Whoever wins a key, every call with it is given the packet stored under it, and
\* no packet is stored beside that one, also when a commit's reply is lost or an
\* instance dies (run-exception.ts:42-48, store.ts:262-276).
THEOREM AnswersAreCanonicalAlways == Spec => []AnswersAreCanonical
<1>1. ASSUME TypeOK, TxInv PROVE AnswersAreCanonical
  <2>1. \A r \in Runs : StoredKnown(r)
    BY <1>1 DEF TxInv, RunInv
  <2> QED
    BY <1>1, <2>1 DEF TypeOK, TxInv, StoredKnown, AnswersKnown, AnswersAreCanonical
<1> QED
  BY <1>1, InvAlways, PTL
=============================================================================
