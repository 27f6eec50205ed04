----------------------------- MODULE RateLimiter -----------------------------
(***************************************************************************)
(* The fixed-window limiter of the mutation routes                         *)
(* (lib/server/rate-limit.ts): one map of windows in the memory of one     *)
(* server, with a hard cap on the keys it tracks.                          *)
(*                                                                         *)
(* A check is one synchronous call, so it is one action.  Time is in ticks *)
(* of the millisecond clock; a second is Second ticks.                     *)
(***************************************************************************)
EXTENDS Integers, FiniteSets

CONSTANTS
    Routes,        \* routeKey of the guarded routes
    Tokens,        \* bearer tokens (their fingerprints)
    Ips,           \* x-forwarded-for first hops and x-real-ip values
    None,          \* a header that is absent, and the shared demo client
    Limit,         \* MUTATION_RATE_LIMIT.limit
    Window,        \* MUTATION_RATE_LIMIT.windowMs
    Second,        \* ticks of a second
    MaxTracked,    \* MAX_TRACKED_KEYS
    MaxNow,        \* bound on the clock
    MaxBack        \* bound on the steps the wall clock is set back

ASSUME LimiterAssumption ==
    /\ Limit \in Nat \ {0} /\ Window \in Nat \ {0} /\ Second \in Nat \ {0}
    /\ MaxTracked \in Nat \ {0}
    /\ MaxNow \in Nat /\ MaxBack \in Nat
    /\ Tokens \cap Ips = {} /\ None \notin Tokens \cup Ips

Request == [route: Routes, token: Tokens \cup {None}, ip: Ips \cup {None}]
Client == Tokens \cup Ips \cup {None}
Key == Routes \X Client
WindowState == [count: Nat, start: Int]
Age == 0..(Window - 1)

VARIABLES
    tracked,       \* the keys of the map
    bucket,        \* the window of each tracked key
    now,           \* Date.now()
    back,          \* steps back of the clock so far
    recent,        \* history: what each caller got through in the last Window ticks,
                   \* by age, until a window of it is evicted
    dropped,       \* history: keys whose running window was evicted
    told           \* history: the last denial, and when it told the key to come back

historyVars == <<recent, dropped, told>>
limiterVars == <<tracked, bucket, now, back, historyVars>>

NoWindow == [count |-> 0, start |-> 0]

LimiterInit ==
    /\ tracked = {}
    /\ bucket = [k \in Key |-> NoWindow]
    /\ now = 0
    /\ back = 0
    /\ recent = [k \in Key |-> [age \in Age |-> 0]]
    /\ dropped = {}
    /\ told = {}

-----------------------------------------------------------------------------
(* clientIdFromRequest and the key of a window.                            *)

\* (mutant) the proxy headers come before the token
ClientByIp(r) == IF r.ip # None THEN r.ip ELSE r.token

ClientId(r) == IF r.token # None THEN r.token ELSE r.ip

BucketKey(r) == <<r.route, ClientId(r)>>

-----------------------------------------------------------------------------
(* Windows.                                                                *)

Elapsed(k) == now - bucket[k].start >= Window

\* (mutant) the sweep alone, a soft cap
RoomBySweep(rest) ==
    IF Cardinality(tracked) < MaxTracked THEN rest = tracked
    ELSE rest = {k \in tracked : ~Elapsed(k)}

\* (mutant) the newest window is evicted
RoomByNewest(rest) ==
    IF Cardinality(tracked) < MaxTracked THEN rest = tracked
    ELSE LET running == {k \in tracked : ~Elapsed(k)}
         IN  IF Cardinality(running) < MaxTracked THEN rest = running
             ELSE /\ rest \in SUBSET running
                  /\ Cardinality(rest) = MaxTracked - 1
                  /\ \A gone \in running \ rest, k \in rest :
                        bucket[gone].start >= bucket[k].start

\* enforceKeyCap: below the cap nothing is touched; at the cap the elapsed windows
\* are swept, and if all are running the oldest go.
MakeRoom(rest) ==
    IF Cardinality(tracked) < MaxTracked THEN rest = tracked
    ELSE LET running == {k \in tracked : ~Elapsed(k)}
         IN  IF Cardinality(running) < MaxTracked THEN rest = running
             ELSE /\ rest \in SUBSET running
                  /\ Cardinality(rest) = MaxTracked - 1
                  /\ \A gone \in running \ rest, k \in rest :
                        bucket[gone].start <= bucket[k].start

\* Windows that are not in the map hold nothing.
Keep(rest) == [k \in Key |-> IF k \in rest THEN bucket[k] ELSE NoWindow]

\* Who asks: "an authorized caller is rate-limited per token", another one by its
\* address.
Caller(r) == IF r.token \in Tokens THEN r.token ELSE r.ip
Admit(r) ==
    LET k == <<r.route, Caller(r)>>
    IN  recent' = IF k \in dropped THEN recent ELSE [recent EXCEPT ![k][0] = @ + 1]

-----------------------------------------------------------------------------
(* checkRateLimit.                                                         *)

\* A new key opens a window, after room was made for it.
OpenWindow(r) ==
    LET k == BucketKey(r)
    IN  /\ k \notin tracked
        /\ \E rest \in SUBSET tracked :
              /\ MakeRoom(rest)
              /\ tracked' = rest \cup {k}
              /\ bucket' = [Keep(rest) EXCEPT ![k] = [count |-> 1, start |-> now]]
              /\ dropped' = dropped \cup {j \in tracked \ rest : ~Elapsed(j)}
              /\ told' = {d \in told : d.key \in rest}
        /\ Admit(r)
        /\ UNCHANGED <<now, back>>

\* An elapsed window is replaced.
RenewWindow(r) ==
    LET k == BucketKey(r)
    IN  /\ k \in tracked
        /\ Elapsed(k)
        /\ bucket' = [bucket EXCEPT ![k] = [count |-> 1, start |-> now]]
        /\ told' = {d \in told : d.key # k}
        /\ Admit(r)
        /\ UNCHANGED <<tracked, now, back, dropped>>

\* A running window has room.
CountRequest(r) ==
    LET k == BucketKey(r)
    IN  /\ k \in tracked
        /\ ~Elapsed(k)
        /\ bucket[k].count < Limit
        /\ bucket' = [bucket EXCEPT ![k].count = @ + 1]
        /\ Admit(r)
        /\ UNCHANGED <<tracked, now, back, dropped, told>>

\* (mutant) the rest of the window is rounded down
RetryRoundedDown(k) ==
    LET rest == Window - (now - bucket[k].start)
    IN  IF rest < Second THEN 1 ELSE rest \div Second

\* Retry-After, in seconds: the rest of the window, rounded up.
RetryAfterSeconds(k) ==
    LET rest == Window - (now - bucket[k].start)
    IN  IF rest < 1 THEN 1 ELSE (rest + Second - 1) \div Second

\* A running window is full.
Deny(r) ==
    LET k == BucketKey(r)
    IN  /\ k \in tracked
        /\ ~Elapsed(k)
        /\ bucket[k].count >= Limit
        /\ told' = {[key |-> k, back |-> now + RetryAfterSeconds(k) * Second]}
        /\ UNCHANGED <<tracked, bucket, now, back, recent, dropped>>

-----------------------------------------------------------------------------
\* The wall clock goes on, or is set back a tick.
Tick ==
    /\ now < MaxNow
    /\ now' = now + 1
    /\ recent' = [k \in Key |->
                     [age \in Age |-> IF age = 0 THEN 0 ELSE recent[k][age - 1]]]
    /\ UNCHANGED <<tracked, bucket, back, dropped, told>>

SetBack ==
    /\ back < MaxBack
    /\ back' = back + 1
    /\ now' = now - 1
    /\ UNCHANGED <<tracked, bucket, historyVars>>

Check(r) == OpenWindow(r) \/ RenewWindow(r) \/ CountRequest(r) \/ Deny(r)

LimiterNext == (\E r \in Request : Check(r)) \/ Tick \/ SetBack

LimiterSpec == LimiterInit /\ [][LimiterNext]_limiterVars

-----------------------------------------------------------------------------
(* Properties.                                                             *)

\* Every variable holds a value of its kind.
LimiterTypeOK ==
    /\ tracked \subseteq Key
    /\ bucket \in [Key -> WindowState]
    /\ now \in Int
    /\ back \in Nat
    /\ recent \in [Key -> [Age -> Nat]]
    /\ dropped \subseteq Key
    /\ told \subseteq [key: Key, back: Int]

\* f[0] + ... + f[n - 1]
SumTo(f, n) ==
    LET sum[m \in 0..n] == IF m = 0 THEN 0 ELSE sum[m - 1] + f[m - 1]
    IN  sum[n]

\* A caller whose window was never evicted gets fewer than twice the limit
\* through in any stretch of one window's length, whatever headers it rotates: a
\* fixed window's worst burst is one at the end and one at the start.
BurstBounded ==
    \A k \in Key \ dropped : SumTo(recent[k], Window) < 2 * Limit

\* "Retry-After never tells the caller to retry before the window actually rolls
\* over", and never a second later than that, also when the clock is set back
\* (rate-limit.ts:123-128).
RetryIsTold ==
    \A d \in told :
        LET end == bucket[d.key].start + Window
        IN  end <= d.back /\ d.back < end + Second

\* What a caller gets through is bounded, and one that is denied is told the truth.
AdmittedAsTold == LimiterTypeOK /\ BurstBounded /\ RetryIsTold

\* The map never outgrows its cap, however many clients come, in whatever order
\* windows open, elapse and are evicted, and a caller loses its running window
\* (and gets a fresh one) only when the map is full of running windows, none of
\* them older (rate-limit.ts:48-62, 72-99).
EvictsOnlyWhenFull ==
    [][/\ Cardinality(tracked') <= MaxTracked
       /\ \A k \in tracked \ tracked' :
             Elapsed(k) \/ (/\ Cardinality(tracked) = MaxTracked
                            /\ \A j \in tracked : ~Elapsed(j) /\ bucket[k].start <= bucket[j].start)
      ]_limiterVars

=============================================================================
