----------------------------- MODULE SignalFetch -----------------------------
(***************************************************************************)
(* The public signals of a live run (lib/signals/gdelt.ts, fetchers.ts):   *)
(* one process whose callers share a cache, the time of the last call to   *)
(* GDELT and the calls in flight.  What runs between two awaits is one     *)
(* step.  A run always asks the default query; the exported call takes     *)
(* any, so a key is a parameter.                                           *)
(*                                                                         *)
(* Time is counted in ticks of Minute to a minute.  A timer fires when it  *)
(* is due: the aborts bound how long a call may last.                      *)
(***************************************************************************)
EXTENDS Integers, Sequences, FiniteSets, SequencesExt, FiniteSetsExt

CONSTANTS
    None, Unknown,              \* Unknown: the freshness of an article without a usable date
    Callers, Keys,
    Spacing, CacheTtl, MaxServeStale, MaxCacheEntries,
    Timeout, NwsTimeout,        \* the abort timers of the two feeds
    MaxFutureSkew, Minute,
    Batches,                    \* what GDELT may answer: sequences of articles
    MaxTime                     \* bound of the model

\* What is cached is fresh for less long than it may be served.
ASSUME FeedAssumption ==
    /\ {Spacing, CacheTtl, MaxServeStale, MaxCacheEntries, Timeout, NwsTimeout, MaxFutureSkew}
          \subseteq Nat
    /\ CacheTtl <= MaxServeStale
    /\ Minute \in Nat \ {0}
    /\ None \notin Int
    /\ \A batch \in Batches :
          Len(batch) \in Nat /\ \A i \in 1..Len(batch) : batch[i].ago \in Int \cup {None}

VARIABLES
    now,
    lastCall,                   \* state.lastCallAt
    cache,                      \* state.cache, in the order of insertion
    flights,                    \* state.inFlight: what a call knew when it began
    request,                    \* what each caller waits for and was given
    heard                       \* when GDELT was last called: a record for the properties

vars == <<now, lastCall, cache, flights, request, heard>>

Minutes(ticks) == (2 * ticks + Minute) \div (2 * Minute)

-----------------------------------------------------------------------------
(* Articles.                                                               *)

\* A date nobody can parse, or one too far ahead, is never fresh.
Freshness(seen) ==
    IF seen = None THEN Unknown
    ELSE IF now - seen < -MaxFutureSkew THEN Unknown
    ELSE Max({0, Minutes(now - seen)})

\* An article is [url, ago, usable]: ago is how old its date makes it, None when it has no
\* usable date; an unsafe link or a field the schema refuses makes it unusable.
MapArticle(article, status) ==
    LET seen == IF article.ago = None THEN None ELSE now - article.ago
    IN  [url |-> article.url, seen |-> seen, fetched |-> now, freshness |-> Freshness(seen),
         status |-> status]

\* A bad article is skipped, and so is another of a URL that is there.
AddArticle(signals, article, status) ==
    IF article.usable /\ \A i \in DOMAIN signals : signals[i].url # article.url
      THEN Append(signals, MapArticle(article, status)) ELSE signals

MapGdeltArticles(articles, status) ==
    LET after[n \in 0..Len(articles)] ==
            IF n = 0 THEN <<>> ELSE AddArticle(after[n - 1], articles[n], status)
    IN  after[Len(articles)]

-----------------------------------------------------------------------------
(* The cache.                                                              *)

\* A Map: a key has at most one entry.
Entry(key) ==
    LET found == {e \in Range(cache) : e.key = key}
    IN  IF found = {} THEN None ELSE CHOOSE e \in found : TRUE
AgeOf(entry) == IF entry = None THEN None ELSE Max({0, now - entry.at})

\* A refreshed entry keeps its place, so the first inserted is the first to go.
SetCache(key, signals) ==
    LET entry == [key |-> key, at |-> now, signals |-> signals]
        set == IF Entry(key) = None THEN Append(cache, entry)
               ELSE [i \in DOMAIN cache |-> IF cache[i].key = key THEN entry ELSE cache[i]]
    IN  SubSeq(set, 1 + Max({0, Len(set) - MaxCacheEntries}), Len(set))

\* (mutant) the articles stay as fresh as they were when they were cached
CacheResultUnaged(entry, age) ==
    [status |-> "CACHED", age |-> age,
     signals |-> [i \in DOMAIN entry.signals |-> [entry.signals[i] EXCEPT !.status = "CACHED"]]]

\* Served again, an article says so, and has aged.
CacheResult(entry, age) ==
    [status |-> "CACHED", age |-> age,
     signals |-> [i \in DOMAIN entry.signals |->
                    [entry.signals[i] EXCEPT
                        !.status = "CACHED",
                        !.freshness = IF @ = Unknown THEN Unknown ELSE @ + Minutes(age)]]]

FailedResult == [status |-> "FAILED", age |-> 0, signals |-> <<>>]

\* (mutant) on a failure anything cached is better than nothing
ServeAnyCache(entry, age) == IF entry # None THEN CacheResult(entry, age) ELSE FailedResult

ServeCacheIfFresh(entry, age) ==
    IF entry # None /\ age <= MaxServeStale THEN CacheResult(entry, age) ELSE FailedResult

-----------------------------------------------------------------------------
(* fetchGdeltSignals.                                                      *)

Idle == [stage |-> "idle", key |-> None, since |-> 0, gdelt |-> None]

Init ==
    /\ now = 0 /\ lastCall = None /\ heard = None /\ cache = <<>>
    /\ flights = [k \in Keys |-> None]
    /\ request = [c \in Callers |-> Idle]

\* The caller goes on to the weather service.
Answered(r, answer) ==
    [r EXCEPT !.stage = "nws", !.gdelt = [answer |-> answer, asked |-> r.since, at |-> now],
              !.since = now]
Asking(key) == [Idle EXCEPT !.stage = "gdelt", !.key = key, !.since = now]

TooSoon == lastCall # None /\ now - lastCall < Spacing

\* Fresh cache, then the call in flight, then the spacing, then a call.
Fresh(key) == Entry(key) # None /\ AgeOf(Entry(key)) < CacheTtl

ServeFresh(c, key) ==
    /\ Fresh(key)
    /\ request' = [request EXCEPT ![c] =
            Answered(Asking(key), CacheResult(Entry(key), AgeOf(Entry(key))))]
    /\ UNCHANGED <<now, lastCall, cache, flights, heard>>

Join(c, key) ==
    /\ ~Fresh(key) /\ flights[key] # None
    /\ request' = [request EXCEPT ![c] = Asking(key)]
    /\ UNCHANGED <<now, lastCall, cache, flights, heard>>

HoldBack(c, key) ==
    /\ ~Fresh(key) /\ flights[key] = None /\ TooSoon
    /\ request' = [request EXCEPT ![c] =
            Answered(Asking(key), ServeCacheIfFresh(Entry(key), AgeOf(Entry(key))))]
    /\ UNCHANGED <<now, lastCall, cache, flights, heard>>

\* (mutant) the spacing counts from the calls that were answered
CallUnmarked(c, key) ==
    /\ ~Fresh(key) /\ flights[key] = None /\ ~TooSoon
    /\ flights' = [flights EXCEPT ![key] =
            [started |-> now, cached |-> Entry(key), age |-> AgeOf(Entry(key))]]
    /\ request' = [request EXCEPT ![c] = Asking(key)]
    /\ heard' = now
    /\ UNCHANGED <<now, lastCall, cache>>

\* The entry a failure may fall back to, and its age, are taken before the call.
Call(c, key) ==
    /\ ~Fresh(key) /\ flights[key] = None /\ ~TooSoon
    /\ lastCall' = now /\ heard' = now
    /\ flights' = [flights EXCEPT ![key] =
            [started |-> now, cached |-> Entry(key), age |-> AgeOf(Entry(key))]]
    /\ request' = [request EXCEPT ![c] = Asking(key)]
    /\ UNCHANGED <<now, cache>>

\* (mutant) the answer reaches only whoever made the call
LandOnCaller(key, answer) ==
    request' = [c \in Callers |->
        IF request[c].stage = "gdelt" /\ request[c].key = key /\ request[c].since = flights[key].started
        THEN Answered(request[c], answer) ELSE request[c]]

\* Everyone who waits for the call is given its answer.
Land(key, answer) ==
    request' = [c \in Callers |->
        IF request[c].stage = "gdelt" /\ request[c].key = key THEN Answered(request[c], answer)
        ELSE request[c]]

LiveAnswer(key) ==
    /\ flights[key] # None
    /\ \E batch \in Batches :
          LET signals == MapGdeltArticles(batch, "LIVE")
          IN  /\ cache' = SetCache(key, signals)
              /\ Land(key, [status |-> "LIVE", age |-> 0, signals |-> signals])
    /\ flights' = [flights EXCEPT ![key] = None]
    /\ UNCHANGED <<now, lastCall, heard>>

\* Throttled, refused, malformed, broken off or aborted.
DegradeOnFailure(key) ==
    /\ flights[key] # None
    /\ Land(key, ServeCacheIfFresh(flights[key].cached, flights[key].age))
    /\ flights' = [flights EXCEPT ![key] = None]
    /\ UNCHANGED <<now, lastCall, cache, heard>>

-----------------------------------------------------------------------------
(* fetchPublicSignals.                                                     *)

\* What a failed feed is shown as.
GdeltUnavailableMarker ==
    [url |-> "unavailable", seen |-> None, fetched |-> now, freshness |-> Unknown, status |-> "FAILED"]

Board(gdelt) ==
    IF gdelt.status = "FAILED" THEN <<GdeltUnavailableMarker>> ELSE gdelt.signals

\* The weather service answers, fails or is aborted, and in each case its one signal (an
\* alert, none, or the fixture that says it is one) completes the board that is returned.
FetchNwsOrCached(c) ==
    /\ request[c].stage = "nws"
    /\ request' = [request EXCEPT ![c] = Idle]
    /\ UNCHANGED <<now, lastCall, cache, flights, heard>>

Ask(c, key) ==
    /\ request[c].stage = "idle"
    /\ ServeFresh(c, key) \/ Join(c, key) \/ HoldBack(c, key) \/ Call(c, key)

\* No timer is overdue.
Tick ==
    /\ now < MaxTime
    /\ \A k \in Keys : flights[k] # None => now - flights[k].started < Timeout
    /\ \A c \in Callers : request[c].stage = "nws" => now - request[c].since < NwsTimeout
    /\ now' = now + 1
    /\ UNCHANGED <<lastCall, cache, flights, request, heard>>

Next ==
    \/ Tick
    \/ \E c \in Callers, k \in Keys : Ask(c, k)
    \/ \E k \in Keys : LiveAnswer(k) \/ DegradeOnFailure(k)
    \/ \E c \in Callers : FetchNwsOrCached(c)

Spec == Init /\ [][Next]_vars

\* The abort timers end every call.
FairSpec ==
    /\ Spec
    /\ \A k \in Keys : WF_vars(LiveAnswer(k) \/ DegradeOnFailure(k))
    /\ \A c \in Callers : WF_vars(FetchNwsOrCached(c))

-----------------------------------------------------------------------------
(* Properties.                                                             *)

\* What a caller is given is what it is said to be (gdelt.ts:10-15, 21).  Live articles were
\* fetched after it asked; older ones say so, are no older than the limit for serving
\* stale and the call that was waited for, and none claims to be fresher than it is but for
\* that wait and the rounding of two ages; a feed that failed leaves a marker.
ServedAsWhatItIs ==
    \A c \in Callers : request[c].stage = "nws" =>
        LET got == request[c].gdelt
            signals == Range(Board(got.answer))
        IN  /\ got.answer.status = "FAILED" <=> \E s \in signals : s.status = "FAILED"
            /\ \A s \in signals :
                  /\ s.status = "LIVE" => s.fetched >= got.asked
                  /\ s.fetched < got.asked =>
                        s.status = "CACHED" /\ got.at - s.fetched <= MaxServeStale + Timeout
                  /\ s.freshness # Unknown =>
                        (s.freshness + 1) * Minute >= (got.at - s.seen) - Timeout
            /\ \A s, t \in signals : s.url = t.url => s = t

\* Two calls to GDELT are at least Spacing apart, only one is out for a key, and whoever asks
\* is answered (gdelt.ts:11-13).
CallsSpaced ==
    [][\A k \in Keys :
          flights'[k] # None /\ flights'[k] # flights[k] =>
              flights[k] = None /\ (heard # None => now - heard >= Spacing)]_vars
CallsSpacedAndAnswered ==
    /\ CallsSpaced
    /\ \A c \in Callers : (request[c].stage = "gdelt") ~> (request[c].stage = "idle")
=============================================================================
