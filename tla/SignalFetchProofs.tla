--------------------------- MODULE SignalFetchProofs ---------------------------
(***************************************************************************)
(* What a caller of the signal feeds is given, and how far apart the calls *)
(* to GDELT are, for any callers, queries, answers, limits and timers.     *)
(***************************************************************************)
EXTENDS SignalFetch, SequenceTheorems, WellFoundedInduction, TLAPS

-----------------------------------------------------------------------------
(* Numbers: see RunRouteProofs.                                            *)

LEMMA LeastNumber ==
    ASSUME NEW T \in SUBSET Nat, T # {}
    PROVE  \E x \in T : \A y \in T : x <= y
<1>1. PICK x \in T : \A y \in T : ~ (<<y, x>> \in OpToRel(<, Nat))
  BY WFMin, NatLessThanWellFounded, Zenon
<1>2. \A y \in T : ~(y < x)
  BY <1>1, Zenon DEF OpToRel
<1> QED
  BY <1>2

LEMMA Induct ==
    ASSUME NEW T \in SUBSET Nat, 0 \in T, \A n \in T : n + 1 \in T
    PROVE  T = Nat
<1>1. SUFFICES ASSUME Nat \ T # {} PROVE FALSE
  OBVIOUS
<1>2. PICK x \in Nat \ T : \A y \in Nat \ T : x <= y
  BY <1>1, LeastNumber
<1>3. x - 1 \in Nat /\ x - 1 \notin Nat \ T
  BY <1>2
<1>4. (x - 1) + 1 \in T
  BY <1>3
<1> QED
  BY <1>2, <1>4

LEMMA Limits ==
    /\ Spacing \in Nat /\ CacheTtl \in Nat /\ MaxServeStale \in Nat /\ MaxCacheEntries \in Nat
    /\ Timeout \in Nat /\ NwsTimeout \in Nat /\ MaxFutureSkew \in Nat
    /\ CacheTtl <= MaxServeStale /\ Minute \in Nat /\ Minute > 0 /\ None \notin Int
BY FeedAssumption

LEMMA MaxOfZero ==
    ASSUME NEW a \in Int
    PROVE  Max({0, a}) \in Nat /\ Max({0, a}) >= a /\ (a >= 0 => Max({0, a}) = a)
<1> DEFINE m == IF a >= 0 THEN a ELSE 0
<1>1. m \in {0, a} /\ \A y \in {0, a} : m >= y
  OBVIOUS
<1>2. ASSUME NEW x \in {0, a}, \A y \in {0, a} : x >= y PROVE x = m
  BY <1>2
<1> HIDE DEF m
<1>3. (CHOOSE x \in {0, a} : \A y \in {0, a} : x >= y) = m
  BY <1>1, <1>2
<1>4. Max({0, a}) = m
  BY <1>3 DEF Max
<1> QED
  BY <1>4 DEF m

\* A number of minutes is rounded by half a minute at most.
LEMMA MinutesIs ==
    ASSUME NEW t \in Int
    PROVE  Minutes(t) \in Int /\ 2 * (Minute * Minutes(t)) + Minute >= 2 * t
<1> DEFINE a == 2 * t + Minute
           b == 2 * Minute
           q == a \div b
<1>1. a \in Int /\ b \in Nat /\ b > 0
  BY Limits
<1> HIDE DEF a, b
<1>2. q \in Int /\ b * q + b > a
  BY <1>1
<1>3. Minutes(t) = q
  BY DEF Minutes, a, b
<1> HIDE DEF q
<1>4. b * q = 2 * (Minute * q)
  BY <1>2, Limits DEF b
<1> QED
  BY <1>2, <1>3, <1>4, Limits DEF a, b

-----------------------------------------------------------------------------
(* Articles.                                                               *)

IsSequence(s) == \E S : s \in Seq(S)

\* A live article fetched at t is no fresher than its date, but for the rounding.
Honest(s, t) ==
    /\ DOMAIN s = {"url", "seen", "fetched", "freshness", "status"}
    /\ s.status = "LIVE" /\ s.fetched = t
    /\ s.freshness # Unknown =>
          /\ s.freshness \in Int /\ s.seen \in Int
          /\ 2 * (Minute * s.freshness) + Minute >= 2 * (t - s.seen)
Distinct(signals) ==
    \A i, j \in DOMAIN signals : signals[i].url = signals[j].url => i = j
Mapped(signals, t) ==
    IsSequence(signals) /\ Distinct(signals) /\ \A i \in DOMAIN signals : Honest(signals[i], t)

LEMMA SequenceFacts ==
    ASSUME NEW s, IsSequence(s)
    PROVE  /\ Len(s) \in Nat /\ DOMAIN s = 1..Len(s)
           /\ \A e : /\ IsSequence(Append(s, e)) /\ DOMAIN Append(s, e) = 1..(Len(s) + 1)
                     /\ Append(s, e)[Len(s) + 1] = e
                     /\ \A i \in 1..Len(s) : Append(s, e)[i] = s[i]
<1>1. PICK S : s \in Seq(S)
  BY DEF IsSequence
<1>2. ASSUME NEW e
      PROVE  /\ IsSequence(Append(s, e)) /\ DOMAIN Append(s, e) = 1..(Len(s) + 1)
             /\ Append(s, e)[Len(s) + 1] = e
             /\ \A i \in 1..Len(s) : Append(s, e)[i] = s[i]
  <2>1. s \in Seq(S \cup {e})
    BY <1>1
  <2>2. Append(s, e) \in Seq(S \cup {e})
    BY <2>1
  <2>3. IsSequence(Append(s, e))
    BY <2>2 DEF IsSequence
  <2> QED
    BY <2>1, <2>3
<1> QED
  BY <1>1, <1>2

LEMMA ArticleIsHonest ==
    ASSUME now \in Nat, NEW article, article.ago \in Int \cup {None}
    PROVE  Honest(MapArticle(article, "LIVE"), now) /\ MapArticle(article, "LIVE").url = article.url
<1> DEFINE seen == IF article.ago = None THEN None ELSE now - article.ago
           s == MapArticle(article, "LIVE")
<1>1. s = [url |-> article.url, seen |-> seen, fetched |-> now, freshness |-> Freshness(seen),
           status |-> "LIVE"]
  BY DEF MapArticle
<1> HIDE DEF s
<1>2. /\ s.url = article.url /\ s.seen = seen /\ s.fetched = now /\ s.freshness = Freshness(seen)
      /\ s.status = "LIVE" /\ DOMAIN s = {"url", "seen", "fetched", "freshness", "status"}
  BY <1>1
<1>3. ASSUME Freshness(seen) # Unknown
      PROVE  /\ Freshness(seen) \in Int /\ seen \in Int
             /\ 2 * (Minute * Freshness(seen)) + Minute >= 2 * (now - seen)
  <2>1. seen # None /\ Freshness(seen) = Max({0, Minutes(now - seen)})
    BY <1>3 DEF Freshness
  <2>2. seen \in Int
    BY <2>1
  <2> DEFINE d == now - seen
             q == Minutes(d)
             f == Max({0, q})
  <2>3. d \in Int
    BY <2>2
  <2> HIDE DEF d
  <2>4. q \in Int /\ 2 * (Minute * q) + Minute >= 2 * d
    BY <2>3, MinutesIs
  <2> HIDE DEF q
  <2>5. f \in Nat /\ f >= q
    BY <2>4, MaxOfZero
  <2> HIDE DEF f
  <2>6. Minute * f >= Minute * q
    BY <2>4, <2>5, Limits
  <2>7. 2 * (Minute * f) + Minute >= 2 * d
    <3>1. Minute * f \in Int /\ Minute * q \in Int
      BY <2>4, <2>5, Limits
    <3> QED
      BY <2>3, <2>4, <2>6, <3>1, Limits
  <2> QED
    BY <2>1, <2>2, <2>5, <2>7 DEF f, q, d
<1> QED
  BY <1>2, <1>3 DEF Honest, s

LEMMA ArticleAdded ==
    ASSUME now \in Nat, NEW signals, Mapped(signals, now),
           NEW article, article.ago \in Int \cup {None}
    PROVE  Mapped(AddArticle(signals, article, "LIVE"), now)
<1> DEFINE s == MapArticle(article, "LIVE")
           new == \A i \in DOMAIN signals : signals[i].url # article.url
<1>1. Honest(s, now) /\ s.url = article.url
  BY ArticleIsHonest
<1> HIDE DEF s
<1>2. CASE article.usable /\ new
  <2>1. AddArticle(signals, article, "LIVE") = Append(signals, s)
    BY <1>2 DEF AddArticle, s
  <2>2. IsSequence(signals) /\ Distinct(signals) /\ \A i \in DOMAIN signals : Honest(signals[i], now)
    BY DEF Mapped
  <2> DEFINE n == Len(signals)
             t == Append(signals, s)
  <2>3. /\ n \in Nat /\ DOMAIN signals = 1..n /\ IsSequence(t) /\ DOMAIN t = 1..(n + 1)
        /\ t[n + 1] = s /\ \A i \in 1..n : t[i] = signals[i]
    BY <2>2, SequenceFacts
  <2> HIDE DEF n, t
  <2>4. \A i \in DOMAIN t : i \in 1..n \/ i = n + 1
    BY <2>3
  <2>5. \A i \in DOMAIN t : Honest(t[i], now)
    BY <1>1, <2>2, <2>3, <2>4
  <2>6. Distinct(t)
    <3>1. ASSUME NEW i \in DOMAIN t, NEW j \in DOMAIN t, t[i].url = t[j].url PROVE i = j
      <4>1. CASE i \in 1..n /\ j \in 1..n
        BY <2>2, <2>3, <3>1, <4>1 DEF Distinct
      <4>2. CASE i \in 1..n /\ j = n + 1
        BY <1>1, <1>2, <2>3, <3>1, <4>2
      <4>3. CASE i = n + 1 /\ j \in 1..n
        BY <1>1, <1>2, <2>3, <3>1, <4>3
      <4> QED
        BY <2>4, <4>1, <4>2, <4>3
    <3> QED
      BY <3>1 DEF Distinct
  <2> QED
    BY <2>1, <2>3, <2>5, <2>6 DEF Mapped, t
<1>3. CASE ~(article.usable /\ new)
  BY <1>3 DEF AddArticle
<1> QED
  BY <1>2, <1>3

\* f maps the first n articles.
IsMapping(f, articles, n) ==
    f = [m \in 0..n |-> IF m = 0 THEN <<>> ELSE AddArticle(f[m - 1], articles[m], "LIVE")]

LEMMA MappingExists ==
    ASSUME NEW articles, NEW n \in Nat PROVE \E f : IsMapping(f, articles, n)
<1> DEFINE T == {k \in Nat : \E f : IsMapping(f, articles, k)}
<1>1. 0 \in T
  <2> DEFINE f == [m \in 0..0 |-> <<>>]
  <2>1. IsMapping(f, articles, 0)
    BY DEF IsMapping
  <2> QED
    BY <2>1
<1>2. ASSUME NEW k \in T PROVE k + 1 \in T
  <2>1. PICK f : IsMapping(f, articles, k)
    OBVIOUS
  <2> DEFINE g == [m \in 0..(k + 1) |->
                      IF m = k + 1 THEN AddArticle(f[k], articles[k + 1], "LIVE") ELSE f[m]]
  <2>2. ASSUME NEW m \in 0..(k + 1)
        PROVE  g[m] = IF m = 0 THEN <<>> ELSE AddArticle(g[m - 1], articles[m], "LIVE")
    <3>1. CASE m = k + 1
      BY <3>1
    <3>2. CASE m # k + 1
      <4>1. m \in 0..k /\ g[m] = f[m] /\ (m # 0 => m - 1 \in 0..(k + 1) /\ g[m - 1] = f[m - 1])
        BY <3>2
      <4>2. f[m] = IF m = 0 THEN <<>> ELSE AddArticle(f[m - 1], articles[m], "LIVE")
        BY <2>1, <4>1 DEF IsMapping
      <4> QED
        BY <4>1, <4>2
    <3> QED
      BY <3>1, <3>2
  <2>3. g = [m \in 0..(k + 1) |-> g[m]]
    OBVIOUS
  <2> HIDE DEF g
  <2>4. IsMapping(g, articles, k + 1)
    BY <2>2, <2>3 DEF IsMapping
  <2> QED
    BY <2>4
<1> HIDE DEF T
<1>3. T \in SUBSET Nat
  BY DEF T
<1>4. T = Nat
  BY <1>1, <1>2, <1>3, Induct
<1> QED
  BY <1>4 DEF T

\* What GDELT answers is mapped to honest live articles, one for a URL.
LEMMA AnswerIsMapped ==
    ASSUME now \in Nat, NEW batch \in Batches
    PROVE  Mapped(MapGdeltArticles(batch, "LIVE"), now)
<1> DEFINE after == CHOOSE f : IsMapping(f, batch, Len(batch))
<1>0. Len(batch) \in Nat /\ \A i \in 1..Len(batch) : batch[i].ago \in Int \cup {None}
  BY FeedAssumption
<1>1. IsMapping(after, batch, Len(batch))
  <2>1. \E f : IsMapping(f, batch, Len(batch))
    BY <1>0, MappingExists
  <2> QED
    BY <2>1
<1>2. MapGdeltArticles(batch, "LIVE") = after[Len(batch)]
  BY DEF MapGdeltArticles, IsMapping
<1> HIDE DEF after
<1> DEFINE T == {k \in Nat : k <= Len(batch) => Mapped(after[k], now)}
<1>3. 0 \in T
  <2>1. after[0] = <<>>
    BY <1>0, <1>1 DEF IsMapping
  <2>2. IsSequence(<<>>)
    <3>1. <<>> \in Seq({})
      OBVIOUS
    <3> QED
      BY <3>1 DEF IsSequence
  <2>3. Mapped(<<>>, now)
    BY <2>2 DEF Mapped, Distinct
  <2> QED
    BY <2>1, <2>3
<1>4. ASSUME NEW k \in T PROVE k + 1 \in T
  <2>1. CASE k + 1 <= Len(batch)
    <3>1. after[k + 1] = AddArticle(after[k], batch[k + 1], "LIVE")
      BY <1>0, <1>1, <2>1 DEF IsMapping
    <3>2. Mapped(after[k], now) /\ batch[k + 1].ago \in Int \cup {None}
      BY <1>0, <2>1
    <3> QED
      BY <3>1, <3>2, ArticleAdded
  <2> QED
    BY <2>1
<1> HIDE DEF T
<1>5. T \in SUBSET Nat
  BY DEF T
<1>6. T = Nat
  BY <1>3, <1>4, <1>5, Induct
<1> QED
  BY <1>0, <1>2, <1>6 DEF T

-----------------------------------------------------------------------------
(* Answers.                                                                *)

\* An entry of the cache at the time t.
EnteredBy(entry, t) ==
    entry.at \in Nat /\ entry.at <= t /\ Mapped(entry.signals, entry.at)

\* An article served at the time at to one who asked is what it says.
TrueOf(s, asked, at) ==
    /\ s.status \in {"LIVE", "CACHED"}
    /\ s.status = "LIVE" => s.fetched >= asked
    /\ s.fetched < asked => s.status = "CACHED" /\ at - s.fetched <= MaxServeStale + Timeout
    /\ s.freshness # Unknown => (s.freshness + 1) * Minute >= (at - s.seen) - Timeout

AnswerIsTrue(answer, asked, at) ==
    \/ answer.status = "FAILED"
    \/ /\ answer.status \in {"LIVE", "CACHED"} /\ Distinct(answer.signals)
       /\ \A i \in DOMAIN answer.signals : TrueOf(answer.signals[i], asked, at)

LEMMA LiveIsTrue ==
    ASSUME NEW at \in Nat, NEW asked \in Nat, asked <= at, NEW signals, Mapped(signals, at)
    PROVE  AnswerIsTrue([status |-> "LIVE", age |-> 0, signals |-> signals], asked, at)
<1>1. ASSUME NEW i \in DOMAIN signals PROVE TrueOf(signals[i], asked, at)
  <2> DEFINE s == signals[i]
  <2>1. Honest(s, at)
    BY DEF Mapped
  <2> HIDE DEF s
  <2>2. ASSUME s.freshness # Unknown PROVE (s.freshness + 1) * Minute >= (at - s.seen) - Timeout
    <3>1. /\ s.freshness \in Int /\ s.seen \in Int
          /\ 2 * (Minute * s.freshness) + Minute >= 2 * (at - s.seen)
      BY <2>1, <2>2 DEF Honest
    <3>2. (s.freshness + 1) * Minute = Minute * s.freshness + Minute /\ Minute * s.freshness \in Int
      BY <3>1, Limits
    <3> QED
      BY <3>1, <3>2, Limits
  <2>3. s.status = "LIVE" /\ s.fetched = at
    BY <2>1 DEF Honest
  <2> QED
    BY <2>2, <2>3 DEF TrueOf, s
<1> QED
  BY <1>1 DEF AnswerIsTrue, Mapped

\* What is cached is true when it is served at once, or after the call that was
\* waited for.
LEMMA CachedIsTrue ==
    ASSUME NEW entry, NEW t \in Nat, EnteredBy(entry, t), NEW age, age = t - entry.at,
           age <= MaxServeStale, NEW at \in Nat, t <= at, at <= t + Timeout,
           NEW asked \in Nat, asked <= at
    PROVE  AnswerIsTrue(CacheResult(entry, age), asked, at)
<1> DEFINE answer == CacheResult(entry, age)
<1>1. /\ answer.status = "CACHED" /\ DOMAIN answer.signals = DOMAIN entry.signals
      /\ \A i \in DOMAIN entry.signals : answer.signals[i] =
            [entry.signals[i] EXCEPT
                !.status = "CACHED",
                !.freshness = IF @ = Unknown THEN Unknown ELSE @ + Minutes(age)]
  BY DEF CacheResult
<1> HIDE DEF answer
<1>2. /\ entry.at \in Nat /\ entry.at <= t /\ Distinct(entry.signals)
      /\ \A i \in DOMAIN entry.signals : Honest(entry.signals[i], entry.at)
  BY DEF EnteredBy, Mapped
<1>3. ASSUME NEW i \in DOMAIN entry.signals
      PROVE  TrueOf(answer.signals[i], asked, at) /\ answer.signals[i].url = entry.signals[i].url
  <2> DEFINE s == entry.signals[i]
             r == answer.signals[i]
             q == Minutes(age)
  <2>1. Honest(s, entry.at)
    BY <1>2
  <2>2. r = [s EXCEPT !.status = "CACHED",
                      !.freshness = IF s.freshness = Unknown THEN Unknown ELSE s.freshness + q]
    BY <1>1
  <2>3. q \in Int /\ 2 * (Minute * q) + Minute >= 2 * age
    BY <1>2, MinutesIs
  <2> HIDE DEF s, r, q
  <2>4. /\ r.url = s.url /\ r.status = "CACHED" /\ r.fetched = s.fetched /\ r.seen = s.seen
        /\ r.freshness = (IF s.freshness = Unknown THEN Unknown ELSE s.freshness + q)
    BY <2>1, <2>2 DEF Honest
  <2>5. s.fetched = entry.at
    BY <2>1 DEF Honest
  <2>6. at - r.fetched <= MaxServeStale + Timeout
    BY <1>2, <2>4, <2>5, Limits
  <2>7. ASSUME r.freshness # Unknown PROVE (r.freshness + 1) * Minute >= (at - r.seen) - Timeout
    <3>1. s.freshness # Unknown /\ r.freshness = s.freshness + q
      BY <2>4, <2>7
    <3>2. /\ s.freshness \in Int /\ s.seen \in Int
          /\ 2 * (Minute * s.freshness) + Minute >= 2 * (entry.at - s.seen)
      BY <2>1, <3>1 DEF Honest
    <3>3. /\ (r.freshness + 1) * Minute = Minute * s.freshness + Minute * q + Minute
          /\ Minute * s.freshness \in Int /\ Minute * q \in Int
      BY <2>3, <3>1, <3>2, Limits
    <3>4. Minute * s.freshness + Minute * q + Minute >= t - s.seen
      BY <1>2, <2>3, <3>2, <3>3, Limits
    <3>5. t - s.seen >= (at - r.seen) - Timeout
      BY <2>4, <3>2, Limits
    <3> QED
      BY <2>4, <3>2, <3>3, <3>4, <3>5, Limits
  <2> QED
    BY <2>4, <2>6, <2>7 DEF TrueOf, s, r
<1>4. Distinct(answer.signals)
  BY <1>1, <1>2, <1>3 DEF Distinct
<1> QED
  BY <1>1, <1>3, <1>4 DEF AnswerIsTrue, answer

\* Cached or failed.
LEMMA StaleIsTrue ==
    ASSUME NEW entry, NEW t \in Nat, entry # None => EnteredBy(entry, t),
           NEW age, entry # None => age = t - entry.at,
           NEW at \in Nat, t <= at, at <= t + Timeout, NEW asked \in Nat, asked <= at
    PROVE  AnswerIsTrue(ServeCacheIfFresh(entry, age), asked, at)
<1>1. CASE entry # None /\ age <= MaxServeStale
  BY <1>1, CachedIsTrue DEF ServeCacheIfFresh
<1>2. CASE ~(entry # None /\ age <= MaxServeStale)
  BY <1>2 DEF ServeCacheIfFresh, FailedResult, AnswerIsTrue
<1> QED
  BY <1>1, <1>2

-----------------------------------------------------------------------------
(* The state.                                                              *)

Times == now \in Nat /\ heard = lastCall /\ (lastCall # None => lastCall \in Int)

CacheKnown == IsSequence(cache) /\ \A i \in DOMAIN cache : EnteredBy(cache[i], now)

\* A call under way is within its abort timer, and knows the entry of when it began.
FlightKnown(flight) ==
    flight # None =>
        /\ flight.started \in Nat /\ flight.started <= now /\ now <= flight.started + Timeout
        /\ flight.cached # None =>
              EnteredBy(flight.cached, flight.started) /\ flight.age = flight.started - flight.cached.at
FlightsKnown == DOMAIN flights = Keys /\ \A k \in Keys : FlightKnown(flights[k])

Given(got, t) ==
    /\ got.asked \in Nat /\ got.at \in Nat /\ got.asked <= got.at /\ got.at <= t
    /\ AnswerIsTrue(got.answer, got.asked, got.at)
RequestKnown(r) ==
    /\ DOMAIN r = {"stage", "key", "since", "gdelt"}
    /\ r.stage \in {"gdelt", "nws"} => r.since \in Nat /\ r.since <= now
    /\ r.stage = "nws" => Given(r.gdelt, now)
RequestsKnown == DOMAIN request = Callers /\ \A c \in Callers : RequestKnown(request[c])

FeedInv == Times /\ CacheKnown /\ FlightsKnown /\ RequestsKnown

LEMMA EntryKnown ==
    ASSUME CacheKnown, NEW key
    PROVE  Entry(key) # None => EnteredBy(Entry(key), now)
<1> DEFINE found == {e \in Range(cache) : e.key = key}
<1>1. CASE found = {}
  BY <1>1 DEF Entry
<1>2. CASE found # {}
  <2>1. Entry(key) \in found
    BY <1>2 DEF Entry
  <2>2. \E i \in DOMAIN cache : Entry(key) = cache[i]
    BY <2>1 DEF Range
  <2> QED
    BY <2>2 DEF CacheKnown
<1> QED
  BY <1>1, <1>2

\* The age of an entry is the time since.
LEMMA AgeKnown ==
    ASSUME now \in Nat, NEW entry, entry # None, EnteredBy(entry, now)
    PROVE  AgeOf(entry) = now - entry.at
<1> DEFINE d == now - entry.at
<1>1. d \in Int /\ d >= 0
  BY DEF EnteredBy
<1> HIDE DEF d
<1>2. Max({0, d}) = d
  BY <1>1, MaxOfZero
<1> QED
  BY <1>2 DEF AgeOf, d

\* Time leaves the entries known.
LEMMA EnteredStays ==
    ASSUME NEW entry, NEW t \in Nat, NEW u \in Nat, t <= u, EnteredBy(entry, t)
    PROVE  EnteredBy(entry, u)
BY DEF EnteredBy

LEMMA CacheIsSet ==
    ASSUME FeedInv, NEW key, NEW signals, Mapped(signals, now)
    PROVE  LET next == SetCache(key, signals)
           IN  IsSequence(next) /\ \A i \in DOMAIN next : EnteredBy(next[i], now)
<1> DEFINE entry == [key |-> key, at |-> now, signals |-> signals]
           set == IF Entry(key) = None THEN Append(cache, entry)
                  ELSE [i \in DOMAIN cache |-> IF cache[i].key = key THEN entry ELSE cache[i]]
           from == 1 + Max({0, Len(set) - MaxCacheEntries})
           next == SubSeq(set, from, Len(set))
<1>1. SetCache(key, signals) = next
  BY DEF SetCache
<1>2. EnteredBy(entry, now)
  <2>1. entry.at = now /\ entry.signals = signals
    OBVIOUS
  <2> HIDE DEF entry
  <2> QED
    BY <2>1 DEF EnteredBy, FeedInv, Times
<1> HIDE DEF entry
<1>3. /\ IsSequence(cache) /\ Len(cache) \in Nat /\ DOMAIN cache = 1..Len(cache)
      /\ \A i \in DOMAIN cache : EnteredBy(cache[i], now)
  BY SequenceFacts DEF FeedInv, CacheKnown
<1>4. IsSequence(set) /\ \A i \in DOMAIN set : EnteredBy(set[i], now)
  <2>1. CASE Entry(key) = None
    <3> DEFINE n == Len(cache)
               t == Append(cache, entry)
    <3>1. /\ n \in Nat /\ DOMAIN cache = 1..n /\ IsSequence(t) /\ DOMAIN t = 1..(n + 1)
          /\ t[n + 1] = entry /\ \A i \in 1..n : t[i] = cache[i]
      BY <1>3, SequenceFacts
    <3>2. set = t
      BY <2>1
    <3> HIDE DEF n, t, set
    <3>3. \A i \in DOMAIN t : i \in 1..n \/ i = n + 1
      BY <3>1
    <3> QED
      BY <1>2, <1>3, <3>1, <3>2, <3>3
  <2>2. CASE Entry(key) # None
    <3>1. set = [i \in DOMAIN cache |-> IF cache[i].key = key THEN entry ELSE cache[i]]
      BY <2>2
    <3> HIDE DEF set
    <3>2. set = [i \in 1..Len(cache) |-> set[i]]
      BY <1>3, <3>1
    <3>3. set \in Seq({set[i] : i \in 1..Len(cache)})
      BY <1>3, <3>2
    <3>4. IsSequence(set)
      BY <3>3 DEF IsSequence
    <3> QED
      BY <1>2, <1>3, <3>1, <3>4
  <2> QED
    BY <2>1, <2>2
<1> HIDE DEF set
<1>5. Len(set) \in Nat /\ DOMAIN set = 1..Len(set)
  BY <1>4, SequenceFacts
<1>6. from \in Int /\ from >= 1
  <2> DEFINE d == Len(set) - MaxCacheEntries
  <2>1. d \in Int
    BY <1>5, Limits
  <2> HIDE DEF d
  <2>2. Max({0, d}) \in Nat
    BY <2>1, MaxOfZero
  <2> QED
    BY <2>2 DEF d
<1> HIDE DEF from
<1> DEFINE S == {set[i] : i \in DOMAIN set}
<1>7. \A i \in from..Len(set) : set[i] \in S
  BY <1>5, <1>6
<1> HIDE DEF S
<1>8. next \in Seq(S)
  BY <1>5, <1>6, <1>7, SubSeqProperties
<1> HIDE DEF next
<1>9. IsSequence(next) /\ \A i \in DOMAIN next : next[i] \in S
  BY <1>8 DEF IsSequence
<1>10. \A e \in S : EnteredBy(e, now)
  BY <1>4 DEF S
<1> QED
  BY <1>1, <1>9, <1>10

-----------------------------------------------------------------------------
(* Steps.                                                                  *)

\* A caller who is answered while time stands.
LEMMA AnsweredKnown ==
    ASSUME Times, NEW r, DOMAIN r = {"stage", "key", "since", "gdelt"},
           r.since \in Nat, r.since <= now, NEW answer, AnswerIsTrue(answer, r.since, now)
    PROVE  RequestKnown(Answered(r, answer))
<1> DEFINE n == Answered(r, answer)
           got == [answer |-> answer, asked |-> r.since, at |-> now]
<1>1. n.stage = "nws" /\ n.since = now /\ n.gdelt = got /\ DOMAIN n = {"stage", "key", "since", "gdelt"}
  BY DEF Answered
<1>2. got.answer = answer /\ got.asked = r.since /\ got.at = now
  OBVIOUS
<1> HIDE DEF n, got
<1>3. Given(got, now)
  BY <1>2 DEF Given, Times
<1> QED
  BY <1>1, <1>3 DEF RequestKnown, Times, n

LEMMA AskingKnown ==
    ASSUME Times, NEW key
    PROVE  LET r == Asking(key)
           IN  /\ RequestKnown(r) /\ r.since = now /\ DOMAIN r = {"stage", "key", "since", "gdelt"}
               /\ r.stage = "gdelt"
BY DEF Asking, Idle, RequestKnown, Times

\* One caller's request is replaced.
LEMMA OneRequest ==
    ASSUME FeedInv, NEW c \in Callers, NEW r, request' = [request EXCEPT ![c] = r],
           RequestKnown(r), now' = now
    PROVE  RequestsKnown'
<1>1. DOMAIN request' = Callers /\ \A d \in Callers : request'[d] = IF d = c THEN r ELSE request[d]
  BY DEF FeedInv, RequestsKnown
<1>2. \A d \in Callers : RequestKnown(request'[d])
  BY <1>1 DEF FeedInv, RequestsKnown
<1> QED
  BY <1>1, <1>2 DEF RequestsKnown, RequestKnown, Given

LEMMA AskStep ==
    ASSUME FeedInv, NEW c \in Callers, NEW key \in Keys, Ask(c, key)
    PROVE  FeedInv'
<1>t. Times /\ CacheKnown /\ FlightsKnown
  BY DEF FeedInv
<1>e. Entry(key) # None => EnteredBy(Entry(key), now) /\ AgeOf(Entry(key)) = now - Entry(key).at
  BY <1>t, EntryKnown, AgeKnown DEF Times
<1>a. /\ RequestKnown(Asking(key)) /\ Asking(key).since = now
      /\ DOMAIN Asking(key) = {"stage", "key", "since", "gdelt"}
  BY <1>t, AskingKnown
<1>n. now \in Nat /\ now <= now /\ now <= now + Timeout
  BY <1>t, Limits DEF Times
\* What the caches say stays said.
<1>1. ASSUME now' = now, cache' = cache PROVE CacheKnown'
  BY <1>1, <1>t DEF CacheKnown
<1>2. ASSUME now' = now, flights' = flights PROVE FlightsKnown'
  BY <1>2, <1>t DEF FlightsKnown, FlightKnown
<1>3. ASSUME now' = now, lastCall' = lastCall, heard' = heard PROVE Times'
  BY <1>3, <1>t DEF Times
<1>4. CASE ServeFresh(c, key)
  <2> DEFINE answer == CacheResult(Entry(key), AgeOf(Entry(key)))
  <2>1. Entry(key) # None /\ AgeOf(Entry(key)) < CacheTtl
    BY <1>4 DEF ServeFresh, Fresh
  <2>2. AnswerIsTrue(answer, now, now)
    <3> PICK entry, age : entry = Entry(key) /\ age = AgeOf(entry)
      OBVIOUS
    <3>1. EnteredBy(entry, now) /\ age = now - entry.at /\ age < CacheTtl
      BY <1>e, <2>1
    <3>2. age <= MaxServeStale
      BY <1>n, <3>1, Limits DEF EnteredBy
    <3>3. AnswerIsTrue(CacheResult(entry, age), now, now)
      BY <1>n, <3>1, <3>2, CachedIsTrue
    <3> QED
      BY <3>3
  <2> HIDE DEF answer
  <2>3. RequestKnown(Answered(Asking(key), answer))
    BY <1>a, <1>n, <1>t, <2>2, AnsweredKnown
  <2>4. /\ request' = [request EXCEPT ![c] = Answered(Asking(key), answer)]
        /\ UNCHANGED <<now, lastCall, cache, flights, heard>>
    BY <1>4 DEF ServeFresh, answer
  <2> QED
    BY <1>1, <1>2, <1>3, <2>3, <2>4, OneRequest DEF FeedInv
<1>5. CASE Join(c, key)
  <2>1. /\ request' = [request EXCEPT ![c] = Asking(key)]
        /\ UNCHANGED <<now, lastCall, cache, flights, heard>>
    BY <1>5 DEF Join
  <2> QED
    BY <1>1, <1>2, <1>3, <1>a, <2>1, OneRequest DEF FeedInv
<1>6. CASE HoldBack(c, key)
  <2> DEFINE answer == ServeCacheIfFresh(Entry(key), AgeOf(Entry(key)))
  <2>1. AnswerIsTrue(answer, now, now)
    <3> PICK entry, age : entry = Entry(key) /\ age = AgeOf(entry)
      OBVIOUS
    <3>1. entry # None => EnteredBy(entry, now) /\ age = now - entry.at
      BY <1>e
    <3>2. AnswerIsTrue(ServeCacheIfFresh(entry, age), now, now)
      BY <1>n, <3>1, StaleIsTrue
    <3> QED
      BY <3>2
  <2> HIDE DEF answer
  <2>2. RequestKnown(Answered(Asking(key), answer))
    BY <1>a, <1>n, <1>t, <2>1, AnsweredKnown
  <2>3. /\ request' = [request EXCEPT ![c] = Answered(Asking(key), answer)]
        /\ UNCHANGED <<now, lastCall, cache, flights, heard>>
    BY <1>6 DEF HoldBack, answer
  <2> QED
    BY <1>1, <1>2, <1>3, <2>2, <2>3, OneRequest DEF FeedInv
<1>7. CASE Call(c, key)
  <2> DEFINE flight == [started |-> now, cached |-> Entry(key), age |-> AgeOf(Entry(key))]
  <2>1. /\ request' = [request EXCEPT ![c] = Asking(key)] /\ UNCHANGED <<now, cache>>
        /\ flights' = [flights EXCEPT ![key] = flight] /\ lastCall' = now /\ heard' = now
    BY <1>7 DEF Call
  <2>2. Times'
    BY <1>n, <2>1 DEF Times
  <2>3. flight.started = now /\ flight.cached = Entry(key) /\ flight.age = AgeOf(Entry(key))
    OBVIOUS
  <2> HIDE DEF flight
  <2>4. FlightKnown(flight)
    BY <1>e, <1>n, <2>3 DEF FlightKnown
  <2>5. DOMAIN flights' = Keys /\ \A k \in Keys : FlightKnown(flights'[k])
    BY <1>t, <2>1, <2>4 DEF FlightsKnown
  <2>6. FlightsKnown'
    BY <2>1, <2>5 DEF FlightsKnown, FlightKnown
  <2> QED
    BY <1>1, <1>a, <2>1, <2>2, <2>6, OneRequest DEF FeedInv
<1> QED
  BY <1>4, <1>5, <1>6, <1>7 DEF Ask

\* All who wait for a call are given what it came to.
LEMMA LandStep ==
    ASSUME FeedInv, NEW key \in Keys, NEW answer, now' = now, Land(key, answer),
           \A asked \in Nat : asked <= now => AnswerIsTrue(answer, asked, now)
    PROVE  RequestsKnown'
<1>1. /\ DOMAIN request' = Callers
      /\ \A c \in Callers : request'[c] =
            IF request[c].stage = "gdelt" /\ request[c].key = key THEN Answered(request[c], answer)
            ELSE request[c]
  BY DEF Land
<1>2. ASSUME NEW c \in Callers PROVE RequestKnown(request'[c])
  <2>1. RequestKnown(request[c])
    BY DEF FeedInv, RequestsKnown
  <2>2. CASE request[c].stage = "gdelt" /\ request[c].key = key
    <3>1. /\ DOMAIN request[c] = {"stage", "key", "since", "gdelt"}
          /\ request[c].since \in Nat /\ request[c].since <= now
      BY <2>1, <2>2 DEF RequestKnown
    <3>2. RequestKnown(Answered(request[c], answer))
      BY <3>1, AnsweredKnown DEF FeedInv
    <3> QED
      BY <1>1, <2>2, <3>2
  <2>3. CASE ~(request[c].stage = "gdelt" /\ request[c].key = key)
    BY <1>1, <2>1, <2>3
  <2> QED
    BY <2>2, <2>3
<1> QED
  BY <1>1, <1>2 DEF RequestsKnown, RequestKnown, Given

LEMMA FlightEnds ==
    ASSUME FeedInv, NEW key \in Keys, now' = now, flights' = [flights EXCEPT ![key] = None]
    PROVE  FlightsKnown'
<1>1. DOMAIN flights' = Keys /\ \A k \in Keys : FlightKnown(flights'[k])
  BY DEF FeedInv, FlightsKnown, FlightKnown
<1> QED
  BY <1>1 DEF FlightsKnown, FlightKnown

LEMMA LiveStep ==
    ASSUME FeedInv, NEW key \in Keys, LiveAnswer(key)
    PROVE  FeedInv'
<1>1. PICK batch \in Batches :
         /\ cache' = SetCache(key, MapGdeltArticles(batch, "LIVE"))
         /\ Land(key, [status |-> "LIVE", age |-> 0, signals |-> MapGdeltArticles(batch, "LIVE")])
  BY DEF LiveAnswer
<1>2. flights' = [flights EXCEPT ![key] = None] /\ UNCHANGED <<now, lastCall, heard>>
  BY DEF LiveAnswer
<1>3. now \in Nat
  BY DEF FeedInv, Times
<1> PICK signals : signals = MapGdeltArticles(batch, "LIVE")
  OBVIOUS
<1>4. Mapped(signals, now)
  BY <1>3, AnswerIsMapped
<1>5. CacheKnown'
  <2>1. IsSequence(SetCache(key, signals)) /\ \A i \in DOMAIN SetCache(key, signals) :
           EnteredBy(SetCache(key, signals)[i], now)
    BY <1>4, CacheIsSet
  <2> QED
    BY <1>1, <1>2, <2>1 DEF CacheKnown
<1>6. RequestsKnown'
  <2> DEFINE answer == [status |-> "LIVE", age |-> 0, signals |-> signals]
  <2>1. \A asked \in Nat : asked <= now => AnswerIsTrue(answer, asked, now)
    BY <1>3, <1>4, LiveIsTrue
  <2>2. Land(key, answer)
    BY <1>1
  <2> HIDE DEF answer
  <2> QED
    BY <1>2, <2>1, <2>2, LandStep
<1>7. FlightsKnown'
  BY <1>2, FlightEnds
<1>8. Times'
  BY <1>2 DEF FeedInv, Times
<1> QED
  BY <1>5, <1>6, <1>7, <1>8 DEF FeedInv

LEMMA FailStep ==
    ASSUME FeedInv, NEW key \in Keys, DegradeOnFailure(key)
    PROVE  FeedInv'
<1>1. /\ flights[key] # None /\ Land(key, ServeCacheIfFresh(flights[key].cached, flights[key].age))
      /\ flights' = [flights EXCEPT ![key] = None]
      /\ UNCHANGED <<now, lastCall, cache, heard>>
  BY DEF DegradeOnFailure
<1>2. now \in Nat
  BY DEF FeedInv, Times
<1> PICK flight, answer : flight = flights[key] /\ answer = ServeCacheIfFresh(flight.cached, flight.age)
  OBVIOUS
<1>3. /\ flight.started \in Nat /\ flight.started <= now /\ now <= flight.started + Timeout
      /\ flight.cached # None =>
            EnteredBy(flight.cached, flight.started) /\ flight.age = flight.started - flight.cached.at
  BY <1>1 DEF FeedInv, FlightsKnown, FlightKnown
<1>4. \A asked \in Nat : asked <= now => AnswerIsTrue(answer, asked, now)
  BY <1>2, <1>3, StaleIsTrue
<1>5. RequestsKnown'
  BY <1>1, <1>4, LandStep
<1>6. FlightsKnown'
  BY <1>1, FlightEnds
<1>7. Times' /\ CacheKnown'
  BY <1>1 DEF FeedInv, Times, CacheKnown
<1> QED
  BY <1>5, <1>6, <1>7 DEF FeedInv

LEMMA TickStep ==
    ASSUME FeedInv, Tick
    PROVE  FeedInv'
<1>1. /\ now' = now + 1 /\ UNCHANGED <<lastCall, cache, flights, request, heard>>
      /\ \A k \in Keys : flights[k] # None => now - flights[k].started < Timeout
  BY DEF Tick
<1>2. now \in Nat /\ now' \in Nat /\ now <= now'
  BY <1>1 DEF FeedInv, Times
<1>3. Times'
  BY <1>1, <1>2 DEF FeedInv, Times
<1>4. CacheKnown'
  <2>1. \A i \in DOMAIN cache : EnteredBy(cache[i], now')
    BY <1>2, EnteredStays DEF FeedInv, CacheKnown
  <2> QED
    BY <1>1, <2>1 DEF FeedInv, CacheKnown
<1>5. FlightsKnown'
  <2>1. ASSUME NEW k \in Keys, flights[k] # None
        PROVE  flights[k].started <= now' /\ now' <= flights[k].started + Timeout
    BY <1>1, <1>2, <2>1, Limits DEF FeedInv, FlightsKnown, FlightKnown
  <2> QED
    BY <1>1, <2>1 DEF FeedInv, FlightsKnown, FlightKnown
<1>6. RequestsKnown'
  <2>1. ASSUME NEW c \in Callers
        PROVE  /\ DOMAIN request[c] = {"stage", "key", "since", "gdelt"}
               /\ request[c].stage \in {"gdelt", "nws"} =>
                     request[c].since \in Nat /\ request[c].since <= now'
               /\ request[c].stage = "nws" => Given(request[c].gdelt, now')
    <3>1. RequestKnown(request[c])
      BY DEF FeedInv, RequestsKnown
    <3>2. request[c].stage \in {"gdelt", "nws"} => request[c].since \in Nat /\ request[c].since <= now'
      BY <1>2, <3>1 DEF RequestKnown
    <3>3. request[c].stage = "nws" => Given(request[c].gdelt, now')
      BY <1>2, <3>1 DEF RequestKnown, Given
    <3> QED
      BY <3>1, <3>2, <3>3 DEF RequestKnown
  <2> QED
    BY <1>1, <2>1 DEF FeedInv, RequestsKnown, RequestKnown, Given
<1> QED
  BY <1>3, <1>4, <1>5, <1>6 DEF FeedInv

LEMMA BoardStep ==
    ASSUME FeedInv, NEW c \in Callers, FetchNwsOrCached(c)
    PROVE  FeedInv'
<1>1. request' = [request EXCEPT ![c] = Idle] /\ UNCHANGED <<now, lastCall, cache, flights, heard>>
  BY DEF FetchNwsOrCached
<1>2. RequestKnown(Idle)
  BY DEF RequestKnown, Idle
<1>3. RequestsKnown'
  BY <1>1, <1>2, OneRequest
<1> QED
  BY <1>1, <1>3 DEF FeedInv, Times, CacheKnown, FlightsKnown, FlightKnown

LEMMA FeedInit == Init => FeedInv
<1> SUFFICES ASSUME Init PROVE FeedInv
  OBVIOUS
<1> USE DEF Init
<1>1. Times
  BY DEF Times
<1>2. CacheKnown
  <2>1. cache \in Seq({}) /\ DOMAIN cache = {}
    OBVIOUS
  <2> QED
    BY <2>1 DEF CacheKnown, IsSequence
<1>3. FlightsKnown /\ RequestsKnown
  BY DEF FlightsKnown, FlightKnown, RequestsKnown, RequestKnown, Idle
<1> QED
  BY <1>1, <1>2, <1>3 DEF FeedInv

LEMMA FeedStep == FeedInv /\ [Next]_vars => FeedInv'
<1> SUFFICES ASSUME FeedInv, [Next]_vars PROVE FeedInv'
  OBVIOUS
<1>1. CASE Tick
  BY <1>1, TickStep
<1>2. ASSUME NEW c \in Callers, NEW k \in Keys, Ask(c, k) PROVE FeedInv'
  BY <1>2, AskStep
<1>3. ASSUME NEW k \in Keys, LiveAnswer(k) \/ DegradeOnFailure(k) PROVE FeedInv'
  BY <1>3, LiveStep, FailStep
<1>4. ASSUME NEW c \in Callers, FetchNwsOrCached(c) PROVE FeedInv'
  BY <1>4, BoardStep
<1>5. CASE UNCHANGED vars
  BY <1>5 DEF vars, FeedInv, Times, CacheKnown, FlightsKnown, FlightKnown, RequestsKnown,
              RequestKnown
<1> QED
  BY <1>1, <1>2, <1>3, <1>4, <1>5 DEF Next

LEMMA FeedImplies == FeedInv => ServedAsWhatItIs
<1> SUFFICES ASSUME FeedInv, NEW c \in Callers, request[c].stage = "nws"
             PROVE  LET got == request[c].gdelt
                        signals == Range(Board(got.answer))
                    IN  /\ got.answer.status = "FAILED" <=> \E s \in signals : s.status = "FAILED"
                        /\ \A s \in signals :
                              /\ s.status = "LIVE" => s.fetched >= got.asked
                              /\ s.fetched < got.asked =>
                                    s.status = "CACHED" /\ got.at - s.fetched <= MaxServeStale + Timeout
                              /\ s.freshness # Unknown =>
                                    (s.freshness + 1) * Minute >= (got.at - s.seen) - Timeout
                        /\ \A s, t \in signals : s.url = t.url => s = t
  BY DEF ServedAsWhatItIs
<1> DEFINE got == request[c].gdelt
           signals == Range(Board(got.answer))
<1>1. Given(got, now) /\ now \in Nat
  BY DEF FeedInv, Times, RequestsKnown, RequestKnown
<1> HIDE DEF got
<1>2. /\ got.asked \in Nat /\ got.at \in Nat /\ got.asked <= got.at /\ got.at <= now
      /\ AnswerIsTrue(got.answer, got.asked, got.at)
  BY <1>1 DEF Given
<1>3. CASE got.answer.status = "FAILED"
  <2> DEFINE marker == GdeltUnavailableMarker
  <2>1. Board(got.answer) = <<marker>>
    BY <1>3 DEF Board
  <2>2. marker.status = "FAILED" /\ marker.fetched = now /\ marker.freshness = Unknown
    BY DEF GdeltUnavailableMarker
  <2> HIDE DEF marker
  <2>3. signals = {marker}
    BY <2>1 DEF Range
  <2> HIDE DEF signals
  <2> QED
    BY <1>1, <1>2, <1>3, <2>2, <2>3 DEF got, signals
<1>4. CASE got.answer.status # "FAILED"
  <2> DEFINE served == got.answer.signals
  <2>1. \A i \in DOMAIN served : TrueOf(served[i], got.asked, got.at)
    BY <1>2, <1>4 DEF AnswerIsTrue
  <2>2. Distinct(served)
    BY <1>2, <1>4 DEF AnswerIsTrue
  <2>3. Board(got.answer) = served
    BY <1>4 DEF Board
  <2> HIDE DEF served
  <2>4. \A s \in signals : \E i \in DOMAIN served : s = served[i]
    BY <2>3 DEF Range
  <2> HIDE DEF signals
  <2>5. \A s \in signals : TrueOf(s, got.asked, got.at)
    BY <2>1, <2>4
  <2>6. \A s, t \in signals : s.url = t.url => s = t
    BY <2>2, <2>4 DEF Distinct
  <2> QED
    BY <1>4, <2>5, <2>6 DEF TrueOf, got, signals
<1> QED
  BY <1>3, <1>4

\* Whatever is answered, cached, evicted, joined, held back or aborted, a caller is given what
\* it is said to be: live articles fetched since it asked, cached ones that say so and are
\* not past the limit, ages that are not understated beyond the wait and the rounding, and
\* a marker for a feed that failed (gdelt.ts:10-15, 21, 344-378).
THEOREM AlwaysServedAsWhatItIs == Spec => []ServedAsWhatItIs
<1>1. FeedInv => ServedAsWhatItIs
  BY FeedImplies
<1>2. Init => FeedInv
  BY FeedInit
<1>3. FeedInv /\ [Next]_vars => FeedInv'
  BY FeedStep
<1> QED
  BY <1>1, <1>2, <1>3, PTL DEF Spec

-----------------------------------------------------------------------------
(* The calls.                                                              *)

\* A flight that begins.
LEMMA OnlyCallsBegin ==
    ASSUME FeedInv, Next, NEW k \in Keys, flights'[k] # None, flights'[k] # flights[k]
    PROVE  flights[k] = None /\ (heard # None => now - heard >= Spacing)
<1>d. DOMAIN flights = Keys /\ (heard # None => heard \in Int) /\ now \in Nat /\ heard = lastCall
  BY DEF FeedInv, FlightsKnown, Times
<1>1. CASE Tick \/ \E c \in Callers : FetchNwsOrCached(c)
  BY <1>1 DEF Tick, FetchNwsOrCached
<1>2. ASSUME NEW j \in Keys, LiveAnswer(j) \/ DegradeOnFailure(j) PROVE FALSE
  <2>1. flights' = [flights EXCEPT ![j] = None]
    BY <1>2 DEF LiveAnswer, DegradeOnFailure
  <2> QED
    BY <1>d, <2>1
<1>3. ASSUME NEW c \in Callers, NEW j \in Keys, Ask(c, j)
      PROVE  flights[k] = None /\ (heard # None => now - heard >= Spacing)
  <2>1. CASE flights' = flights
    BY <2>1
  <2>2. CASE Call(c, j)
    <3>1. flights[j] = None /\ ~TooSoon /\ (j # k => flights'[k] = flights[k])
      BY <1>d, <2>2 DEF Call
    <3>2. j = k
      BY <3>1
    <3>3. heard # None => now - heard >= Spacing
      BY <1>d, <3>1, Limits DEF TooSoon
    <3> QED
      BY <3>1, <3>2, <3>3
  <2> QED
    BY <1>3, <2>1, <2>2 DEF Ask, ServeFresh, Join, HoldBack
<1> QED
  BY <1>1, <1>2, <1>3 DEF Next

\* Whoever asks, and however the calls end, two calls to GDELT are at least the spacing apart
\* and a key has one call out at a time (gdelt.ts:11-13, 116-141): the guard looks at the
\* time of the last call, which is set when it is made and not when it is answered.
THEOREM CallsStaySpaced == Spec => CallsSpaced
<1>1. FeedInv /\ [Next]_vars =>
        [\A k \in Keys :
            flights'[k] # None /\ flights'[k] # flights[k] =>
                flights[k] = None /\ (heard # None => now - heard >= Spacing)]_vars
  BY OnlyCallsBegin DEF vars
<1>2. Init => FeedInv
  BY FeedInit
<1>3. FeedInv /\ [Next]_vars => FeedInv'
  BY FeedStep
<1> QED
  BY <1>1, <1>2, <1>3, PTL DEF Spec, CallsSpaced
=============================================================================
