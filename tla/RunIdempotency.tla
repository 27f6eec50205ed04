--------------------------- MODULE RunIdempotency ---------------------------
(***************************************************************************)
(* runExceptionPipeline (lib/pipeline/run-exception.ts) on several server  *)
(* instances over the Postgres packet store: one idempotency key gives one *)
(* stored packet.                                                          *)
(*                                                                         *)
(* On one instance, calls with one key share the promise of the run that   *)
(* is in flight; across instances, the transaction that saves the packet   *)
(* reserves the key.  A run is identified with the packet it would store   *)
(* (its id is a fresh UUID).  What the agents do is one step here; it may  *)
(* fail, and so may every store call.                                      *)
(***************************************************************************)
EXTENDS Naturals, FiniteSets

CONSTANTS
    Instances,     \* server processes
    Keys,          \* idempotency keys
    Callers,       \* clients of POST /api/run-exception
    Runs,          \* pipeline runs, and the packets they build
    NoKey, NoRun,
    MaxFaults,     \* bound on failed steps
    MaxCrashes     \* bound on crashes of an instance

ASSUME RunAssumption ==
    /\ Instances # {}
    /\ NoKey \notin Keys /\ NoRun \notin Runs
    /\ MaxFaults \in Nat /\ MaxCrashes \in Nat

VARIABLES
    inflight,      \* inflightRuns of each instance: key -> the run in flight
    pc, host, key, \* each run: where it is, its instance, its key
    reserved,      \* each run's uncommitted insert of its key
    outcome,       \* the packet a settled run returns, NoRun when it failed
    waits,         \* the run whose promise a caller awaits
    stored,        \* committed: decision_packets
    owner,         \* committed: run_idempotency_keys
    faults, crashes,
    late,          \* history: runs that started after their key was stored
    answers        \* history: the packets returned to callers

runVars == <<host, key>>
dbVars == <<stored, owner>>
vars == <<inflight, pc, runVars, reserved, outcome, waits, dbVars,
          faults, crashes, late, answers>>

Pc == {"new", "lookup", "build", "reserve", "commit", "winner", "settled", "gone"}
Answer == [key: Keys \cup {NoKey}, packet: Runs]

Init ==
    /\ inflight = [i \in Instances |-> [k \in Keys |-> NoRun]]
    /\ pc = [r \in Runs |-> "new"]
    /\ host = [r \in Runs |-> CHOOSE i \in Instances : TRUE]
    /\ key = [r \in Runs |-> NoKey]
    /\ reserved = [r \in Runs |-> FALSE]
    /\ outcome = [r \in Runs |-> NoRun]
    /\ waits = [c \in Callers |-> NoRun]
    /\ stored = {}
    /\ owner = [k \in Keys |-> NoRun]
    /\ faults = 0 /\ crashes = 0
    /\ late = {}
    /\ answers = {}

-----------------------------------------------------------------------------
(* Callers.                                                                *)

Call(c, r) ==
    /\ waits[c] = NoRun
    /\ waits' = [waits EXCEPT ![c] = r]

\* A run is a name and nothing else, so the next one is any fixed new one.
IsNext(r) == pc[r] = "new" /\ r = CHOOSE s \in Runs : pc[s] = "new"

\* The promise of the run r is made: its first step is the lookup of its key, or
\* the pipeline itself when it has none.
Begin(r, i, k, first) ==
    /\ IsNext(r)
    /\ pc' = [pc EXCEPT ![r] = first]
    /\ host' = [host EXCEPT ![r] = i]
    /\ key' = [key EXCEPT ![r] = k]

\* A call without a key always runs the pipeline.
RunUnkeyed(c, r, i) ==
    /\ Call(c, r)
    /\ Begin(r, i, NoKey, "build")
    /\ UNCHANGED <<inflight, reserved, outcome, dbVars, faults, crashes, late, answers>>

\* (mutant) the map is looked at, but a run is started in any case
StartAnyway(c, r, i, k) ==
    /\ Call(c, r)
    /\ Begin(r, i, k, "lookup")
    /\ inflight' = [inflight EXCEPT ![i][k] = r]
    /\ late' = IF owner[k] # NoRun THEN late \cup {r} ELSE late
    /\ UNCHANGED <<reserved, outcome, dbVars, faults, crashes, answers>>

\* Nothing is in flight on this instance: get, create and set are one step.
StartRun(c, r, i, k) ==
    /\ inflight[i][k] = NoRun
    /\ Call(c, r)
    /\ Begin(r, i, k, "lookup")
    /\ inflight' = [inflight EXCEPT ![i][k] = r]
    /\ late' = IF owner[k] # NoRun THEN late \cup {r} ELSE late
    /\ UNCHANGED <<reserved, outcome, dbVars, faults, crashes, answers>>

\* Something is: the caller awaits the same promise, settled or not.
Coalesce(c, i, k) ==
    /\ inflight[i][k] # NoRun
    /\ Call(c, inflight[i][k])
    /\ UNCHANGED <<inflight, pc, runVars, reserved, outcome, dbVars,
                   faults, crashes, late, answers>>

\* The promise resolves or rejects for one of its callers.
Receive(c) ==
    /\ waits[c] # NoRun
    /\ pc[waits[c]] = "settled"
    /\ LET r == waits[c]
       IN  answers' = IF outcome[r] = NoRun THEN answers
                      ELSE answers \cup {[key |-> key[r], packet |-> outcome[r]]}
    /\ waits' = [waits EXCEPT ![c] = NoRun]
    /\ UNCHANGED <<inflight, pc, runVars, reserved, outcome, dbVars, faults, crashes, late>>

-----------------------------------------------------------------------------
(* A run.                                                                  *)

Settle(r, packet) ==
    /\ pc' = [pc EXCEPT ![r] = "settled"]
    /\ outcome' = [outcome EXCEPT ![r] = packet]

\* (mutant) the double check is skipped
LookupNothing(r) ==
    /\ pc[r] = "lookup"
    /\ pc' = [pc EXCEPT ![r] = "build"]
    /\ UNCHANGED <<inflight, runVars, reserved, outcome, waits, dbVars,
                   faults, crashes, late, answers>>

\* getDecisionPacketByIdempotencyKey: an earlier run stored the key's packet ...
LookupHit(r) ==
    /\ pc[r] = "lookup"
    /\ owner[key[r]] # NoRun
    /\ Settle(r, owner[key[r]])
    /\ UNCHANGED <<inflight, runVars, reserved, waits, dbVars, faults, crashes, late, answers>>

\* ... or none did, and the pipeline runs.
LookupMiss(r) ==
    /\ pc[r] = "lookup"
    /\ owner[key[r]] = NoRun
    /\ pc' = [pc EXCEPT ![r] = "build"]
    /\ UNCHANGED <<inflight, runVars, reserved, outcome, waits, dbVars,
                   faults, crashes, late, answers>>

\* buildDecisionPacket returns; saveDecisionPacket opens its transaction and
\* inserts the packet's row.
Build(r) ==
    /\ pc[r] = "build"
    /\ pc' = [pc EXCEPT ![r] = IF key[r] = NoKey THEN "commit" ELSE "reserve"]
    /\ UNCHANGED <<inflight, runVars, reserved, outcome, waits, dbVars,
                   faults, crashes, late, answers>>

\* No other open transaction has inserted the key.
KeyFree(r) == \A s \in Runs \ {r} : reserved[s] => key[s] # key[r]

\* INSERT ... ON CONFLICT DO NOTHING RETURNING gives a row ...
Reserve(r) ==
    /\ pc[r] = "reserve"
    /\ KeyFree(r)
    /\ owner[key[r]] = NoRun
    /\ reserved' = [reserved EXCEPT ![r] = TRUE]
    /\ pc' = [pc EXCEPT ![r] = "commit"]
    /\ UNCHANGED <<inflight, runVars, outcome, waits, dbVars, faults, crashes, late, answers>>

\* (mutant) the empty result is not looked at: the packet is saved without a key
ReserveIgnoresLoss(r) ==
    /\ pc[r] = "reserve"
    /\ KeyFree(r)
    /\ owner[key[r]] # NoRun
    /\ pc' = [pc EXCEPT ![r] = "commit"]
    /\ UNCHANGED <<inflight, runVars, reserved, outcome, waits, dbVars,
                   faults, crashes, late, answers>>

\* ... or none: IdempotencyKeyConflict rolls the packet back.
ReserveLost(r) ==
    /\ pc[r] = "reserve"
    /\ KeyFree(r)
    /\ owner[key[r]] # NoRun
    /\ pc' = [pc EXCEPT ![r] = "winner"]
    /\ UNCHANGED <<inflight, runVars, reserved, outcome, waits, dbVars,
                   faults, crashes, late, answers>>

\* (mutant) the loser returns the packet it built
WinnerIsMine(r) ==
    /\ pc[r] = "winner"
    /\ Settle(r, r)
    /\ UNCHANGED <<inflight, runVars, reserved, waits, dbVars, faults, crashes, late, answers>>

\* The loser returns the packet the winner stored.
Winner(r) ==
    /\ pc[r] = "winner"
    /\ Settle(r, owner[key[r]])
    /\ UNCHANGED <<inflight, runVars, reserved, waits, dbVars, faults, crashes, late, answers>>

\* Packet and key become visible together.
Persist(r) ==
    /\ stored' = stored \cup {r}
    /\ owner' = IF reserved[r] THEN [owner EXCEPT ![key[r]] = r] ELSE owner

Commit(r) ==
    /\ pc[r] = "commit"
    /\ Persist(r)
    /\ reserved' = [reserved EXCEPT ![r] = FALSE]
    /\ Settle(r, r)
    /\ UNCHANGED <<inflight, runVars, waits, faults, crashes, late, answers>>

\* (mutant) only a run that succeeded is taken off the map
UnregisterOnSuccess(r) ==
    /\ pc[r] = "settled"
    /\ key[r] # NoKey
    /\ inflight[host[r]][key[r]] = r
    /\ outcome[r] # NoRun
    /\ inflight' = [inflight EXCEPT ![host[r]][key[r]] = NoRun]
    /\ UNCHANGED <<pc, runVars, reserved, outcome, waits, dbVars, faults, crashes, late, answers>>

\* The finally block of the call that made the promise, also when it rejects.
Unregister(r) ==
    /\ pc[r] = "settled"
    /\ key[r] # NoKey
    /\ inflight[host[r]][key[r]] = r
    /\ inflight' = [inflight EXCEPT ![host[r]][key[r]] = NoRun]
    /\ UNCHANGED <<pc, runVars, reserved, outcome, waits, dbVars, faults, crashes, late, answers>>

\* (mutant) the failed transaction is left open
FaultStaysOpen(r) ==
    /\ pc[r] \notin {"new", "settled", "gone"}
    /\ faults < MaxFaults
    /\ faults' = faults + 1
    /\ Settle(r, NoRun)
    /\ UNCHANGED <<inflight, runVars, reserved, waits, dbVars, crashes, late, answers>>

\* The pipeline or a store call throws.  A COMMIT that fails may have committed.
Fault(r) ==
    /\ pc[r] \notin {"new", "settled", "gone"}
    /\ faults < MaxFaults
    /\ faults' = faults + 1
    /\ \/ UNCHANGED dbVars
       \/ pc[r] = "commit" /\ Persist(r)
    /\ reserved' = [reserved EXCEPT ![r] = FALSE]
    /\ Settle(r, NoRun)
    /\ UNCHANGED <<inflight, runVars, waits, crashes, late, answers>>

\* An instance dies and is restarted: its promises and its map are gone, its open
\* transactions roll back (or have committed), its callers get no answer.
Crash(i) ==
    /\ crashes < MaxCrashes
    /\ crashes' = crashes + 1
    /\ LET mine == {r \in Runs : host[r] = i /\ pc[r] # "new"}
       IN  /\ pc' = [r \in Runs |-> IF r \in mine THEN "gone" ELSE pc[r]]
           /\ reserved' = [r \in Runs |-> IF r \in mine THEN FALSE ELSE reserved[r]]
           /\ waits' = [c \in Callers |-> IF waits[c] \in mine THEN NoRun ELSE waits[c]]
           /\ \/ UNCHANGED dbVars
              \/ \E r \in mine : pc[r] = "commit" /\ Persist(r)
    /\ inflight' = [inflight EXCEPT ![i] = [k \in Keys |-> NoRun]]
    /\ UNCHANGED <<runVars, outcome, faults, late, answers>>

-----------------------------------------------------------------------------
RunStep(r) ==
    \/ LookupHit(r) \/ LookupMiss(r) \/ Build(r)
    \/ Reserve(r) \/ ReserveLost(r) \/ Winner(r) \/ Commit(r)
    \/ Unregister(r)

Next ==
    \/ \E c \in Callers, r \in Runs, i \in Instances :
          RunUnkeyed(c, r, i) \/ \E k \in Keys : StartRun(c, r, i, k)
    \/ \E c \in Callers, i \in Instances, k \in Keys : Coalesce(c, i, k)
    \/ \E c \in Callers : Receive(c)
    \/ \E r \in Runs : RunStep(r) \/ Fault(r)
    \/ \E i \in Instances : Crash(i)

Spec == Init /\ [][Next]_vars

\* Live calls are aborted by their own timeouts, statements by the pool's: a run
\* that is not waiting for a key goes on, and a settled promise is delivered.
Fairness ==
    /\ \A r \in Runs : WF_vars(RunStep(r))
    /\ \A c \in Callers : WF_vars(Receive(c))
FairSpec == Spec /\ Fairness

-----------------------------------------------------------------------------
(* Properties.                                                             *)

\* Every variable holds a value of its kind.
TypeOK ==
    /\ inflight \in [Instances -> [Keys -> Runs \cup {NoRun}]]
    /\ pc \in [Runs -> Pc]
    /\ host \in [Runs -> Instances]
    /\ key \in [Runs -> Keys \cup {NoKey}]
    /\ reserved \in [Runs -> BOOLEAN]
    /\ outcome \in [Runs -> Runs \cup {NoRun}]
    /\ waits \in [Callers -> Runs \cup {NoRun}]
    /\ stored \subseteq Runs
    /\ owner \in [Keys -> Runs \cup {NoRun}]
    /\ faults \in Nat /\ crashes \in Nat
    /\ late \subseteq Runs
    /\ answers \subseteq Answer

Active(r) == pc[r] \notin {"new", "settled", "gone"}

\* "The expensive pipeline body runs at most once per key WITHIN a single Node
\* instance" at a time, although calls keep arriving while runs fail, settle and
\* leave the map (run-exception.ts:15-24, 34-57); and a call that arrives after the
\* key's packet was stored never runs the agents again, on any instance (:42-48).
RunsOncePerKey ==
    /\ \A r, s \in Runs :
          (r # s /\ Active(r) /\ Active(s) /\ host[r] = host[s] /\ key[r] # NoKey)
              => key[r] # key[s]
    /\ \A r \in late : pc[r] \in {"lookup", "settled", "gone"}

\* Whatever instance a keyed call reaches, and whoever wins the key, the packet
\* it returns is the one stored under the key: all calls with a key agree.  And no
\* packet is stored beside the one its key names (store.ts:262-276, the F2 orphan
\* race), also when a commit's reply is lost or an instance dies.
AnswersAreCanonical ==
    /\ TypeOK
    /\ \A a \in answers :
          /\ a.packet \in stored
          /\ a.key # NoKey => owner[a.key] = a.packet
    /\ \A r \in stored : key[r] # NoKey => owner[key[r]] = r

\* Every call is answered or loses its connection, also while another instance
\* holds its key in an open transaction, and a promise never stays on the map: a
\* run that failed does not answer the key's later calls for ever (the finally
\* block, run-exception.ts:53-57).
RequestsEnd ==
    /\ \A c \in Callers : waits[c] # NoRun ~> waits[c] = NoRun
    /\ \A i \in Instances, k \in Keys, r \in Runs :
          inflight[i][k] = r ~> inflight[i][k] # r

=============================================================================
