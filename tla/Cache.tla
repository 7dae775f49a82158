-------------------------------- MODULE Cache --------------------------------
(***************************************************************************)
(* services/CacheService.ts: the process-wide cache with a time to live,    *)
(* one shared fetch per key, the stale value on error, a cap on entries,    *)
(* and invalidation that outruns the fetches already under way.             *)
(*                                                                         *)
(* A value is the version of the thing it was fetched from.  `source' is    *)
(* that thing, written by the rest of the program, which invalidates the    *)
(* key after a write.  A promise is named by the call that owns it: the     *)
(* owner awaits its own promise, so it makes no second call meanwhile.      *)
(***************************************************************************)
EXTENDS Naturals, FiniteSets

CONSTANTS
    Keys,          \* keys read with getOrFetch
    Plain,         \* keys only get, peek and set are used on
    Namespaces,    \* the sets of keys a namespace stands for
    Callers,       \* concurrent callers of getOrFetch
    Nobody,        \* no promise
    None,          \* no entry
    MaxEntries,    \* MAX_ENTRIES
    MaxVersion,    \* bound: writes to a source
    MaxGenerations \* bound: invalidations of a key

All == Keys \cup Plain

ASSUME CacheAssumption ==
    /\ Nobody \notin Callers
    /\ MaxEntries \in Nat \ {0}
    /\ Keys \cap Plain = {}
    /\ \A S \in Namespaces : S \subseteq All
    /\ None \notin [value : Nat, fresh : BOOLEAN]

VARIABLES
    store,         \* the map of entries
    inflight,      \* whose promise a key's callers share
    generations,   \* write generation of a key
    call,          \* calls of getOrFetch
    source,        \* the version of what a key caches
    floor          \* history: the source's version at the key's last invalidation

vars == <<store, inflight, generations, call, source, floor>>

Entry == [value : Nat, fresh : BOOLEAN]
Idle == [pc |-> "idle"]

Live(k) == store[k] # None /\ store[k].fresh

-----------------------------------------------------------------------------
(* set, with its cap. *)

Present == {k \in All : store[k] # None}
purgeExpired == [k \in All |-> IF Live(k) THEN store[k] ELSE None]

(* Mutant: the cap is tested one too late.                                 *)
SetMutant(k, v) ==
    IF store[k] # None \/ Cardinality(Present) <= MaxEntries
    THEN [store EXCEPT ![k] = [value |-> v, fresh |-> TRUE]]
    ELSE store

Set(k, v) ==
    LET entry == [value |-> v, fresh |-> TRUE]
    IN IF store[k] # None \/ Cardinality(Present) < MaxEntries
       THEN [store EXCEPT ![k] = entry]
       ELSE IF Cardinality({j \in All : Live(j)}) < MaxEntries
       THEN [purgeExpired EXCEPT ![k] = entry]
       ELSE purgeExpired

-----------------------------------------------------------------------------
(* getOrFetchWithMeta. *)

\* A fresh entry is the answer.
Hit(c, k) ==
    /\ call[c].pc = "idle" /\ Live(k)
    /\ call' = [call EXCEPT ![c] = [pc |-> "done", key |-> k, value |-> store[k].value,
                                    since |-> floor[k]]]
    /\ UNCHANGED <<store, inflight, generations, source, floor>>

\* Somebody is fetching: wait for the same promise.
Join(c, k) ==
    /\ call[c].pc = "idle" /\ ~Live(k) /\ inflight[k] # Nobody
    /\ call' = [call EXCEPT ![c] = [pc |-> "joined", key |-> k, on |-> inflight[k],
                                    since |-> floor[k]]]
    /\ UNCHANGED <<store, inflight, generations, source, floor>>

\* Own the computation.  `seen' is what the fetcher will have read, 0 before.
Fetch(c, k) ==
    /\ call[c].pc = "idle" /\ ~Live(k) /\ inflight[k] = Nobody
    /\ call' = [call EXCEPT ![c] = [pc |-> "fetching", key |-> k, gen |-> generations[k],
                                    existing |-> store[k], seen |-> 0, since |-> floor[k]]]
    /\ inflight' = [inflight EXCEPT ![k] = c]
    /\ UNCHANGED <<store, generations, source, floor>>

\* The fetcher reads, some time before it returns.
FetcherReads(c) ==
    /\ call[c].pc = "fetching" /\ call[c].seen = 0
    /\ call' = [call EXCEPT ![c].seen = source[call[c].key]]
    /\ UNCHANGED <<store, inflight, generations, source, floor>>

\* The promise settles: c and everyone who joined it has the answer.
Answer(c, v) ==
    [d \in Callers |->
        IF d = c \/ (call[d].pc = "joined" /\ call[d].on = c)
        THEN [pc |-> "done", key |-> call[c].key, value |-> v, since |-> call[d].since]
        ELSE call[d]]

\* finally: clear the slot, if it is still ours.
Release(c) ==
    IF inflight[call[c].key] = c THEN [inflight EXCEPT ![call[c].key] = Nobody] ELSE inflight

FetchSucceeds(c) ==
    /\ call[c].pc = "fetching" /\ call[c].seen # 0
    /\ store' = IF generations[call[c].key] = call[c].gen
                THEN Set(call[c].key, call[c].seen) ELSE store
    /\ inflight' = Release(c)
    /\ call' = Answer(c, call[c].seen)
    /\ UNCHANGED <<generations, source, floor>>

\* The stale value on error; without one the error goes to every waiter.  A
\* fetcher that throws before it returns a promise is left out.
FetchFails(c) ==
    /\ call[c].pc = "fetching"
    /\ inflight' = Release(c)
    /\ call' = IF call[c].existing # None THEN Answer(c, call[c].existing.value)
               ELSE [d \in Callers |->
                        IF d = c \/ (call[d].pc = "joined" /\ call[d].on = c) THEN Idle ELSE call[d]]
    /\ UNCHANGED <<store, generations, source, floor>>

\* The caller goes on with its answer.
Return(c) ==
    /\ call[c].pc = "done"
    /\ call' = [call EXCEPT ![c] = Idle]
    /\ UNCHANGED <<store, inflight, generations, source, floor>>

-----------------------------------------------------------------------------
(* Invalidation, and the outside world. *)

(* Mutant: invalidation leaves the shared promise of a running fetch.      *)
DropMutant(K) ==
    /\ store' = [k \in All |-> IF k \in K THEN None ELSE store[k]]
    /\ generations' = [k \in All |-> IF k \in K THEN generations[k] + 1 ELSE generations[k]]
    /\ UNCHANGED <<inflight, call, source>>

\* invalidate and invalidateNamespace, on the keys of K.
Drop(K) ==
    /\ store' = [k \in All |-> IF k \in K THEN None ELSE store[k]]
    /\ inflight' = [k \in All |-> IF k \in K THEN Nobody ELSE inflight[k]]
    /\ generations' = [k \in All |-> IF k \in K THEN generations[k] + 1 ELSE generations[k]]
    /\ UNCHANGED <<call, source>>

invalidate(k) ==
    /\ generations[k] < MaxGenerations
    /\ Drop({k})
    /\ floor' = [floor EXCEPT ![k] = source[k]]

\* The keys of a namespace that any of the three maps knows.
Known(S) == {k \in S : store[k] # None \/ inflight[k] # Nobody \/ generations[k] > 0}

invalidateNamespace(S) ==
    /\ \A k \in S : generations[k] < MaxGenerations
    /\ Drop(Known(S))
    /\ floor' = [k \in All |-> IF k \in S THEN source[k] ELSE floor[k]]

\* What the key caches changes.
Write(k) ==
    /\ source[k] < MaxVersion
    /\ source' = [source EXCEPT ![k] = @ + 1]
    /\ UNCHANGED <<store, inflight, generations, call, floor>>

\* A caller sets a key that is not fetched through the cache.
SetDirect(k) ==
    /\ store' = Set(k, source[k])
    /\ UNCHANGED <<inflight, generations, call, source, floor>>

\* An entry's time to live runs out.
Expire(k) ==
    /\ Live(k)
    /\ store' = [store EXCEPT ![k].fresh = FALSE]
    /\ UNCHANGED <<inflight, generations, call, source, floor>>

Init ==
    /\ store = [k \in All |-> None]
    /\ inflight = [k \in All |-> Nobody]
    /\ generations = [k \in All |-> 0]
    /\ call = [c \in Callers |-> Idle]
    /\ source = [k \in All |-> 1]
    /\ floor = [k \in All |-> 1]

Next ==
    \/ \E c \in Callers, k \in Keys : Hit(c, k) \/ Join(c, k) \/ Fetch(c, k)
    \/ \E c \in Callers : FetcherReads(c) \/ FetchSucceeds(c) \/ FetchFails(c) \/ Return(c)
    \/ \E k \in All : invalidate(k) \/ Expire(k)
    \/ \E k \in Keys : Write(k)
    \/ \E S \in Namespaces : invalidateNamespace(S)
    \/ \E k \in Plain : SetDirect(k)

Spec == Init /\ [][Next]_vars

-----------------------------------------------------------------------------
Fetching(c) == call[c].pc = "fetching"
Calls ==
    [pc : {"idle"}] \cup
    [pc : {"done"}, key : Keys, value : Nat, since : Nat] \cup
    [pc : {"joined"}, key : Keys, on : Callers, since : Nat] \cup
    [pc : {"fetching"}, key : Keys, gen : Nat, existing : Entry \cup {None}, seen : Nat, since : Nat]

(* The maps hold entries, promises and generations, and calls are where    *)
(* getOrFetchWithMeta awaits.                                              *)
TypeOK ==
    /\ store \in [All -> Entry \cup {None}]
    /\ inflight \in [All -> Callers \cup {Nobody}]
    /\ generations \in [All -> Nat]
    /\ call \in [Callers -> Calls]
    /\ source \in [All -> Nat \ {0}] /\ floor \in [All -> Nat]

(* Read your invalidations: no call is answered, by a hit, a shared fetch   *)
(* or the stale fallback, with a version older than the one the key was     *)
(* last invalidated at before the call, however many fetches begun before   *)
(* the invalidation return after it.                                        *)
FreshReads == \A c \in Callers : call[c].pc = "done" => call[c].value >= call[c].since

(* Nor does an old fetch leave its value for later: what the cache holds is *)
(* never older than the key's last invalidation.                            *)
FreshStore == \A k \in Keys : store[k] # None => store[k].value >= floor[k]

(* One fetch per key: two fetches of a key run at once only if the key was  *)
(* invalidated between their starts.                                        *)
OneFetch ==
    \A c, d \in Callers :
        Fetching(c) /\ Fetching(d) /\ call[c].key = call[d].key /\ call[c].gen = call[d].gen => c = d

(* The cap is never exceeded.                                               *)
CapHolds == Cardinality(Present) <= MaxEntries

-----------------------------------------------------------------------------
(* What keeps the properties inductive: the fetch in a slot is running and   *)
(* of the key's current generation;                                         *)
SlotOwned(k) ==
    inflight[k] # Nobody =>
        /\ Fetching(inflight[k])
        /\ call[inflight[k]].key = k /\ call[inflight[k]].gen = generations[k]

(* a fetch of the current generation owns its slot and began at the key's    *)
(* floor, and the value it falls back on and the version it read are no      *)
(* older than the floor it began at;                                        *)
SoundFetch(c) ==
    Fetching(c) =>
        /\ call[c].gen <= generations[call[c].key]
        /\ call[c].gen = generations[call[c].key] =>
              inflight[call[c].key] = c /\ call[c].since = floor[call[c].key]
        /\ call[c].seen # 0 => call[c].seen >= call[c].since
        /\ call[c].existing # None => call[c].existing.value >= call[c].since
        /\ call[c].since <= source[call[c].key]

(* and a waiter shares a running fetch of its key that began at its floor.   *)
SoundWait(c) ==
    call[c].pc = "joined" =>
        /\ Fetching(call[c].on)
        /\ call[call[c].on].key = call[c].key /\ call[call[c].on].since = call[c].since

(* The inductive invariant of the cache: the maps, the running fetches and   *)
(* the waiters of getOrFetchWithMeta agree, whatever invalidations ran.      *)
CacheInvariant ==
    /\ TypeOK
    /\ FreshStore /\ FreshReads /\ OneFetch
    /\ \A k \in All : floor[k] <= source[k] /\ SlotOwned(k)
    /\ \A c \in Callers : SoundFetch(c) /\ SoundWait(c)
==============================================================================
