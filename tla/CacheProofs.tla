----------------------------- MODULE CacheProofs -----------------------------
(***************************************************************************)
(* The freshness, sharing and cap of Cache, for any keys, callers,          *)
(* namespaces, cap and number of writes and invalidations.                  *)
(***************************************************************************)
EXTENDS Cache, TLAPS, FiniteSetTheorems

(* Zenon is the default; a leaf that it cannot do names the SMT solver.    *)
USE ZenonT(30)

(* What set leaves in the map: the new entry at its key or nothing new, and *)
(* elsewhere the old entry or, purged, none.                                *)
LEMMA SetEffect ==
    ASSUME store \in [All -> Entry \cup {None}], NEW k \in All, NEW v \in Nat
    PROVE  /\ Set(k, v) \in [All -> Entry \cup {None}]
           /\ \A j \in All : \/ Set(k, v)[j] = store[j]
                             \/ Set(k, v)[j] = None
                             \/ j = k /\ Set(k, v)[j] = [value |-> v, fresh |-> TRUE]
<1> DEFINE entry == [value |-> v, fresh |-> TRUE]
<1>1. entry \in Entry /\ entry.value = v
  BY DEF Entry
<1>2. CASE Set(k, v) = [store EXCEPT ![k] = entry]
  BY <1>1, <1>2
<1>3. CASE Set(k, v) = [purgeExpired EXCEPT ![k] = entry]
  BY <1>1, <1>3 DEF purgeExpired
<1>4. CASE Set(k, v) = purgeExpired
  BY <1>4 DEF purgeExpired
<1>5. Set(k, v) \in {[store EXCEPT ![k] = entry], [purgeExpired EXCEPT ![k] = entry], purgeExpired}
  BY DEF Set
<1> QED
  BY <1>2, <1>3, <1>4, <1>5

(* The empty cache satisfies the invariant.                                 *)
LEMMA InitCache == Init => CacheInvariant
  BY SMTT(30), CacheAssumption
  DEF Init, CacheInvariant, TypeOK, FreshStore, FreshReads, OneFetch, SlotOwned, SoundFetch,
      SoundWait, Fetching, Calls, Idle, All, Entry

(* A hit answers with an entry no older than the key's floor.               *)
LEMMA HitStep ==
    ASSUME CacheInvariant, NEW c \in Callers, NEW k \in Keys, Hit(c, k)
    PROVE  CacheInvariant'
<1>1. store[k] \in Entry /\ store[k].value >= floor[k] /\ store[k].value \in Nat /\ floor[k] \in Nat
  BY DEF CacheInvariant, TypeOK, FreshStore, Hit, Live, All, Entry
<1>2. TypeOK'
  BY <1>1 DEF CacheInvariant, TypeOK, Hit, Calls
<1>3. FreshReads'
  BY <1>1 DEF CacheInvariant, TypeOK, FreshReads, Hit
<1>4. (FreshStore /\ OneFetch)'
  BY SMTT(30) DEF CacheInvariant, TypeOK, FreshStore, OneFetch, Fetching, Hit
<1>5. \A j \in All : (floor[j] <= source[j] /\ SlotOwned(j))'
  BY SMTT(30) DEF CacheInvariant, TypeOK, SlotOwned, Fetching, Hit
<1>6. \A d \in Callers : (SoundFetch(d) /\ SoundWait(d))'
  BY SMTT(30) DEF CacheInvariant, TypeOK, SoundFetch, SoundWait, Fetching, Hit
<1> QED
  BY <1>2, <1>3, <1>4, <1>5, <1>6 DEF CacheInvariant

(* A waiter joins a fetch of the key's current generation, so one that began *)
(* at the floor the waiter sees.                                            *)
LEMMA JoinStep ==
    ASSUME CacheInvariant, NEW c \in Callers, NEW k \in Keys, Join(c, k)
    PROVE  CacheInvariant'
<1>1. k \in All /\ inflight[k] \in Callers /\ floor[k] \in Nat /\ inflight[k] # c
  BY SMTT(30) DEF CacheInvariant, TypeOK, Join, SlotOwned, Fetching, All
<1>2. /\ Fetching(inflight[k]) /\ call[inflight[k]].key = k
      /\ call[inflight[k]].since = floor[k]
  BY <1>1 DEF CacheInvariant, Join, SlotOwned, SoundFetch
<1>3. TypeOK'
  BY <1>1 DEF CacheInvariant, TypeOK, Join, Calls
<1>4. (FreshReads /\ FreshStore /\ OneFetch)'
  BY SMTT(30) DEF CacheInvariant, TypeOK, FreshReads, FreshStore, OneFetch, Fetching, Join
<1>5. \A j \in All : (floor[j] <= source[j] /\ SlotOwned(j))'
  BY SMTT(30) DEF CacheInvariant, TypeOK, SlotOwned, Fetching, Join
<1>6. \A d \in Callers : (SoundFetch(d) /\ SoundWait(d))'
  BY SMTT(30), <1>1, <1>2 DEF CacheInvariant, TypeOK, SoundFetch, SoundWait, Fetching, Join
<1> QED
  BY <1>3, <1>4, <1>5, <1>6 DEF CacheInvariant

(* A new fetch takes a free slot, so no fetch of its generation is running.  *)
LEMMA FetchStep ==
    ASSUME CacheInvariant, NEW c \in Callers, NEW k \in Keys, Fetch(c, k)
    PROVE  CacheInvariant'
<1>1. /\ k \in All /\ c # Nobody
      /\ generations[k] \in Nat /\ floor[k] \in Nat /\ source[k] \in Nat /\ floor[k] <= source[k]
      /\ store[k] \in Entry \cup {None}
      /\ store[k] # None => store[k].value >= floor[k]
  BY CacheAssumption DEF CacheInvariant, TypeOK, FreshStore, All
<1>2. call' = [call EXCEPT ![c] = [pc |-> "fetching", key |-> k, gen |-> generations[k],
                                    existing |-> store[k], seen |-> 0, since |-> floor[k]]]
  BY DEF Fetch
<1>3. \A d \in Callers : Fetching(d) /\ call[d].key = k => call[d].gen # generations[k]
  BY SMTT(30), <1>1, CacheAssumption DEF CacheInvariant, TypeOK, SoundFetch, Fetch
<1>4. TypeOK'
  BY <1>1 DEF CacheInvariant, TypeOK, Fetch, Calls
<1>5. OneFetch'
  BY SMTT(30), <1>2, <1>3 DEF CacheInvariant, TypeOK, OneFetch, Fetching, Fetch
<1>6. (FreshReads /\ FreshStore)'
  BY DEF CacheInvariant, TypeOK, FreshReads, FreshStore, Fetch
<1>7. \A j \in All : (floor[j] <= source[j] /\ SlotOwned(j))'
  BY SMTT(30), <1>1 DEF CacheInvariant, TypeOK, SlotOwned, Fetching, Fetch
<1>8. \A d \in Callers : SoundFetch(d)'
  <2> TAKE d \in Callers
  <2>1. CASE d = c
    BY SMTT(30), <1>1, <2>1 DEF CacheInvariant, TypeOK, SoundFetch, Fetching, Fetch
  <2>2. CASE d # c
    BY SMTT(30), <1>1, <1>3, <2>2 DEF CacheInvariant, TypeOK, SoundFetch, Fetching, Fetch
  <2> QED
    BY <2>1, <2>2
<1>9. \A d \in Callers : SoundWait(d)'
  BY SMTT(30) DEF CacheInvariant, TypeOK, SoundWait, Fetching, Fetch
<1> QED
  BY <1>4, <1>5, <1>6, <1>7, <1>8, <1>9 DEF CacheInvariant

(* The fetcher reads a version at least the floor its fetch began at.        *)
LEMMA ReadStep ==
    ASSUME CacheInvariant, NEW c \in Callers, FetcherReads(c)
    PROVE  CacheInvariant'
<1>1. /\ call[c] \in [pc : {"fetching"}, key : Keys, gen : Nat, existing : Entry \cup {None}, seen : Nat, since : Nat]
      /\ call[c].key \in All
      /\ source[call[c].key] \in Nat /\ call[c].since <= source[call[c].key]
  BY DEF CacheInvariant, TypeOK, Calls, FetcherReads, SoundFetch, Fetching, All
<1>2. call'[c] = [call[c] EXCEPT !.seen = source[call[c].key]] /\ \A d \in Callers \ {c} : call'[d] = call[d]
  BY DEF CacheInvariant, TypeOK, FetcherReads
<1>3. /\ call'[c].pc = "fetching" /\ call'[c].key = call[c].key /\ call'[c].gen = call[c].gen
      /\ call'[c].existing = call[c].existing /\ call'[c].since = call[c].since
      /\ call'[c].seen = source[call[c].key]
  BY <1>1, <1>2
<1>4. TypeOK'
  <2>1. call'[c] \in Calls
    BY <1>1, <1>2 DEF Calls
  <2> QED
    BY <2>1 DEF CacheInvariant, TypeOK, FetcherReads
<1>5. (FreshReads /\ FreshStore /\ OneFetch)'
  BY SMTT(30), <1>1, <1>2, <1>3 DEF CacheInvariant, TypeOK, FreshReads, FreshStore, OneFetch, Fetching, FetcherReads
<1>6. \A j \in All : (floor[j] <= source[j] /\ SlotOwned(j))'
  BY SMTT(30), <1>1, <1>2, <1>3 DEF CacheInvariant, TypeOK, SlotOwned, Fetching, FetcherReads
<1>7. \A d \in Callers : (SoundFetch(d) /\ SoundWait(d))'
  BY SMTT(30), <1>1, <1>2, <1>3 DEF CacheInvariant, TypeOK, SoundFetch, SoundWait, Fetching, FetcherReads
<1> QED
  BY <1>4, <1>5, <1>6, <1>7 DEF CacheInvariant

(* A promise settles: its fetch and its waiters are over, the slot is given  *)
(* back if it is still theirs, and everybody else is where they were.        *)
LEMMA SettleKeeps ==
    ASSUME CacheInvariant, NEW c \in Callers, Fetching(c),
           inflight' = Release(c), UNCHANGED <<generations, source, floor>>,
           \A d \in Callers :
               IF d = c \/ (call[d].pc = "joined" /\ call[d].on = c)
               THEN call'[d].pc \in {"done", "idle"} ELSE call'[d] = call[d]
    PROVE  /\ OneFetch'
           /\ inflight' \in [All -> Callers \cup {Nobody}]
           /\ \A j \in All : (floor[j] <= source[j] /\ SlotOwned(j))'
           /\ \A d \in Callers : (SoundFetch(d) /\ SoundWait(d))'
<1>1. call[c].key \in All /\ c # Nobody
  BY CacheAssumption DEF CacheInvariant, TypeOK, Calls, Fetching, All
<1>2. \A d \in Callers : call'[d].pc \in {"fetching", "joined"} => call'[d] = call[d] /\ d # c
  OBVIOUS
<1>3. \A d \in Callers : Fetching(d) /\ d # c => call'[d] = call[d]
  BY DEF Fetching
<1>4. inflight' \in [All -> Callers \cup {Nobody}]
  BY DEF CacheInvariant, TypeOK, Release
<1>5. \A j \in All : inflight'[j] # Nobody => inflight'[j] = inflight[j] /\ inflight[j] # c
  BY <1>1 DEF CacheInvariant, TypeOK, Release, SlotOwned
<1>6. \A j \in All : inflight[j] # c => inflight'[j] = inflight[j]
  BY <1>1 DEF CacheInvariant, TypeOK, Release
<1>7. OneFetch'
  BY SMTT(30), <1>2 DEF CacheInvariant, OneFetch, Fetching
<1>8. \A j \in All : (floor[j] <= source[j] /\ SlotOwned(j))'
  BY SMTT(30), <1>3, <1>4, <1>5 DEF CacheInvariant, TypeOK, SlotOwned, Fetching
<1>9. \A d \in Callers : SoundFetch(d)'
  <2> SUFFICES ASSUME NEW d \in Callers, Fetching(d)' PROVE SoundFetch(d)'
    BY DEF SoundFetch
  <2>1. call'[d] = call[d] /\ d # c /\ call[d].key \in All /\ Fetching(d)
    BY <1>2 DEF CacheInvariant, TypeOK, Calls, Fetching, All
  <2> QED
    BY SMTT(30), <1>6, <2>1 DEF CacheInvariant, SoundFetch, Fetching
<1>10. \A d \in Callers : SoundWait(d)'
  <2> SUFFICES ASSUME NEW d \in Callers, call'[d].pc = "joined" PROVE SoundWait(d)'
    BY DEF SoundWait
  <2>1. call'[d] = call[d] /\ call[d].on # c
    BY <1>2
  <2>2. call[d].on \in Callers /\ Fetching(call[d].on)
    BY <2>1 DEF CacheInvariant, TypeOK, Calls, SoundWait
  <2> QED
    BY SMTT(30), <1>3, <2>1, <2>2 DEF CacheInvariant, SoundWait, Fetching
<1> QED
  BY <1>4, <1>7, <1>8, <1>9, <1>10

(* An answer no older than the fetch's floor is none too old for anybody     *)
(* who waited for it.                                                       *)
LEMMA AnswerIsFresh ==
    ASSUME CacheInvariant, NEW c \in Callers, Fetching(c), NEW v \in Nat, v >= call[c].since,
           call' = Answer(c, v)
    PROVE  /\ call' \in [Callers -> Calls]
           /\ FreshReads'
           /\ \A d \in Callers :
                 IF d = c \/ (call[d].pc = "joined" /\ call[d].on = c)
                 THEN call'[d].pc \in {"done", "idle"} ELSE call'[d] = call[d]
<1>1. \A d \in Callers : d = c \/ (call[d].pc = "joined" /\ call[d].on = c) =>
          call[d].since = call[c].since /\ call[d].since \in Nat /\ call[c].key \in Keys
  BY DEF CacheInvariant, TypeOK, Calls, SoundWait, Fetching
<1>2. call' \in [Callers -> Calls]
  BY <1>1 DEF CacheInvariant, TypeOK, Answer, Calls
<1> QED
  BY <1>1, <1>2 DEF CacheInvariant, FreshReads, Answer

(* A fetch that returns stores its value only if the key was not invalidated *)
(* since it began, and then the version it read is at least the floor.       *)
LEMMA SucceedStep ==
    ASSUME CacheInvariant, NEW c \in Callers, FetchSucceeds(c)
    PROVE  CacheInvariant'
<1>1. /\ Fetching(c) /\ call[c].key \in Keys /\ call[c].key \in All
      /\ call[c].seen \in Nat /\ call[c].seen >= call[c].since
  BY DEF CacheInvariant, TypeOK, Calls, SoundFetch, Fetching, FetchSucceeds, All
<1>2. /\ call' \in [Callers -> Calls] /\ FreshReads'
      /\ \A d \in Callers :
            IF d = c \/ (call[d].pc = "joined" /\ call[d].on = c)
            THEN call'[d].pc \in {"done", "idle"} ELSE call'[d] = call[d]
  BY <1>1, AnswerIsFresh DEF FetchSucceeds
<1>3. /\ OneFetch' /\ inflight' \in [All -> Callers \cup {Nobody}]
      /\ \A j \in All : (floor[j] <= source[j] /\ SlotOwned(j))'
      /\ \A d \in Callers : (SoundFetch(d) /\ SoundWait(d))'
  BY <1>1, <1>2, SettleKeeps DEF FetchSucceeds
<1>4. store \in [All -> Entry \cup {None}]
  BY DEF CacheInvariant, TypeOK
<1>5. CASE generations[call[c].key] = call[c].gen
  <2>1. call[c].seen >= floor[call[c].key]
    BY <1>1, <1>5 DEF CacheInvariant, SoundFetch
  <2>2. /\ store' \in [All -> Entry \cup {None}]
        /\ \A j \in All : \/ store'[j] = store[j] \/ store'[j] = None
                          \/ j = call[c].key /\ store'[j] = [value |-> call[c].seen, fresh |-> TRUE]
    BY SMTT(30), <1>1, <1>4, <1>5, SetEffect DEF FetchSucceeds
  <2>3. FreshStore'
    BY SMTT(30), <2>1, <2>2 DEF CacheInvariant, FreshStore, FetchSucceeds, All
  <2> QED
    BY <1>2, <1>3, <2>2, <2>3 DEF CacheInvariant, TypeOK, FetchSucceeds
<1>6. CASE generations[call[c].key] # call[c].gen
  BY <1>2, <1>3, <1>6 DEF CacheInvariant, TypeOK, FreshStore, FetchSucceeds
<1> QED
  BY <1>5, <1>6

(* The stale fallback was in the cache when the fetch began, so it is no     *)
(* older than the floor of anybody who waited.                              *)
LEMMA FailStep ==
    ASSUME CacheInvariant, NEW c \in Callers, FetchFails(c)
    PROVE  CacheInvariant'
<1>1. Fetching(c) /\ call[c].existing \in Entry \cup {None}
  BY DEF CacheInvariant, TypeOK, Calls, Fetching, FetchFails
<1>2. /\ call' \in [Callers -> Calls] /\ FreshReads'
      /\ \A d \in Callers :
            IF d = c \/ (call[d].pc = "joined" /\ call[d].on = c)
            THEN call'[d].pc \in {"done", "idle"} ELSE call'[d] = call[d]
  <2>1. CASE call[c].existing # None
    <3>1. call[c].existing.value \in Nat /\ call[c].existing.value >= call[c].since
      BY <1>1, <2>1 DEF CacheInvariant, SoundFetch, Entry
    <3> QED
      BY SMTT(30), <1>1, <2>1, <3>1, AnswerIsFresh DEF FetchFails
  <2>2. CASE call[c].existing = None
    BY <2>2 DEF CacheInvariant, TypeOK, FreshReads, FetchFails, Idle, Calls
  <2> QED
    BY <2>1, <2>2
<1>3. /\ OneFetch' /\ inflight' \in [All -> Callers \cup {Nobody}]
      /\ \A j \in All : (floor[j] <= source[j] /\ SlotOwned(j))'
      /\ \A d \in Callers : (SoundFetch(d) /\ SoundWait(d))'
  BY <1>1, <1>2, SettleKeeps DEF FetchFails
<1> QED
  BY <1>2, <1>3 DEF CacheInvariant, TypeOK, FreshStore, FetchFails

(* Invalidation drops entry, slot and generation together, so every fetch of *)
(* the key becomes one of an older generation; a key none of the maps knows  *)
(* has no fetch to outrun.                                                  *)
LEMMA DropStep ==
    ASSUME CacheInvariant, NEW S \in SUBSET All, NEW K \in SUBSET S, Drop(K),
           \A k \in S \ K : store[k] = None /\ inflight[k] = Nobody /\ generations[k] = 0,
           floor' = [k \in All |-> IF k \in S THEN source[k] ELSE floor[k]]
    PROVE  CacheInvariant'
<1>1. \A c \in Callers : Fetching(c) => call[c].key \in All /\ call[c].gen \in Nat
  BY DEF CacheInvariant, TypeOK, Calls, Fetching, All
<1>2. \A c \in Callers : Fetching(c) /\ call[c].key \in S => call[c].key \in K
  <2> SUFFICES ASSUME NEW c \in Callers, Fetching(c), call[c].key \in S \ K PROVE FALSE
    OBVIOUS
  <2>1. generations[call[c].key] = 0 /\ inflight[call[c].key] = Nobody /\ call[c].gen \in Nat
    BY <1>1
  <2>2. /\ call[c].gen <= generations[call[c].key]
        /\ call[c].gen = generations[call[c].key] => inflight[call[c].key] = c
    BY DEF CacheInvariant, SoundFetch
  <2>3. call[c].gen = 0
    BY SMTT(30), <2>1, <2>2
  <2> QED
    BY <2>1, <2>2, <2>3, CacheAssumption
<1>3. /\ \A k \in All : store[k] \in Entry \cup {None} /\ inflight[k] \in Callers \cup {Nobody}
      /\ \A k \in All : generations[k] \in Nat /\ source[k] \in Nat /\ floor[k] \in Nat
  BY DEF CacheInvariant, TypeOK
<1>4. /\ \A k \in K : store'[k] = None /\ inflight'[k] = Nobody /\ generations'[k] = generations[k] + 1
      /\ \A k \in All \ K : /\ store'[k] = store[k] /\ inflight'[k] = inflight[k]
                            /\ generations'[k] = generations[k]
      /\ \A k \in All : floor'[k] = IF k \in S THEN source[k] ELSE floor[k]
      /\ UNCHANGED <<call, source>>
  BY DEF Drop
<1>5. TypeOK'
  <2>1. \A k \in All : generations'[k] \in Nat
    BY SMTT(30), <1>3, <1>4
  <2>2. generations' \in [All -> Nat]
    BY <2>1 DEF Drop
  <2>3. store' \in [All -> Entry \cup {None}] /\ inflight' \in [All -> Callers \cup {Nobody}]
    BY <1>3 DEF Drop
  <2>4. floor' \in [All -> Nat]
    BY <1>3
  <2> QED
    BY <2>2, <2>3, <2>4, <1>4 DEF CacheInvariant, TypeOK
<1>6. FreshStore'
  BY <1>4 DEF CacheInvariant, FreshStore, All
<1>7. (FreshReads /\ OneFetch)'
  BY <1>4 DEF CacheInvariant, FreshReads, OneFetch, Fetching
<1>8. \A k \in All : (floor[k] <= source[k])'
  BY SMTT(30), <1>3, <1>4 DEF CacheInvariant
<1>9. \A k \in All : SlotOwned(k)'
  <2> SUFFICES ASSUME NEW k \in All, inflight'[k] # Nobody PROVE SlotOwned(k)'
    BY DEF SlotOwned
  <2>1. inflight'[k] = inflight[k] /\ generations'[k] = generations[k]
    BY <1>4
  <2>2. SlotOwned(k)
    BY DEF CacheInvariant
  <2> QED
    BY <2>1, <2>2, <1>4 DEF SlotOwned, Fetching
<1>10. \A c \in Callers : SoundFetch(c)'
  <2> SUFFICES ASSUME NEW c \in Callers, Fetching(c) PROVE SoundFetch(c)'
    BY <1>4 DEF SoundFetch, Fetching
  <2>1. SoundFetch(c) /\ call[c].key \in All
    BY <1>1 DEF CacheInvariant
  <2>2. CASE call[c].key \in K
    <3>1. /\ call[c].gen \in Nat /\ generations[call[c].key] \in Nat
          /\ generations'[call[c].key] = generations[call[c].key] + 1
          /\ call[c].gen <= generations[call[c].key]
      BY <1>1, <1>3, <1>4, <2>1, <2>2 DEF SoundFetch
    <3>2. call[c].gen <= generations'[call[c].key] /\ call[c].gen # generations'[call[c].key]
      BY SMTT(30), <3>1
    <3> QED
      BY <1>4, <2>1, <3>2 DEF SoundFetch, Fetching
  <2>3. CASE call[c].key \notin K
    <3>1. call[c].key \notin S
      BY <1>2, <2>3
    <3> QED
      BY <1>4, <2>1, <2>3, <3>1 DEF SoundFetch, Fetching
  <2> QED
    BY <2>2, <2>3
<1>11. \A c \in Callers : SoundWait(c)'
  BY <1>4 DEF CacheInvariant, SoundWait, Fetching
<1> QED
  BY <1>5, <1>6, <1>7, <1>8, <1>9, <1>10, <1>11 DEF CacheInvariant

(* invalidateNamespace drops the keys of the namespace that a map knows.     *)
LEMMA NamespaceStep ==
    ASSUME CacheInvariant, NEW S \in SUBSET All, invalidateNamespace(S)
    PROVE  CacheInvariant'
<1>1. Known(S) \in SUBSET S
  BY DEF Known
<1>2. \A k \in S \ Known(S) : store[k] = None /\ inflight[k] = Nobody /\ generations[k] = 0
  BY SMTT(30) DEF Known, CacheInvariant, TypeOK
<1> QED
  BY <1>1, <1>2, DropStep DEF invalidateNamespace

(* invalidate bumps its key also when no map knows it.                       *)
LEMMA InvalidateStep ==
    ASSUME CacheInvariant, NEW k \in All, invalidate(k)
    PROVE  CacheInvariant'
<1>1. floor' = [j \in All |-> IF j \in {k} THEN source[j] ELSE floor[j]]
  BY DEF CacheInvariant, TypeOK, invalidate
<1> QED
  BY <1>1, DropStep DEF invalidate

(* Nothing but the stored entries changes, and those stay fresh.            *)
LEMMA StoreStep ==
    ASSUME CacheInvariant, store' \in [All -> Entry \cup {None}], FreshStore',
           UNCHANGED <<inflight, generations, call, source, floor>>
    PROVE  CacheInvariant'
<1>1. TypeOK'
  BY DEF CacheInvariant, TypeOK
<1>2. FreshReads' /\ OneFetch'
  BY DEF CacheInvariant, FreshReads, OneFetch, Fetching
<1>3. \A k \in All : (floor[k] <= source[k] /\ SlotOwned(k))'
  BY DEF CacheInvariant, SlotOwned, Fetching
<1>4. \A c \in Callers : SoundFetch(c)' /\ SoundWait(c)'
  BY DEF CacheInvariant, SoundFetch, SoundWait, Fetching
<1> QED
  BY <1>1, <1>2, <1>3, <1>4 DEF CacheInvariant

(* The steps that touch no fetch: an answer taken, a write to a source, an   *)
(* entry expiring, a plain set.                                             *)
LEMMA QuietStep ==
    ASSUME CacheInvariant,
           \/ \E c \in Callers : Return(c)
           \/ \E k \in Keys : Write(k)
           \/ \E k \in All : Expire(k)
           \/ \E k \in Plain : SetDirect(k)
    PROVE  CacheInvariant'
<1>1. ASSUME NEW c \in Callers, Return(c) PROVE CacheInvariant'
  <2>1. Idle \in Calls /\ Idle.pc = "idle"
    BY DEF Idle, Calls
  <2>2. \A d \in Callers : IF d = c THEN call'[d] = Idle ELSE call'[d] = call[d]
    BY <1>1 DEF CacheInvariant, TypeOK, Return
  <2>3. TypeOK'
    BY <1>1, <2>1 DEF CacheInvariant, TypeOK, Return
  <2>4. call[c].pc = "done" /\ UNCHANGED <<store, inflight, generations, source, floor>>
    BY <1>1 DEF Return
  <2>5. \A d \in Callers : Fetching(d) => d # c /\ call'[d] = call[d]
    BY <2>2, <2>4 DEF Fetching
  <2>6. \A d \in Callers : call'[d].pc # "idle" => d # c /\ call'[d] = call[d]
    BY <2>1, <2>2
  <2>7. (FreshStore /\ FreshReads /\ OneFetch)'
    BY SMTT(30), <2>4, <2>6 DEF CacheInvariant, FreshStore, FreshReads, OneFetch, Fetching
  <2>8. \A j \in All : (floor[j] <= source[j] /\ SlotOwned(j))'
    BY SMTT(30), <2>4, <2>5 DEF CacheInvariant, TypeOK, SlotOwned, Fetching
  <2>9. \A d \in Callers : SoundFetch(d)'
    <3> SUFFICES ASSUME NEW d \in Callers, Fetching(d)' PROVE SoundFetch(d)'
      BY DEF SoundFetch
    <3>1. call'[d] = call[d] /\ Fetching(d)
      BY <2>6 DEF Fetching
    <3>2. SoundFetch(d)
      BY DEF CacheInvariant
    <3> QED
      BY <2>4, <3>1, <3>2 DEF SoundFetch, Fetching
  <2>10. \A d \in Callers : SoundWait(d)'
    <3> SUFFICES ASSUME NEW d \in Callers, call'[d].pc = "joined" PROVE SoundWait(d)'
      BY DEF SoundWait
    <3>1. call'[d] = call[d] /\ call[d].on \in Callers /\ Fetching(call[d].on)
      BY <2>6 DEF CacheInvariant, TypeOK, Calls, SoundWait
    <3> QED
      BY SMTT(30), <2>5, <3>1 DEF CacheInvariant, SoundWait, Fetching
  <2> QED
    BY <2>3, <2>7, <2>8, <2>9, <2>10 DEF CacheInvariant
<1>2. ASSUME NEW k \in Keys, Write(k) PROVE CacheInvariant'
  <2>1. k \in All /\ TypeOK' /\ \A j \in All : source'[j] \in Nat /\ source'[j] >= source[j]
    BY SMTT(30), <1>2 DEF CacheInvariant, TypeOK, Write, All
  <2>2. \A j \in All : (floor[j] <= source[j] /\ SlotOwned(j))'
    BY SMTT(30), <1>2, <2>1 DEF CacheInvariant, TypeOK, SlotOwned, Fetching, Write
  <2>3. \A c \in Callers : (SoundFetch(c) /\ SoundWait(c))'
    <3>1. \A c \in Callers : Fetching(c) => call[c].key \in All /\ call[c].since \in Nat
      BY DEF CacheInvariant, TypeOK, Calls, Fetching, All
    <3>2. UNCHANGED <<inflight, generations, call, floor>>
      BY <1>2 DEF Write
    <3>3. \A c \in Callers : SoundWait(c)'
      BY <3>2 DEF CacheInvariant, SoundWait, Fetching
    <3>4. ASSUME NEW c \in Callers, Fetching(c)
          PROVE  call[c].since <= source'[call[c].key]
      <4>1. call[c].since <= source[call[c].key] /\ source[call[c].key] \in Nat
        BY <3>1, <3>4 DEF CacheInvariant, TypeOK, SoundFetch
      <4> QED
        BY SMTT(30), <2>1, <3>1, <3>4, <4>1
    <3>5. \A c \in Callers : SoundFetch(c)'
      <4> SUFFICES ASSUME NEW c \in Callers, Fetching(c)' PROVE SoundFetch(c)'
        BY DEF SoundFetch
      <4>1. Fetching(c) /\ SoundFetch(c)
        BY <3>2 DEF CacheInvariant, Fetching
      <4> QED
        BY <3>2, <3>4, <4>1 DEF SoundFetch, Fetching
    <3> QED
      BY <3>3, <3>5
  <2> QED
    BY <1>2, <2>1, <2>2, <2>3 DEF CacheInvariant, FreshStore, FreshReads, OneFetch, Fetching, Write
<1>3. ASSUME NEW k \in All, Expire(k) PROVE CacheInvariant'
  <2>1. store[k] \in Entry
    BY <1>3 DEF CacheInvariant, TypeOK, Expire, Live
  <2>2. store' \in [All -> Entry \cup {None}] /\ store'[k].value = store[k].value
    BY <1>3, <2>1 DEF CacheInvariant, TypeOK, Expire, Entry
  <2>3. FreshStore'
    BY SMTT(30), <1>3, <2>1, <2>2 DEF CacheInvariant, TypeOK, FreshStore, Expire, Live
  <2> QED
    BY <1>3, <2>2, <2>3, StoreStep DEF Expire
<1>4. ASSUME NEW k \in Plain, SetDirect(k) PROVE CacheInvariant'
  <2>1. /\ store' \in [All -> Entry \cup {None}]
        /\ \A j \in Keys : store'[j] = store[j] \/ store'[j] = None
    <3>1. k \in All /\ k \notin Keys /\ Keys \subseteq All
      BY CacheAssumption DEF All
    <3>2. store \in [All -> Entry \cup {None}] /\ source[k] \in Nat
      BY <3>1 DEF CacheInvariant, TypeOK
    <3>3. store' = Set(k, source[k])
      BY <1>4 DEF SetDirect
    <3>4. /\ Set(k, source[k]) \in [All -> Entry \cup {None}]
          /\ \A j \in All : \/ Set(k, source[k])[j] = store[j]
                            \/ Set(k, source[k])[j] = None
                            \/ j = k /\ Set(k, source[k])[j] = [value |-> source[k], fresh |-> TRUE]
      BY SMTT(30), <3>1, <3>2, SetEffect
    <3> QED
      BY <3>1, <3>3, <3>4
  <2>2. FreshStore'
    BY <1>4, <2>1 DEF CacheInvariant, FreshStore, SetDirect
  <2> QED
    BY <1>4, <2>1, <2>2, StoreStep DEF SetDirect
<1> QED
  BY <1>1, <1>2, <1>3, <1>4

(* Every step of the cache keeps the invariant.                             *)
LEMMA NextCache == CacheInvariant /\ [Next]_vars => CacheInvariant'
<1> SUFFICES ASSUME CacheInvariant, [Next]_vars PROVE CacheInvariant'
  OBVIOUS
<1>1. CASE UNCHANGED vars
  <2>1. store' \in [All -> Entry \cup {None}] /\ FreshStore'
    BY <1>1 DEF vars, CacheInvariant, TypeOK, FreshStore
  <2> QED
    BY <1>1, <2>1, StoreStep DEF vars
<1>2. ASSUME NEW c \in Callers, NEW k \in Keys, Hit(c, k) \/ Join(c, k) \/ Fetch(c, k)
      PROVE  CacheInvariant'
  BY <1>2, HitStep, JoinStep, FetchStep
<1>3. ASSUME NEW c \in Callers, FetcherReads(c) \/ FetchSucceeds(c) \/ FetchFails(c) \/ Return(c)
      PROVE  CacheInvariant'
  BY <1>3, ReadStep, SucceedStep, FailStep, QuietStep
<1>4. ASSUME NEW k \in All, invalidate(k) \/ Expire(k) PROVE CacheInvariant'
  BY <1>4, InvalidateStep, QuietStep
<1>5. ASSUME NEW S \in Namespaces, invalidateNamespace(S) PROVE CacheInvariant'
  BY <1>5, NamespaceStep, CacheAssumption
<1>6. ASSUME NEW k \in Keys, Write(k) PROVE CacheInvariant'
  BY <1>6, QuietStep
<1>7. ASSUME NEW k \in Plain, SetDirect(k) PROVE CacheInvariant'
  BY <1>7, QuietStep
<1> QED
  BY <1>1, <1>2, <1>3, <1>4, <1>5, <1>6, <1>7 DEF Next

(* The inductive invariant holds in every reachable state of the cache.      *)
THEOREM CacheInvariantHolds == Spec => []CacheInvariant
  BY InitCache, NextCache, PTL DEF Spec

(* Entries, in-flight fetches and callers keep their types in every step.    *)
THEOREM CacheTypes == Spec => []TypeOK
<1>1. CacheInvariant => TypeOK
  BY DEF CacheInvariant
<1> QED
  BY <1>1, CacheInvariantHolds, PTL

(* Every answer of getOrFetchWithMeta is at least as new as the last          *)
(* invalidation before the call.                                            *)
THEOREM ReadsAreFresh == Spec => []FreshReads
<1>1. CacheInvariant => FreshReads
  BY DEF CacheInvariant
<1> QED
  BY <1>1, CacheInvariantHolds, PTL

(* No entry the cache holds is older than its key's last invalidation.       *)
THEOREM StoreIsFresh == Spec => []FreshStore
<1>1. CacheInvariant => FreshStore
  BY DEF CacheInvariant
<1> QED
  BY <1>1, CacheInvariantHolds, PTL

(* Two fetches of a key overlap only across an invalidation.                 *)
THEOREM FetchesAreShared == Spec => []OneFetch
<1>1. CacheInvariant => OneFetch
  BY DEF CacheInvariant
<1> QED
  BY <1>1, CacheInvariantHolds, PTL

(* A set at the cap purges, and refuses a new key when that made no room.    *)
LEMMA SetKeepsCap ==
    ASSUME TypeOK, NEW k \in All, NEW v, IsFiniteSet(Present), CapHolds, store' = Set(k, v)
    PROVE  IsFiniteSet(Present)' /\ CapHolds'
<1> DEFINE entry == [value |-> v, fresh |-> TRUE]
           Fresh == {j \in All : Live(j)}
<1>1. /\ IsFiniteSet(Fresh) /\ Cardinality(Fresh) <= Cardinality(Present)
      /\ Cardinality(Fresh) \in Nat /\ Cardinality(Present) \in Nat /\ MaxEntries \in Nat
  BY FS_Subset, FS_CardinalityType, CacheAssumption DEF Present, Live
<1>2. CASE store' = [store EXCEPT ![k] = entry] /\ store[k] # None
  <2>1. Present' \subseteq Present
    BY <1>2 DEF Present, TypeOK
  <2> QED
    BY SMTT(30), <1>1, <2>1, FS_Subset, FS_CardinalityType DEF CapHolds
<1>3. CASE store' = [store EXCEPT ![k] = entry] /\ Cardinality(Present) < MaxEntries
  <2>1. Present' \subseteq Present \cup {k}
    BY <1>3 DEF Present, TypeOK
  <2>2. IsFiniteSet(Present \cup {k}) /\ Cardinality(Present \cup {k}) <= MaxEntries
    <3>1. /\ IsFiniteSet(Present \cup {k})
          /\ Cardinality(Present \cup {k}) = IF k \in Present THEN Cardinality(Present) ELSE Cardinality(Present) + 1
      BY <1>1, FS_AddElement
    <3> QED
      BY SMTT(30), <1>1, <1>3, <3>1
  <2> QED
    BY SMTT(30), <1>1, <2>1, <2>2, FS_Subset, FS_CardinalityType DEF CapHolds
<1>4. CASE store' = [purgeExpired EXCEPT ![k] = entry] /\ Cardinality(Fresh) < MaxEntries
  <2>1. Present' \subseteq Fresh \cup {k}
    BY <1>4 DEF Present, TypeOK, purgeExpired
  <2>2. IsFiniteSet(Fresh \cup {k}) /\ Cardinality(Fresh \cup {k}) <= MaxEntries
    <3>1. /\ IsFiniteSet(Fresh \cup {k})
          /\ Cardinality(Fresh \cup {k}) = IF k \in Fresh THEN Cardinality(Fresh) ELSE Cardinality(Fresh) + 1
      BY <1>1, FS_AddElement
    <3> QED
      BY SMTT(30), <1>1, <1>4, <3>1
  <2> QED
    BY SMTT(30), <1>1, <2>1, <2>2, FS_Subset, FS_CardinalityType DEF CapHolds
<1>5. CASE store' = purgeExpired
  <2>1. Present' \subseteq Present
    BY <1>5 DEF Present, purgeExpired, Live
  <2> QED
    BY SMTT(30), <1>1, <2>1, FS_Subset, FS_CardinalityType DEF CapHolds
<1> QED
  BY <1>2, <1>3, <1>4, <1>5 DEF Set

(* The cache never holds more than MAX_ENTRIES entries.                      *)
THEOREM CapIsKept == Spec => []CapHolds
<1> DEFINE Cap == IsFiniteSet(Present) /\ CapHolds
<1>1. Init => Cap
  <2> SUFFICES ASSUME Init PROVE Cap
    OBVIOUS
  <2>1. Present = {}
    BY DEF Init, Present
  <2> QED
    BY SMTT(30), <2>1, FS_EmptySet, CacheAssumption DEF CapHolds
<1>2. CacheInvariant /\ Cap /\ [Next]_vars => Cap'
  <2> SUFFICES ASSUME CacheInvariant, Cap, [Next]_vars PROVE Cap'
    OBVIOUS
  <2>1. TypeOK /\ Cardinality(Present) \in Nat /\ MaxEntries \in Nat
    BY FS_CardinalityType, CacheAssumption DEF CacheInvariant
  <2>2. ASSUME Present' \subseteq Present PROVE Cap'
    <3>1. IsFiniteSet(Present') /\ Cardinality(Present') <= Cardinality(Present) /\ Cardinality(Present') \in Nat
      BY <2>2, FS_Subset, FS_CardinalityType
    <3> QED
      BY SMTT(30), <2>1, <3>1 DEF CapHolds
  <2>3. ASSUME NEW k \in All, NEW v, store' = Set(k, v) PROVE Cap'
    BY <2>1, <2>3, SetKeepsCap
  <2>4. CASE UNCHANGED store
    BY <2>2, <2>4 DEF Present
  <2>5. ASSUME NEW c \in Callers, FetchSucceeds(c) PROVE Cap'
    <3>1. call[c].key \in All
      BY <2>1, <2>5 DEF TypeOK, Calls, FetchSucceeds, All
    <3> QED
      BY <2>3, <2>4, <2>5, <3>1 DEF FetchSucceeds
  <2>6. ASSUME NEW K, Drop(K) PROVE Cap'
    BY <2>2, <2>6 DEF Drop, Present
  <2>7. ASSUME NEW k \in All, Expire(k) PROVE Cap'
    BY <2>1, <2>2, <2>7 DEF Expire, Present, TypeOK, Live
  <2>8. ASSUME NEW k \in Plain, SetDirect(k) PROVE Cap'
    BY <2>3, <2>8 DEF SetDirect, All
  <2> QED
    BY <2>4, <2>5, <2>6, <2>7, <2>8
    DEF Next, vars, Hit, Join, Fetch, FetcherReads, FetchFails, Return, Write, invalidate, invalidateNamespace
<1>3. Cap => CapHolds
  OBVIOUS
<1> QED
  BY <1>1, <1>2, <1>3, CacheInvariantHolds, PTL DEF Spec
==============================================================================
