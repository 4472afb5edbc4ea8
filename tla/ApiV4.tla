------------------------------- MODULE ApiV4 -------------------------------
(***************************************************************************)
(* The HTTP client of the NextTrace API v4 (ipgeo/nexttrace_api_v4.go and  *)
(* util/latency.go): a cache of clients keyed by time limit and DNS        *)
(* resolver, filled under a lock taken only on a miss and emptied oldest   *)
(* first, the preferred address of the API, and a lookup of a few tries.   *)
(*                                                                         *)
(* A lookup is a record of the caller: its field v4 says where it stands.  *)
(* The endpoint and the token are the same for all lookups of a process.   *)
(***************************************************************************)
EXTENDS Integers, Sequences, FiniteSets, SequencesExt

CONSTANTS
  CacheMaxSize,  \* nextTraceAPIV4CacheMaxSize
  MaxAttempts,   \* nextTraceAPIV4MaxAttempts
  Resolvers      \* values CurrentGeoDNSResolver may have

ASSUME ApiV4Assumption == {CacheMaxSize, MaxAttempts} \subseteq Nat \ {0}

VARIABLE api     \* [cache, order, fastIP]: what lookups share

InitApi == api = [cache |-> {}, order |-> <<>>, fastIP |-> FALSE]

\* The states of one lookup: the key of its client, its try, its outcome.
NoCall == [pc |-> "none", key |-> <<>>, try |-> 0]
NewCall == [pc |-> "fastIP", key |-> <<>>, try |-> 0]

-----------------------------------------------------------------------------
\* prepareNextTraceAPIV4FastIP: the preferred address is kept once found; a
\* second of waiting, or a proxy, leaves none. The lookup goes on either way.
PrepareFastIP(call, found) ==
  /\ call.pc = "fastIP"
  /\ api' = [api EXCEPT !.fastIP = @ \/ found]

\* cachedNextTraceAPIV4Client under the read lock: the key is read from the
\* resolver of the moment. A hit needs no client of its own.
ReadCache(call, timeout, resolver) ==
  LET key == <<timeout, resolver>>
  IN  [call EXCEPT !.key = key, !.try = 1,
                   !.pc = IF key \in api.cache THEN "request" ELSE "insert"]

\* evictNextTraceAPIV4ClientCacheLocked: the oldest entries go.
Evict(cache, order) ==
  LET over == Cardinality(cache) - CacheMaxSize
      gone == IF over <= 0 THEN 0 ELSE IF over > Len(order) THEN Len(order) ELSE over
  IN  [cache |-> cache \ ToSet(SubSeq(order, 1, gone)),
       order |-> SubSeq(order, gone + 1, Len(order))]

\* Mutant: the miss seen under the read lock is trusted.
InsertClient_NoRecheck(key) ==
  LET kept == Evict(api.cache \cup {key}, Append(api.order, key))
  IN  api' = [api EXCEPT !.cache = kept.cache, !.order = kept.order]

\* The rest of it under the write lock: another lookup may have been first.
InsertClient(key) ==
  LET kept == Evict(api.cache \cup {key}, Append(api.order, key))
  IN  IF key \in api.cache
      THEN UNCHANGED api
      ELSE api' = [api EXCEPT !.cache = kept.cache, !.order = kept.order]

\* lookupOnce: an answer, a failure worth a retry (no answer, 408, 5xx), or
\* one that is not (another status, a body too large or not JSON).
Outcomes == {"data", "retryable", "fatal"}

\* Lookup after one try; stopped: its time is over, now or in the pause
\* before the next try.
AfterTry(call, outcome, stopped) ==
  CASE outcome = "data" -> "data"
    [] outcome = "retryable" /\ call.try < MaxAttempts /\ ~ stopped -> "again"
    [] OTHER -> "fail"

-----------------------------------------------------------------------------
\* The order of the entries lists each cached client once: eviction, which
\* goes by the order alone, removes what it says and the cache stays within
\* its bound, whichever lookups miss at the same time.
CacheConsistent ==
  /\ IsInjective(api.order)
  /\ ToSet(api.order) = api.cache
  /\ Cardinality(api.cache) <= CacheMaxSize
=============================================================================
