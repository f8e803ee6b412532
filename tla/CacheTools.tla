------------------------------ MODULE CacheTools ----------------------------
(***************************************************************************)
(* The tools on registered caches (inspector_cache.go), for a sync.Map of  *)
(* one name.  They go through it with Range while the application stores   *)
(* and deletes: Range visits a key at most once, visits those that are     *)
(* there all the time, and may or may not visit the others.  get_cache_stats *)
(* holds the registry's lock meanwhile, get_cache_keys and clear_cache     *)
(* only looked the cache up under it.                                      *)
(***************************************************************************)
EXTENDS Integers, Sequences, FiniteSets

CONSTANTS CacheCallers,  \* goroutines that call the tools
          CacheKeys,
          PrefixKeys,    \* the keys that have the prefix asked for
          KeyLimit,      \* 100, the limit of get_cache_keys
          MaxCaches,     \* bound: registrations
          MaxCacheOps    \* bound: stores and deletes of the application, and calls

ASSUME CacheAssumption ==
    IsFiniteSet(CacheKeys) /\ KeyLimit \in Nat \ {0} /\ MaxCaches \in Nat /\ MaxCacheOps \in Nat

CacheScans == {"get_cache_stats", "get_cache_keys", "clear_cache"}
NoScan     == [tool |-> "none"]

VARIABLES
    caches,      \* the keys of each cache that was registered; the last one is
    scans,       \* the Range each caller is in
    cacheAnswer, \* the last answer and what it is about
    cacheOps

cacheVars == <<caches, scans, cacheAnswer, cacheOps>>

CacheInit ==
    /\ caches = <<>>
    /\ scans = [t \in CacheCallers |-> NoScan]
    /\ cacheAnswer = NoScan
    /\ cacheOps = 0

Operation ==
    /\ cacheOps < MaxCacheOps
    /\ cacheOps' = cacheOps + 1
    /\ cacheAnswer' = NoScan

-----------------------------------------------------------------------------
(* RegisterCache waits for get_cache_stats.                                *)

RegisterCache(keys) ==
    /\ Len(caches) < MaxCaches
    /\ \A t \in CacheCallers : scans[t].tool # "get_cache_stats"
    /\ caches' = Append(caches, keys)
    /\ cacheAnswer' = NoScan
    /\ UNCHANGED <<scans, cacheOps>>

\* What a change of cache n means to the scans of it: a key that is stored may
\* be visited, a key that is gone need not be.  "stored" and "gone" are auxiliary.
Noticing(n, stored, gone) ==
    [t \in CacheCallers |->
       IF scans[t].tool \in CacheScans /\ scans[t].cache = n
       THEN [scans[t] EXCEPT !.may = (@ \cup stored) \ scans[t].seen,
                             !.must = @ \ gone,
                             !.stored = @ \cup stored, !.gone = @ \cup gone]
       ELSE scans[t]]

AppStores(n, k) ==
    /\ Operation
    /\ caches' = [caches EXCEPT ![n] = @ \cup {k}]
    /\ scans' = Noticing(n, {k}, {})

AppDeletes(n, k) ==
    /\ Operation
    /\ caches' = [caches EXCEPT ![n] = @ \ {k}]
    /\ scans' = Noticing(n, {}, {k})

-----------------------------------------------------------------------------
BeginScan(t, tool) ==
    /\ scans[t] = NoScan
    /\ caches # <<>>
    /\ Operation
    /\ LET n == Len(caches)
       IN  scans' = [scans EXCEPT ![t] =
             [tool |-> tool, cache |-> n, first |-> caches[n], must |-> caches[n],
              may |-> caches[n], seen |-> {}, deleting |-> {}, on |-> TRUE,
              stored |-> {}, gone |-> {}]]
    /\ UNCHANGED caches

\* get_cache_keys lists the keys with the prefix.
Listed(seen) == seen \cap PrefixKeys

\* Whether the function given to Range lets it go on.
\* Mutant: clearing stops at the first key.
GoesOn_ClearStops(tool, seen) ==
    /\ tool = "get_cache_keys" => Cardinality(Listed(seen)) < KeyLimit
    /\ tool # "clear_cache"

GoesOn(tool, seen) == tool = "get_cache_keys" => Cardinality(Listed(seen)) < KeyLimit

Visit(t, k) ==
    /\ scans[t].tool \in CacheScans
    /\ scans[t].on /\ scans[t].deleting = {}
    /\ k \in scans[t].may
    /\ scans' = [scans EXCEPT ![t].seen = @ \cup {k}, ![t].may = @ \ {k}, ![t].must = @ \ {k},
                              ![t].deleting = IF scans[t].tool = "clear_cache" THEN {k} ELSE {},
                              ![t].on = GoesOn(scans[t].tool, scans[t].seen \cup {k})]
    /\ cacheAnswer' = NoScan
    /\ UNCHANGED <<caches, cacheOps>>

\* clear_cache deletes a key after it was visited, whatever is stored by then.
DeleteVisited(t) ==
    /\ scans[t].tool = "clear_cache" /\ scans[t].deleting # {}
    /\ LET n == scans[t].cache
       IN  /\ caches' = [caches EXCEPT ![n] = @ \ scans[t].deleting]
           /\ scans' = [Noticing(n, {}, scans[t].deleting) EXCEPT ![t].deleting = {}]
    /\ cacheAnswer' = NoScan
    /\ UNCHANGED cacheOps

EndScan(t) ==
    /\ scans[t].tool \in CacheScans
    /\ scans[t].deleting = {}
    /\ scans[t].on => scans[t].must = {}
    /\ cacheAnswer' = scans[t]
    /\ scans' = [scans EXCEPT ![t] = NoScan]
    /\ UNCHANGED <<caches, cacheOps>>

CacheNext ==
    \/ \E keys \in {{}, CacheKeys} : RegisterCache(keys)
    \/ \E n \in DOMAIN caches, k \in CacheKeys : AppStores(n, k) \/ AppDeletes(n, k)
    \/ \E t \in CacheCallers :
          \/ \E tool \in CacheScans : BeginScan(t, tool)
          \/ \E k \in CacheKeys : Visit(t, k)
          \/ DeleteVisited(t) \/ EndScan(t)

CacheSpec == CacheInit /\ [][CacheNext]_cacheVars

-----------------------------------------------------------------------------
(* Properties.                                                             *)

CacheTypeOK ==
    /\ caches \in Seq(SUBSET CacheKeys) /\ Len(caches) <= MaxCaches
    /\ \A t \in CacheCallers :
          \/ scans[t] = NoScan
          \/ /\ scans[t].cache \in DOMAIN caches
             /\ scans[t].must \subseteq scans[t].may
             /\ scans[t].may \cup scans[t].seen \subseteq CacheKeys
    /\ cacheOps \in 0..MaxCacheOps

Ever   == cacheAnswer.first \cup cacheAnswer.stored
Always == cacheAnswer.first \ cacheAnswer.gone

\* What the tools answer is true of some moment of the call for every key.
\* When clear_cache says "cleared", what is in the cache was stored since it
\* began, though others store, delete and clear meanwhile.  (It has cleared the
\* cache that had the name when it looked.)  get_cache_stats counts each key
\* once; get_cache_keys leaves out a key only if its limit is reached.
CacheRight ==
    CASE cacheAnswer.tool = "clear_cache" ->
           caches[cacheAnswer.cache] \subseteq cacheAnswer.stored
      [] cacheAnswer.tool = "get_cache_stats" ->
           /\ Cardinality(cacheAnswer.seen) \in Cardinality(Always)..Cardinality(Ever)
           /\ cacheAnswer.cache = Len(caches)
      [] cacheAnswer.tool = "get_cache_keys" ->
           /\ Listed(cacheAnswer.seen) \subseteq Ever
           /\ Cardinality(Listed(cacheAnswer.seen)) <= KeyLimit
           /\ \/ Listed(Always) \subseteq Listed(cacheAnswer.seen)
              \/ Cardinality(Listed(cacheAnswer.seen)) = KeyLimit
      [] OTHER -> TRUE
=============================================================================
