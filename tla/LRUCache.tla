------------------------------ MODULE LRUCache ------------------------------
(***************************************************************************)
(* What a cache simulator should compute: every set holds at most E tags,  *)
(* and a tag that finds its set full replaces the one whose last use is    *)
(* longest ago.  Times are trace lines; no lines, stamps or indices of a   *)
(* set are visible.                                                        *)
(***************************************************************************)
EXTENDS Integers, FiniteSets

CONSTANTS Sets, Tags, E

VARIABLES used,     \* used[x][t]: when tag t, held by set x, was last used
          now,
          hits, misses, evictions

cacheVars == <<used, now, hits, misses, evictions>>

CacheInit == /\ used = [x \in Sets |-> [t \in {} |-> 0]]
             /\ now = 0
             /\ hits = 0 /\ misses = 0 /\ evictions = 0

Use(u, t) == [k \in DOMAIN u \cup {t} |-> IF k = t THEN now ELSE u[k]]

Without(u, t) == [k \in DOMAIN u \ {t} |-> u[k]]

\* A trace line that uses tag t of set x, and uses it again n times.
Hit(x, t, n) ==
    /\ t \in DOMAIN used[x]
    /\ used' = [used EXCEPT ![x] = Use(@, t)]
    /\ hits' = hits + 1 + n
    /\ UNCHANGED <<misses, evictions>>

Miss(x, t, n) ==
    /\ t \notin DOMAIN used[x] /\ Cardinality(DOMAIN used[x]) < E
    /\ used' = [used EXCEPT ![x] = Use(@, t)]
    /\ misses' = misses + 1 /\ hits' = hits + n
    /\ UNCHANGED evictions

Evict(x, t, n) ==
    /\ t \notin DOMAIN used[x] /\ Cardinality(DOMAIN used[x]) = E
    /\ \E old \in DOMAIN used[x] :
          /\ \A k \in DOMAIN used[x] : used[x][old] <= used[x][k]
          /\ used' = [used EXCEPT ![x] = Use(Without(@, old), t)]
    /\ misses' = misses + 1 /\ evictions' = evictions + 1 /\ hits' = hits + n

CacheNext == \E x \in Sets, t \in Tags, n \in {0, 1} :
                /\ Hit(x, t, n) \/ Miss(x, t, n) \/ Evict(x, t, n)
                /\ now' = now + 1

CacheSpec == CacheInit /\ [][CacheNext]_cacheVars
=============================================================================
