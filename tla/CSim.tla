-------------------------------- MODULE CSim --------------------------------
(***************************************************************************)
(* The cache simulator of the cache lab (cachelab-handout/csim.c): a table *)
(* of lines with a valid bit, a tag and a stamp.  A stamp is set to 0 when *)
(* its line is used, and all stamps of valid lines grow with every trace   *)
(* line; the largest stamp of a full set marks the line to replace.        *)
(*                                                                         *)
(* A step is one line of the trace: L and S use the cache once, M twice,   *)
(* I not at all.                                                           *)
(***************************************************************************)
EXTENDS Integers, FiniteSetsExt

CONSTANTS S,          \* sets, 1 << s; the mask of s = 0 is a shift by 64, undefined
          E,          \* lines of a set
          B,          \* bytes of a block, 1 << b
          Addresses,  \* addresses that occur in the trace
          MaxLines    \* bound on the length of the trace

ASSUME CSimAssumption == /\ S \in Nat \ {0, 1} /\ E \in Nat \ {0} /\ B \in Nat \ {0}
                         /\ Addresses \subseteq Nat
                         /\ MaxLines \in Nat

\* Stamps are ints: on a longer trace they would overflow.
INT_MAX == 2 ^ 30 - 1 + 2 ^ 30
ASSUME StampAssumption == MaxLines <= INT_MAX

VARIABLES cache,   \* cache[x][i]: line i of set x
          hitCounts, missCounts, evictionCounts,
          lines    \* data lines read so far

counters == <<hitCounts, missCounts, evictionCounts>>
vars == <<cache, counters, lines>>

Sets  == 0 .. S - 1
Index == 0 .. E - 1

\* The shifts and the mask of updateCache.
sIndex(address) == (address \div B) % S
tagOf(address)  == (address \div B) \div S
Tags == {tagOf(a) : a \in Addresses}

Line  == [validbit : {0, 1}, tag : Tags \cup {-1}, stamp : -1 .. MaxLines]
Empty == [validbit |-> 0, tag |-> -1, stamp |-> -1]

-----------------------------------------------------------------------------
(* updateCache on the lines of one set.                                    *)

Valid(set) == {i \in Index : set[i].validbit = 1}

Matching(set, tag) == {i \in Valid(set) : set[i].tag = tag}

\* The first line with the largest stamp.
Oldest(set) ==
    Min({i \in Index : \A k \in Index : set[i].stamp >= set[k].stamp})

\* Mutant: a hit does not make the line young.
Touch_Forgotten(set, i) == set

Touch(set, i) == [set EXCEPT ![i].stamp = 0]

Store(set, i, tag) == [set EXCEPT ![i] = [validbit |-> 1, tag |-> tag, stamp |-> 0]]

Hit(set, tag) ==
    [set |-> Touch(set, Min(Matching(set, tag))), hit |-> 1, miss |-> 0, evict |-> 0]

\* Mutant: the first line is taken, whether it is in use or not.
Place_First(set, tag) ==
    [set |-> Store(set, Min(Index), tag), hit |-> 0, miss |-> 1, evict |-> 0]

Place(set, tag) ==
    [set |-> Store(set, Min(Index \ Valid(set)), tag), hit |-> 0, miss |-> 1, evict |-> 0]

Replace(set, tag) ==
    [set |-> Store(set, Oldest(set), tag), hit |-> 0, miss |-> 1, evict |-> 1]

IsFull(set) == Valid(set) = Index

updateCache(set, tag) ==
    IF Matching(set, tag) # {} THEN Hit(set, tag)
    ELSE IF IsFull(set) THEN Replace(set, tag) ELSE Place(set, tag)

-----------------------------------------------------------------------------
(* main: the loop over the trace.                                          *)

\* Mutant: lines do not grow older.
Aged_Never(c) == c

\* Mutant: all lines grow older, and twice as fast.
Aged_Twice(c) ==
    [x \in Sets |-> [i \in Index |->
        IF c[x][i].validbit = 1 THEN [c[x][i] EXCEPT !.stamp = @ + 2]
        ELSE c[x][i]]]

Aged(c) ==
    [x \in Sets |-> [i \in Index |->
        IF c[x][i].validbit = 1 THEN [c[x][i] EXCEPT !.stamp = @ + 1]
        ELSE c[x][i]]]

Record(x, set, hit, miss, evict) ==
    /\ cache' = Aged([cache EXCEPT ![x] = set])
    /\ hitCounts' = hitCounts + hit
    /\ missCounts' = missCounts + miss
    /\ evictionCounts' = evictionCounts + evict
    /\ lines' = lines + 1

\* L or S
Once(address) ==
    /\ lines < MaxLines
    /\ LET x == sIndex(address)
           u == updateCache(cache[x], tagOf(address))
       IN  Record(x, u.set, u.hit, u.miss, u.evict)

\* M: a load and a store.
Twice(address) ==
    /\ lines < MaxLines
    /\ LET x == sIndex(address)
           u == updateCache(cache[x], tagOf(address))
           v == updateCache(u.set, tagOf(address))
       IN  Record(x, v.set, u.hit + v.hit, u.miss + v.miss, u.evict + v.evict)

Init == /\ cache = [x \in Sets |-> [i \in Index |-> Empty]]
        /\ hitCounts = 0 /\ missCounts = 0 /\ evictionCounts = 0
        /\ lines = 0

Next == \E a \in Addresses : Once(a) \/ Twice(a)

Spec == Init /\ [][Next]_vars

-----------------------------------------------------------------------------
(* Properties.                                                             *)

TypeOK ==
    /\ cache \in [Sets -> [Index -> Line]]
    /\ hitCounts \in Nat /\ missCounts \in Nat /\ evictionCounts \in Nat
    /\ lines \in 0 .. MaxLines

\* No tag is held twice by a set, and no two lines of a set are equally old:
\* the search for the oldest line (csim.c:109-114) has one answer.
LinesDistinct ==
    \A x \in Sets : \A i, k \in Valid(cache[x]) : i # k =>
        /\ cache[x][i].tag # cache[x][k].tag
        /\ cache[x][i].stamp # cache[x][k].stamp

\* The three counters fit the contents: every miss fills a line or evicts one.
CountsMatch ==
    missCounts - evictionCounts =
        Cardinality({xi \in Sets \X Index : xi[2] \in Valid(cache[xi[1]])})

-----------------------------------------------------------------------------
(* The cache as LRUCache sees it.                                          *)

LineOf(set, t) == CHOOSE i \in Valid(set) : set[i].tag = t

Used == [x \in Sets |->
            [t \in {cache[x][i].tag : i \in Valid(cache[x])} |->
                lines - cache[x][LineOf(cache[x], t)].stamp]]

LRU == INSTANCE LRUCache WITH used <- Used, now <- lines, hits <- hitCounts,
                              misses <- missCounts, evictions <- evictionCounts

\* csim simulates a cache with least-recently-used replacement.
ImplementsLRU == LRU!CacheSpec

=============================================================================
