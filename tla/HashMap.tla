------------------------------ MODULE HashMap -------------------------------
(***************************************************************************)
(* kernel/base/hashmap.c: the chained hash map, as operators on a record   *)
(*   buckets   map->buckets: each chain as a sequence of [key, value]      *)
(*   size      map->size                                                   *)
(* and a client that calls them in any order.  HashOf stands for           *)
(* map->hash_func; the keys are compared with map->eq_func, equality here. *)
(* A caller's kmalloc may fail: ok says whether this one succeeds.         *)
(***************************************************************************)
EXTENDS Integers, Sequences, SequencesExt, FiniteSets

CONSTANTS HashOf,        \* the hash of each key
          Keys, Values,  \* what the client stores
          BucketCounts,  \* what it asks hashmap_create for
          Missing,       \* NULL
          MaxOps         \* bound on the calls of a behaviour

ASSUME HashMapAssumption ==
    /\ Keys \subseteq DOMAIN HashOf /\ \A k \in DOMAIN HashOf : HashOf[k] \in Nat
    /\ Missing \notin Values \cup DOMAIN HashOf
    /\ BucketCounts \subseteq Nat \ {0}

(* The shifts and ORs of hashmap_create: the next power of two. *)
PowerOfTwo(n) == CHOOSE p \in {2 ^ i : i \in 0 .. n} : p >= n /\ p < 2 * n

hashmap_create(n) ==
    [buckets |-> [i \in 0 .. PowerOfTwo(n) - 1 |-> <<>>], size |-> 0]

(* hash & (num_buckets - 1) *)
bucket_index(h, k) == HashOf[k] % Cardinality(DOMAIN h.buckets)
Chain(h, k) == h.buckets[bucket_index(h, k)]

(* Where key k is in a chain, 0 if it is not. *)
Position(chain, k) == SelectInSeq(chain, LAMBDA e : e.key = k)

hashmap_get(h, k) ==
    LET i == Position(Chain(h, k), k) IN IF i = 0 THEN Missing ELSE Chain(h, k)[i].value

(* A known key gets the new value in place; a new one becomes the head of  *)
(* its chain, if there is memory for it.                                   *)
hashmap_put(h, k, v, ok) ==
    LET b == bucket_index(h, k)
        i == Position(h.buckets[b], k)
    IN  IF i # 0 THEN [h EXCEPT !.buckets[b][i].value = v]
        ELSE IF ~ok THEN h
        ELSE [buckets |-> [h.buckets EXCEPT ![b] = <<[key |-> k, value |-> v]>> \o @],
              size |-> h.size + 1]

\* Slip: the chain is cut at the entry, as if prev->next were set to NULL.
hashmap_remove_cuts(h, k) ==
    LET b == bucket_index(h, k)
        i == Position(h.buckets[b], k)
    IN  IF i = 0 THEN h
        ELSE [buckets |-> [h.buckets EXCEPT ![b] = SubSeq(@, 1, i - 1)], size |-> h.size - 1]

hashmap_remove(h, k) ==
    LET b == bucket_index(h, k)
        i == Position(h.buckets[b], k)
    IN  IF i = 0 THEN h
        ELSE [buckets |-> [h.buckets EXCEPT ![b] = RemoveAt(@, i)], size |-> h.size - 1]

hashmap_clear(h) == [buckets |-> [i \in DOMAIN h.buckets |-> <<>>], size |-> 0]

(* The entries hashmap_foreach hands to its iterator, which stops it by    *)
(* answering false: bucket by bucket, each from its head.                  *)
AllEntries(h) == FoldLeft(LAMBDA s, i : s \o h.buckets[i - 1], <<>>,
                       [i \in 1 .. Cardinality(DOMAIN h.buckets) |-> i])
UpTo(entries, stop) == IF stop = 0 THEN entries ELSE SubSeq(entries, 1, stop)
hashmap_foreach(h, Continue(_)) ==
    UpTo(AllEntries(h), SelectInSeq(AllEntries(h), LAMBDA e : ~Continue(e)))

-----------------------------------------------------------------------------
VARIABLES hmap,   \* a map some part of the kernel has made
          dict,   \* what the client's calls say should be in it
          ops     \* how many calls have been made

hashVars == <<hmap, dict, ops>>

HashInit ==
    /\ \E n \in BucketCounts : hmap = hashmap_create(n)
    /\ dict = <<>> /\ ops = 0

Without(d, k) == [j \in DOMAIN d \ {k} |-> d[j]]

MapPut(k, v, ok) ==
    /\ hmap' = hashmap_put(hmap, k, v, ok)
    /\ dict' = IF ok \/ k \in DOMAIN dict
               THEN [j \in DOMAIN dict \cup {k} |-> IF j = k THEN v ELSE dict[j]]
               ELSE dict

MapRemove(k) == hmap' = hashmap_remove(hmap, k) /\ dict' = Without(dict, k)

MapClear == hmap' = hashmap_clear(hmap) /\ dict' = <<>>

HashNext ==
    /\ ops < MaxOps /\ ops' = ops + 1
    /\ \/ \E k \in Keys, v \in Values, ok \in BOOLEAN : MapPut(k, v, ok)
       \/ \E k \in Keys : MapRemove(k)
       \/ MapClear

(* The hash map is the dictionary its calls describe, whatever collides:   *)
(* hashmap_get finds the last value put under every key and none under a   *)
(* removed one, hashmap_size counts the keys, and hashmap_foreach visits   *)
(* each of them once.                                                      *)
MapIsDictionary ==
    /\ \A k \in Keys : hashmap_get(hmap, k) = IF k \in DOMAIN dict THEN dict[k] ELSE Missing
    /\ hmap.size = Cardinality(DOMAIN dict)
    /\ LET visited == hashmap_foreach(hmap, LAMBDA e : TRUE)
       IN  /\ Len(visited) = Cardinality(DOMAIN dict)
           /\ {e.key : e \in Range(visited)} = DOMAIN dict
=============================================================================
