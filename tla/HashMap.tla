------------------------------ MODULE HashMap -------------------------------
(***************************************************************************)
(* The hash map of base/c_hashmap.c as operations on a value [max_count,   *)
(* cur_count, ptr], with the callbacks its only user, the chunk cache      *)
(* (chunkserver/chunk_cache.c), gives it.  A chain is the sequence of its  *)
(* pairs, first the most recent.                                           *)
(***************************************************************************)
EXTENDS Hashing, Sequences, SequencesExt

CONSTANT Zeroed   \* memory that calloc returned and nobody has written

(* Mutant: the bound is stored.                                            *)
AllocStoresBound(n) ==
  [max_count |-> n, cur_count |-> 0, ptr |-> [c \in 0..(n - 1) |-> <<>>]]

(* c_hashmap_init stores everything but max_count, which calloc has set to *)
(* 0.                                                                      *)
c_hashmap_alloc(n) ==
  [max_count |-> 0, cur_count |-> 0, ptr |-> [c \in 0..(n - 1) |-> <<>>]]

(* The callback answers 1 for equal keys, where the map expects 0.         *)
hashmap_key_compare_cb(k1, k2) == IF k1 = k2 THEN 1 ELSE 0

c_hashmap_get_index(m, key) == jump_consistent(hash_fn(key), m.max_count)

(* The position of the pair found, 0 for none.                             *)
c_hashmap_search(m, index, key) ==
  SelectInSeq(m.ptr[index], LAMBDA p : hashmap_key_compare_cb(p.key, key) = 0)

(* The copies of key and value that c_member_pair_alloc makes are replaced *)
(* by memory that is never filled.                                         *)
c_hashmap_pair(key, val) == [key |-> Zeroed, val |-> Zeroed]

c_hashmap_put(m, key, val) ==
  IF m.cur_count < m.max_count
  THEN [m EXCEPT !.ptr[c_hashmap_get_index(m, key)] = <<c_hashmap_pair(key, val)>> \o @,
                 !.cur_count = @ + 1]
  ELSE m

c_hashmap_get(m, key) ==
  IF m.cur_count = 0 THEN NULL
  ELSE LET index == c_hashmap_get_index(m, key)
           j == c_hashmap_search(m, index, key)
       IN  IF j = 0 THEN NULL ELSE m.ptr[index][j].val

c_hashmap_del(m, key) ==
  LET index == c_hashmap_get_index(m, key)
      j == c_hashmap_search(m, index, key)
  IN  IF j = 0 THEN m
      ELSE [m EXCEPT !.ptr[index] = RemoveAt(@, j), !.cur_count = @ - 1]

(* The pairs c_hashmap_traverse shows its callback.                        *)
c_hashmap_traverse(m) ==
  IF m.cur_count = 0 THEN <<>>
  ELSE FlattenSeq([i \in 1..m.max_count |-> m.ptr[i - 1]])
=============================================================================
