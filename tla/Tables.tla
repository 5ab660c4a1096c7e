------------------------------- MODULE Tables -------------------------------
(***************************************************************************)
(* The two hash tables of the repository under any sequence of calls, side *)
(* by side: every call that is made to the dictionary of the metadata      *)
(* server is made to the chunk cache of the chunk server, with the same    *)
(* key.  The dictionary is shown to be a key-value map.                    *)
(***************************************************************************)
EXTENDS Dict, HashMap

(* Index 1, which the hash map uses without chains, is inside its array:   *)
(* main asks for 10 chains.                                                *)
ASSUME TwoChains == max_count >= 2

VARIABLES
  d,      \* the dictionary
  last,   \* the last call to it, with its arguments and its answer
  chunks  \* the map of the chunk cache

tables == <<d, last, chunks>>

chunk_cache_new(n) == c_hashmap_alloc(n)
chunk_cache_add(k, v) == chunks' = c_hashmap_put(chunks, k, v)
chunk_cache_remove(k) == chunks' = c_hashmap_del(chunks, k)

(* The array of chunks is freed and the map is not destroyed; the next     *)
(* cache is a new one.                                                     *)
chunk_cache_destroy == chunks' = chunk_cache_new(max_count)

TablesInit ==
  /\ d = dict_create /\ last = <<"create">>
  /\ chunks = chunk_cache_new(max_count)

(* dict_put returns NULL for a key that is there.                          *)
Put(k, v) ==
  /\ d' = dict_put(d, k, v)
  /\ last' = <<"put", k, v, IF dict_find(d, k) # 0 THEN "refused" ELSE "ok">>
  /\ chunk_cache_add(k, v)

Get(k) == last' = <<"get", k, dict_get(d, k)>> /\ UNCHANGED <<d, chunks>>

(* dict_del returns -1 for a key that is not there.                        *)
Del(k) ==
  /\ d' = dict_del(d, k)
  /\ last' = <<"del", k, IF dict_find(d, k) = 0 THEN "refused" ELSE "ok">>
  /\ chunk_cache_remove(k)

Visited == {<<p.key, p.val>> : p \in dict_visit(d)}

(* dict_dump gives every pair to its callback.                             *)
Dump == last' = <<"dump", Visited>> /\ UNCHANGED <<d, chunks>>

(* dict_destroy, which gives every pair back, and the next dict_create.    *)
Destroy ==
  /\ d' = dict_create /\ last' = <<"destroy", Visited>>
  /\ chunk_cache_destroy

TablesNext ==
  \/ \E k \in Keys : Get(k) \/ Del(k) \/ \E v \in Vals : Put(k, v)
  \/ Dump \/ Destroy

TablesSpec == TablesInit /\ [][TablesNext]_tables

-----------------------------------------------------------------------------
(* The counters of the dictionary agree with its chains, so that           *)
(* dict_find, dict_dump and dict_deinit never skip a chain that has pairs, *)
(* and no key is there twice.                                              *)
TableWellFormed == WellFormed(d)

(* The chains implement a key-value map: a get finds the value last put    *)
(* and not deleted, whatever else shares the chain, and dict_dump and      *)
(* dict_deinit visit exactly what was put and not deleted.                 *)
KV == INSTANCE KeyValue WITH map <- [k \in Keys |-> ValueOf(d, k)]
ImplementsMap == KV!Spec

(* The chunk cache holds nothing, whatever is added to it: max_count of    *)
(* its map stays 0, so that c_hashmap_put finds it full, c_hashmap_get     *)
(* finds no chunk and c_hashmap_traverse shows none.                       *)
ChunkCacheHoldsNothing ==
  /\ \A c \in DOMAIN chunks.ptr : chunks.ptr[c] = <<>>
  /\ \A k \in Keys : c_hashmap_get(chunks, k) = NULL
  /\ c_hashmap_traverse(chunks) = <<>>
=============================================================================
