------------------------------- MODULE Hashing ------------------------------
(***************************************************************************)
(* How the hash tables of the repository choose a chain: a hash function   *)
(* and the jump consistent hash, which has one text in metaserver/dict.c   *)
(* and in base/c_hashmap.c.  The tables need no more of either than that   *)
(* it is a function, so both are arbitrary.                                *)
(***************************************************************************)
EXTENDS Integers

CONSTANTS
  max_count,  \* number of chains asked for
  Hash,       \* Hash[k]: the value of the hash function for key k
  Jump,       \* Jump[h]: the chain of hash value h, of max_count chains
  NULL        \* the null pointer

Chains == 0..(max_count - 1)

ASSUME ChainsAssumption ==
  max_count \in Nat \ {0} /\ \A k \in DOMAIN Hash : Jump[Hash[k]] \in Chains

hash_fn(key) == Hash[key]

(* Without chains the loop is not entered and b = -1 gives 1.              *)
jump_consistent(key, num_buckets) == IF num_buckets = 0 THEN 1 ELSE Jump[key]
=============================================================================
