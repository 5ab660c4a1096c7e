-------------------------------- MODULE Dict --------------------------------
(***************************************************************************)
(* The chained hash table of the metadata server (metaserver/dict.c), as   *)
(* operations on a value [members, member_count, count].  A chain is the   *)
(* sequence of its pairs, first the most recent.                           *)
(*                                                                         *)
(* A key is the sequence of its characters: dict_find compares only as     *)
(* many characters as the key looked for has, so that it takes the first   *)
(* pair of the chain whose key begins with it.                             *)
(***************************************************************************)
EXTENDS Hashing, Sequences, SequencesExt, FiniteSets

CONSTANTS
  Keys,  \* the keys the program that uses the table has
  Vals   \* and its values

ASSUME KeysAssumption ==
  /\ Keys \subseteq DOMAIN Hash
  /\ NULL \notin Vals
  /\ \A k \in DOMAIN Hash : Len(k) \in Nat

dict_create ==
  [members |-> [c \in Chains |-> <<>>], member_count |-> [c \in Chains |-> 0], count |-> 0]

index(key) == jump_consistent(hash_fn(key), max_count)

dict_data_pair(key, val) == [key |-> key, val |-> val]

(* Mutant: the first pair of the chain, whatever its key.                  *)
FindFirst(d, key) == IF Len(d.members[index(key)]) > 0 THEN 1 ELSE 0

(* The position of the pair dict_find returns, 0 for none.                 *)
dict_find(d, key) ==
  LET chain == d.members[index(key)]
      hits == {j \in 1..Len(chain) : IsPrefix(key, chain[j].key)}
  IN  IF d.member_count[index(key)] > 0 /\ hits # {}
      THEN CHOOSE j \in hits : \A k \in hits : j <= k
      ELSE 0

dict_get(d, key) ==
  LET j == dict_find(d, key)
  IN  IF j = 0 THEN NULL ELSE d.members[index(key)][j].val

(* Refused when the key is there.                                          *)
dict_put(d, key, val) ==
  IF dict_find(d, key) # 0 THEN d
  ELSE [members |-> [d.members EXCEPT ![index(key)] = <<dict_data_pair(key, val)>> \o @],
        member_count |-> [d.member_count EXCEPT ![index(key)] = @ + 1],
        count |-> d.count + 1]

(* Mutant: the number of pairs of the chain is not updated.                *)
DelKeepsCount(d, key) ==
  LET j == dict_find(d, key)
  IN  IF j = 0 THEN d
      ELSE [members |-> [d.members EXCEPT ![index(key)] = RemoveAt(@, j)],
            member_count |-> d.member_count,
            count |-> d.count - 1]

dict_del(d, key) ==
  LET j == dict_find(d, key)
  IN  IF j = 0 THEN d
      ELSE [members |-> [d.members EXCEPT ![index(key)] = RemoveAt(@, j)],
            member_count |-> [d.member_count EXCEPT ![index(key)] = @ - 1],
            count |-> d.count - 1]

(* The pairs the loops of dict_dump and dict_deinit visit; a chain whose   *)
(* count is 0 is passed over.                                              *)
dict_visit(d) == UNION {ToSet(d.members[c]) : c \in {b \in Chains : d.member_count[b] > 0}}

-----------------------------------------------------------------------------
(* Reference: the keys in the table and their values, by exact match.      *)
PairsOf(d) == UNION {ToSet(d.members[c]) : c \in Chains}
KeysOf(d) == {p.key : p \in PairsOf(d)}
ValueOf(d, key) ==
  IF key \in KeysOf(d) THEN (CHOOSE p \in PairsOf(d) : p.key = key).val ELSE NULL

(* The counters agree with the chains, no key is in the table twice, and   *)
(* every pair is in the chain its key hashes to.                           *)
WellFormed(d) ==
  /\ \A c \in Chains : d.member_count[c] = Len(d.members[c])
  /\ d.count = Cardinality(PairsOf(d))
  /\ \A c \in Chains : \A j, k \in 1..Len(d.members[c]) :
       /\ index(d.members[c][j].key) = c
       /\ d.members[c][j].key = d.members[c][k].key => j = k

(* A value is one of the user's or the number of an object.                *)
Data == Vals \cup Nat
Pair == [key : DOMAIN Hash, val : Data]

(* A table as it always is: of the right type, finite and well formed.     *)
DictOK(d) ==
  /\ d.members \in [Chains -> Seq(Pair)]
  /\ d.member_count \in [Chains -> Nat]
  /\ IsFiniteSet(PairsOf(d))
  /\ WellFormed(d)

(* Such a table with keys of K and values of V.                            *)
DictOf(d, K, V) == DictOK(d) /\ PairsOf(d) \subseteq [key : K, val : V]

(* No key of a chain begins with another: then the comparison of dict_find *)
(* is exact.                                                               *)
PrefixFree(K) ==
  \A k, l \in K : k # l /\ index(k) = index(l) => ~IsPrefix(k, l)
=============================================================================
