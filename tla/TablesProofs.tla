---------------------------- MODULE TablesProofs ----------------------------
(***************************************************************************)
(* Proofs about the two hash tables: the dictionary stays well formed and  *)
(* implements a key-value map, and the chunk cache holds nothing, for any  *)
(* keys, values, hash function and number of chains.  And about what the   *)
(* metadata server does with dictionaries: its registry of schemas and its *)
(* cache of the meta table, for any names, records and number of objects.  *)
(***************************************************************************)
EXTENDS Tables, SchemaMeta, FiniteSetTheorems, WellFoundedInduction, TLAPS

(* A set of naturals that is not empty has a least element.                *)
LEMMA LeastPosition ==
  ASSUME NEW T \in SUBSET Nat, T # {}
  PROVE  \E x \in T : \A y \in T : x <= y
  <1>1. IsWellFoundedOn(OpToRel(<, Nat), Nat)
    BY NatLessThanWellFounded, Zenon
  <1>2. PICK x \in T : \A y \in T : <<y, x>> \notin OpToRel(<, Nat)
    BY <1>1, WFMin, Zenon
  <1>3. \A y \in T : ~(y < x)
    BY <1>2, Zenon DEF OpToRel
  <1> QED  BY <1>3

(* A key hashes to a chain.                                                *)
LEMMA IndexIsChain ==
  ASSUME NEW k \in DOMAIN Hash
  PROVE  index(k) \in Chains
  BY ChainsAssumption DEF index, jump_consistent, hash_fn

(* The pairs of a table are those of its chains.                           *)
LEMMA PairsInChains ==
  ASSUME NEW t, t.members \in [Chains -> Seq(Pair)]
  PROVE  /\ \A p : p \in PairsOf(t) <=>
              \E c \in Chains : \E i \in 1..Len(t.members[c]) : p = t.members[c][i]
         /\ PairsOf(t) \subseteq Pair
         /\ \A c \in Chains : Len(t.members[c]) \in Nat
                              /\ \A i \in 1..Len(t.members[c]) : t.members[c][i] \in Pair
  <1>1. \A c \in Chains : /\ t.members[c] \in Seq(Pair)
                          /\ DOMAIN t.members[c] = 1..Len(t.members[c])
                          /\ Len(t.members[c]) \in Nat
                          /\ \A i \in 1..Len(t.members[c]) : t.members[c][i] \in Pair
    OBVIOUS
  <1>2. \A c \in Chains : \A p :
          p \in ToSet(t.members[c]) <=> \E i \in 1..Len(t.members[c]) : p = t.members[c][i]
    BY <1>1 DEF ToSet
  <1>3. \A p : p \in PairsOf(t) <=>
          \E c \in Chains : \E i \in 1..Len(t.members[c]) : p = t.members[c][i]
    <2>1. \A p : p \in PairsOf(t) <=> \E c \in Chains : p \in ToSet(t.members[c])
      BY DEF PairsOf
    <2> TAKE p
    <2>2. ASSUME p \in PairsOf(t)
          PROVE  \E c \in Chains : \E i \in 1..Len(t.members[c]) : p = t.members[c][i]
      <3>1. PICK c \in Chains : p \in ToSet(t.members[c])
        BY <2>1, <2>2
      <3>2. \E i \in 1..Len(t.members[c]) : p = t.members[c][i]
        BY <1>2, <3>1, Zenon
      <3> QED  BY <3>2
    <2>3. ASSUME NEW c \in Chains, \E i \in 1..Len(t.members[c]) : p = t.members[c][i]
          PROVE  p \in PairsOf(t)
      BY <1>2, <2>1, <2>3, Zenon
    <2> QED  BY <2>2, <2>3
  <1> QED  BY <1>1, <1>3

(* No two pairs of a well formed table have one key, and a pair is in the  *)
(* chain of its key only.                                                  *)
LEMMA PairsDiffer ==
  ASSUME NEW t, DictOK(t)
  PROVE  /\ \A p, q \in PairsOf(t) : p.key = q.key => p = q
         /\ \A c \in Chains : \A i \in 1..Len(t.members[c]) : index(t.members[c][i].key) = c
  <1>1. \A c \in Chains : \A j, k \in 1..Len(t.members[c]) :
          /\ index(t.members[c][j].key) = c
          /\ t.members[c][j].key = t.members[c][k].key => j = k
    BY DEF DictOK, WellFormed
  <1>2. \A p : p \in PairsOf(t) <=>
          \E c \in Chains : \E i \in 1..Len(t.members[c]) : p = t.members[c][i]
    BY PairsInChains DEF DictOK
  <1>3. ASSUME NEW p \in PairsOf(t), NEW q \in PairsOf(t), p.key = q.key
        PROVE  p = q
    <2>1. PICK c \in Chains : \E i \in 1..Len(t.members[c]) : p = t.members[c][i]
      BY <1>2
    <2>2. PICK b \in Chains : \E j \in 1..Len(t.members[b]) : q = t.members[b][j]
      BY <1>2
    <2>3. c = b
      BY <1>1, <1>3, <2>1, <2>2, SMTT(30)
    <2> QED  BY <1>1, <1>3, <2>1, <2>2, <2>3, SMTT(30)
  <1> QED  BY <1>1, <1>3

(* What dict_find returns.                                                 *)
LEMMA Found ==
  ASSUME NEW t, DictOK(t), NEW k \in DOMAIN Hash
  PROVE  /\ dict_find(t, k) = 0 =>
              \A i \in 1..Len(t.members[index(k)]) : ~IsPrefix(k, t.members[index(k)][i].key)
         /\ dict_find(t, k) # 0 =>
              /\ dict_find(t, k) \in 1..Len(t.members[index(k)])
              /\ IsPrefix(k, t.members[index(k)][dict_find(t, k)].key)
  <1> DEFINE c == index(k)
             chain == t.members[c]
             hits == {j \in 1..Len(chain) : IsPrefix(k, chain[j].key)}
             first == CHOOSE j \in hits : \A i \in hits : j <= i
  <1>1. c \in Chains
    BY IndexIsChain
  <1>2. Len(chain) \in Nat /\ t.member_count[c] = Len(chain)
    BY <1>1, PairsInChains DEF DictOK, WellFormed
  <1>3. dict_find(t, k) = IF t.member_count[c] > 0 /\ hits # {} THEN first ELSE 0
    BY DEF dict_find
  <1>4. hits # {} => first \in hits
    <2>1. hits \in SUBSET Nat
      OBVIOUS
    <2> HIDE DEF hits
    <2>2. hits # {} => \E j \in hits : \A i \in hits : j <= i
      BY <2>1, LeastPosition, ZenonT(30)
    <2> QED  BY <2>2
  <1> HIDE DEF first
  <1>5. CASE hits = {}
    BY <1>3, <1>5
  <1>6. CASE hits # {}
    <2>1. first \in 1..Len(chain) /\ IsPrefix(k, chain[first].key)
      BY <1>4, <1>6
    <2>2. t.member_count[c] > 0 /\ first # 0
      BY <1>2, <2>1
    <2> QED  BY <1>3, <1>6, <2>1, <2>2
  <1> QED  BY <1>5, <1>6

(* A key that dict_find does not find is not in the table.                 *)
LEMMA NotThere ==
  ASSUME NEW t, DictOK(t), NEW k \in DOMAIN Hash, dict_find(t, k) = 0
  PROVE  \A p \in PairsOf(t) : p.key # k
  <1> SUFFICES ASSUME NEW p \in PairsOf(t), p.key = k
               PROVE  FALSE
    OBVIOUS
  <1>1. \A q : q \in PairsOf(t) <=>
          \E c \in Chains : \E i \in 1..Len(t.members[c]) : q = t.members[c][i]
    BY PairsInChains, Zenon DEF DictOK
  <1>2. PICK c \in Chains : \E i \in 1..Len(t.members[c]) : p = t.members[c][i]
    BY <1>1
  <1>3. index(k) = c
    BY <1>2, PairsDiffer
  <1>4. ~IsPrefix(k, k)
    BY <1>2, <1>3, Found
  <1>5. Len(k) \in Nat
    BY KeysAssumption
  <1> QED  BY <1>4, <1>5 DEF IsPrefix

-----------------------------------------------------------------------------
(* A chain with a pair put in front of it.                                 *)
LEMMA Prepended ==
  ASSUME NEW s \in Seq(Pair), NEW x \in Pair
  PROVE  /\ <<x>> \o s \in Seq(Pair) /\ Len(<<x>> \o s) = Len(s) + 1
         /\ (<<x>> \o s)[1] = x
         /\ \A i \in 1..Len(s) : (<<x>> \o s)[i + 1] = s[i]
         /\ \A i \in 2..(Len(s) + 1) : (<<x>> \o s)[i] = s[i - 1]
  OBVIOUS

(* A chain with a pair taken out.                                          *)
LEMMA Removed ==
  ASSUME NEW s \in Seq(Pair), NEW j \in 1..Len(s)
  PROVE  /\ RemoveAt(s, j) \in Seq(Pair) /\ Len(RemoveAt(s, j)) = Len(s) - 1
         /\ \A i \in 1..(Len(s) - 1) : RemoveAt(s, j)[i] = IF i < j THEN s[i] ELSE s[i + 1]
  <1> DEFINE a == SubSeq(s, 1, j - 1)
             b == SubSeq(s, j + 1, Len(s))
  <1>1. a \in Seq(Pair) /\ Len(a) = j - 1 /\ \A i \in 1..(j - 1) : a[i] = s[i]
    OBVIOUS
  <1>2. /\ b \in Seq(Pair) /\ Len(b) = Len(s) - j
        /\ \A i \in 1..(Len(s) - j) : b[i] = s[i + j]
    OBVIOUS
  <1>3. RemoveAt(s, j) = a \o b
    BY DEF RemoveAt
  <1> HIDE DEF a, b
  <1>4. a \o b \in Seq(Pair) /\ Len(a \o b) = Len(s) - 1
    <2>1. a \in Seq(Pair) /\ b \in Seq(Pair) /\ Len(a) + Len(b) = Len(s) - 1
      BY <1>1, <1>2
    <2> QED  BY <2>1
  <1>5. ASSUME NEW i \in 1..(Len(s) - 1)
        PROVE  (a \o b)[i] = IF i < j THEN s[i] ELSE s[i + 1]
    <2>1. CASE i < j
      BY <1>1, <1>2, <2>1
    <2>2. CASE ~(i < j)
      <3>1. (a \o b)[i] = b[i - (j - 1)]
        BY <1>1, <1>2, <2>2, SMTT(20)
      <3>2. i - (j - 1) \in 1..(Len(s) - j) /\ (i - (j - 1)) + j = i + 1
        BY <2>2
      <3> QED  BY <1>2, <2>2, <3>1, <3>2
    <2> QED  BY <2>1, <2>2, Zenon
  <1> QED  BY <1>3, <1>4, <1>5

(* dict_put of a key that is not found adds its pair.                      *)
LEMMA PutAddsPair ==
  ASSUME NEW t, DictOK(t), NEW k \in DOMAIN Hash, NEW v \in Data, dict_find(t, k) = 0
  PROVE  /\ PairsOf(dict_put(t, k, v)) = PairsOf(t) \cup {dict_data_pair(k, v)}
         /\ DictOK(dict_put(t, k, v))
  <1> DEFINE c == index(k)
             x == dict_data_pair(k, v)
             u == dict_put(t, k, v)
             s == t.members[c]
             r == <<x>> \o s
  <1>1. c \in Chains /\ x \in Pair /\ x.key = k
    BY IndexIsChain DEF dict_data_pair, Pair
  <1>2. t.members \in [Chains -> Seq(Pair)] /\ t.member_count \in [Chains -> Nat] /\ s \in Seq(Pair)
    BY <1>1 DEF DictOK
  <1>3. /\ u.members = [t.members EXCEPT ![c] = r]
        /\ u.member_count = [t.member_count EXCEPT ![c] = @ + 1]
        /\ u.count = t.count + 1
    BY DEF dict_put
  <1>4. /\ r \in Seq(Pair) /\ Len(r) = Len(s) + 1 /\ r[1] = x
        /\ \A i \in 1..Len(s) : r[i + 1] = s[i]
        /\ \A i \in 2..(Len(s) + 1) : r[i] = s[i - 1]
    BY <1>1, <1>2, Prepended, Zenon
  <1> HIDE DEF u, r, x
  <1>5. /\ u.members \in [Chains -> Seq(Pair)] /\ u.members[c] = r
        /\ \A b \in Chains : b # c => u.members[b] = t.members[b]
        /\ u.member_count \in [Chains -> Nat] /\ u.member_count[c] = t.member_count[c] + 1
        /\ \A b \in Chains : b # c => u.member_count[b] = t.member_count[b]
    BY <1>1, <1>2, <1>3, <1>4
  <1>6. \A p : p \in PairsOf(t) <=>
          \E b \in Chains : \E i \in 1..Len(t.members[b]) : p = t.members[b][i]
    BY <1>2, PairsInChains
  <1>7. \A p : p \in PairsOf(u) <=>
          \E b \in Chains : \E i \in 1..Len(u.members[b]) : p = u.members[b][i]
    BY <1>5, PairsInChains
  <1>8. Len(s) \in Nat
    BY <1>2
  <1>9. PairsOf(u) = PairsOf(t) \cup {x}
    <2>1. ASSUME NEW p \in PairsOf(u)
          PROVE  p \in PairsOf(t) \cup {x}
      <3>1. PICK b \in Chains : \E i \in 1..Len(u.members[b]) : p = u.members[b][i]
        BY <1>7
      <3>2. PICK i \in 1..Len(u.members[b]) : p = u.members[b][i]
        BY <3>1
      <3>3. CASE b # c
        BY <1>5, <1>6, <3>2, <3>3
      <3>4. CASE b = c /\ i = 1
        BY <1>4, <1>5, <3>2, <3>4
      <3>5. CASE b = c /\ i # 1
        <4>1. i \in 2..(Len(s) + 1) /\ i - 1 \in 1..Len(s)
          BY <1>4, <1>5, <1>8, <3>2, <3>5, SMTT(30)
        <4>2. p = s[i - 1]
          BY <1>4, <1>5, <3>2, <3>5, <4>1
        <4> QED  BY <1>1, <1>6, <4>1, <4>2
      <3> QED  BY <3>3, <3>4, <3>5
    <2>2. ASSUME NEW p \in PairsOf(t)
          PROVE  p \in PairsOf(u)
      <3>1. PICK b \in Chains : \E i \in 1..Len(t.members[b]) : p = t.members[b][i]
        BY <1>6
      <3>2. PICK i \in 1..Len(t.members[b]) : p = t.members[b][i]
        BY <3>1
      <3>3. CASE b # c
        BY <1>5, <1>7, <3>2, <3>3
      <3>4. CASE b = c
        <4>1. i + 1 \in 1..Len(r) /\ r[i + 1] = p
          BY <1>4, <1>8, <3>2, <3>4
        <4> QED  BY <1>1, <1>5, <1>7, <4>1
      <3> QED  BY <3>3, <3>4
    <2>3. x \in PairsOf(u)
      <3>1. 1 \in 1..Len(r)
        BY <1>4, <1>8
      <3> QED  BY <1>1, <1>4, <1>5, <1>7, <3>1
    <2> QED  BY <2>1, <2>2, <2>3
  <1>10. x \notin PairsOf(t)
    BY <1>1, NotThere
  <1>11. IsFiniteSet(PairsOf(u)) /\ u.count = Cardinality(PairsOf(u))
    <2>1. IsFiniteSet(PairsOf(t)) /\ t.count = Cardinality(PairsOf(t))
      BY DEF DictOK, WellFormed
    <2>2. /\ IsFiniteSet(PairsOf(t) \cup {x})
          /\ Cardinality(PairsOf(t) \cup {x}) = Cardinality(PairsOf(t)) + 1
      BY <1>10, <2>1, FS_AddElement
    <2> QED  BY <1>3, <1>9, <2>1, <2>2
  <1>12. \A b \in Chains : u.member_count[b] = Len(u.members[b])
    <2>1. \A b \in Chains : t.member_count[b] = Len(t.members[b])
      BY DEF DictOK, WellFormed
    <2> QED  BY <1>1, <1>4, <1>5, <2>1, ZenonT(30)
  <1>13. ASSUME NEW b \in Chains, NEW i \in 1..Len(u.members[b]), NEW j \in 1..Len(u.members[b])
         PROVE  /\ index(u.members[b][i].key) = b
                /\ u.members[b][i].key = u.members[b][j].key => i = j
    <2>1. \A e \in Chains : \A m, n \in 1..Len(t.members[e]) :
            /\ index(t.members[e][m].key) = e
            /\ t.members[e][m].key = t.members[e][n].key => m = n
      BY DEF DictOK, WellFormed
    <2>2. CASE b # c
      <3>1. u.members[b] = t.members[b]
        BY <1>5, <2>2
      <3> QED  BY <2>1, <3>1
    <2>3. CASE b = c
      <3>1. i \in 1..(Len(s) + 1) /\ j \in 1..(Len(s) + 1)
        BY <1>4, <1>5, <2>3
      <3>2. \A m \in 2..(Len(s) + 1) : m - 1 \in 1..Len(s) /\ r[m] = s[m - 1]
        BY <1>4, <1>8
      <3>3. \A m \in 2..(Len(s) + 1) : r[m].key # k
        <4>1. \A m \in 1..Len(s) : s[m] \in PairsOf(t)
          BY <1>1, <1>6
        <4> QED  BY <3>2, <4>1, NotThere
      <3>4. \A m \in 1..(Len(s) + 1) : m = 1 \/ m \in 2..(Len(s) + 1)
        BY <1>8
      <3>5. r[i].key = r[j].key => i = j
        <4>1. CASE i = 1 \/ j = 1
          BY <1>1, <1>4, <3>1, <3>3, <3>4, <4>1, SMTT(20)
        <4>2. CASE i # 1 /\ j # 1
          <5>1. i - 1 \in 1..Len(s) /\ j - 1 \in 1..Len(s) /\ r[i] = s[i - 1] /\ r[j] = s[j - 1]
            BY <3>1, <3>2, <3>4, <4>2, SMTT(30)
          <5>2. r[i].key = r[j].key => i - 1 = j - 1
            BY <1>1, <2>1, <5>1
          <5> QED  BY <3>1, <5>2
        <4> QED  BY <4>1, <4>2
      <3>6. index(r[i].key) = c
        <4>1. CASE i = 1
          BY <1>1, <1>4, <4>1
        <4>2. CASE i # 1
          BY <1>1, <2>1, <3>1, <3>2, <3>4, <4>2, SMTT(20)
        <4> QED  BY <4>1, <4>2
      <3> QED  BY <1>5, <2>3, <3>5, <3>6, SMTT(30)
    <2> QED  BY <2>2, <2>3
  <1>14. DictOK(u)
    BY <1>5, <1>11, <1>12, <1>13 DEF DictOK, WellFormed
  <1> QED  BY <1>9, <1>14 DEF u, x

(* dict_del of a key that is found takes the pair found out.               *)
LEMMA DelRemovesPair ==
  ASSUME NEW t, DictOK(t), NEW k \in DOMAIN Hash, dict_find(t, k) # 0
  PROVE  /\ t.members[index(k)][dict_find(t, k)] \in PairsOf(t)
         /\ PairsOf(dict_del(t, k)) = PairsOf(t) \ {t.members[index(k)][dict_find(t, k)]}
         /\ DictOK(dict_del(t, k))
  <1> DEFINE c == index(k)
             f == dict_find(t, k)
             u == dict_del(t, k)
             s == t.members[c]
             x == s[f]
             r == RemoveAt(s, f)
             L == Len(s)
  <1>1. c \in Chains /\ f \in 1..L
    BY IndexIsChain, Found
  <1>2. t.members \in [Chains -> Seq(Pair)] /\ t.member_count \in [Chains -> Nat] /\ s \in Seq(Pair)
    BY <1>1 DEF DictOK
  <1>3. /\ u.members = [t.members EXCEPT ![c] = r]
        /\ u.member_count = [t.member_count EXCEPT ![c] = @ - 1]
        /\ u.count = t.count - 1
    BY DEF dict_del
  <1>4. /\ r \in Seq(Pair) /\ Len(r) = L - 1
        /\ \A i \in 1..(L - 1) : r[i] = IF i < f THEN s[i] ELSE s[i + 1]
    BY <1>1, <1>2, Removed, Zenon
  <1>5. L \in Nat /\ \A b \in Chains : t.member_count[b] = Len(t.members[b])
    BY <1>2 DEF DictOK, WellFormed
  <1>6. \A b \in Chains : \A m, n \in 1..Len(t.members[b]) :
          /\ index(t.members[b][m].key) = b
          /\ t.members[b][m].key = t.members[b][n].key => m = n
    BY DEF DictOK, WellFormed
  <1> HIDE DEF u, r, f
  <1>7. /\ u.members \in [Chains -> Seq(Pair)] /\ u.members[c] = r
        /\ \A b \in Chains : b # c => u.members[b] = t.members[b]
        /\ u.member_count \in [Chains -> Nat] /\ u.member_count[c] = t.member_count[c] - 1
        /\ \A b \in Chains : b # c => u.member_count[b] = t.member_count[b]
    <2>1. t.member_count[c] - 1 \in Nat
      BY <1>1, <1>2, <1>5
    <2> QED  BY <1>1, <1>2, <1>3, <1>4, <2>1
  <1>8. \A p : p \in PairsOf(t) <=>
          \E b \in Chains : \E i \in 1..Len(t.members[b]) : p = t.members[b][i]
    BY <1>2, PairsInChains
  <1>9. \A p : p \in PairsOf(u) <=>
          \E b \in Chains : \E i \in 1..Len(u.members[b]) : p = u.members[b][i]
    BY <1>7, PairsInChains
  <1>10. x \in PairsOf(t)
    BY <1>1, <1>8
  <1>11. \A m, n \in 1..L : s[m].key = s[n].key => m = n
    BY <1>1, <1>6
  (* Where the pairs of the chain come from, and where they go.            *)
  <1>12. \A i \in 1..(L - 1) : \E m \in 1..L : r[i] = s[m] /\ m # f
    <2> SUFFICES ASSUME NEW i \in 1..(L - 1)
                 PROVE  \E m \in 1..L : r[i] = s[m] /\ m # f
      OBVIOUS
    <2>1. CASE i < f
      <3>1. r[i] = s[i] /\ i \in 1..L /\ i # f
        BY <1>1, <1>4, <1>5, <2>1
      <3> QED  BY <3>1
    <2>2. CASE ~(i < f)
      <3>1. r[i] = s[i + 1] /\ i + 1 \in 1..L /\ i + 1 # f
        BY <1>1, <1>4, <1>5, <2>2
      <3> QED  BY <3>1
    <2> QED  BY <2>1, <2>2
  <1>13. \A m \in 1..L : m # f => \E i \in 1..(L - 1) : r[i] = s[m]
    <2> SUFFICES ASSUME NEW m \in 1..L, m # f
                 PROVE  \E i \in 1..(L - 1) : r[i] = s[m]
      OBVIOUS
    <2>1. CASE m < f
      <3>1. m \in 1..(L - 1) /\ r[m] = s[m]
        BY <1>1, <1>4, <1>5, <2>1
      <3> QED  BY <3>1
    <2>2. CASE m > f
      <3>1. m - 1 \in 1..(L - 1) /\ ~(m - 1 < f) /\ (m - 1) + 1 = m
        BY <1>1, <1>5, <2>2
      <3>2. r[m - 1] = s[m]
        BY <1>4, <3>1
      <3> QED  BY <3>1, <3>2
    <2> QED  BY <1>1, <1>5, <2>1, <2>2
  <1> HIDE DEF x
  <1>14. PairsOf(u) = PairsOf(t) \ {x}
    <2>1. ASSUME NEW p \in PairsOf(u)
          PROVE  p \in PairsOf(t) /\ p # x
      <3>1. PICK b \in Chains : \E i \in 1..Len(u.members[b]) : p = u.members[b][i]
        BY <1>9
      <3>2. PICK i \in 1..Len(u.members[b]) : p = u.members[b][i]
        BY <3>1
      <3>3. CASE b # c
        <4>1. u.members[b] = t.members[b]
          BY <1>7, <3>3
        <4>2. p \in PairsOf(t) /\ index(p.key) = b
          BY <1>6, <1>8, <3>2, <4>1
        <4>3. index(x.key) = c
          BY <1>1, <1>6 DEF x
        <4> QED  BY <3>3, <4>2, <4>3
      <3>4. CASE b = c
        <4>1. PICK m \in 1..L : p = s[m] /\ m # f
          BY <1>4, <1>7, <1>12, <3>2, <3>4, Zenon
        <4>2. p # x
          BY <1>1, <1>11, <4>1 DEF x
        <4> QED  BY <1>1, <1>8, <4>1, <4>2, Zenon
      <3> QED  BY <3>3, <3>4
    <2>2. ASSUME NEW p \in PairsOf(t), p # x
          PROVE  p \in PairsOf(u)
      <3>1. PICK b \in Chains : \E i \in 1..Len(t.members[b]) : p = t.members[b][i]
        BY <1>8
      <3>2. PICK i \in 1..Len(t.members[b]) : p = t.members[b][i]
        BY <3>1
      <3>3. CASE b # c
        BY <1>7, <1>9, <3>2, <3>3
      <3>4. CASE b = c
        <4>1. PICK m \in 1..(L - 1) : r[m] = p
          BY <1>13, <2>2, <3>2, <3>4 DEF x
        <4> QED  BY <1>1, <1>4, <1>7, <1>9, <4>1
      <3> QED  BY <3>3, <3>4
    <2> QED  BY <2>1, <2>2
  <1>15. IsFiniteSet(PairsOf(u)) /\ u.count = Cardinality(PairsOf(u))
    <2>1. IsFiniteSet(PairsOf(t)) /\ t.count = Cardinality(PairsOf(t))
      BY DEF DictOK, WellFormed
    <2>2. /\ IsFiniteSet(PairsOf(t) \ {x})
          /\ Cardinality(PairsOf(t) \ {x}) = Cardinality(PairsOf(t)) - 1
      BY <1>10, <2>1, FS_RemoveElement, Zenon DEF x
    <2> QED  BY <1>3, <1>14, <2>1, <2>2
  <1>16. \A b \in Chains : u.member_count[b] = Len(u.members[b])
    BY <1>1, <1>4, <1>5, <1>7, Zenon
  <1>17. ASSUME NEW b \in Chains, NEW i \in 1..Len(u.members[b]), NEW j \in 1..Len(u.members[b])
         PROVE  /\ index(u.members[b][i].key) = b
                /\ u.members[b][i].key = u.members[b][j].key => i = j
    <2>1. CASE b # c
      <3>1. u.members[b] = t.members[b]
        BY <1>7, <2>1
      <3> QED  BY <1>6, <3>1
    <2>2. CASE b = c
      <3> DEFINE at(m) == IF m < f THEN m ELSE m + 1
      <3>1. i \in 1..(L - 1) /\ j \in 1..(L - 1)
        BY <1>4, <1>7, <2>2
      <3>2. \A m \in 1..(L - 1) : at(m) \in 1..L /\ r[m] = s[at(m)]
        BY <1>1, <1>4, <1>5
      <3>3. at(i) = at(j) => i = j
        BY <1>1, <1>5, <3>1
      <3> HIDE DEF at
      <3>4. index(s[at(i)].key) = c
        BY <1>1, <1>6, <3>1, <3>2, ZenonT(30)
      <3>5. s[at(i)].key = s[at(j)].key => at(i) = at(j)
        BY <1>11, <3>1, <3>2, SMTT(30)
      <3>6. r[i] = s[at(i)] /\ r[j] = s[at(j)]
        BY <3>1, <3>2, Zenon
      <3> QED  BY <1>7, <2>2, <3>3, <3>4, <3>5, <3>6, Zenon
    <2> QED  BY <2>1, <2>2
  <1>18. DictOK(u)
    BY <1>7, <1>15, <1>16, <1>17, Zenon DEF DictOK, WellFormed
  <1> QED  BY <1>10, <1>14, <1>18 DEF u, x, f

(* A new table is well formed and empty.                                   *)
LEMMA CreateEmpty ==
  DictOK(dict_create) /\ PairsOf(dict_create) = {}
  <1>1. /\ dict_create.members = [c \in Chains |-> <<>>]
        /\ dict_create.member_count = [c \in Chains |-> 0] /\ dict_create.count = 0
    BY DEF dict_create
  <1>2. dict_create.members \in [Chains -> Seq(Pair)]
    BY <1>1
  <1>3. \A c \in Chains : dict_create.members[c] = <<>> /\ dict_create.member_count[c] = 0
    BY <1>1
  <1>4. PairsOf(dict_create) = {}
    <2>1. \A p : p \in PairsOf(dict_create) <=>
            \E c \in Chains : \E i \in 1..Len(dict_create.members[c]) : p = dict_create.members[c][i]
      BY <1>2, PairsInChains
    <2>2. \A c \in Chains : 1..Len(dict_create.members[c]) = {}
      BY <1>3
    <2> QED  BY <2>1, <2>2
  <1>5. IsFiniteSet(PairsOf(dict_create)) /\ Cardinality(PairsOf(dict_create)) = 0
    BY <1>4, FS_EmptySet
  <1>6. WellFormed(dict_create)
    BY <1>1, <1>3, <1>5 DEF WellFormed
  <1> QED  BY <1>1, <1>2, <1>4, <1>5, <1>6 DEF DictOK

-----------------------------------------------------------------------------
(* The value of a key is that of its pair, or NULL.                        *)
LEMMA ValueOfPair ==
  ASSUME NEW t, DictOK(t)
  PROVE  /\ \A p \in PairsOf(t) : ValueOf(t, p.key) = p.val
         /\ \A k : (\A p \in PairsOf(t) : p.key # k) => ValueOf(t, k) = NULL
         /\ \A p \in PairsOf(t) : p.key \in DOMAIN Hash /\ p.val \in Data
  <1>1. \A p, q \in PairsOf(t) : p.key = q.key => p = q
    BY PairsDiffer
  <1>2. PairsOf(t) \subseteq Pair
    BY PairsInChains DEF DictOK
  <1>3. ASSUME NEW p \in PairsOf(t)
        PROVE  ValueOf(t, p.key) = p.val
    <2>1. p.key \in KeysOf(t)
      BY DEF KeysOf
    <2>2. (CHOOSE q \in PairsOf(t) : q.key = p.key) = p
      BY <1>1
    <2> QED  BY <2>1, <2>2, Zenon DEF ValueOf
  <1>4. \A k : (\A p \in PairsOf(t) : p.key # k) => ValueOf(t, k) = NULL
    BY DEF ValueOf, KeysOf
  <1>5. \A p \in PairsOf(t) : p.key \in DOMAIN Hash /\ p.val \in Data
    BY <1>2, ZenonT(30) DEF Pair
  <1> QED  BY <1>3, <1>4, <1>5

(* Where no key of a chain begins with another, dict_find finds exactly    *)
(* the keys that have a value.                                             *)
LEMMA FindIsExact ==
  ASSUME NEW K, NEW V, K \subseteq DOMAIN Hash, NULL \notin V, PrefixFree(K),
         NEW t, DictOf(t, K, V), NEW k \in K
  PROVE  /\ dict_find(t, k) = 0 => ValueOf(t, k) = NULL
         /\ dict_find(t, k) # 0 =>
              /\ t.members[index(k)][dict_find(t, k)] \in PairsOf(t)
              /\ t.members[index(k)][dict_find(t, k)].key = k
              /\ ValueOf(t, k) # NULL
         /\ dict_get(t, k) = ValueOf(t, k)
  <1> DEFINE j == dict_find(t, k)
             x == t.members[index(k)][j]
  <1>0. k \in DOMAIN Hash /\ DictOK(t) /\ PairsOf(t) \subseteq [key : K, val : V]
    BY DEF DictOf
  <1>1. CASE j = 0
    <2>1. ValueOf(t, k) = NULL
      BY <1>0, <1>1, NotThere, ValueOfPair, ZenonT(30)
    <2> QED  BY <1>1, <2>1 DEF dict_get
  <1>2. CASE j # 0
    <2>1. x \in PairsOf(t)
      BY <1>0, <1>2, DelRemovesPair, Zenon
    <2>2. IsPrefix(k, x.key) /\ index(x.key) = index(k)
      <3>1. j \in 1..Len(t.members[index(k)]) /\ index(k) \in Chains
        BY <1>0, <1>2, Found, IndexIsChain, Zenon
      <3> QED  BY <1>0, <1>2, <3>1, Found, PairsDiffer
    <2>3. x.key \in K /\ x.val # NULL
      BY <1>0, <2>1, SMTT(30)
    <2>4. x.key = k
      BY <2>2, <2>3, SMTT(30) DEF PrefixFree
    <2>5. ValueOf(t, k) = x.val
      BY <1>0, <2>1, <2>4, ValueOfPair
    <2>6. dict_get(t, k) = x.val
      BY <1>2 DEF dict_get
    <2> QED  BY <1>2, <2>1, <2>3, <2>4, <2>5, <2>6
  <1> QED  BY <1>1, <1>2

(* dict_put keeps the table and the sets its pairs come from.              *)
LEMMA PutKeeps ==
  ASSUME NEW K, NEW V, K \subseteq DOMAIN Hash, V \subseteq Data,
         NEW t, DictOf(t, K, V), NEW k \in K, NEW v \in V
  PROVE  DictOf(dict_put(t, k, v), K, V)
  <1>1. k \in DOMAIN Hash /\ v \in Data /\ DictOK(t) /\ PairsOf(t) \subseteq [key : K, val : V]
    BY DEF DictOf
  <1>2. dict_data_pair(k, v) \in [key : K, val : V]
    BY DEF dict_data_pair
  <1>3. CASE dict_find(t, k) # 0
    BY <1>3 DEF dict_put
  <1>4. CASE dict_find(t, k) = 0
    BY <1>1, <1>2, <1>4, PutAddsPair, SMTT(30) DEF DictOf
  <1> QED  BY <1>3, <1>4

(* So does dict_del.                                                       *)
LEMMA DelKeeps ==
  ASSUME NEW K, NEW V, K \subseteq DOMAIN Hash,
         NEW t, DictOf(t, K, V), NEW k \in K
  PROVE  DictOf(dict_del(t, k), K, V)
  <1>1. k \in DOMAIN Hash /\ DictOK(t) /\ PairsOf(t) \subseteq [key : K, val : V]
    BY DEF DictOf
  <1>2. CASE dict_find(t, k) = 0
    BY <1>2 DEF dict_del
  <1>3. CASE dict_find(t, k) # 0
    BY <1>1, <1>3, DelRemovesPair DEF DictOf
  <1> QED  BY <1>2, <1>3

(* And the table dict_create returns has no pairs.                         *)
LEMMA CreateKeeps ==
  ASSUME NEW K, NEW V
  PROVE  DictOf(dict_create, K, V)
  BY CreateEmpty DEF DictOf

-----------------------------------------------------------------------------
(* Every call keeps the dictionary well formed.                            *)
LEMMA CallKeepsDict ==
  ASSUME DictOf(d, Keys, Vals), [TablesNext]_tables
  PROVE  DictOf(d', Keys, Vals)
  <1>1. Keys \subseteq DOMAIN Hash /\ Vals \subseteq Data
    BY KeysAssumption DEF Data
  <1>2. ASSUME NEW k \in Keys, NEW v \in Vals, Put(k, v) PROVE DictOf(d', Keys, Vals)
    BY <1>1, <1>2, PutKeeps DEF Put
  <1>3. ASSUME NEW k \in Keys, Del(k) PROVE DictOf(d', Keys, Vals)
    BY <1>1, <1>3, DelKeeps DEF Del
  <1>4. CASE (\E k \in Keys : Get(k)) \/ Dump \/ UNCHANGED tables
    <2>1. d' = d  BY <1>4 DEF Get, Dump, tables
    <2> QED  BY <2>1
  <1>5. CASE Destroy
    BY <1>5, CreateKeeps DEF Destroy
  <1> QED  BY <1>2, <1>3, <1>4, <1>5 DEF TablesNext

(* The dictionary is always as DictOK says, and holds what was put there.  *)
THEOREM DictInvariant == TablesSpec => []DictOf(d, Keys, Vals)
  <1>1. TablesInit => DictOf(d, Keys, Vals)
    BY CreateKeeps DEF TablesInit
  <1>2. DictOf(d, Keys, Vals) /\ [TablesNext]_tables => DictOf(d, Keys, Vals)'
    BY CallKeepsDict
  <1> QED  BY <1>1, <1>2, PTL DEF TablesSpec

(* The counters of dict.c agree with its chains, no key is there twice,    *)
(* and every pair is in the chain of its key, after any calls and also     *)
(* where one key begins with another.                                      *)
THEOREM TableCorrect == TablesSpec => []TableWellFormed
  <1>1. DictOf(d, Keys, Vals) => TableWellFormed
    BY DEF DictOf, DictOK, TableWellFormed
  <1> QED  BY DictInvariant, <1>1, PTL

-----------------------------------------------------------------------------
(* The map of the chunk cache stays as c_hashmap_alloc leaves it.          *)
Untouched == chunks = c_hashmap_alloc(max_count)

(* Neither adding nor removing a chunk changes it: it counts as full, and  *)
(* the chain without chains is empty.                                      *)
LEMMA CallsDoNothing ==
  ASSUME Untouched, NEW k \in Keys, NEW v
  PROVE  c_hashmap_del(chunks, k) = chunks /\ c_hashmap_put(chunks, k, v) = chunks
  <1>1. chunks.max_count = 0 /\ chunks.cur_count = 0
        /\ chunks.ptr = [c \in 0..(max_count - 1) |-> <<>>]
    BY DEF Untouched, c_hashmap_alloc
  <1>2. c_hashmap_get_index(chunks, k) = 1
    BY <1>1 DEF c_hashmap_get_index, jump_consistent
  <1>3. chunks.ptr[1] = <<>>
    BY <1>1, TwoChains, ChainsAssumption
  <1>4. c_hashmap_search(chunks, 1, k) = 0
    BY <1>3 DEF c_hashmap_search, SelectInSeq
  <1>5. c_hashmap_del(chunks, k) = chunks
    BY <1>2, <1>4 DEF c_hashmap_del
  <1>6. c_hashmap_put(chunks, k, v) = chunks
    BY <1>1 DEF c_hashmap_put
  <1> QED  BY <1>5, <1>6

(* Whatever is added to the chunk cache, it holds nothing, finds nothing   *)
(* and shows nothing, for any number of chains main could ask for but one. *)
THEOREM CacheEmpty == TablesSpec => []ChunkCacheHoldsNothing
  <1>1. TablesInit => Untouched
    BY DEF TablesInit, Untouched, chunk_cache_new
  <1>2. ASSUME Untouched, [TablesNext]_tables
        PROVE  Untouched'
    <2>1. CASE \E k \in Keys : \E v \in Vals : Put(k, v)
      BY <1>2, <2>1, CallsDoNothing, SMTT(30) DEF Put, chunk_cache_add, Untouched
    <2>2. CASE \E k \in Keys : Del(k)
      BY <1>2, <2>2, CallsDoNothing DEF Del, chunk_cache_remove, Untouched
    <2>3. CASE \E k \in Keys : Get(k)
      BY <1>2, <2>3 DEF Get, Untouched
    <2>4. CASE Dump
      BY <1>2, <2>4 DEF Dump, Untouched
    <2>5. CASE Destroy
      BY <2>5 DEF Destroy, chunk_cache_destroy, chunk_cache_new, Untouched
    <2>6. CASE UNCHANGED tables
      BY <1>2, <2>6 DEF tables, Untouched
    <2> QED  BY <1>2, <2>1, <2>2, <2>3, <2>4, <2>5, <2>6 DEF TablesNext
  <1>3. Untouched => ChunkCacheHoldsNothing
    <2> SUFFICES ASSUME Untouched PROVE ChunkCacheHoldsNothing
      OBVIOUS
    <2>1. chunks.cur_count = 0 /\ chunks.ptr = [c \in 0..(max_count - 1) |-> <<>>]
      BY DEF Untouched, c_hashmap_alloc
    <2>2. \A c \in DOMAIN chunks.ptr : chunks.ptr[c] = <<>>
      BY <2>1
    <2>3. \A k \in Keys : c_hashmap_get(chunks, k) = NULL
      BY <2>1 DEF c_hashmap_get
    <2>4. c_hashmap_traverse(chunks) = <<>>
      BY <2>1 DEF c_hashmap_traverse
    <2> QED  BY <2>2, <2>3, <2>4 DEF ChunkCacheHoldsNothing
  <1>4. Untouched /\ [TablesNext]_tables => Untouched'
    BY <1>2
  <1> QED  BY <1>1, <1>3, <1>4, PTL DEF TablesSpec

-----------------------------------------------------------------------------
(* dict_dump and dict_deinit visit every pair of the table.                *)
LEMMA VisitsAll ==
  ASSUME DictOf(d, Keys, Vals)
  PROVE  Visited = {<<k, ValueOf(d, k)>> : k \in {j \in Keys : ValueOf(d, j) # NULL}}
  <1>0. DictOK(d) /\ PairsOf(d) \subseteq [key : Keys, val : Vals]
    BY DEF DictOf
  <1>1. dict_visit(d) = PairsOf(d)
    <2>1. \A c \in Chains : /\ d.member_count[c] = Len(d.members[c])
                            /\ d.members[c] \in Seq(Pair)
      BY <1>0 DEF DictOK, WellFormed
    <2>2. \A c \in Chains : ~(d.member_count[c] > 0) => ToSet(d.members[c]) = {}
      <3> SUFFICES ASSUME NEW c \in Chains, ~(d.member_count[c] > 0)
                   PROVE  ToSet(d.members[c]) = {}
        OBVIOUS
      <3>1. Len(d.members[c]) \in Nat /\ ~(Len(d.members[c]) > 0)
        BY <2>1
      <3>2. DOMAIN d.members[c] = {}
        BY <2>1, <3>1
      <3> QED  BY <3>2 DEF ToSet
    <2>3. \A p : p \in dict_visit(d) <=>
            \E c \in Chains : d.member_count[c] > 0 /\ p \in ToSet(d.members[c])
      BY DEF dict_visit
    <2>4. \A p : p \in PairsOf(d) <=> \E c \in Chains : p \in ToSet(d.members[c])
      BY DEF PairsOf
    <2>5. \A p : p \in dict_visit(d) <=> p \in PairsOf(d)
      BY <2>2, <2>3, <2>4, SMTT(30)
    <2> QED  BY <2>5, Zenon
  <1>2. Visited = {<<p.key, p.val>> : p \in PairsOf(d)}
    BY <1>1 DEF Visited
  <1> DEFINE R == {<<k, ValueOf(d, k)>> : k \in {j \in Keys : ValueOf(d, j) # NULL}}
  <1>3. ASSUME NEW p \in PairsOf(d)
        PROVE  <<p.key, p.val>> \in R
    BY <1>0, ValueOfPair, KeysAssumption, Zenon
  <1>4. ASSUME NEW k \in Keys, ValueOf(d, k) # NULL
        PROVE  <<k, ValueOf(d, k)>> \in Visited
    <2>1. PICK p \in PairsOf(d) : p.key = k
      BY <1>0, <1>4, ValueOfPair, Zenon
    <2>2. ValueOf(d, k) = p.val
      BY <1>0, <2>1, ValueOfPair, SMTT(30)
    <2> QED  BY <1>2, <2>1, <2>2, Zenon
  <1>5. \A z \in Visited : z \in R
    BY <1>2, <1>3
  <1>6. \A z \in R : z \in Visited
    BY <1>4
  <1> QED  BY <1>5, <1>6

(* The map a table stands for.                                            *)
Map(t) == [k \in Keys |-> ValueOf(t, k)]

(* dict_put of a key that is not found adds it to the map.                 *)
LEMMA PutExtendsMap ==
  ASSUME NEW t, DictOK(t), NEW k \in Keys, NEW v \in Vals, dict_find(t, k) = 0
  PROVE  Map(dict_put(t, k, v)) = [Map(t) EXCEPT ![k] = v]
  <1> DEFINE u == dict_put(t, k, v)
             x == dict_data_pair(k, v)
  <1>1. DictOK(u) /\ PairsOf(u) = PairsOf(t) \cup {x}
    BY PutAddsPair, KeysAssumption DEF Data
  <1>2. x.key = k /\ x.val = v
    BY DEF dict_data_pair
  <1> HIDE DEF u, x
  <1>3. ASSUME NEW l \in Keys
        PROVE  ValueOf(u, l) = IF l = k THEN v ELSE ValueOf(t, l)
    <2>1. CASE l = k
      <3>1. x \in PairsOf(u)
        BY <1>1
      <3>2. ValueOf(u, x.key) = x.val
        BY <1>1, <3>1, ValueOfPair, Zenon
      <3> QED  BY <1>2, <2>1, <3>2
    <2>2. CASE l # k /\ \E p \in PairsOf(t) : p.key = l
      BY <1>1, <2>2, ValueOfPair, ZenonT(30)
    <2>3. CASE l # k /\ \A p \in PairsOf(t) : p.key # l
      <3>1. \A p \in PairsOf(u) : p.key # l
        BY <1>1, <1>2, <2>3, Zenon
      <3>2. ValueOf(u, l) = NULL /\ ValueOf(t, l) = NULL
        BY <1>1, <2>3, <3>1, ValueOfPair
      <3> QED  BY <2>3, <3>2
    <2> QED  BY <2>1, <2>2, <2>3
  <1> QED  BY <1>3, Zenon DEF Map, u

(* dict_del takes the key out of the map, and no other.                    *)
LEMMA DelShrinksMap ==
  ASSUME PrefixFree(Keys), NEW t, DictOf(t, Keys, Vals), NEW k \in Keys, dict_find(t, k) # 0
  PROVE  Map(dict_del(t, k)) = [Map(t) EXCEPT ![k] = NULL]
  <1> DEFINE u == dict_del(t, k)
             x == t.members[index(k)][dict_find(t, k)]
  <1>0. DictOK(t) /\ k \in DOMAIN Hash
    BY KeysAssumption, Zenon DEF DictOf
  <1>1. DictOK(u) /\ PairsOf(u) = PairsOf(t) \ {x}
    BY <1>0, DelRemovesPair, Zenon
  <1>2. x \in PairsOf(t) /\ x.key = k
    BY KeysAssumption, FindIsExact
  <1> HIDE DEF u, x
  <1>3. ASSUME NEW l \in Keys
        PROVE  ValueOf(u, l) = IF l = k THEN NULL ELSE ValueOf(t, l)
    <2>1. CASE l = k
      <3>1. \A p \in PairsOf(u) : p.key # l
        BY <1>0, <1>1, <1>2, <2>1, PairsDiffer
      <3> QED  BY <1>1, <2>1, <3>1, ValueOfPair, SMTT(30)
    <2>2. CASE l # k /\ \E p \in PairsOf(t) : p.key = l
      <3>1. PICK p \in PairsOf(t) : p.key = l
        BY <2>2
      <3>2. p \in PairsOf(u)
        BY <1>1, <1>2, <2>2, <3>1, ZenonT(30)
      <3>3. ValueOf(u, p.key) = p.val /\ ValueOf(t, p.key) = p.val
        BY <1>0, <1>1, <3>1, <3>2, ValueOfPair
      <3> QED  BY <2>2, <3>1, <3>3, Zenon
    <2>3. CASE l # k /\ \A p \in PairsOf(t) : p.key # l
      <3>1. \A p \in PairsOf(u) : p.key # l
        BY <1>0, <1>1, <2>3, ZenonT(30)
      <3>2. ValueOf(u, l) = NULL /\ ValueOf(t, l) = NULL
        BY <1>0, <1>1, <2>3, <3>1, ValueOfPair
      <3> QED  BY <2>3, <3>2, Zenon
    <2> QED  BY <2>1, <2>2, <2>3, Zenon
  <1> QED  BY <1>3, Zenon DEF Map, u

(* A table just made is the empty map.                                     *)
LEMMA CreateIsEmptyMap ==
  Map(dict_create) = [k \in Keys |-> NULL]
  <1>1. \A k \in Keys : ValueOf(dict_create, k) = NULL
    BY CreateEmpty, ValueOfPair
  <1> QED  BY <1>1 DEF Map

(* Every call is the call of the key-value map of the same name, with the  *)
(* same answer.                                                            *)
LEMMA CallIsMapCall ==
  ASSUME PrefixFree(Keys), DictOf(d, Keys, Vals), [TablesNext]_tables
  PROVE  [KV!Next]_(KV!vars)
  <1> DEFINE M == Map(d)
  <1>1. M = [k \in Keys |-> ValueOf(d, k)] /\ M' = [k \in Keys |-> ValueOf(d', k)]
        /\ \A k \in Keys : M[k] = ValueOf(d, k)
    BY DEF Map
  <1>2. ASSUME NEW k \in Keys, NEW v \in Vals, Put(k, v)
        PROVE  KV!Put(k, v)
    <2>1. d' = dict_put(d, k, v)
          /\ last' = <<"put", k, v, IF dict_find(d, k) # 0 THEN "refused" ELSE "ok">>
      BY <1>2 DEF Put
    <2>2. CASE dict_find(d, k) = 0
      <3>1. ValueOf(d, k) = NULL
        BY <2>2, KeysAssumption, FindIsExact
      <3>2. M' = [M EXCEPT ![k] = v]
        BY <2>1, <2>2, PutExtendsMap DEF DictOf
      <3> HIDE DEF M
      <3> QED  BY <1>1, <2>1, <2>2, <3>1, <3>2, Zenon DEF KV!Put
    <2>3. CASE dict_find(d, k) # 0
      <3>1. ValueOf(d, k) # NULL
        BY <2>3, KeysAssumption, FindIsExact, SMTT(30)
      <3>2. d' = d
        BY <2>1, <2>3 DEF dict_put
      <3> QED  BY <1>1, <2>1, <2>3, <3>1, <3>2, ZenonT(30) DEF KV!Put
    <2> QED  BY <2>2, <2>3
  <1>3. ASSUME NEW k \in Keys, Del(k)
        PROVE  KV!Del(k)
    <2>1. d' = dict_del(d, k)
          /\ last' = <<"del", k, IF dict_find(d, k) = 0 THEN "refused" ELSE "ok">>
      BY <1>3 DEF Del
    <2>2. CASE dict_find(d, k) # 0
      <3>1. ValueOf(d, k) # NULL
        BY <2>2, KeysAssumption, FindIsExact
      <3>2. M' = [M EXCEPT ![k] = NULL]
        BY <2>1, <2>2, DelShrinksMap
      <3> HIDE DEF M
      <3> QED  BY <1>1, <2>1, <2>2, <3>1, <3>2, Zenon DEF KV!Del
    <2>3. CASE dict_find(d, k) = 0
      <3>1. ValueOf(d, k) = NULL
        BY <2>3, KeysAssumption, FindIsExact
      <3>2. d' = d
        BY <2>1, <2>3 DEF dict_del
      <3> QED  BY <1>1, <2>1, <2>3, <3>1, <3>2, Zenon DEF KV!Del
    <2> QED  BY <2>2, <2>3
  <1>4. ASSUME NEW k \in Keys, Get(k)
        PROVE  KV!Get(k)
    <2>1. d' = d /\ last' = <<"get", k, ValueOf(d, k)>>
      BY <1>4, KeysAssumption, FindIsExact DEF Get
    <2> QED  BY <2>1 DEF KV!Get
  <1>5. Visited = KV!Pairs
    <2>1. {j \in Keys : [k \in Keys |-> ValueOf(d, k)][j] # NULL}
            = {j \in Keys : ValueOf(d, j) # NULL}
      OBVIOUS
    <2> QED  BY <2>1, VisitsAll, Zenon DEF KV!Pairs
  <1>6. CASE Dump
    BY <1>5, <1>6 DEF Dump, KV!Dump, KV!Next
  <1>7. CASE Destroy
    <2>1. M' = [k \in Keys |-> NULL] /\ last' = <<"destroy", Visited>>
      BY <1>7, CreateIsEmptyMap, SMTT(30) DEF Destroy
    <2>2. KV!Destroy
      BY <1>1, <1>5, <2>1 DEF KV!Destroy
    <2> QED  BY <2>2 DEF KV!Next
  <1>8. CASE UNCHANGED tables
    BY <1>8 DEF tables, KV!vars
  <1>9. CASE \E k \in Keys : Get(k) \/ Del(k) \/ \E v \in Vals : Put(k, v)
    BY <1>2, <1>3, <1>4, <1>9 DEF KV!Next
  <1> QED  BY <1>6, <1>7, <1>8, <1>9 DEF TablesNext

(* The dictionary of the metadata server implements the key-value map, for *)
(* any keys of which none begins with another of its chain: a get finds    *)
(* the value last put and not deleted, a put is refused exactly for a key  *)
(* that is there, dict_dump and dict_deinit visit exactly what is there.   *)
THEOREM MapImplemented ==
  ASSUME PrefixFree(Keys)
  PROVE  TablesSpec => ImplementsMap
  <1>1. TablesInit => KV!Init
    <2> SUFFICES ASSUME TablesInit PROVE KV!Init
      OBVIOUS
    <2>1. d = dict_create /\ last = <<"create">>
      BY DEF TablesInit
    <2>2. [k \in Keys |-> ValueOf(d, k)] = [k \in Keys |-> NULL]
      BY <2>1, CreateIsEmptyMap DEF Map
    <2> QED  BY <2>1, <2>2 DEF KV!Init
  <1>2. DictOf(d, Keys, Vals) /\ [TablesNext]_tables => [KV!Next]_(KV!vars)
    BY CallIsMapCall
  <1> QED  BY DictInvariant, <1>1, <1>2, PTL DEF TablesSpec, ImplementsMap, KV!Spec

-----------------------------------------------------------------------------
(* f holds the tables between the puts of schema_cache_load_cb.            *)
PutSteps(f, t, keys, vals) ==
  /\ f[0] = t
  /\ \A j \in 1..Len(keys) : f[j] = dict_put(f[j - 1], keys[j], vals[j])
  /\ PutEach(t, keys, vals) = f[Len(keys)]

(* The recursive function of PutEach exists.                               *)
LEMMA EachPutUnfolds ==
  ASSUME NEW t, NEW keys, NEW vals, Len(keys) \in Nat
  PROVE  \E f : PutSteps(f, t, keys, vals)
  <1> DEFINE N == Len(keys)
             Good(n, f) == \A j \in 0..n : f[j] = IF j = 0 THEN t ELSE dict_put(f[j - 1], keys[j], vals[j])
             Bad == {n \in 0..N : ~\E f : Good(n, f)}
  <1>0. N \in Nat
    OBVIOUS
  <1>1. \E f : Good(N, f)
    <2> HIDE DEF N
    <2> SUFFICES ASSUME ~\E f : Good(N, f) PROVE FALSE
      OBVIOUS
    <2>1. N \in Bad /\ Bad \in SUBSET Nat
      BY <1>0
    <2> HIDE DEF Bad
    <2>2. PICK n \in Bad : \A m \in Bad : n <= m
      BY <2>1, LeastPosition
    <2> USE DEF Bad
    <2>3. n # 0
      <3>1. Good(0, [j \in {0} |-> t])
        OBVIOUS
      <3> QED  BY <3>1
    <2>4. n - 1 \in 0..N /\ n - 1 \notin Bad
      <3>1. n \in 0..N
        BY <2>2
      <3> HIDE DEF Bad
      <3>2. n - 1 \in 0..N /\ ~(n <= n - 1)
        BY <1>0, <2>3, <3>1
      <3> QED  BY <2>2, <3>2, Zenon
    <2>5. PICK f : Good(n - 1, f)
      BY <2>4
    <2> DEFINE g == [j \in 0..n |-> IF j = 0 THEN t ELSE dict_put(f[j - 1], keys[j], vals[j])]
    <2>6. Good(n, g)
      <3>1. n \in 1..N
        BY <1>0, <2>2, <2>3
      <3>2. \A j \in 0..(n - 1) : f[j] = g[j]
        BY <1>0, <2>5, <3>1
      <3>3. ASSUME NEW j \in 0..n
            PROVE  g[j] = IF j = 0 THEN t ELSE dict_put(g[j - 1], keys[j], vals[j])
        <4>1. CASE j = 0
          BY <4>1, SMTT(30)
        <4>2. CASE j # 0
          <5>1. j - 1 \in 0..(n - 1)
            BY <3>1, <4>2
          <5>2. f[j - 1] = g[j - 1]
            BY <3>2, <5>1, Zenon
          <5>3. g[j] = dict_put(f[j - 1], keys[j], vals[j])
            BY <4>2
          <5> QED  BY <4>2, <5>2, <5>3, SMTT(30)
        <4> QED  BY <4>1, <4>2, SMTT(30)
      <3> QED  BY <3>3
    <2> QED  BY <2>2, <2>6, Zenon
  <1>2. PICK f : Good(N, f)
    BY <1>1
  <1> DEFINE g == [j \in 0..N |-> f[j]]
             puts[j \in 0..N] == IF j = 0 THEN t ELSE dict_put(puts[j - 1], keys[j], vals[j])
  <1>3. g = [j \in 0..N |-> IF j = 0 THEN t ELSE dict_put(g[j - 1], keys[j], vals[j])]
    <2> HIDE DEF N
    <2> QED  BY <1>0, <1>2
  <1>4. puts = [j \in 0..N |-> IF j = 0 THEN t ELSE dict_put(puts[j - 1], keys[j], vals[j])]
    <2>1. \E h : h = [j \in 0..N |-> IF j = 0 THEN t ELSE dict_put(h[j - 1], keys[j], vals[j])]
      <3> HIDE DEF g
      <3> QED  BY <1>3, Zenon
    <2> QED  BY <2>1, Zenon
  <1>5. PutEach(t, keys, vals) = puts[N]
    BY DEF PutEach
  <1> HIDE DEF puts, N
  <1>6. /\ puts[0] = t
        /\ \A j \in 1..N : puts[j] = dict_put(puts[j - 1], keys[j], vals[j])
    BY <1>0, <1>4
  <1>7. PutSteps(puts, t, keys, vals)
    BY <1>5, <1>6, Zenon DEF N, PutSteps
  <1> QED  BY <1>7, Zenon

(* What a run of dict_put calls needs of the dictionary and the pairs, and *)
(* what it leaves.                                                         *)
PutsReady(t, keys, vals, K, V) ==
  /\ K \subseteq DOMAIN Hash /\ V \subseteq Data /\ NULL \notin V /\ PrefixFree(K)
  /\ DictOf(t, K, V) /\ Len(keys) \in Nat
  /\ \A j \in 1..Len(keys) : keys[j] \in K /\ vals[j] \in V

PutsDone(u, t, keys, vals, K, V) ==
  /\ DictOf(u, K, V)
  /\ \A p \in PairsOf(u) : \/ p \in PairsOf(t)
                           \/ \E j \in 1..Len(keys) : p.key = keys[j] /\ p.val = vals[j]
  /\ \A j \in 1..Len(keys) : \E p \in PairsOf(u) : p.key = keys[j]

(* What a table holds after a sequence of puts: what it held and the pairs *)
(* put, and a pair for each of the keys.                                   *)
LEMMA EachPut ==
  ASSUME NEW t, NEW keys, NEW vals, NEW K, NEW V, PutsReady(t, keys, vals, K, V)
  PROVE  PutsDone(PutEach(t, keys, vals), t, keys, vals, K, V)
  <1> K \subseteq DOMAIN Hash /\ V \subseteq Data
    BY Zenon DEF PutsReady
  <1> NULL \notin V /\ PrefixFree(K) /\ DictOf(t, K, V) /\ Len(keys) \in Nat
    BY Zenon DEF PutsReady
  <1> \A j \in 1..Len(keys) : keys[j] \in K /\ vals[j] \in V
    BY Zenon DEF PutsReady
  <1> DEFINE N == Len(keys)
             From(p, n) == \E j \in 1..n : p.key = keys[j] /\ p.val = vals[j]
             Good(u, n) == /\ DictOf(u, K, V)
                           /\ \A p \in PairsOf(u) : p \in PairsOf(t) \/ From(p, n)
                           /\ \A j \in 1..n : \E p \in PairsOf(u) : p.key = keys[j]
  <1>0. N \in Nat
    OBVIOUS
  <1>1. PICK f : /\ f[0] = t
                 /\ \A j \in 1..N : f[j] = dict_put(f[j - 1], keys[j], vals[j])
                 /\ PutEach(t, keys, vals) = f[N]
    <2>1. Len(keys) \in Nat
      OBVIOUS
    <2>2. PICK f : PutSteps(f, t, keys, vals)
      BY <2>1, EachPutUnfolds, Zenon
    <2> QED  BY <2>2, Zenon DEF PutSteps
  <1> HIDE DEF N
  <1>2. Good(f[0], 0)
    BY <1>1
  <1>3. ASSUME NEW n \in 1..N, Good(f[n - 1], n - 1)
        PROVE  Good(f[n], n)
    <2> DEFINE u == f[n - 1]
               k == keys[n]
               v == vals[n]
               x == dict_data_pair(k, v)
    <2>1. f[n] = dict_put(u, k, v) /\ k \in K /\ v \in V /\ DictOf(u, K, V)
      BY <1>1, <1>3 DEF N
    <2>2. x.key = k /\ x.val = v
      BY DEF dict_data_pair
    <2>3. \A j \in 1..n : j \in 1..(n - 1) \/ j = n
      BY <1>0
    <2>4. \A p : From(p, n - 1) => From(p, n)
      <3>1. \A j \in 1..(n - 1) : j \in 1..n
        BY <1>0
      <3> QED  BY <3>1
    <2>5. DictOf(f[n], K, V)
      BY <2>1, PutKeeps
    <2>6. CASE dict_find(u, k) = 0
      <3>1. PairsOf(f[n]) = PairsOf(u) \cup {x}
        BY <2>1, <2>6, PutAddsPair, SMTT(30) DEF DictOf
      <3>2. From(x, n)
        <4>1. n \in 1..n  BY <1>0
        <4> QED  BY <2>2, <4>1, SMTT(30)
      <3>3. \A p \in PairsOf(f[n]) : p \in PairsOf(t) \/ From(p, n)
        BY <1>3, <2>4, <3>1, <3>2, Zenon
      <3>4. \A j \in 1..n : \E p \in PairsOf(f[n]) : p.key = keys[j]
        BY <1>3, <2>2, <2>3, <3>1, Zenon
      <3> QED  BY <2>5, <3>3, <3>4, Zenon
    <2>7. CASE dict_find(u, k) # 0
      <3>1. f[n] = u
        BY <2>1, <2>7, ZenonT(30) DEF dict_put
      <3>2. \E p \in PairsOf(u) : p.key = k
        BY <2>1, <2>7, FindIsExact
      <3>3. \A p \in PairsOf(f[n]) : p \in PairsOf(t) \/ From(p, n)
        BY <1>3, <2>4, <3>1, Zenon
      <3>4. \A j \in 1..n : \E p \in PairsOf(f[n]) : p.key = keys[j]
        BY <1>3, <2>3, <3>1, <3>2, Zenon
      <3> QED  BY <2>5, <3>3, <3>4, Zenon
    <2> QED  BY <2>6, <2>7, Zenon
  <1> HIDE DEF Good
  <1>4. Good(f[N], N)
    <2> DEFINE Bad == {n \in 0..N : ~Good(f[n], n)}
    <2> SUFFICES ASSUME Bad # {} PROVE FALSE
      BY <1>0
    <2>1. Bad \in SUBSET Nat
      BY <1>0
    <2> HIDE DEF Bad
    <2>2. PICK n \in Bad : \A m \in Bad : n <= m
      BY <2>1, LeastPosition
    <2> USE DEF Bad
    <2>3. n # 0  BY <1>2, <2>2
    <2>4. n \in 1..N /\ n - 1 \in 0..N /\ n - 1 \notin Bad
      BY <1>0, <2>2, <2>3
    <2> QED  BY <1>3, <2>2, <2>4, SMTT(30)
  <1> QED  BY <1>1, <1>4, Zenon DEF Good, N, PutsDone

(* The rows of a finite table, each visited once or more.                  *)
LEMMA SeqOfSet ==
  ASSUME NEW S, IsFiniteSet(S)
  PROVE  /\ SetToSeq(S) \in Seq(S)
         /\ Len(SetToSeq(S)) \in Nat
         /\ \A x \in S : \E j \in 1..Len(SetToSeq(S)) : SetToSeq(S)[j] = x
  <1> DEFINE n == Cardinality(S)
             f == SetToSeq(S)
  <1>1. n \in Nat /\ ExistsBijection(1..n, S)
    BY FS_CardinalityType
  <1>2. \E g \in [1..n -> S] : IsInjective(g)
    BY <1>1 DEF ExistsBijection, Bijection, Injection
  <1>3. f \in [1..n -> S] /\ IsInjective(f)
    BY <1>2, Zenon DEF SetToSeq
  <1> HIDE DEF f
  <1>4. f \in Seq(S) /\ Len(f) = n
    BY <1>1, <1>3
  <1>5. IsFiniteSet(1..n) /\ Cardinality(1..n) = n
    BY <1>1, FS_Interval
  <1>6. f \in Surjection(1..n, S)
    BY <1>3, <1>5, FS_Injection DEF Injection
  <1>7. \A x \in S : \E j \in 1..n : f[j] = x
    BY <1>6 DEF Surjection
  <1> QED  BY <1>1, <1>4, <1>7 DEF f

-----------------------------------------------------------------------------
(* The two dictionaries of the metadata server: the registry, from names   *)
(* to objects, and the cache, from keys to records.                        *)
LEMMA NamesFacts ==
  /\ Keys \subseteq Names /\ SYS \in Names /\ Names \subseteq DOMAIN Hash
  /\ Keys \subseteq DOMAIN Hash
  /\ Nat \subseteq Data /\ Vals \subseteq Data /\ NULL \notin Nat /\ NULL \notin Vals
  /\ PrefixFree(Names) => PrefixFree(Keys)
  BY KeysAssumption, NamesAssumption, ObjectsAssumption, Zenon DEF Names, Data, PrefixFree

(* A name that dict_get finds in the registry is that of a live object.    *)
LEMMA RegisteredLive ==
  ASSUME PrefixFree(Names), TypeOK, RegistryLive, NEW n \in Names, Registered(n)
  PROVE  \E o \in live : name[o] = n
  <1>1. DictOf(schema_ctx, Names, Nat)
    BY DEF TypeOK
  <1>2. ValueOf(schema_ctx, n) # NULL
    BY <1>1, NamesFacts, FindIsExact DEF Registered, kv_db_fetch_schema
  <1>3. PICK p \in PairsOf(schema_ctx) : p.key = n
    BY <1>1, <1>2, ValueOfPair DEF DictOf
  <1> QED  BY <1>3 DEF RegistryLive

(* So the meta table exists whenever it is written.                        *)
LEMMA MetaTableExists ==
  ASSUME PrefixFree(Names), TypeOK, RegistryLive, TablesExist, Registered(SYS)
  PROVE  SYS \in exists
  BY RegisteredLive, NamesFacts DEF TablesExist

(* What dict_put does to the records of the cache.                         *)
LEMMA CachePut ==
  ASSUME PrefixFree(Names), NEW t, DictOf(t, Keys, Vals), NEW k \in Keys, NEW v \in Vals
  PROVE  \A l \in Keys : ValueOf(dict_put(t, k, v), l) =
           IF l = k /\ dict_find(t, k) = 0 THEN v ELSE ValueOf(t, l)
  <1>1. CASE dict_find(t, k) = 0
    <2>1. Map(dict_put(t, k, v)) = [Map(t) EXCEPT ![k] = v]
      BY <1>1, PutExtendsMap DEF DictOf
    <2>2. \A u : \A l \in Keys : Map(u)[l] = ValueOf(u, l)
      BY DEF Map
    <2>3. Map(t) \in [Keys -> {ValueOf(t, l) : l \in Keys}]
      BY DEF Map
    <2> HIDE DEF Map
    <2> QED  BY <1>1, <2>1, <2>2, <2>3
  <1>2. CASE dict_find(t, k) # 0
    BY <1>2 DEF dict_put
  <1> QED  BY <1>1, <1>2

(* What dict_del does to the records of the cache.                         *)
LEMMA CacheDel ==
  ASSUME PrefixFree(Names), NEW t, DictOf(t, Keys, Vals), NEW k \in Keys
  PROVE  \A l \in Keys : ValueOf(dict_del(t, k), l) = IF l = k THEN NULL ELSE ValueOf(t, l)
  <1>0. PrefixFree(Keys)
    BY NamesFacts
  <1>1. CASE dict_find(t, k) # 0
    <2>1. Map(dict_del(t, k)) = [Map(t) EXCEPT ![k] = NULL]
      BY <1>0, <1>1, DelShrinksMap
    <2>2. \A u : \A l \in Keys : Map(u)[l] = ValueOf(u, l)
      BY DEF Map
    <2>3. Map(t) \in [Keys -> {ValueOf(t, l) : l \in Keys}]
      BY DEF Map
    <2> HIDE DEF Map
    <2> QED  BY <1>1, <2>1, <2>2, <2>3
  <1>2. CASE dict_find(t, k) = 0
    <2>1. dict_del(t, k) = t
      BY <1>2 DEF dict_del
    <2>2. ValueOf(t, k) = NULL
      BY <1>0, <1>2, NamesFacts, FindIsExact
    <2> QED  BY <2>1, <2>2
  <1> QED  BY <1>1, <1>2

(* The meta table as it is created, without rows.                          *)
LEMMA NoRowsType == NoRows \in RowsType
  <1>1. {k \in Keys : NoRows[k] # NULL} = {} /\ NoRows \in [Keys -> Vals \cup {NULL}]
    BY DEF NoRows
  <1> QED  BY <1>1, FS_EmptySet DEF RowsType

(* The meta table after kv_db_set or kv_db_del of one row.                 *)
LEMMA WriteKeepsRows ==
  ASSUME NEW r \in RowsType, NEW k \in Keys, NEW v \in Vals \cup {NULL}
  PROVE  [r EXCEPT ![k] = v] \in RowsType
  <1> DEFINE S == {l \in Keys : r[l] # NULL}
             q == [r EXCEPT ![k] = v]
             T == {l \in Keys : q[l] # NULL}
  <1>1. r \in [Keys -> Vals \cup {NULL}] /\ IsFiniteSet(S)
    BY DEF RowsType
  <1>2. q \in [Keys -> Vals \cup {NULL}] /\ \A l \in Keys : q[l] = IF l = k THEN v ELSE r[l]
    BY <1>1
  <1>3. T \in SUBSET (S \cup {k})
    BY <1>2
  <1>4. IsFiniteSet(S \cup {k})
    BY <1>1, FS_AddElement
  <1> HIDE DEF S, q
  <1>5. IsFiniteSet(T)
    BY <1>3, <1>4, FS_Subset
  <1> QED  BY <1>2, <1>5 DEF RowsType, q

-----------------------------------------------------------------------------
(* The process starts, ends, or a checkpoint is taken: the rows become     *)
(* those of the disk, or the disk those of the rows.                       *)
LEMMA ProcessKeepsInv ==
  ASSUME IInv, kv_db_alloc \/ Die \/ Checkpoint \/ UNCHANGED vars
  PROVE  IInv'
  <1> USE DEF IInv
  <1>1. CASE Die
    <2>1. /\ up' = FALSE /\ schema_ctx' = dict_create /\ name' = <<>> /\ live' = {} /\ cache' = NULL
          /\ bypassed' = {} /\ rows' = disk /\ exists' = exists /\ disk' = disk
      BY <1>1 DEF Die
    <2>2. DictOf(dict_create, Names, Nat) /\ PairsOf(dict_create) = {}
      BY CreateKeeps, CreateEmpty
    <2>3. TypeOK'
      <3>1. exists \subseteq Names /\ disk \in RowsType
        BY DEF TypeOK
      <3>2. <<>> \in Seq(Names) /\ {} \subseteq 1..Len(<<>>) /\ {} \subseteq Keys /\ FALSE \in BOOLEAN
        OBVIOUS
      <3> QED  BY <2>1, <2>2, <3>1, <3>2, Zenon DEF TypeOK
    <2>4. RegistryLive' /\ CacheAgrees' /\ TablesExist'
      BY <2>1, <2>2, ZenonT(30) DEF RegistryLive, CacheAgrees, TablesExist, NoRows
    <2> QED  BY <2>3, <2>4
  <1>2. CASE kv_db_alloc \/ Checkpoint \/ UNCHANGED vars
    <2>1. /\ up' \in BOOLEAN /\ schema_ctx' = schema_ctx /\ name' = name /\ live' = live
          /\ cache' = cache /\ exists' = exists /\ rows' = rows /\ bypassed' = bypassed
          /\ disk' = disk \/ disk' = rows
      BY <1>2 DEF kv_db_alloc, Checkpoint, vars, TypeOK
    <2>2. TypeOK'
      BY <2>1 DEF TypeOK
    <2>3. RegistryLive' /\ CacheAgrees' /\ TablesExist'
      BY <2>1 DEF RegistryLive, CacheAgrees, TablesExist, NoRows
    <2> QED  BY <2>2, <2>3
  <1> QED  BY <1>1, <1>2

(* A dropped table takes its rows with it.                                 *)
LEMMA DropKeepsRows ==
  ASSUME IInv, NEW n, NEW objs, NEW r \in RowsType
  PROVE  WithoutRows(n, objs, r) \in RowsType
  BY NoRowsType DEF WithoutRows

(* The cache is told nothing of that: every key then counts as bypassed.   *)
LEMMA DropKeepsCache ==
  ASSUME IInv, cache' = cache, rows' # rows => bypassed' = Keys, rows' = rows => bypassed' = bypassed
  PROVE  CacheAgrees'
  BY DEF IInv, CacheAgrees

(* The results of registering a schema are ignored; the object is live all *)
(* the same, and whichever is registered has its name.                     *)
LEMMA AllocKeepsInv ==
  ASSUME IInv, NEW n \in Names, NEW force, kv_schema_alloc(n, force)
  PROVE  IInv'
  <1> DEFINE N == Len(name)
  <1>1. /\ name \in Seq(Names) /\ N \in Nat /\ live \subseteq 1..N
        /\ DictOf(schema_ctx, Names, Nat) /\ exists \subseteq Names
        /\ rows \in RowsType /\ disk \in RowsType /\ bypassed \subseteq Keys
    BY DEF IInv, TypeOK
  <1>2. name' = Append(name, n)
    BY DEF kv_schema_alloc
  <1>3. /\ name' \in Seq(Names) /\ Len(name') = N + 1 /\ name'[N + 1] = n
        /\ \A o \in 1..N : name'[o] = name[o]
    BY <1>1, <1>2, SMTT(30)
  <1>4. /\ live' = live \cup {N + 1} /\ schema_ctx' = dict_put(schema_ctx, n, N + 1)
        /\ exists' = exists \cup {n} /\ up' = up /\ cache' = cache
        /\ \/ rows' = rows /\ disk' = disk /\ bypassed' = bypassed
           \/ /\ rows' = WithoutRows(n, live, rows) /\ disk' = WithoutRows(n, live, disk)
              /\ bypassed' = IF rows' # rows THEN Keys ELSE bypassed
    BY <1>3 DEF kv_schema_alloc
  <1> HIDE DEF N
  <1>5. DictOf(schema_ctx', Names, Nat)
    <2>1. N + 1 \in Nat  BY <1>1
    <2> QED  BY <1>1, <1>4, <2>1, NamesFacts, PutKeeps
  <1>6. rows' \in RowsType /\ disk' \in RowsType /\ bypassed' \subseteq Keys
    BY <1>1, <1>4, DropKeepsRows
  <1>7. live' \subseteq 1..(N + 1)
    <2>1. \A o \in 1..N : o \in 1..(N + 1)  BY <1>1
    <2>2. N + 1 \in 1..(N + 1)  BY <1>1, SMTT(30)
    <2> QED  BY <1>1, <1>4, <2>1, <2>2, Zenon
  <1>8. TypeOK'
    BY <1>1, <1>3, <1>4, <1>5, <1>6, <1>7 DEF IInv, TypeOK
  <1>9. RegistryLive'
    <2>1. \A p \in PairsOf(schema_ctx') :
            p \in PairsOf(schema_ctx) \/ (p.key = n /\ p.val = N + 1)
      <3>1. CASE dict_find(schema_ctx, n) # 0
        BY <1>4, <3>1 DEF dict_put
      <3>2. CASE dict_find(schema_ctx, n) = 0
        <4>1. N + 1 \in Data /\ n \in DOMAIN Hash
          BY <1>1, NamesFacts
        <4>2. PairsOf(schema_ctx') = PairsOf(schema_ctx) \cup {dict_data_pair(n, N + 1)}
          BY <1>1, <1>4, <3>2, <4>1, PutAddsPair DEF DictOf
        <4> QED  BY <4>2 DEF dict_data_pair
      <3> QED  BY <3>1, <3>2
    <2>2. \A p \in PairsOf(schema_ctx) : p.val \in live /\ name[p.val] = p.key
      BY DEF IInv, RegistryLive
    <2> QED  BY <1>1, <1>3, <1>4, <2>1, <2>2, Zenon DEF RegistryLive
  <1>10. CacheAgrees'
    BY <1>4, DropKeepsCache
  <1>11. TablesExist'
    <2>1. \A o \in live : name[o] \in exists
      BY DEF IInv, TablesExist
    <2>2. \A o \in live' : name'[o] \in exists'
      BY <1>1, <1>3, <1>4, <2>1, Zenon
    <2>3. rows' # NoRows \/ disk' # NoRows => SYS \in exists
      BY <1>4 DEF IInv, TablesExist, WithoutRows
    <2> QED  BY <1>4, <2>2, <2>3 DEF TablesExist, NoRows
  <1> QED  BY <1>8, <1>9, <1>10, <1>11, SMTT(30) DEF IInv

(* kv_schema_destroy unregisters the name, so that nothing registered is   *)
(* the object it frees, even where another object has the name.            *)
LEMMA DestroyKeepsInv ==
  ASSUME PrefixFree(Names), IInv, NEW o, kv_schema_destroy(o)
  PROVE  IInv'
  <1> DEFINE n == name[o]
  <1>1. /\ name \in Seq(Names) /\ live \subseteq 1..Len(name)
        /\ DictOf(schema_ctx, Names, Nat) /\ exists \subseteq Names
        /\ rows \in RowsType /\ disk \in RowsType /\ bypassed \subseteq Keys
    BY DEF IInv, TypeOK
  <1>2. o \in live /\ n \in Names
    BY <1>1 DEF kv_schema_destroy
  <1>3. /\ schema_ctx' = dict_del(schema_ctx, n) /\ live' = live \ {o}
        /\ exists' = IF Dropped(n, live') THEN exists \ {n} ELSE exists
        /\ rows' = WithoutRows(n, live', rows) /\ disk' = WithoutRows(n, live', disk)
        /\ bypassed' = IF rows' # rows THEN Keys ELSE bypassed
        /\ up' = up /\ name' = name /\ cache' = cache
    BY SMTT(30) DEF kv_schema_destroy
  <1>4. TypeOK'
    <2>1. DictOf(schema_ctx', Names, Nat)
      BY <1>1, <1>2, <1>3, NamesFacts, DelKeeps
    <2>2. rows' \in RowsType /\ disk' \in RowsType /\ bypassed' \subseteq Keys
      BY <1>1, <1>3, DropKeepsRows
    <2> QED  BY <1>1, <1>3, <2>1, <2>2 DEF IInv, TypeOK
  <1> HIDE DEF n
  <1>5. \A p \in PairsOf(schema_ctx') : p \in PairsOf(schema_ctx) /\ p.key # n
    <2>1. DictOK(schema_ctx) /\ n \in DOMAIN Hash
      BY <1>1, <1>2, NamesFacts DEF DictOf
    <2>2. CASE dict_find(schema_ctx, n) = 0
      BY <1>3, <2>1, <2>2, NotThere, ZenonT(30) DEF dict_del
    <2>3. CASE dict_find(schema_ctx, n) # 0
      <3> DEFINE x == schema_ctx.members[index(n)][dict_find(schema_ctx, n)]
      <3>1. PairsOf(schema_ctx') = PairsOf(schema_ctx) \ {x}
        BY <1>3, <2>1, <2>3, DelRemovesPair, ZenonT(30)
      <3>2. x \in PairsOf(schema_ctx) /\ x.key = n
        BY <1>1, <1>2, <2>3, NamesFacts, FindIsExact
      <3> HIDE DEF x
      <3> QED  BY <2>1, <3>1, <3>2, PairsDiffer, Zenon
    <2> QED  BY <2>2, <2>3
  <1>6. RegistryLive'
    <2>1. \A p \in PairsOf(schema_ctx) : p.val \in live /\ name[p.val] = p.key
      BY DEF IInv, RegistryLive
    <2>2. name[o] = n  BY DEF n
    <2> QED  BY <1>3, <1>5, <2>1, <2>2, Zenon DEF RegistryLive
  <1>7. CacheAgrees'
    BY <1>3, DropKeepsCache
  <1>8. TablesExist'
    <2>1. \A q \in live' : name[q] \in exists'
      BY <1>3 DEF IInv, TablesExist, Dropped
    <2>2. rows' # NoRows \/ disk' # NoRows => SYS \in exists'
      BY <1>3 DEF IInv, TablesExist, WithoutRows
    <2> QED  BY <1>3, <2>1, <2>2 DEF TablesExist, NoRows
  <1> QED  BY <1>4, <1>6, <1>7, <1>8, Zenon DEF IInv

(* A row is written or deleted while the meta schema is registered, so its *)
(* table exists; the rest of the invariant is about the cache.             *)
LEMMA RowWriteKeepsInv ==
  ASSUME PrefixFree(Names), IInv, Registered(SYS), NEW k \in Keys, NEW v \in Vals \cup {NULL},
         rows' = [rows EXCEPT ![k] = v],
         UNCHANGED <<up, schema_ctx, name, live, exists, disk>>,
         bypassed' \subseteq Keys, cache' # NULL => DictOf(cache', Keys, Vals), CacheAgrees'
  PROVE  IInv'
  <1>1. rows' \in RowsType
    BY WriteKeepsRows DEF IInv, TypeOK
  <1>2. TypeOK'
    BY <1>1 DEF IInv, TypeOK
  <1>3. RegistryLive'
    BY DEF IInv, RegistryLive
  <1>4. TablesExist'
    <2>1. SYS \in exists
      BY MetaTableExists DEF IInv
    <2> QED  BY <2>1 DEF IInv, TablesExist
  <1> QED  BY <1>2, <1>3, <1>4 DEF IInv

(* schmea_cache_add and schmea_meta_rec_save: a record the cache refuses,  *)
(* or is not given, makes its key a bypassed one.                          *)
LEMMA AddKeepsInv ==
  ASSUME PrefixFree(Names), IInv, NEW k \in Keys, NEW v \in Vals,
         schmea_cache_add(k, v) \/ schmea_meta_rec_save(k, v)
  PROVE  IInv'
  <1>1. /\ Registered(SYS) /\ rows' = [rows EXCEPT ![k] = v]
        /\ UNCHANGED <<up, schema_ctx, name, live, exists, disk>>
    BY DEF schmea_cache_add, schmea_meta_rec_save, kv_db_set
  <1>2. /\ rows \in [Keys -> Vals \cup {NULL}] /\ bypassed \subseteq Keys
        /\ cache # NULL => DictOf(cache, Keys, Vals)
    BY DEF IInv, TypeOK, RowsType
  <1>3. \A l \in Keys : rows'[l] = IF l = k THEN v ELSE rows[l]
    BY <1>1, <1>2
  <1>4. cache # NULL => \A l \in Keys \ bypassed : ValueOf(cache, l) = rows[l]
    BY DEF IInv, CacheAgrees
  <1>5. CASE schmea_cache_add(k, v)
    <2>1. /\ cache # NULL /\ cache' = dict_put(cache, k, v)
          /\ bypassed' = IF dict_find(cache, k) # 0 THEN bypassed \cup {k} ELSE bypassed
      BY <1>5 DEF schmea_cache_add
    <2>2. DictOf(cache', Keys, Vals)
      BY <1>2, <2>1, NamesFacts, PutKeeps, ZenonT(30)
    <2>3. \A l \in Keys : ValueOf(cache', l) =
            IF l = k /\ dict_find(cache, k) = 0 THEN v ELSE ValueOf(cache, l)
      BY <1>2, <2>1, CachePut
    <2>4. CacheAgrees'
      BY <1>3, <1>4, <2>1, <2>3, Zenon DEF CacheAgrees
    <2> QED  BY <1>1, <1>2, <2>1, <2>2, <2>4, RowWriteKeepsInv
  <1>6. CASE schmea_meta_rec_save(k, v)
    <2>1. cache' = cache /\ bypassed' = bypassed \cup {k}
      BY <1>6 DEF schmea_meta_rec_save
    <2>2. CacheAgrees'
      BY <1>3, <1>4, <2>1, ZenonT(30) DEF CacheAgrees
    <2> QED  BY <1>1, <1>2, <2>1, <2>2, RowWriteKeepsInv, ZenonT(30)
  <1> QED  BY <1>5, <1>6

(* schmea_cache_del, of a key with a row and of one without.               *)
LEMMA CacheDelKeepsInv ==
  ASSUME PrefixFree(Names), IInv, NEW k \in Keys,
         schmea_cache_del(k) \/ schmea_cache_del_missing(k)
  PROVE  IInv'
  <1>1. /\ rows \in [Keys -> Vals \cup {NULL}] /\ bypassed \subseteq Keys
        /\ cache # NULL => DictOf(cache, Keys, Vals)
    BY DEF IInv, TypeOK, RowsType
  <1>2. /\ Registered(SYS) /\ rows' = [rows EXCEPT ![k] = NULL]
        /\ UNCHANGED <<up, schema_ctx, name, live, exists, disk>>
        /\ cache # NULL
        /\ \/ cache' = dict_del(cache, k) /\ bypassed' = bypassed \ {k}
           \/ rows[k] = NULL /\ cache' = cache /\ bypassed' = bypassed
    BY <1>1 DEF schmea_cache_del, schmea_cache_del_missing
  <1>3. \A l \in Keys : rows'[l] = IF l = k THEN NULL ELSE rows[l]
    BY <1>1, <1>2, Zenon
  <1>4. \A l \in Keys \ bypassed : ValueOf(cache, l) = rows[l]
    BY <1>2 DEF IInv, CacheAgrees
  <1>5. DictOf(cache', Keys, Vals) /\ bypassed' \subseteq Keys
    <2>1. DictOf(dict_del(cache, k), Keys, Vals)
      BY <1>1, <1>2, NamesFacts, DelKeeps
    <2> QED  BY <1>1, <1>2, <2>1, ZenonT(30)
  <1>6. CacheAgrees'
    <2>1. \A l \in Keys : ValueOf(dict_del(cache, k), l) = IF l = k THEN NULL ELSE ValueOf(cache, l)
      BY <1>1, <1>2, CacheDel
    <2>2. CASE cache' = dict_del(cache, k) /\ bypassed' = bypassed \ {k}
      BY <1>3, <1>4, <2>1, <2>2, Zenon DEF CacheAgrees
    <2>3. CASE rows[k] = NULL /\ cache' = cache /\ bypassed' = bypassed
      BY <1>3, <1>4, <2>3 DEF CacheAgrees
    <2> QED  BY <1>2, <2>2, <2>3, ZenonT(30)
  <1> QED  BY <1>2, <1>5, <1>6, RowWriteKeepsInv

-----------------------------------------------------------------------------
(* What schema_cache_load visits: rows that are there, and all of them.    *)
LEMMA SearchVisits ==
  ASSUME IInv
  PROVE  /\ kv_schmea_search \in Seq(Keys) /\ Len(kv_schmea_search) \in Nat
         /\ \A j \in 1..Len(kv_schmea_search) :
              kv_schmea_search[j] \in Keys /\ rows[kv_schmea_search[j]] \in Vals
         /\ \A k \in Keys : rows[k] # NULL =>
              \E j \in 1..Len(kv_schmea_search) : kv_schmea_search[j] = k
  <1> DEFINE S == {k \in Keys : rows[k] # NULL}
             keys == SetToSeq(S)
  <1>1. rows \in [Keys -> Vals \cup {NULL}] /\ IsFiniteSet(S)
    BY DEF IInv, TypeOK, RowsType
  <1>2. \A k \in S : k \in Keys /\ rows[k] \in Vals
    BY <1>1
  <1>3. \A k \in Keys : rows[k] # NULL => k \in S
    OBVIOUS
  <1>4. S \subseteq Keys
    OBVIOUS
  <1> HIDE DEF S
  <1>5. /\ keys \in Seq(S) /\ Len(keys) \in Nat
        /\ \A x \in S : \E j \in 1..Len(keys) : keys[j] = x
    BY <1>1, SeqOfSet
  <1>6. kv_schmea_search = keys
    BY DEF kv_schmea_search, S
  <1> HIDE DEF keys
  <1>7. \A j \in 1..Len(keys) : keys[j] \in S
    BY <1>5
  <1>8. keys \in Seq(Keys)
    BY <1>4, <1>5, <1>7, SMTT(30)
  <1> QED  BY <1>2, <1>3, <1>5, <1>6, <1>7, <1>8, Zenon

(* The cache after schema_cache_load is the table, key by key.             *)
LEMMA LoadedCacheIsTable ==
  ASSUME PrefixFree(Names), IInv, Registered(SYS)
  PROVE  /\ DictOf(LoadedCache, Keys, Vals)
         /\ \A k \in Keys : ValueOf(LoadedCache, k) = rows[k]
  <1> DEFINE keys == kv_schmea_search
             vals == Records(keys)
             c == PutEach(dict_create, keys, vals)
  <1>1. /\ Len(keys) \in Nat
        /\ \A j \in 1..Len(keys) : keys[j] \in Keys /\ rows[keys[j]] \in Vals
        /\ \A k \in Keys : rows[k] # NULL => \E j \in 1..Len(keys) : keys[j] = k
    BY SearchVisits
  <1>2. LoadedCache = c
    BY DEF LoadedCache
  <1> HIDE DEF keys
  <1>3. \A j \in 1..Len(keys) : vals[j] = rows[keys[j]]
    BY DEF Records, kv_db_get
  <1> HIDE DEF vals
  <1>4. \A j \in 1..Len(keys) : keys[j] \in Keys /\ vals[j] \in Vals
    BY <1>1, <1>3
  <1>5. DictOf(dict_create, Keys, Vals) /\ PairsOf(dict_create) = {}
    BY CreateKeeps, CreateEmpty
  <1>6. /\ DictOf(c, Keys, Vals)
        /\ \A p \in PairsOf(c) : \/ p \in PairsOf(dict_create)
                                 \/ \E j \in 1..Len(keys) : p.key = keys[j] /\ p.val = vals[j]
        /\ \A j \in 1..Len(keys) : \E p \in PairsOf(c) : p.key = keys[j]
    <2>1. /\ Keys \subseteq DOMAIN Hash /\ Vals \subseteq Data /\ NULL \notin Vals
          /\ PrefixFree(Keys) /\ Len(keys) \in Nat
      BY <1>1, NamesFacts, Zenon
    <2>2. PutsReady(dict_create, keys, vals, Keys, Vals)
      BY <1>4, <1>5, <2>1, Zenon DEF PutsReady
    <2>3. PutsDone(c, dict_create, keys, vals, Keys, Vals)
      BY <2>2, EachPut, ZenonT(30)
    <2> QED  BY <2>3, Zenon DEF PutsDone
  <1> HIDE DEF c
  <1>7. \A p \in PairsOf(c) : p.val = rows[p.key] /\ rows[p.key] \in Vals
    BY <1>1, <1>3, <1>5, <1>6
  <1>8. DictOK(c)
    BY <1>6 DEF DictOf
  <1>9. ASSUME NEW k \in Keys PROVE ValueOf(c, k) = rows[k]
    <2>1. CASE rows[k] = NULL
      <3>1. \A p \in PairsOf(c) : p.key # k
        BY <1>7, <2>1, NamesFacts, Zenon
      <3> QED  BY <1>8, <2>1, <3>1, ValueOfPair
    <2>2. CASE rows[k] # NULL
      <3>1. PICK j \in 1..Len(keys) : keys[j] = k
        BY <1>1, <2>2, Zenon
      <3>2. PICK p \in PairsOf(c) : p.key = k
        BY <1>6, <3>1, ZenonT(30)
      <3>3. ValueOf(c, k) = p.val
        BY <1>8, <3>2, ValueOfPair
      <3> QED  BY <1>7, <3>2, <3>3, Zenon
    <2> QED  BY <2>1, <2>2, ZenonT(30)
  <1> QED  BY <1>2, <1>6, <1>9, SMTT(30)

(* The registry after schema_cache_load: the objects opened are registered *)
(* where their name was free, and every row has a schema.                  *)
LEMMA LoadRegisters ==
  ASSUME PrefixFree(Names), IInv, schema_cache_load
  PROVE  /\ DictOf(schema_ctx', Names, Nat)
         /\ \A p \in PairsOf(schema_ctx') :
              \/ p \in PairsOf(schema_ctx)
              \/ \E j \in 1..Len(kv_schmea_search) :
                   p.key = kv_schmea_search[j] /\ p.val = Len(name) + j
         /\ \A k \in Keys : rows[k] # NULL => dict_get(schema_ctx', k) # NULL
  <1> DEFINE keys == kv_schmea_search
             objs == [j \in 1..Len(keys) |-> Len(name) + j]
             c == PutEach(schema_ctx, keys, objs)
  <1>1. /\ Len(keys) \in Nat
        /\ \A j \in 1..Len(keys) : keys[j] \in Keys
        /\ \A k \in Keys : rows[k] # NULL => \E j \in 1..Len(keys) : keys[j] = k
    BY SearchVisits
  <1>2. schema_ctx' = c
    BY DEF schema_cache_load
  <1>3. DictOf(schema_ctx, Names, Nat) /\ Len(name) \in Nat
    BY DEF IInv, TypeOK
  <1> HIDE DEF keys
  <1>4. \A j \in 1..Len(keys) : objs[j] = Len(name) + j /\ objs[j] \in Nat
    BY <1>1, <1>3
  <1> HIDE DEF objs
  <1>5. \A j \in 1..Len(keys) : keys[j] \in Names /\ objs[j] \in Nat
    BY <1>1, <1>4, NamesFacts
  <1>6. /\ DictOf(c, Names, Nat)
        /\ \A p \in PairsOf(c) : \/ p \in PairsOf(schema_ctx)
                                 \/ \E j \in 1..Len(keys) : p.key = keys[j] /\ p.val = objs[j]
        /\ \A j \in 1..Len(keys) : \E p \in PairsOf(c) : p.key = keys[j]
    <2>1. /\ Names \subseteq DOMAIN Hash /\ Nat \subseteq Data /\ NULL \notin Nat
          /\ PrefixFree(Names) /\ Len(keys) \in Nat
      BY <1>1, NamesFacts, Zenon
    <2>2. PutsReady(schema_ctx, keys, objs, Names, Nat)
      BY <1>3, <1>5, <2>1, Zenon DEF PutsReady
    <2>3. PutsDone(c, schema_ctx, keys, objs, Names, Nat)
      BY <2>2, EachPut, Zenon
    <2> QED  BY <2>3, Zenon DEF PutsDone
  <1> HIDE DEF c
  <1>7. ASSUME NEW k \in Keys, rows[k] # NULL PROVE dict_get(c, k) # NULL
    <2>1. PICK j \in 1..Len(keys) : keys[j] = k
      BY <1>1, <1>7, Zenon
    <2>2. PICK p \in PairsOf(c) : p.key = k
      BY <1>6, <2>1, Zenon
    <2>3. ValueOf(c, k) = p.val /\ p.val \in Nat
      BY <1>6, <2>2, ValueOfPair, Zenon DEF DictOf
    <2>4. k \in Names
      BY NamesFacts, ZenonT(30)
    <2>5. dict_get(c, k) = ValueOf(c, k)
      BY <1>6, <2>4, NamesFacts, FindIsExact
    <2> QED  BY <2>3, <2>5, NamesFacts, Zenon
  <1>8. \A p \in PairsOf(c) : \/ p \in PairsOf(schema_ctx)
                              \/ \E j \in 1..Len(keys) : p.key = keys[j] /\ p.val = Len(name) + j
    BY <1>4, <1>6, Zenon
  <1> QED  BY <1>2, <1>6, <1>7, <1>8, Zenon DEF keys

Joined(c, a, b) == c = a \o b

Follows(c, a, b, S) ==
  /\ c \in Seq(S) /\ Len(c) = Len(a) + Len(b)
  /\ \A o \in 1..Len(a) : c[o] = a[o]
  /\ \A j \in 1..Len(b) : c[Len(a) + j] = b[j]

(* The objects that schema_cache_load opens come after the ones there were.*)
LEMMA Appended ==
  ASSUME NEW S, NEW a \in Seq(S), NEW b \in Seq(S), NEW c, Joined(c, a, b)
  PROVE  Follows(c, a, b, S)
  BY SMTT(30) DEF Joined, Follows

(* The rows visited, as a set.                                             *)
LEMMA RowsVisited ==
  ASSUME NEW S, NEW s \in Seq(S)
  PROVE  (\A j \in 1..Len(s) : s[j] \in ToSet(s)) /\ ToSet(s) \subseteq S
  BY SMTT(30) DEF ToSet

(* schema_cache_load keeps the invariant: the tables of the schemas it     *)
(* opens are created, and the new cache has no bypassed key.               *)
LEMMA LoadKeepsInv ==
  ASSUME PrefixFree(Names), IInv, schema_cache_load
  PROVE  IInv'
  <1> DEFINE keys == kv_schmea_search
             N == Len(name)
             M == Len(keys)
  <1>1. keys \in Seq(Keys) /\ M \in Nat /\ \A j \in 1..M : keys[j] \in Keys
    BY SearchVisits
  <1>2. /\ name \in Seq(Names) /\ N \in Nat /\ live \subseteq 1..N /\ exists \subseteq Names
        /\ rows \in RowsType /\ disk \in RowsType
    BY DEF IInv, TypeOK
  <1>3. /\ name' = name \o keys /\ live' = live \cup ((N + 1)..Len(name'))
        /\ exists' = exists \cup ToSet(keys) /\ cache' = LoadedCache /\ bypassed' = {}
        /\ up' = up /\ rows' = rows /\ disk' = disk /\ Registered(SYS)
    BY SMTT(30) DEF schema_cache_load
  <1>4. /\ DictOf(schema_ctx', Names, Nat)
        /\ \A p \in PairsOf(schema_ctx') :
             \/ p \in PairsOf(schema_ctx)
             \/ \E j \in 1..M : p.key = keys[j] /\ p.val = N + j
    BY LoadRegisters
  <1> HIDE DEF keys
  <1>5. keys \in Seq(Names)
    BY <1>1, NamesFacts, SMTT(30)
  <1>6. /\ name' \in Seq(Names) /\ Len(name') = N + M
        /\ \A o \in 1..N : name'[o] = name[o]
        /\ \A j \in 1..M : name'[N + j] = keys[j]
    <2>1. PICK both : both = name'
      OBVIOUS
    <2>2. Joined(both, name, keys)
      BY <1>3, <2>1, Zenon DEF Joined
    <2>3. name \in Seq(Names)
      BY <1>2, Zenon
    <2>4. Follows(both, name, keys, Names)
      BY <1>5, <2>2, <2>3, Appended, Zenon
    <2> QED  BY <2>1, <2>4, Zenon DEF Follows
  <1>7. \A j \in 1..M : keys[j] \in ToSet(keys)
    BY <1>5, RowsVisited, Zenon
  <1>8. ToSet(keys) \subseteq Names
    BY <1>5, RowsVisited, Zenon
  <1> HIDE DEF N, M
  <1>9. /\ \A o \in live' : o \in live \/ \E j \in 1..M : o = N + j
        /\ \A j \in 1..M : N + j \in live'
        /\ live' \subseteq 1..(N + M)
    <2>1. \A o \in (N + 1)..(N + M) : o - N \in 1..M /\ o = N + (o - N)
      BY <1>1, <1>2
    <2>2. \A j \in 1..M : N + j \in (N + 1)..(N + M)
      BY <1>1, <1>2
    <2>3. 1..N \subseteq 1..(N + M) /\ (N + 1)..(N + M) \subseteq 1..(N + M)
      BY <1>1, <1>2
    <2>4. live' = live \cup ((N + 1)..(N + M))
      BY <1>3, <1>6
    <2> QED  BY <1>2, <2>1, <2>2, <2>3, <2>4, Zenon
  <1>10. /\ DictOf(cache', Keys, Vals)
         /\ \A k \in Keys : ValueOf(cache', k) = rows[k]
    BY <1>3, LoadedCacheIsTable, ZenonT(30)
  <1>11. TypeOK'
    <2>1. exists' \subseteq Names  BY <1>2, <1>3, <1>8
    <2> QED  BY <1>2, <1>3, <1>4, <1>6, <1>9, <1>10, <2>1 DEF IInv, TypeOK
  <1>12. RegistryLive'
    <2>1. \A p \in PairsOf(schema_ctx) : p.val \in live /\ name[p.val] = p.key
      BY DEF IInv, RegistryLive
    <2>2. \A p \in PairsOf(schema_ctx) : p.val \in live' /\ name'[p.val] = p.key
      BY <1>2, <1>3, <1>6, <2>1, Zenon
    <2>3. ASSUME NEW p, NEW j \in 1..M, p.key = keys[j], p.val = N + j
          PROVE  p.val \in live' /\ name'[p.val] = p.key
      BY <1>6, <1>9, <2>3, SMTT(30)
    <2> QED  BY <1>4, <2>2, <2>3, Zenon DEF RegistryLive
  <1>13. CacheAgrees'
    BY <1>3, <1>10, SMTT(30) DEF CacheAgrees
  <1>14. TablesExist'
    <2>1. /\ \A o \in live : name[o] \in exists
          /\ rows # NoRows \/ disk # NoRows => SYS \in exists
      BY DEF IInv, TablesExist
    <2>2. \A o \in live' : name'[o] \in exists'
      <3> SUFFICES ASSUME NEW o \in live' PROVE name'[o] \in exists'
        OBVIOUS
      <3>1. CASE o \in live
        <4>1. name'[o] = name[o]
          BY <1>2, <1>6, <3>1, Zenon
        <4> QED  BY <1>3, <2>1, <3>1, <4>1
      <3>2. ASSUME NEW j \in 1..M, o = N + j PROVE name'[o] \in exists'
        BY <1>3, <1>6, <1>7, <3>2
      <3> QED  BY <1>9, <3>1, <3>2, Zenon
    <2> QED  BY <1>3, <2>1, <2>2 DEF TablesExist, NoRows
  <1> QED  BY <1>11, <1>12, <1>13, <1>14, Zenon DEF IInv

-----------------------------------------------------------------------------
(* Every step of the metadata store keeps the inductive invariant.         *)
LEMMA MetaStepKeepsInv ==
  ASSUME PrefixFree(Names), IInv, [Next]_vars
  PROVE  IInv'
  <1>1. CASE kv_db_alloc \/ Crash \/ Checkpoint \/ NullSchema \/ UNCHANGED vars
    BY <1>1, ProcessKeepsInv DEF Crash, NullSchema
  <1>2. CASE schema_cache_load
    BY <1>2, LoadKeepsInv
  <1>3. ASSUME NEW n \in Names, NEW force \in BOOLEAN, kv_schema_alloc(n, force) PROVE IInv'
    BY <1>3, AllocKeepsInv
  <1>4. ASSUME NEW o \in 1..MaxObjs, kv_schema_destroy(o) PROVE IInv'
    BY <1>4, DestroyKeepsInv
  <1>5. ASSUME NEW k \in Keys, schmea_cache_del(k) \/ schmea_cache_del_missing(k) PROVE IInv'
    BY <1>5, CacheDelKeepsInv
  <1>6. ASSUME NEW k \in Keys, NEW v \in Vals,
               schmea_cache_add(k, v) \/ schmea_meta_rec_save(k, v)
        PROVE  IInv'
    BY <1>6, AddKeepsInv
  <1> QED  BY <1>1, <1>2, <1>3, <1>4, <1>5, <1>6 DEF Next

(* The inductive invariant of the metadata store, whatever the names, the  *)
(* records and the hash function, as long as no name begins with another   *)
(* one of its chain.                                                       *)
THEOREM MetaInvariant ==
  ASSUME PrefixFree(Names)
  PROVE  Spec => []IInv
  <1>1. Init => IInv
    <2> SUFFICES ASSUME Init PROVE IInv
      OBVIOUS
    <2>1. DictOf(dict_create, Names, Nat) /\ PairsOf(dict_create) = {}
      BY CreateKeeps, CreateEmpty
    <2>2. TypeOK
      <3>1. <<>> \in Seq(Names) /\ {} \subseteq 1..Len(<<>>) /\ {} \subseteq Keys /\ {} \subseteq Names
            /\ FALSE \in BOOLEAN
        OBVIOUS
      <3> QED  BY <2>1, <3>1, NoRowsType, Zenon DEF Init, TypeOK
    <2>3. RegistryLive /\ CacheAgrees /\ TablesExist
      BY <2>1 DEF Init, RegistryLive, CacheAgrees, TablesExist
    <2> QED  BY <2>2, <2>3 DEF IInv
  <1>2. IInv /\ [Next]_vars => IInv'
    BY MetaStepKeepsInv
  <1> QED  BY <1>1, <1>2, PTL DEF Spec

(* The registry of kv_db.c never leads to a destroyed schema, nor to one   *)
(* of another name.                                                        *)
THEOREM RegistryCorrect ==
  ASSUME PrefixFree(Names)
  PROVE  Spec => []RegistryLive
  <1>1. IInv => RegistryLive
    BY SMTT(30) DEF IInv
  <1> QED  BY <1>1, MetaInvariant, PTL

(* The cache of schmea_meta.c agrees with the table for every key that is  *)
(* only changed through it.                                                *)
THEOREM CacheCorrect ==
  ASSUME PrefixFree(Names)
  PROVE  Spec => []CacheAgrees
  <1>1. IInv => CacheAgrees
    BY DEF IInv
  <1> QED  BY <1>1, MetaInvariant, PTL

(* Whatever kv_schema_destroy drops, an open schema keeps its table, and   *)
(* no row is without one.                                                  *)
THEOREM OpenTablesExist ==
  ASSUME PrefixFree(Names)
  PROVE  Spec => []TablesExist
  <1>1. IInv => TablesExist
    BY DEF IInv
  <1> QED  BY <1>1, MetaInvariant, PTL

(* schema_cache_load makes the cache equal to the table and registers a    *)
(* schema for every row, however stale the old cache was.                  *)
THEOREM LoadCorrect ==
  ASSUME PrefixFree(Names)
  PROVE  Spec => LoadRebuilds
  <1> DEFINE Rebuilt ==
        schema_cache_load =>
          \A k \in Keys : /\ ValueOf(cache', k) = rows'[k]
                          /\ rows'[k] # NULL => dict_get(schema_ctx', k) # NULL
  <1>1. IInv /\ [Next]_vars => [Rebuilt]_vars
    <2> SUFFICES ASSUME IInv, schema_cache_load
                 PROVE  \A k \in Keys : /\ ValueOf(cache', k) = rows'[k]
                                        /\ rows'[k] # NULL => dict_get(schema_ctx', k) # NULL
      OBVIOUS
    <2>1. Registered(SYS) /\ cache' = LoadedCache /\ rows' = rows
      BY DEF schema_cache_load
    <2> QED  BY <2>1, LoadedCacheIsTable, LoadRegisters
  <1> QED  BY <1>1, MetaInvariant, PTL DEF Spec, LoadRebuilds
=============================================================================
