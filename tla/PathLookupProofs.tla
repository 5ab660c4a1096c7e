-------------------------- MODULE PathLookupProofs --------------------------
(***************************************************************************)
(* Proofs that concurrent path resolution agrees with the disk: for any    *)
(* number of threads, any image and any set of paths whose inner           *)
(* components fit a cache entry.                                           *)
(***************************************************************************)
EXTENDS PathLookup, TLAPS

USE AddressAssumption, NameAssumption, InodeAssumption, PathAssumption,
    DiskAssumption, MaxCallsAssumption

(* What no step of any thread undoes: an allocated entry keeps its parent, *)
(* inode and name, and a pointer that is set stays set.                    *)
Grows ==
  /\ \A e \in Entries : owner[e] # Nil =>
       owner'[e] = owner[e] /\ inode'[e] = inode[e] /\ name'[e] = name[e]
  /\ \A e \in Entries : siblings[e] # Nil => siblings'[e] # Nil
  /\ \A p \in Addr : childs[p] # Nil => childs'[p] # Nil
  /\ inode'[Root] = inode[Root]

(* Thread u takes no part in the step.                                     *)
Idles(u) ==
  /\ pc'[u] = pc[u] /\ path'[u] = path[u] /\ pos'[u] = pos[u] /\ dc'[u] = dc[u]
  /\ idx'[u] = idx[u] /\ iter'[u] = iter[u] /\ reg'[u] = reg[u] /\ new'[u] = new[u]

(* A thread's part of the invariant survives any growth of the cache by    *)
(* the other threads.                                                      *)
LEMMA OthersKeepInv ==
  ASSUME IInv, TypeOK', HeapInv', Grows, NEW u \in Threads, Idles(u)
  PROVE  ThreadInv(u)' /\ WalkInv(u)'
<1>1. Parent(u)' = Parent(u) /\ Parent(u) \in Addr
  BY DEF IInv, TypeOK, HeapType, Idles, Parent, OrRoot, Addr
<1>2. inode'[Parent(u)] = inode[Parent(u)]
  BY DEF IInv, ThreadInv, TypeOK, HeapType, Grows, Idles, Parent, OrRoot, Addr
<1>3. \A e \in Entries : InList(u, e) => InList(u, e)'
  BY <1>1 DEF IInv, TypeOK, HeapType, Grows, InList, Parent, OrRoot, Addr
<1>4. ThreadInv(u)'
  <2>1. ThreadInv(u)  BY DEF IInv
  <2>2. /\ dc[u] \in Entries \cup {Nil} /\ iter[u] \in Entries \cup {Nil}
        /\ reg[u] \in Entries \cup {Nil} /\ new[u] \in Entries \cup {Nil}
        /\ Parent(u) # Nil
    BY <1>1 DEF IInv, TypeOK, Addr
  <2>3. Consumed(u)' = Consumed(u)
    BY DEF Consumed, Idles
  <2>4. (dc[u] # Nil => owner[dc[u]] # Nil)'
    BY <2>1, <2>2 DEF ThreadInv, Idles, Grows
  <2>5. (pc[u] \in {"match", "again"} => ~Consumed(u) /\ InList(u, iter[u]))'
    BY <1>3, <2>1, <2>2, <2>3 DEF ThreadInv, Idles, InList
  <2>6. (pc[u] = "walk" /\ ~Consumed(u) => inode[Parent(u)] = idx[u] /\ idx[u] # 0)'
    BY <1>1, <1>2, <2>1, <2>3 DEF ThreadInv, Idles
  <2>7. (pc[u] \in Inserting =>
           /\ ~Consumed(u)
           /\ new[u] # Nil
           /\ owner[new[u]] = Parent(u)
           /\ inode[new[u]] = idx[u]
           /\ idx[u] # 0)'
    BY <1>1, <2>1, <2>2, <2>3 DEF ThreadInv, Idles, Grows
  <2>8. (pc[u] = "ins_sib" /\ reg[u] # Nil =>
           InList(u, reg[u]) /\ childs[Parent(u)] # Nil)'
    BY <1>1, <1>3, <2>1, <2>2 DEF ThreadInv, Idles, Grows, InList
  <2>9. (pc[u] = "ins_link" =>
           /\ InList(u, reg[u])
           /\ childs[Parent(u)] # Nil
           /\ siblings[new[u]] # Nil)'
    BY <1>1, <1>3, <2>1, <2>2 DEF ThreadInv, Idles, Grows, InList, Inserting
  <2>10. (pc[u] = "ins_pub" => siblings[new[u]] # Nil)'
    BY <2>1, <2>2 DEF ThreadInv, Idles, Grows, Inserting
  <2>. QED  BY <2>4, <2>5, <2>6, <2>7, <2>8, <2>9, <2>10 DEF ThreadInv
<1>5. WalkInv(u)'
  <2>1. \A w : OnWalk(u, w) => OnWalk(u, w)'
    BY <1>1, <1>2 DEF OnWalk, Idles, dcache_get_inode, Parent
  <2>2. \A w : IsWalk(w, path[u])' = IsWalk(w, path[u])
    BY DEF IsWalk, Idles
  <2>. QED  BY <2>1, <2>2 DEF WalkInv, IInv, Idles
<1>. QED  BY <1>4, <1>5

-----------------------------------------------------------------------------
(* What the four kinds of stores do to the heap part of the invariant.     *)
LEMMA NoStore ==
  ASSUME IInv, UNCHANGED heap
  PROVE  HeapInv' /\ Grows
BY DEF IInv, heap, HeapInv, Grows

(* A fresh entry is unlinked, so nothing that is linked changes.           *)
LEMMA NewEntryKeepsHeap ==
  ASSUME IInv, NEW e \in Free, NEW p \in Addr, NEW n \in Names,
         p # Root => owner[p] # Nil, inode[p] # 0,
         Disk[<<inode[p], n>>] # 0,
         NewEntry(e, p, n, Disk[<<inode[p], n>>]), TypeOK'
  PROVE  HeapInv' /\ Grows
<1>. USE DEF Free, Addr
<1>1. e # p /\ p # Nil /\ n # Nil /\ siblings[e] = Nil /\ e # Root
  BY DEF IInv, HeapInv
<1>2. \A f \in Entries : f # e => owner'[f] = owner[f] /\ inode'[f] = inode[f] /\ name'[f] = name[f]
  BY DEF IInv, TypeOK, HeapType, NewEntry
<1>3. owner'[e] = p /\ inode'[e] = Disk[<<inode[p], n>>] /\ name'[e] = n
  BY DEF IInv, TypeOK, HeapType, NewEntry
<1>4. inode'[Root] = inode[Root]
  BY <1>1 DEF IInv, TypeOK, HeapType, NewEntry
<1>5. childs' = childs /\ siblings' = siblings
  BY DEF NewEntry
<1>6. Grows
  BY <1>2, <1>4, <1>5 DEF Grows
<1>7. HeapInv'
  <2>1. (inode[Root] = ROOT_INODE_N)'
    BY <1>4, Zenon DEF IInv, HeapInv
  <2>2. (\A q \in Addr : childs[q] # Nil => owner[childs[q]] = q /\ siblings[childs[q]] # Nil)'
    BY <1>1, <1>2, <1>5 DEF IInv, HeapInv, TypeOK, HeapType
  <2>3. (\A f \in Entries : siblings[f] # Nil =>
           /\ owner[f] # Nil
           /\ owner[siblings[f]] = owner[f]
           /\ siblings[siblings[f]] # Nil)'
    <3>. SUFFICES ASSUME NEW f \in Entries, siblings[f] # Nil
                  PROVE  /\ owner'[f] # Nil
                         /\ owner'[siblings[f]] = owner'[f]
                         /\ siblings[siblings[f]] # Nil
      BY <1>5
    <3>1. /\ siblings[f] \in Entries
          /\ owner[f] # Nil
          /\ owner[siblings[f]] = owner[f]
          /\ siblings[siblings[f]] # Nil
      BY DEF IInv, HeapInv, TypeOK, HeapType
    <3>. QED  BY <3>1, <1>1, <1>2
  <2>4. (\A f \in Entries : owner[f] # Nil =>
           /\ owner[f] # Root => owner[owner[f]] # Nil
           /\ name[f] # Nil
           /\ inode[f] # 0
           /\ inode[owner[f]] # 0
           /\ inode[f] = Disk[<<inode[owner[f]], name[f]>>])'
    <3>. SUFFICES ASSUME NEW f \in Entries, owner'[f] # Nil
                  PROVE  /\ owner'[f] # Root => owner'[owner'[f]] # Nil
                         /\ name'[f] # Nil
                         /\ inode'[f] # 0
                         /\ inode'[owner'[f]] # 0
                         /\ inode'[f] = Disk[<<inode'[owner'[f]], name'[f]>>]
      OBVIOUS
    <3>1. CASE f = e
      <4>1. inode'[p] = inode[p] /\ (p # Root => owner'[p] = owner[p])
        BY <1>1, <1>2, <1>4
      <4>. QED  BY <3>1, <4>1, <1>1, <1>3, Zenon
    <3>2. CASE f # e
      <4>1. owner'[f] = owner[f] /\ inode'[f] = inode[f] /\ name'[f] = name[f]
        BY <1>2, <3>2
      <4>2. owner[f] \in Addr
        BY <4>1 DEF IInv, TypeOK, HeapType
      <4>3. /\ owner[f] # Root => owner[owner[f]] # Nil
            /\ name[f] # Nil
            /\ inode[f] # 0
            /\ inode[owner[f]] # 0
            /\ inode[f] = Disk[<<inode[owner[f]], name[f]>>]
        BY <4>1, Zenon DEF IInv, HeapInv
      <4>4. owner[f] # e
        BY <4>3, <1>1
      <4>5. inode'[owner[f]] = inode[owner[f]] /\ (owner[f] # Root => owner'[owner[f]] = owner[owner[f]])
        BY <1>2, <1>4, <4>2, <4>4
      <4>. QED  BY <4>1, <4>3, <4>5
    <3>. QED  BY <3>1, <3>2
  <2>. QED  BY <2>1, <2>2, <2>3, <2>4, Zenon DEF HeapInv
<1>. QED  BY <1>6, <1>7

(* A parent is made to point to one of its linked children.                *)
LEMMA SetChildsKeepsHeap ==
  ASSUME IInv, NEW p \in Addr, NEW e \in Entries, owner[e] = p,
         siblings[e] # Nil, SetChilds(p, e)
  PROVE  HeapInv' /\ Grows
<1>1. \A q \in Addr : childs'[q] = IF q = p THEN e ELSE childs[q]
  BY DEF IInv, TypeOK, HeapType, SetChilds
<1>. QED  BY <1>1 DEF IInv, HeapInv, Grows, SetChilds, Addr

(* A siblings pointer is made to point to a linked entry of the same list. *)
LEMMA SetSiblingsKeepsHeap ==
  ASSUME IInv, NEW e \in Entries, NEW f \in Entries, owner[e] # Nil,
         owner[f] = owner[e], siblings[f] # Nil, SetSiblings(e, f)
  PROVE  HeapInv' /\ Grows
<1>1. \A g \in Entries : siblings'[g] = IF g = e THEN f ELSE siblings[g]
  BY DEF IInv, TypeOK, HeapType, SetSiblings
<1>. QED  BY <1>1 DEF IInv, HeapInv, TypeOK, HeapType, Grows, SetSiblings, Addr

(* The first child becomes a list of one entry.                            *)
LEMMA LinkFirstKeepsHeap ==
  ASSUME IInv, NEW p \in Addr, NEW e \in Entries, owner[e] = p, LinkFirst(p, e)
  PROVE  HeapInv' /\ Grows
<1>1. \A g \in Entries : siblings'[g] = IF g = e THEN e ELSE siblings[g]
  BY DEF IInv, TypeOK, HeapType, LinkFirst
<1>2. \A q \in Addr : childs'[q] = IF q = p THEN e ELSE childs[q]
  BY DEF IInv, TypeOK, HeapType, LinkFirst
<1>3. p # Nil  BY DEF Addr
<1>. QED  BY <1>1, <1>2, <1>3 DEF IInv, HeapInv, TypeOK, HeapType, Grows, LinkFirst, Addr

-----------------------------------------------------------------------------
(* A step of thread t preserves the invariant if it preserves the types,   *)
(* the heap part and t's own part.                                         *)
LEMMA StepOfOne ==
  ASSUME IInv, NEW t \in Threads, TypeOK', HeapInv', Grows,
         \A u \in Threads \ {t} : Idles(u), ThreadInv(t)', WalkInv(t)'
  PROVE  IInv'
<1>1. ASSUME NEW u \in Threads PROVE ThreadInv(u)' /\ WalkInv(u)'
  <2>1. CASE u = t  BY <2>1
  <2>2. CASE u # t  BY <2>2, OthersKeepInv
  <2>. QED  BY <2>1, <2>2
<1>. QED  BY <1>1 DEF IInv

(* The walks of a path do not change while the thread resolves it.         *)
LEMMA WalkStep ==
  ASSUME NEW t \in Threads, WalkInv(t), path'[t] = path[t],
         \A w : IsWalk(w, path[t]) /\ OnWalk(t, w) => OnWalk(t, w)'
  PROVE  WalkInv(t)'
BY Zenon DEF WalkInv, IsWalk

(* A new request starts at the root of the cache, where every walk starts. *)
LEMMA CallKeepsInv ==
  ASSUME IInv, NEW t \in Threads, Call(t)
  PROVE  IInv'
<1>1. PICK p \in Paths : path' = [path EXCEPT ![t] = p]
  BY DEF Call, MayCall
<1>2. TypeOK'
  BY <1>1 DEF IInv, TypeOK, HeapType, heap, Call, MayCall, Goto, Labels, Inserting
<1>3. HeapInv' /\ Grows
  BY NoStore DEF Call
<1>4. \A u \in Threads \ {t} : Idles(u)
  BY <1>1 DEF IInv, TypeOK, Idles, Call, MayCall, Goto
<1>5. pc'[t] = "lookup" /\ dc'[t] = Nil /\ pos'[t] = 0
  BY DEF IInv, TypeOK, Call, Goto
<1>6. ThreadInv(t)'
  BY <1>5 DEF ThreadInv, Inserting
<1>7. WalkInv(t)'
  <2>1. (dcache_get_inode(dc[t]) = ROOT_INODE_N)'
    BY <1>3, <1>5 DEF HeapInv, dcache_get_inode, OrRoot
  <2>. QED  BY <1>5, <2>1 DEF WalkInv, IsWalk, OnWalk, Inserting
<1>. QED  BY <1>2, <1>3, <1>4, <1>6, <1>7, StepOfOne

(* The inode of the entry a thread stands on.                              *)
LEMMA ParentFacts ==
  ASSUME IInv, NEW t \in Threads
  PROVE  /\ Parent(t) \in Addr
         /\ Parent(t) # Nil
         /\ Parent(t) # Root => owner[Parent(t)] # Nil
         /\ inode[Parent(t)] # 0
         /\ inode[Parent(t)] \in Inodes
         /\ dcache_get_inode(dc[t]) = inode[Parent(t)]
<1>1. Parent(t) \in Addr /\ Parent(t) # Nil
  BY DEF IInv, TypeOK, HeapType, Parent, OrRoot, Addr
<1>2. Parent(t) # Root => Parent(t) \in Entries /\ owner[Parent(t)] # Nil
  BY <1>1 DEF IInv, ThreadInv, Parent, OrRoot, Addr
<1>3. inode[Parent(t)] # 0
  BY <1>1, <1>2, Zenon DEF IInv, HeapInv
<1>. QED  BY <1>1, <1>2, <1>3 DEF IInv, TypeOK, HeapType, dcache_get_inode, Parent

(* A token of a path is a name, and the path is long enough for it.        *)
LEMMA PathFacts ==
  ASSUME IInv, NEW t \in Threads
  PROVE  /\ path[t] \in Seq(Names)
         /\ Len(path[t]) \in Nat
         /\ pos[t] \in Nat
         /\ pos[t] <= Len(path[t])
         /\ ~Consumed(t) => pos[t] + 1 \in 1..Len(path[t]) /\ Token(t) \in Names
<1>1. path[t] \in Paths /\ pos[t] \in Nat /\ pos[t] <= Len(path[t])
  BY DEF IInv, TypeOK
<1>2. path[t] \in Seq(Names)
  BY <1>1
<1>3. Len(path[t]) \in Nat
  BY <1>2
<1>4. ~Consumed(t) => pos[t] + 1 \in 1..Len(path[t])
  BY <1>1, <1>3, SMTT(30) DEF Consumed
<1>. QED  BY <1>1, <1>2, <1>3, <1>4 DEF Token

(* Consuming a token keeps the position within the path.                   *)
LEMMA PosStep ==
  ASSUME IInv, NEW t \in Threads, ~Consumed(t),
         pos' = [pos EXCEPT ![t] = @ + 1], path' = path
  PROVE  pos' \in [Threads -> Nat] /\ \A u \in Threads : pos'[u] <= Len(path'[u])
<1>1. pos \in [Threads -> Nat] /\ \A u \in Threads : pos[u] <= Len(path[u])
  BY DEF IInv, TypeOK
<1>2. pos[t] + 1 <= Len(path[t]) /\ pos[t] + 1 \in Nat
  BY PathFacts
<1>3. \A u \in Threads : pos'[u] = IF u = t THEN pos[t] + 1 ELSE pos[u]
  BY <1>1
<1>. QED  BY <1>1, <1>2, <1>3

(* The entry a thread compares with its token is a member of the list.     *)
LEMMA LookupFacts ==
  ASSUME IInv, NEW t \in Threads, pc[t] \in {"match", "again"}
  PROVE  InList(t, iter[t]) /\ ~Consumed(t) /\ iter[t] \in Entries
<1>1. TypeOK /\ ThreadInv(t)
  BY DEF IInv
<1>. QED  BY <1>1 DEF TypeOK, ThreadInv, InList

(* A list leads from a member to a member.                                 *)
LEMMA ListCloses ==
  ASSUME IInv, NEW e \in Entries, siblings[e] # Nil
  PROVE  /\ siblings[e] \in Entries
         /\ owner[siblings[e]] = owner[e]
         /\ siblings[siblings[e]] # Nil
<1>1. HeapType /\ HeapInv
  BY DEF IInv, TypeOK
<1>. QED  BY <1>1 DEF HeapType, HeapInv

(* A thread leaves the cache with the inode of the entry it stands on.     *)
LEMMA LeaveCacheKeepsInv ==
  ASSUME IInv, NEW t \in Threads, LeaveCache(t), pc[t] \in {"lookup", "again"}
  PROVE  IInv'
<1>1. TypeOK'
  BY ParentFacts, Zenon DEF IInv, TypeOK, HeapType, heap, LeaveCache, Goto, Labels, Inserting
<1>2. HeapInv' /\ Grows
  BY NoStore DEF LeaveCache
<1>3. \A u \in Threads \ {t} : Idles(u)
  BY DEF IInv, TypeOK, Idles, LeaveCache, Goto
<1>4. pc'[t] = "walk" /\ idx'[t] = inode[Parent(t)]
  BY ParentFacts, ZenonT(30) DEF IInv, TypeOK, LeaveCache, Goto
<1>5. ThreadInv(t)'
  BY <1>4, ParentFacts, Zenon DEF IInv, ThreadInv, LeaveCache, heap, Inserting, Parent
<1>6. WalkInv(t)'
  BY <1>4, ParentFacts, WalkStep, ZenonT(30) DEF IInv, OnWalk, LeaveCache, Inserting
<1>. QED  BY <1>1, <1>2, <1>3, <1>5, <1>6, StepOfOne

(* The steps of get_cached_inode_num and dcache_lookup.                    *)
LEMMA LookupKeepsInv ==
  ASSUME IInv, NEW t \in Threads,
         \/ LookupEnds(t) \/ LookupStarts(t) \/ LookupHit(t)
         \/ LookupAdvances(t) \/ LookupRepeats(t) \/ LookupMisses(t)
  PROVE  IInv'
<1>1. CASE LookupEnds(t)  BY <1>1, LeaveCacheKeepsInv DEF LookupEnds
<1>2. CASE LookupMisses(t)  BY <1>2, LeaveCacheKeepsInv DEF LookupMisses
<1>3. CASE LookupStarts(t)
  <2>. USE <1>3 DEF LookupStarts
  <2>1. TypeOK'
    BY ParentFacts, Zenon DEF IInv, TypeOK, HeapType, heap, Goto, Labels, Inserting
  <2>2. HeapInv' /\ Grows
    BY NoStore
  <2>3. \A u \in Threads \ {t} : Idles(u)
    BY Zenon DEF IInv, TypeOK, Idles, Goto
  <2>4. pc'[t] = "match" /\ iter'[t] = childs[Parent(t)]
    BY Zenon DEF IInv, TypeOK, Goto
  <2>5. InList(t, childs[Parent(t)])
    BY ParentFacts DEF IInv, HeapInv, InList
  <2>6. ThreadInv(t)'
    BY <2>4, <2>5, ZenonT(30) DEF IInv, ThreadInv, heap, Inserting, Parent, InList, Consumed
  <2>7. WalkInv(t)'
    BY <2>4, WalkStep, ZenonT(30) DEF IInv, OnWalk, Inserting, dcache_get_inode, heap
  <2>. QED  BY <2>1, <2>2, <2>3, <2>6, <2>7, StepOfOne, Zenon
<1>4. CASE LookupHit(t)
  <2>. USE <1>4 DEF LookupHit
  <2>1. InList(t, iter[t]) /\ ~Consumed(t) /\ iter[t] \in Entries
    BY LookupFacts, Zenon
  <2>2. HeapInv' /\ Grows
    BY <2>1, ParentFacts, SetChildsKeepsHeap DEF InList
  <2>4. TypeOK'
    <3>1. TypeOK  BY Zenon DEF IInv
    <3>2. HeapType'
      BY <2>1, <3>1, ParentFacts, Zenon DEF TypeOK, HeapType, SetChilds
    <3>3. dc' \in [Threads -> Entries \cup {Nil}] /\ pc' \in [Threads -> Labels]
      BY <2>1, <3>1 DEF TypeOK, Goto, Labels
    <3>. QED  BY <2>1, <3>1, <3>2, <3>3, PosStep, ZenonT(30) DEF TypeOK
  <2>5. \A u \in Threads \ {t} : Idles(u)
    BY ZenonT(30) DEF IInv, TypeOK, Idles, Goto
  <2>6. pc'[t] = "lookup" /\ dc'[t] = iter[t] /\ pos'[t] = pos[t] + 1
    BY DEF IInv, TypeOK, Goto
  <2>7. ThreadInv(t)'
    BY <2>1, <2>6, ParentFacts, ZenonT(30) DEF ThreadInv, InList, SetChilds, Inserting
  <2>8. inode[iter[t]] = Disk[<<inode[Parent(t)], Token(t)>>]
    <3>1. owner[iter[t]] = Parent(t) /\ Parent(t) # Nil
      BY <2>1, ParentFacts DEF InList
    <3>2. inode[iter[t]] = Disk[<<inode[owner[iter[t]]], name[iter[t]]>>]
      BY <2>1, <3>1, ZenonT(30) DEF IInv, HeapInv
    <3>. QED  BY <3>1, <3>2, ZenonT(30)
  <2>9. (dcache_get_inode(dc[t]))' = inode[iter[t]]
    BY <2>1, <2>6, ZenonT(30) DEF dcache_get_inode, OrRoot, InList, SetChilds
  <2>10. WalkInv(t)'
    <3>. SUFFICES ASSUME NEW w, IsWalk(w, path[t]), OnWalk(t, w)
                  PROVE  OnWalk(t, w)'
      BY WalkStep, ZenonT(30) DEF IInv
    <3>1. w[pos[t]] = inode[Parent(t)]
      BY ParentFacts, ZenonT(30) DEF OnWalk
    <3>2. pos[t] + 1 \in 1..Len(path[t]) /\ (pos[t] + 1) - 1 = pos[t]
      <4>1. pos[t] + 1 \in 1..Len(path[t]) /\ pos[t] \in Nat
        BY <2>1, PathFacts, ZenonT(30)
      <4>. QED  BY <4>1
    <3>3. w[pos[t] + 1] = Disk[<<w[pos[t]], Token(t)>>]
      BY <3>1, <3>2, ParentFacts, ZenonT(30) DEF IsWalk, Token
    <3>. QED  BY <2>6, <2>8, <2>9, <3>1, <3>3, ZenonT(30) DEF OnWalk, Inserting
  <2>. QED  BY <2>2, <2>4, <2>5, <2>7, <2>10, StepOfOne, Zenon
<1>5. CASE LookupAdvances(t)
  <2>. USE <1>5 DEF LookupAdvances
  <2>1. InList(t, iter[t]) /\ ~Consumed(t) /\ iter[t] \in Entries
    BY LookupFacts
  <2>2. InList(t, siblings[iter[t]]) /\ siblings[iter[t]] \in Entries
    BY <2>1, ListCloses DEF InList
  <2>3. TypeOK'
    BY <2>2, ZenonT(30) DEF IInv, TypeOK, HeapType, heap, Goto, Labels, Inserting
  <2>4. HeapInv' /\ Grows
    BY NoStore, ZenonT(30)
  <2>5. \A u \in Threads \ {t} : Idles(u)
    BY ZenonT(30) DEF IInv, TypeOK, Idles, Goto
  <2>6. pc'[t] = "again" /\ iter'[t] = siblings[iter[t]]
    BY DEF IInv, TypeOK, Goto
  <2>7. ThreadInv(t)'
    BY <2>1, <2>2, <2>6, ZenonT(30) DEF IInv, ThreadInv, heap, Inserting, Parent, InList, Consumed
  <2>8. WalkInv(t)'
    BY <2>6, WalkStep, ZenonT(30) DEF IInv, OnWalk, Inserting, dcache_get_inode, heap
  <2>. QED  BY <2>3, <2>4, <2>5, <2>7, <2>8, StepOfOne
<1>6. CASE LookupRepeats(t)
  <2>. USE <1>6 DEF LookupRepeats
  <2>1. TypeOK'
    BY DEF IInv, TypeOK, HeapType, heap, Goto, Labels, Inserting
  <2>2. HeapInv' /\ Grows
    BY NoStore
  <2>3. \A u \in Threads \ {t} : Idles(u)
    BY DEF IInv, TypeOK, Idles, Goto
  <2>4. pc'[t] = "match"
    BY DEF IInv, TypeOK, Goto
  <2>5. ThreadInv(t)'
    BY <2>4, ZenonT(30) DEF IInv, ThreadInv, heap, Inserting, Parent, InList, Consumed
  <2>6. WalkInv(t)'
    BY <2>4, WalkStep, ZenonT(30) DEF IInv, OnWalk, Inserting, dcache_get_inode, heap
  <2>. QED  BY <2>1, <2>2, <2>3, <2>5, <2>6, StepOfOne, ZenonT(30)
<1>. QED  BY <1>1, <1>2, <1>3, <1>4, <1>5, <1>6

(* One token further along a walk.                                         *)
LEMMA WalkAdvances ==
  ASSUME IInv, NEW t \in Threads, ~Consumed(t), idx[t] # 0,
         NEW w, IsWalk(w, path[t]), w[pos[t]] = idx[t]
  PROVE  /\ w[pos[t] + 1] = Found(t)
         /\ Found(t) = 0 => w[Len(path[t])] = 0
<1>1. /\ pos[t] \in Nat /\ Len(path[t]) \in Nat
      /\ pos[t] + 1 \in 1..Len(path[t])
  BY PathFacts
<1>0. pos[t] \in Nat
  BY PathFacts
<1>2. (pos[t] + 1) - 1 = pos[t]
  BY <1>0
<1>3. w[pos[t] + 1] = Found(t)
  BY <1>1, <1>2, ZenonT(30) DEF IsWalk, Found, Token
<1>4. pos[t] + 1 \in 0..Len(path[t]) /\ Len(path[t]) \in 0..Len(path[t]) /\ pos[t] + 1 <= Len(path[t])
  BY <1>1
<1>. QED  BY <1>3, <1>4, Zenon DEF IsWalk

(* The steps that read a directory from the disk.                          *)
LEMMA WalkKeepsInv ==
  ASSUME InnerNamesFit, IInv, NEW t \in Threads,
         WalkEnds(t) \/ WalkFails(t) \/ WalkUncached(t) \/ WalkInserts(t)
  PROVE  IInv'
<1>1. CASE WalkEnds(t)
  <2>. USE <1>1 DEF WalkEnds
  <2>1. TypeOK'
    BY DEF IInv, TypeOK, HeapType, heap, Goto, Labels, Inserting
  <2>2. HeapInv' /\ Grows
    BY NoStore
  <2>3. \A u \in Threads \ {t} : Idles(u)
    BY DEF IInv, TypeOK, Idles, Goto
  <2>4. pc'[t] = "done"
    BY DEF IInv, TypeOK, Goto
  <2>5. ThreadInv(t)'
    BY <2>4, ZenonT(30) DEF IInv, ThreadInv, heap, Inserting
  <2>6. WalkInv(t)'
    BY <2>4, WalkStep, ZenonT(30) DEF IInv, OnWalk, Inserting, Consumed
  <2>. QED  BY <2>1, <2>2, <2>3, <2>5, <2>6, StepOfOne
<1>2. CASE WalkFails(t)
  <2>. USE <1>2 DEF WalkFails
  <2>1. TypeOK'
    BY DEF IInv, TypeOK, HeapType, heap, Goto, Labels, Inserting
  <2>2. HeapInv' /\ Grows
    BY NoStore
  <2>3. \A u \in Threads \ {t} : Idles(u)
    BY DEF IInv, TypeOK, Idles, Goto
  <2>4. pc'[t] = "done" /\ idx'[t] = 0
    BY DEF IInv, TypeOK, Goto
  <2>5. ThreadInv(t)'
    BY <2>4, ZenonT(30) DEF IInv, ThreadInv, heap, Inserting
  <2>6. idx[t] # 0
    BY DEF IInv, ThreadInv
  <2>7. WalkInv(t)'
    <3>. SUFFICES ASSUME NEW w, IsWalk(w, path[t]), OnWalk(t, w)
                  PROVE  OnWalk(t, w)'
      BY WalkStep DEF IInv
    <3>1. w[Len(path[t])] = 0
      BY <2>6, WalkAdvances DEF OnWalk
    <3>. QED  BY <2>4, <3>1, ZenonT(30) DEF OnWalk, Inserting
  <2>. QED  BY <2>1, <2>2, <2>3, <2>5, <2>7, StepOfOne, ZenonT(30)
<1>3. CASE WalkUncached(t)
  <2>. USE <1>3 DEF WalkUncached
  <2>1. /\ pos[t] \in Nat /\ Len(path[t]) \in Nat /\ Token(t) \in Names
        /\ pos[t] + 1 \in 1..Len(path[t]) /\ path[t] \in Paths
    BY PathFacts, Zenon DEF IInv, TypeOK
  <2>2. pos[t] + 1 = Len(path[t])
    <3>1. pos[t] + 1 \notin 1..(Len(path[t]) - 1)
      BY <2>1, Zenon DEF InnerNamesFit, Token
    <3>. QED  BY <2>1, <3>1, SMTT(20)
  <2>0. TypeOK /\ ThreadInv(t)
    BY DEF IInv
  <2>3. idx[t] # 0 /\ idx[t] \in Inodes
    BY <2>0, ZenonT(30) DEF ThreadInv, TypeOK
  <2>4. Found(t) \in Inodes \cup {0}
    BY <2>1, <2>3, ZenonT(30) DEF Found
  <2>5. TypeOK'
    <3>1. HeapType'
      BY <2>0 DEF TypeOK, HeapType, heap
    <3>2. dc' \in [Threads -> Entries \cup {Nil}] /\ idx' \in [Threads -> Inodes \cup {0}]
      BY <2>0, <2>4 DEF TypeOK
    <3>. QED  BY <2>0, <3>1, <3>2, PosStep, ZenonT(30) DEF TypeOK
  <2>6. HeapInv' /\ Grows
    BY NoStore
  <2>7. \A u \in Threads \ {t} : Idles(u)
    BY ZenonT(30) DEF IInv, TypeOK, Idles
  <2>8. pc'[t] = "walk" /\ idx'[t] = Found(t) /\ dc'[t] = Nil /\ pos'[t] = pos[t] + 1
    BY Zenon DEF IInv, TypeOK
  <2>9. Consumed(t)'
    BY <2>2, <2>8 DEF Consumed
  <2>10. ThreadInv(t)'
    BY <2>8, <2>9, ZenonT(30) DEF ThreadInv, Inserting
  <2>11. WalkInv(t)'
    <3>. SUFFICES ASSUME NEW w, IsWalk(w, path[t]), OnWalk(t, w)
                  PROVE  OnWalk(t, w)'
      BY WalkStep, ZenonT(30) DEF IInv
    <3>1. w[pos[t] + 1] = Found(t)
      BY <2>3, WalkAdvances, ZenonT(30) DEF OnWalk
    <3>. QED  BY <2>8, <3>1 DEF OnWalk, Inserting
  <2>. QED  BY <2>5, <2>6, <2>7, <2>10, <2>11, StepOfOne
<1>4. CASE WalkInserts(t)
  <2>. DEFINE e == CHOOSE f \in Free : TRUE
  <2>0. /\ pc[t] = "walk" /\ ~Consumed(t) /\ Found(t) # 0 /\ Free # {}
        /\ idx' = [idx EXCEPT ![t] = Found(t)]
        /\ NewEntry(e, Parent(t), Token(t), Found(t))
        /\ new' = [new EXCEPT ![t] = e]
        /\ Goto(t, "ins_test")
        /\ UNCHANGED <<path, pos, dc, iter, reg, calls>>
    BY <1>4, Zenon DEF WalkInserts
  <2>1. e \in Free /\ e \in Entries /\ e # Nil
    BY <2>0 DEF Free
  <2>. HIDE DEF e
  <2>. USE <2>0
  <2>2. idx[t] # 0 /\ idx[t] = inode[Parent(t)] /\ Token(t) \in Names
    BY PathFacts, ZenonT(30) DEF IInv, ThreadInv
  <2>4. Found(t) \in Inodes /\ Found(t) = Disk[<<inode[Parent(t)], Token(t)>>]
    BY <2>2, ParentFacts, ZenonT(30) DEF Found
  <2>5. TypeOK'
    <3>1. HeapType'
      <4>1. HeapType  BY Zenon DEF IInv, TypeOK
      <4>2. owner' = [owner EXCEPT ![e] = Parent(t)] /\ inode' = [inode EXCEPT ![e] = Found(t)]
            /\ name' = [name EXCEPT ![e] = Token(t)] /\ UNCHANGED <<childs, siblings>>
        BY DEF NewEntry
      <4>. QED  BY <2>1, <2>2, <2>4, <4>1, <4>2, ParentFacts DEF HeapType, Addr
    <3>2. new' \in [Threads -> Entries \cup {Nil}] /\ idx' \in [Threads -> Inodes \cup {0}]
      BY <2>1, <2>4, ZenonT(30) DEF IInv, TypeOK
    <3>3. pc' \in [Threads -> Labels]
      BY DEF IInv, TypeOK, Goto, Labels, Inserting
    <3>. QED  BY <3>1, <3>2, <3>3, ZenonT(30) DEF IInv, TypeOK
  <2>6. HeapInv' /\ Grows
    <3>. DEFINE q == Parent(t)  n == Token(t)
    <3>1. q \in Addr /\ n \in Names /\ (q # Root => owner[q] # Nil) /\ inode[q] # 0
      BY <2>2, ParentFacts, ZenonT(30)
    <3>2. NewEntry(e, q, n, Disk[<<inode[q], n>>]) /\ Disk[<<inode[q], n>>] # 0
      BY <2>4, ZenonT(30)
    <3>. HIDE DEF q, n
    <3>. QED  BY <2>1, <2>5, <3>1, <3>2, NewEntryKeepsHeap
  <2>7. \A u \in Threads \ {t} : Idles(u)
    BY ZenonT(30) DEF IInv, TypeOK, Idles, Goto
  <2>8. pc'[t] = "ins_test" /\ idx'[t] = Found(t) /\ new'[t] = e
    BY ZenonT(30) DEF IInv, TypeOK, Goto
  <2>9. owner'[e] = Parent(t) /\ inode'[e] = Found(t)
    BY <2>1, ZenonT(30) DEF IInv, TypeOK, HeapType, NewEntry, Addr
  <2>10. ThreadInv(t)'
    <3>1. (dc[t] # Nil => owner[dc[t]] # Nil)'
      <4>1. dc[t] \in Entries \cup {Nil} /\ (dc[t] # Nil => owner[dc[t]] # Nil)
        BY ZenonT(30) DEF IInv, ThreadInv, TypeOK
      <4>. QED  BY <2>6, <4>1, ZenonT(30) DEF Grows
    <3>2. Consumed(t)' = Consumed(t) /\ Parent(t)' = Parent(t)
      BY ZenonT(30) DEF Consumed, Parent
    <3>. QED  BY <2>1, <2>4, <2>8, <2>9, <3>1, <3>2, ZenonT(30) DEF ThreadInv
  <2>11. WalkInv(t)'
    <3>. SUFFICES ASSUME NEW w, IsWalk(w, path[t]), OnWalk(t, w)
                  PROVE  OnWalk(t, w)'
      BY WalkStep, ZenonT(30) DEF IInv
    <3>1. w[pos[t] + 1] = Found(t)
      BY <2>2, WalkAdvances, ZenonT(30) DEF OnWalk
    <3>. QED  BY <2>8, <3>1, Zenon DEF OnWalk
  <2>. QED  BY <2>5, <2>6, <2>7, <2>10, <2>11, StepOfOne, Zenon
<1>. QED  BY <1>1, <1>2, <1>3, <1>4

(* Thread-local facts of a thread inside dcache_insert.                    *)
LEMMA InsertFacts ==
  ASSUME IInv, NEW t \in Threads, pc[t] \in Inserting
  PROVE  /\ new[t] \in Entries
         /\ owner[new[t]] = Parent(t)
         /\ inode[new[t]] = idx[t]
         /\ idx[t] # 0
         /\ ~Consumed(t)
         /\ reg[t] \in Entries \cup {Nil}
         /\ dc[t] \in Entries \cup {Nil}
         /\ dc[t] # Nil => owner[dc[t]] # Nil
BY DEF IInv, TypeOK, ThreadInv

(* The end of dcache_insert: the thread moves to the entry it linked.      *)
LEMMA InsertReturnKeepsInv ==
  ASSUME IInv, NEW t \in Threads, pc[t] \in Inserting, HeapType', HeapInv', Grows,
         InsertReturns(t)
  PROVE  IInv'
<1>. USE DEF InsertReturns
<1>1. new[t] \in Entries /\ owner[new[t]] = Parent(t) /\ inode[new[t]] = idx[t] /\ idx[t] # 0
  BY InsertFacts, Zenon
<1>2. pos[t] + 1 <= Len(path[t]) /\ pos[t] \in Nat /\ Len(path[t]) \in Nat
  <2>1. ~Consumed(t)
    BY InsertFacts, Zenon
  <2>2. pos[t] + 1 \in 1..Len(path[t]) /\ pos[t] \in Nat /\ Len(path[t]) \in Nat
    BY <2>1, PathFacts, Zenon
  <2>3. QED
    BY <2>2
<1>3. TypeOK'
  <2>1. TypeOK  BY DEF IInv
  <2>2. dc' \in [Threads -> Entries \cup {Nil}] /\ pc' \in [Threads -> Labels]
    BY <1>1, <2>1 DEF TypeOK, Goto, Labels
  <2>. QED  BY <2>1, <2>2, InsertFacts, PosStep, Zenon DEF TypeOK
<1>4. \A u \in Threads \ {t} : Idles(u)
  BY DEF IInv, TypeOK, Idles, Goto
<1>5. pc'[t] = "walk" /\ dc'[t] = new[t] /\ pos'[t] = pos[t] + 1
  BY DEF IInv, TypeOK, Goto
<1>6. owner[new[t]] # Nil
  BY <1>1, ParentFacts
<1>7. owner'[new[t]] = owner[new[t]] /\ inode'[new[t]] = inode[new[t]]
  BY <1>1, <1>6, ZenonT(30) DEF Grows
<1>8. Parent(t)' = new[t]
  BY <1>1, <1>5, ZenonT(30) DEF Parent, OrRoot
<1>9. ThreadInv(t)'
  BY <1>1, <1>5, <1>6, <1>7, <1>8, ZenonT(30) DEF ThreadInv, Inserting
<1>10. WalkInv(t)'
  BY <1>5, WalkStep, Zenon DEF IInv, OnWalk, Inserting
<1>. QED  BY <1>3, <1>4, <1>9, <1>10, StepOfOne, Zenon

(* The steps inside dcache_insert that leave the thread in it.             *)
LEMMA InsertStaysKeepsInv ==
  ASSUME IInv, NEW t \in Threads, NEW l \in Inserting, pc[t] \in Inserting,
         HeapType', HeapInv', Grows,
         Goto(t, l), reg' \in [Threads -> Entries \cup {Nil}],
         \A u \in Threads \ {t} : reg'[u] = reg[u],
         UNCHANGED <<path, pos, dc, idx, iter, new, calls>>,
         l = "ins_sib" /\ reg'[t] # Nil => InList(t, reg[t])' /\ childs'[Parent(t)] # Nil,
         l = "ins_link" => /\ InList(t, reg[t])'
                           /\ childs'[Parent(t)] # Nil
                           /\ siblings'[new[t]] # Nil,
         l = "ins_pub" => siblings'[new[t]] # Nil
  PROVE  IInv'
<1>1. TypeOK'
  BY ZenonT(30) DEF IInv, TypeOK, Goto, Labels
<1>2. \A u \in Threads \ {t} : Idles(u)
  BY DEF IInv, TypeOK, Idles, Goto
<1>3. pc'[t] = l /\ Parent(t)' = Parent(t) /\ Consumed(t)' = Consumed(t)
  BY Zenon DEF IInv, TypeOK, Goto, Parent, Consumed
<1>4. /\ new[t] \in Entries /\ owner[new[t]] = Parent(t) /\ inode[new[t]] = idx[t]
      /\ idx[t] # 0 /\ ~Consumed(t) /\ owner[new[t]] # Nil
      /\ dc[t] \in Entries \cup {Nil} /\ (dc[t] # Nil => owner[dc[t]] # Nil)
  BY InsertFacts, ParentFacts
<1>5. /\ owner'[new[t]] = Parent(t) /\ inode'[new[t]] = idx[t]
      /\ (dc[t] # Nil => owner'[dc[t]] # Nil)
  BY <1>4, ZenonT(30) DEF Grows
<1>6. ThreadInv(t)'
  BY <1>3, <1>4, <1>5, ZenonT(30) DEF ThreadInv, Inserting
<1>7. WalkInv(t)'
  BY <1>3, WalkStep, ZenonT(30) DEF IInv, OnWalk, Inserting
<1>. QED  BY <1>1, <1>2, <1>6, <1>7, StepOfOne, ZenonT(30)

(* The steps of dcache_insert.                                             *)
LEMMA InsertKeepsInv ==
  ASSUME IInv, NEW t \in Threads,
         \/ InsertTests(t) \/ InsertFirst(t) \/ InsertReloads(t)
         \/ InsertCopiesSiblings(t) \/ InsertLinks(t) \/ InsertPublishes(t)
  PROVE  IInv'
<1>0. HeapType  BY ZenonT(30) DEF IInv, TypeOK
<1>1. \A p \in Addr : childs[p] # Nil =>
        /\ childs[p] \in Entries /\ owner[childs[p]] = p /\ siblings[childs[p]] # Nil
  <2>1. HeapInv
    BY Zenon DEF IInv
  <2>2. QED
    BY <1>0, <2>1 DEF HeapInv, HeapType
<1>2. reg \in [Threads -> Entries \cup {Nil}] /\ childs[Parent(t)] \in Entries \cup {Nil}
  BY <1>0, ParentFacts, ZenonT(30) DEF IInv, TypeOK, HeapType
<1>3. CASE InsertTests(t)
  <2>. USE <1>3 DEF InsertTests
  <2>1. HeapType' /\ HeapInv' /\ Grows
    BY <1>0, NoStore, ZenonT(30) DEF heap, HeapType
  <2>2. reg' \in [Threads -> Entries \cup {Nil}] /\ reg'[t] = childs[Parent(t)]
        /\ \A u \in Threads \ {t} : reg'[u] = reg[u]
    BY <1>2, Zenon
  <2>3. reg'[t] # Nil => InList(t, reg[t])' /\ childs'[Parent(t)] # Nil
    BY <1>1, <2>2, ParentFacts, ZenonT(30) DEF InList, heap, Parent
  <2>. QED  BY <2>1, <2>2, <2>3, InsertStaysKeepsInv, ZenonT(30) DEF Inserting
<1>4. CASE InsertReloads(t)
  <2>. USE <1>4 DEF InsertReloads
  <2>1. HeapType' /\ HeapInv' /\ Grows
    BY <1>0, NoStore, ZenonT(30) DEF heap, HeapType
  <2>2. reg' \in [Threads -> Entries \cup {Nil}] /\ reg'[t] = childs[Parent(t)]
        /\ \A u \in Threads \ {t} : reg'[u] = reg[u]
    BY <1>2, ZenonT(30)
  <2>3. childs[Parent(t)] # Nil /\ (pc[t] = "ins_link" => siblings[new[t]] # Nil)
    BY ZenonT(30) DEF IInv, ThreadInv
  <2>4. InList(t, reg[t])' /\ childs'[Parent(t)] # Nil
    BY <1>1, <2>2, <2>3, ParentFacts, ZenonT(30) DEF InList, heap, Parent
  <2>5. Goto(t, pc[t])
    BY ZenonT(30) DEF Goto, IInv, TypeOK
  <2>6. pc[t] = "ins_link" => siblings'[new[t]] # Nil
    BY <2>3 DEF heap
  <2>7. pc[t] \in Inserting /\ pc[t] # "ins_pub"
    BY Zenon DEF Inserting
  <2>. QED  BY <2>1, <2>2, <2>4, <2>5, <2>6, <2>7, InsertStaysKeepsInv, ZenonT(30)
<1>5. CASE InsertFirst(t)
  <2>. USE <1>5 DEF InsertFirst
  <2>1. pc[t] \in Inserting  BY Zenon DEF Inserting
  <2>2. new[t] \in Entries /\ owner[new[t]] = Parent(t) /\ Parent(t) \in Addr
    BY <2>1, InsertFacts, ParentFacts
  <2>3. HeapType'
    BY <1>0, <2>2, ZenonT(30) DEF HeapType, LinkFirst
  <2>. QED  BY <2>1, <2>2, <2>3, LinkFirstKeepsHeap, InsertReturnKeepsInv, Zenon
<1>6. CASE InsertCopiesSiblings(t)
  <2>. USE <1>6 DEF InsertCopiesSiblings
  <2>1. pc[t] \in Inserting  BY Zenon DEF Inserting
  <2>2. new[t] \in Entries /\ owner[new[t]] = Parent(t) /\ Parent(t) \in Addr /\ Parent(t) # Nil
        /\ reg[t] \in Entries
    BY <2>1, InsertFacts, ParentFacts
  <2>3. InList(t, reg[t]) /\ childs[Parent(t)] # Nil
    BY ZenonT(30) DEF IInv, ThreadInv
  <2>. DEFINE f == siblings[reg[t]]
  <2>4. f \in Entries /\ owner[f] = Parent(t) /\ siblings[f] # Nil
    BY <2>2, <2>3, ListCloses, Zenon DEF InList
  <2>. HIDE DEF f
  <2>5. SetSiblings(new[t], f)
    BY Zenon DEF f
  <2>6. HeapType' /\ siblings'[new[t]] = f
    <3>1. siblings' = [siblings EXCEPT ![new[t]] = f] /\ UNCHANGED <<childs, owner, inode, name>>
      BY <2>5, Zenon DEF SetSiblings
    <3>. QED  BY <1>0, <2>2, <2>4, <3>1, Zenon DEF HeapType
  <2>7. HeapInv' /\ Grows
    BY <2>2, <2>4, <2>5, SetSiblingsKeepsHeap, ZenonT(30)
  <2>8. InList(t, reg[t])' /\ childs'[Parent(t)] # Nil
    BY <2>2, <2>3, <2>7, Zenon DEF InList, Grows, Parent
  <2>9. f # Nil  BY <2>4, ZenonT(30)
  <2>. QED  BY <1>2, <2>1, <2>6, <2>7, <2>8, <2>9, InsertStaysKeepsInv, Zenon DEF Inserting
<1>7. CASE InsertLinks(t)
  <2>. USE <1>7 DEF InsertLinks
  <2>1. pc[t] \in Inserting  BY DEF Inserting
  <2>2. new[t] \in Entries /\ owner[new[t]] = Parent(t) /\ Parent(t) # Nil
    BY <2>1, InsertFacts, ParentFacts, ZenonT(30)
  <2>3. InList(t, reg[t]) /\ siblings[new[t]] # Nil
    BY ZenonT(30) DEF IInv, ThreadInv
  <2>4. reg[t] \in Entries
    BY <1>2, <2>3, ZenonT(30) DEF InList
  <2>5. HeapType'
    BY <1>0, <2>2, <2>4, ZenonT(30) DEF HeapType, SetSiblings
  <2>6. HeapInv' /\ Grows
    BY <2>2, <2>3, <2>4, SetSiblingsKeepsHeap DEF InList
  <2>7. siblings'[new[t]] # Nil
    BY <2>2, <2>3, <2>6, ZenonT(30) DEF Grows
  <2>. QED  BY <1>2, <2>1, <2>5, <2>6, <2>7, InsertStaysKeepsInv, ZenonT(30) DEF Inserting
<1>8. CASE InsertPublishes(t)
  <2>. USE <1>8 DEF InsertPublishes
  <2>1. pc[t] \in Inserting  BY DEF Inserting
  <2>2. new[t] \in Entries /\ owner[new[t]] = Parent(t) /\ Parent(t) \in Addr
    BY <2>1, InsertFacts, ParentFacts, ZenonT(30)
  <2>3. siblings[new[t]] # Nil
    BY ZenonT(30) DEF IInv, ThreadInv
  <2>4. HeapType'
    BY <1>0, <2>2 DEF HeapType, SetChilds
  <2>. QED  BY <2>1, <2>2, <2>3, <2>4, SetChildsKeepsHeap, InsertReturnKeepsInv
<1>. QED  BY <1>3, <1>4, <1>5, <1>6, <1>7, <1>8

-----------------------------------------------------------------------------
(* The empty cache satisfies the invariant.                                *)
LEMMA InitEstablishesInv == Init => IInv
<1>. SUFFICES ASSUME Init PROVE IInv
  OBVIOUS
<1>1. TypeOK
  BY DEF Init, dcache_init_root, TypeOK, HeapType, Labels, Addr
<1>2. HeapInv
  BY DEF Init, dcache_init_root, HeapInv, Addr
<1>3. ASSUME NEW t \in Threads PROVE ThreadInv(t) /\ WalkInv(t)
  BY DEF Init, ThreadInv, WalkInv, OnWalk, Inserting
<1>. QED  BY <1>1, <1>2, <1>3 DEF IInv

(* Every step, of any thread, preserves the invariant.                     *)
LEMMA NextKeepsInv ==
  ASSUME InnerNamesFit, IInv, [Next]_vars
  PROVE  IInv'
<1>1. CASE UNCHANGED vars
  <2>1. TypeOK'
    BY <1>1, Zenon DEF IInv, TypeOK, HeapType, vars, heap, locals
  <2>2. HeapInv' /\ Grows
    BY <1>1, NoStore DEF vars
  <2>3. \A u \in Threads : Idles(u)
    BY <1>1 DEF vars, locals, Idles
  <2>. QED  BY <2>1, <2>2, <2>3, OthersKeepInv DEF IInv
<1>2. ASSUME NEW t \in Threads, Call(t) \/ Step(t) \/ InsertReloads(t) PROVE IInv'
  BY <1>2, CallKeepsInv, LookupKeepsInv, WalkKeepsInv, InsertKeepsInv, Zenon DEF Step
<1>. QED  BY <1>1, <1>2, ZenonT(30) DEF Next, Finished

(* The inductive invariant holds in every reachable state, however the     *)
(* loads and stores of the threads interleave.                             *)
THEOREM Inductive ==
  ASSUME InnerNamesFit
  PROVE  Spec => []IInv
<1>1. IInv /\ [Next]_vars => IInv'
  BY NextKeepsInv
<1>. QED  BY InitEstablishesInv, <1>1, PTL DEF Spec

(* Type correctness: in particular no thread follows a NULL pointer and no *)
(* thread runs past the end of its path.                                   *)
THEOREM TypeCorrect ==
  ASSUME InnerNamesFit
  PROVE  Spec => []TypeOK
<1>1. IInv => TypeOK  BY DEF IInv
<1>. QED  BY Inductive, <1>1, PTL

(* inode_get_idx_by_path returns what the disk says of the path, for any   *)
(* number of threads racing on the unlocked cache.                         *)
THEOREM ResolutionCorrect ==
  ASSUME InnerNamesFit
  PROVE  Spec => []ResolvesToDisk
<1>1. IInv => ResolvesToDisk
  BY ZenonT(30) DEF IInv, WalkInv, OnWalk, ResolvesToDisk
<1>. QED  BY Inductive, <1>1, PTL

(* Whatever a thread can reach from an entry is an entry of that           *)
(* directory, with the inode the disk gives it.                            *)
THEOREM CacheCoherent ==
  ASSUME InnerNamesFit
  PROVE  Spec => []EntriesMatchDisk
<1>1. IInv => EntriesMatchDisk
  <2>. SUFFICES ASSUME IInv, NEW p \in Addr, NEW e \in Entries,
                       childs[p] = e \/ \E f \in Entries : owner[f] = p /\ siblings[f] = e
                PROVE  owner[e] = p /\ inode[e] = Disk[<<inode[p], name[e]>>] /\ inode[e] # 0
    BY Zenon DEF EntriesMatchDisk
  <2>1. owner[e] = p
    BY DEF IInv, TypeOK, HeapType, HeapInv
  <2>2. p # Nil
    BY DEF Addr
  <2>. QED  BY <2>1, <2>2, ZenonT(30) DEF IInv, HeapInv
<1>. QED  BY Inductive, <1>1, PTL

-----------------------------------------------------------------------------
(* A circular list with the successors s, and c in it; and a list with     *)
(* such a ring of the entries L, where no two of C have the same name.     *)
RingOf(c, s, L) ==
  /\ c \in L
  /\ \A e \in L : s[e] \in L
  /\ \A S \in (SUBSET L) \ {{}, L} : \E e \in S : s[e] \notin S
OneEach(nm, C) == \A e, f \in C : nm[e] = nm[f] => e = f

(* The lists, before and after a step, in these terms.                     *)
LEMMA ListIs ==
  ASSUME NEW t, NEW p
  PROVE  /\ ListInv(t, p) <=>
              /\ childs[p] # Nil => childs[p] \in Linked(t, p)
              /\ Linked(t, p) # {} => RingOf(childs[p], siblings, Linked(t, p))
              /\ OneEach(name, Children(p))
         /\ ListInv(t, p)' <=>
              /\ childs'[p] # Nil => childs'[p] \in Linked(t, p)'
              /\ Linked(t, p)' # {} => RingOf(childs'[p], siblings', Linked(t, p)')
              /\ OneEach(name', Children(p)')
BY Zenon DEF ListInv, Ring, RingOf, OneEach

(* Only the successors within a ring matter, and any member can be the one *)
(* that is pointed to.                                                     *)
LEMMA RingSame ==
  ASSUME NEW c, NEW s, NEW L, RingOf(c, s, L), NEW c2 \in L, NEW s2,
         \A e \in L : s2[e] = s[e]
  PROVE  RingOf(c2, s2, L)
<1>1. \A e \in L : s2[e] \in L
  BY Zenon DEF RingOf
<1>2. ASSUME NEW S \in (SUBSET L) \ {{}, L} PROVE \E e \in S : s2[e] \notin S
  <2>1. PICK e \in S : s[e] \notin S
    BY <1>2, Zenon DEF RingOf
  <2>2. e \in L
    BY <1>2
  <2>. QED  BY <2>1, <2>2
<1>. QED  BY <1>1, <1>2, Zenon DEF RingOf

(* Linking a new entry n behind r keeps a circular list circular: this is  *)
(* the order of the two stores of dcache_insert, siblings of the new entry *)
(* first, siblings of the old one second.                                  *)
LEMMA RingGrows ==
  ASSUME NEW C, NEW s, NEW s2, NEW r \in C, NEW n, n \notin C, RingOf(r, s, C),
         s2[n] = s[r], s2[r] = n, \A e \in C : e # r => s2[e] = s[e]
  PROVE  RingOf(r, s2, C \cup {n})
<1>0. /\ \A e \in C : s[e] \in C
      /\ \A S \in (SUBSET C) \ {{}, C} : \E e \in S : s[e] \notin S
  BY Zenon DEF RingOf
<1>1. \A e \in C \cup {n} : s2[e] \in C \cup {n}
  BY <1>0
<1>2. ASSUME NEW S \in SUBSET (C \cup {n}), S # {}, \A e \in S : s2[e] \in S
      PROVE  S = C \cup {n}
  <2>. DEFINE T == S \ {n}
  <2>1. T \subseteq C  OBVIOUS
  <2>2. T # {}
    <3>1. s2[n] # n  BY <1>0
    <3>. QED  BY <1>2, <3>1
  <2>3. \A e \in T : s[e] \in T
    <3>. TAKE e \in T
    <3>1. e \in C /\ s[e] \in C /\ s[e] # n  BY <1>0, <2>1
    <3>2. CASE e = r
      <4>1. n \in S  BY <3>2, <1>2
      <4>. QED  BY <4>1, <3>1, <3>2, <1>2
    <3>3. CASE e # r
      BY <3>1, <3>3, <1>2
    <3>. QED  BY <3>2, <3>3
  <2>. HIDE DEF T
  <2>4. T = C
    <3>1. T \in SUBSET C  BY <2>1
    <3>. QED  BY <1>0, <2>2, <2>3, <3>1, Zenon
  <2>. USE DEF T
  <2>5. n \in S
    BY <2>4, <1>2
  <2>. QED  BY <2>4, <2>5
<1>3. ASSUME NEW S \in (SUBSET (C \cup {n})) \ {{}, C \cup {n}} PROVE \E e \in S : s2[e] \notin S
  BY <1>2, <1>3, Zenon
<1>4. r \in C \cup {n}  OBVIOUS
<1>. QED  BY <1>1, <1>3, <1>4, Zenon DEF RingOf

(* A list to which a step links nothing, and whose childs pointer it moves *)
(* at most to another member, is kept.                                     *)
LEMMA ListKept ==
  ASSUME NEW t, NEW p, ListInv(t, p), Linked(t, p)' = Linked(t, p),
         childs'[p] = childs[p] \/ childs'[p] \in Linked(t, p),
         \A e \in Linked(t, p) : siblings'[e] = siblings[e],
         OneEach(name', Children(p)')
  PROVE  ListInv(t, p)'
<1>. DEFINE L == Linked(t, p)
<1>1. /\ childs[p] # Nil => childs[p] \in L
      /\ L # {} => RingOf(childs[p], siblings, L)
  BY ListIs
<1>2. /\ childs'[p] = childs[p] \/ childs'[p] \in L
      /\ \A e \in L : siblings'[e] = siblings[e]
  OBVIOUS
<1>. HIDE DEF L
<1>3. childs'[p] # Nil => childs'[p] \in L
  BY <1>1, <1>2, Zenon
<1>4. L # {} => RingOf(childs'[p], siblings', L)
  <2>. SUFFICES ASSUME L # {} PROVE RingOf(childs'[p], siblings', L)
    OBVIOUS
  <2>1. RingOf(childs[p], siblings, L)
    BY <1>1
  <2>2. childs'[p] \in L
    BY <2>1, <1>2, Zenon DEF RingOf
  <2>. QED  BY <2>1, <2>2, <1>2, RingSame, Zenon
<1>5. Linked(t, p)' = L
  BY DEF L
<1>. QED  BY <1>3, <1>4, <1>5, ListIs, Zenon

(* A list that a step makes a ring.                                        *)
LEMMA ListMade ==
  ASSUME NEW t, NEW p, NEW L, Linked(t, p)' = L, RingOf(childs'[p], siblings', L),
         OneEach(name', Children(p)')
  PROVE  ListInv(t, p)'
<1>1. childs'[p] \in L
  BY Zenon DEF RingOf
<1>. QED  BY <1>1, ListIs, Zenon

(* A step that links nothing, and moves a childs pointer at most to        *)
(* another member of the list, keeps the lists.                            *)
LEMMA ListsKept ==
  ASSUME NEW t \in Threads, \A p \in Addr : ListInv(t, p),
         siblings' = siblings, name' = name, owner' = owner,
         \A p \in Addr : Linked(t, p)' = Linked(t, p),
         \A p \in Addr : childs'[p] = childs[p] \/ childs'[p] \in Linked(t, p)
  PROVE  \A p \in Addr : ListInv(t, p)'
<1>. TAKE p \in Addr
<1>1. ListInv(t, p) /\ Linked(t, p)' = Linked(t, p) /\ Children(p)' = Children(p)
  BY DEF Children
<1>2. OneEach(name', Children(p)')
  BY <1>1, ListIs, Zenon
<1>3. \A e \in Linked(t, p) : siblings'[e] = siblings[e]
  BY Zenon
<1>4. childs'[p] = childs[p] \/ childs'[p] \in Linked(t, p)
  BY Zenon
<1>. QED  BY <1>1, <1>2, <1>3, <1>4, ListKept, Zenon

(* A lone thread outside dcache_insert sees every child in the list.       *)
LEMMA LinkedOutside ==
  ASSUME NEW t \in Threads, pc[t] \notin {"ins_test", "ins_sib", "ins_link"}
  PROVE  \A p : Linked(t, p) = Children(p)
BY DEF Linked

(* The search of a lone thread: it passes the entries of the list one by   *)
(* one, and it gives up only after it has passed them all.                 *)
LEMMA LoneLookup ==
  ASSUME IInv, NEW t \in Threads, SearchInv(t), \A p \in Addr : ListInv(t, p),
         \/ Call(t) \/ LookupEnds(t) \/ LookupStarts(t) \/ LookupHit(t)
         \/ LookupAdvances(t) \/ LookupRepeats(t) \/ LookupMisses(t)
  PROVE  SearchInv(t)' /\ \A p \in Addr : ListInv(t, p)'
<1>0. /\ Parent(t) \in Addr
      /\ childs \in [Addr -> Entries \cup {Nil}] /\ siblings \in [Entries -> Entries \cup {Nil}]
      /\ pc \in [Threads -> Labels] /\ iter \in [Threads -> Entries \cup {Nil}]
      /\ dc \in [Threads -> Entries \cup {Nil}] /\ idx \in [Threads -> Inodes \cup {0}]
  BY ParentFacts DEF IInv, TypeOK, HeapType
<1>1. pc[t] \notin Inserting /\ pc'[t] \notin Inserting /\ siblings' = siblings /\ name' = name /\ owner' = owner
  BY <1>0, Zenon DEF Call, MayCall, LookupEnds, LookupStarts, LookupHit, LookupAdvances, LookupRepeats,
         LookupMisses, LeaveCache, SetChilds, heap, Goto, Inserting
<1>2. \A p : Linked(t, p) = Children(p)
  BY <1>1, LinkedOutside, Zenon DEF Inserting
<1>3. \A p : Children(p)' = Children(p)
  BY <1>1, SMTT(30) DEF Children
<1>4. \A p : Linked(t, p)' = Children(p)
  <2>1. pc'[t] \notin {"ins_test", "ins_sib", "ins_link"}
    BY <1>1, Zenon DEF Inserting
  <2>. QED  BY <2>1, <1>3 DEF Linked
<1>5. \A p \in Addr : childs'[p] = childs[p] \/ childs'[p] \in Children(p)
  <2>1. CASE LookupHit(t)
    <3>1. iter[t] \in Children(Parent(t))
      BY <2>1, LookupFacts DEF LookupHit, InList, Children
    <3>. QED  BY <2>1, <3>1, <1>0 DEF LookupHit, SetChilds
  <2>2. CASE ~LookupHit(t)
    BY <2>2 DEF Call, LookupEnds, LookupStarts, LookupAdvances, LookupRepeats,
         LookupMisses, LeaveCache, heap
  <2>. QED  BY <2>1, <2>2, Zenon
<1>6. \A p \in Addr : ListInv(t, p)'
  BY <1>1, <1>2, <1>4, <1>5, ListsKept, ZenonT(30)
<1>7. SearchInv(t)'
  <2>1. CASE Call(t) \/ LookupHit(t)
    <3>1. pc'[t] = "lookup"
      BY <2>1, <1>0, Zenon DEF Call, LookupHit, Goto
    <3>. QED  BY <3>1 DEF SearchInv, Inserting
  <2>2. CASE LookupEnds(t)
    <3>. USE <2>2 DEF LookupEnds, LeaveCache, heap
    <3>1. pc'[t] = "walk" /\ childs' = childs /\ path' = path /\ pos' = pos /\ dc' = dc
      BY <1>0 DEF Goto
    <3>2. Consumed(t) \/ Children(Parent(t)) = {}
      <4>1. ListInv(t, Parent(t)) /\ Linked(t, Parent(t)) = Children(Parent(t))
        BY <1>0, <1>2
      <4>2. Nil \notin Children(Parent(t))
        BY SMTT(30) DEF Children
      <4>. QED  BY <4>1, <4>2, Zenon DEF ListInv, Ring
    <3>3. Parent(t)' = Parent(t) /\ Consumed(t)' = Consumed(t)
      BY <3>1 DEF Parent, Consumed
    <3>. QED  BY <3>1, <3>2, <3>3, <1>3 DEF SearchInv, Inserting
  <2>3. CASE LookupStarts(t)
    <3>. USE <2>3 DEF LookupStarts, heap
    <3>1. pc'[t] = "match" /\ iter'[t] = childs[Parent(t)] /\ childs' = childs /\ dc' = dc
      BY <1>0 DEF Goto
    <3>2. Passed(t, {})'
      BY <3>1 DEF Passed, Parent
    <3>3. {} \in SUBSET Entries  OBVIOUS
    <3>. QED  BY <3>1, <3>2, <3>3, Zenon DEF SearchInv, Inserting
  <2>4. CASE LookupAdvances(t)
    <3>1. /\ pc[t] = "match" /\ name[iter[t]] # Token(t)
          /\ pc'[t] = "again" /\ iter'[t] = siblings[iter[t]] /\ childs' = childs /\ dc' = dc
          /\ path' = path /\ pos' = pos
      BY <2>4, <1>0 DEF LookupAdvances, heap, Goto
    <3>2. PICK V \in SUBSET Entries : Passed(t, V)
      BY <3>1, Zenon DEF SearchInv
    <3>3. iter[t] \in Children(Parent(t)) /\ iter[t] \in Entries
      BY <3>1, LookupFacts, Zenon DEF InList, Children
    <3>4. Parent(t)' = Parent(t) /\ Token(t)' = Token(t)
      BY <3>1 DEF Parent, Token
    <3>5. PICK W \in SUBSET Entries : W = V \cup {iter[t]}
      BY <3>3
    <3>6. /\ V \subseteq Children(Parent(t)) /\ childs[Parent(t)] \in V \cup {iter[t]}
          /\ \A e \in V : name[e] # Token(t) /\ siblings[e] \in V \cup {iter[t]}
      BY <3>1, <3>2, Zenon DEF Passed
    <3>7. /\ W \subseteq Children(Parent(t)) /\ childs[Parent(t)] \in W
          /\ \A e \in W : name[e] # Token(t) /\ siblings[e] \in W \cup {iter'[t]}
      BY <3>1, <3>3, <3>5, <3>6
    <3>8. Passed(t, W)'
      <4>1. W \subseteq Children(Parent(t))'
        <5>1. Children(Parent(t))' = Children(Parent(t))
          BY <3>4, <1>1 DEF Children
        <5>. QED  BY <3>7, <5>1, Zenon
      <4>2. childs'[Parent(t)'] \in W
        BY <3>1, <3>4, <3>7, Zenon
      <4>3. \A e \in W : name'[e] # Token(t)' /\ siblings'[e] \in W \cup {iter'[t]}
        BY <3>4, <3>7, <1>1, Zenon
      <4>. QED  BY <4>1, <4>2, <4>3, Zenon DEF Passed
    <3>. QED  BY <3>1, <3>8, Zenon DEF SearchInv, Inserting
  <2>5. CASE LookupRepeats(t)
    <3>. USE <2>5 DEF LookupRepeats, heap
    <3>1. pc'[t] = "match" /\ iter' = iter /\ childs' = childs /\ dc' = dc /\ path' = path /\ pos' = pos
      BY <1>0 DEF Goto
    <3>2. PICK V \in SUBSET Entries : Passed(t, V)
      BY Zenon DEF SearchInv
    <3>3. Parent(t)' = Parent(t) /\ Token(t)' = Token(t)
      BY <3>1, Zenon DEF Parent, Token
    <3>4. Passed(t, V)'
      BY <3>1, <3>2, <3>3, <1>1, <1>3 DEF Passed
    <3>. QED  BY <3>1, <3>4, Zenon DEF SearchInv, Inserting
  <2>6. CASE LookupMisses(t)
    <3>1. /\ pc[t] = "again" /\ iter[t] = childs[Parent(t)]
          /\ pc'[t] = "walk" /\ childs' = childs /\ path' = path /\ pos' = pos /\ dc' = dc
      BY <2>6, <1>0 DEF LookupMisses, LeaveCache, heap, Goto
    <3>2. PICK V \in SUBSET Entries : Passed(t, V)
      BY <3>1, Zenon DEF SearchInv
    <3>3. /\ V \subseteq Children(Parent(t)) /\ V # {}
          /\ \A e \in V : name[e] # Token(t) /\ siblings[e] \in V
      <4>1. childs[Parent(t)] \in V
        BY <3>1, <3>2 DEF Passed
      <4>. QED  BY <3>1, <3>2, <4>1 DEF Passed
    <3>4. RingOf(childs[Parent(t)], siblings, Children(Parent(t)))
      <4>1. ListInv(t, Parent(t)) /\ Linked(t, Parent(t)) = Children(Parent(t))
        BY <1>0, <1>2, Zenon
      <4>2. Children(Parent(t)) # {}
        BY <3>3
      <4>3. Ring(Parent(t), Children(Parent(t)))
        BY <4>1, <4>2, Zenon DEF ListInv
      <4>. QED  BY <4>3, Zenon DEF Ring, RingOf
    <3>5. V = Children(Parent(t))
      <4>1. V \in SUBSET Children(Parent(t))
        BY <3>3, Zenon
      <4>. QED  BY <3>3, <3>4, <4>1, Zenon DEF RingOf
    <3>6. Parent(t)' = Parent(t) /\ Token(t)' = Token(t)
      BY <3>1 DEF Parent, Token
    <3>7. Children(Parent(t))' = V
      BY <3>5, <3>6, <1>1 DEF Children
    <3>. QED  BY <3>1, <3>3, <3>6, <3>7, <1>1, Zenon DEF SearchInv, Inserting
  <2>. QED  BY <2>1, <2>2, <2>3, <2>4, <2>5, <2>6
<1>. QED  BY <1>6, <1>7, Zenon

(* A lone thread that reads a directory caches a name its list does not    *)
(* have: the list was searched, or the parent has just been allocated.     *)
LEMMA LoneWalk ==
  ASSUME InnerNamesFit, IInv, NEW t \in Threads, SearchInv(t), \A p \in Addr : ListInv(t, p),
         WalkEnds(t) \/ WalkFails(t) \/ WalkUncached(t) \/ WalkInserts(t)
  PROVE  SearchInv(t)' /\ \A p \in Addr : ListInv(t, p)'
<1>0. /\ Parent(t) \in Addr /\ Parent(t) # Nil
      /\ owner \in [Entries -> Addr \cup {Nil}] /\ name \in [Entries -> Names \cup {Nil}]
      /\ pc \in [Threads -> Labels] /\ new \in [Threads -> Entries \cup {Nil}]
      /\ pos \in [Threads -> Nat]
  BY ParentFacts DEF IInv, TypeOK, HeapType
<1>1. pc[t] = "walk"
  BY DEF WalkEnds, WalkFails, WalkUncached, WalkInserts
<1>2. \A p : Linked(t, p) = Children(p)
  BY <1>1, LinkedOutside
<1>3. CASE WalkEnds(t) \/ WalkFails(t) \/ WalkUncached(t)
  <2>1. /\ pc'[t] \in {"walk", "done"}
        /\ childs' = childs /\ siblings' = siblings /\ name' = name /\ owner' = owner
    BY <1>3, <1>0, <1>1, Zenon DEF WalkEnds, WalkFails, WalkUncached, Goto, heap
  <2>2. \A p : Linked(t, p)' = Children(p)
    BY <2>1, Zenon DEF Linked, Children
  <2>3. \A p \in Addr : ListInv(t, p)'
    BY <1>2, <2>1, <2>2, ListsKept, Zenon
  <2>4. CASE pc'[t] = "done"
    BY <2>3, <2>4 DEF SearchInv, Inserting
  <2>5. CASE pc'[t] = "walk"
    <3>1. WalkUncached(t)
      BY <1>3, <2>5, <1>0, Zenon DEF WalkEnds, WalkFails, Goto
    <3>2. path'[t] = path[t] /\ pos'[t] = pos[t] + 1 /\ ~Consumed(t) /\ ~Fits(path[t][pos[t] + 1])
      BY <3>1, <1>0 DEF WalkUncached, Token
    <3>3. path[t] \in Paths /\ Len(path[t]) \in Nat /\ pos[t] \in Nat /\ pos[t] + 1 \in 1..Len(path[t])
      <4>1. path[t] \in Paths
        BY Zenon DEF IInv, TypeOK
      <4>. QED  BY <3>2, <4>1, PathFacts, Zenon
    <3>4. pos[t] + 1 \notin 1..(Len(path[t]) - 1)
      BY <3>2, <3>3, Zenon DEF InnerNamesFit
    <3>5. pos[t] + 1 = Len(path[t])
      BY <3>3, <3>4, SMTT(30)
    <3>6. Consumed(t)'
      BY <3>2, <3>5, Zenon DEF Consumed
    <3>. QED  BY <2>3, <2>5, <3>6 DEF SearchInv, Inserting
  <2>. QED  BY <2>1, <2>4, <2>5
<1>4. CASE WalkInserts(t)
  <2>1. PICK q \in Addr : q = Parent(t) /\ q # Nil
    BY <1>0
  <2>2. PICK e \in Free :
          /\ owner' = [owner EXCEPT ![e] = q] /\ name' = [name EXCEPT ![e] = Token(t)]
          /\ childs' = childs /\ siblings' = siblings /\ new' = [new EXCEPT ![t] = e]
          /\ pc' = [pc EXCEPT ![t] = "ins_test"]
    <3>1. (CHOOSE f \in Free : TRUE) \in Free
      BY <1>4 DEF WalkInserts
    <3>. QED  BY <1>4, <2>1, <3>1, Zenon DEF WalkInserts, NewEntry, Goto
  <2>3. e \in Entries /\ owner[e] = Nil /\ e # q
    BY <2>1, <2>2, <1>0, ParentFacts DEF Free, Addr
  <2>4. new'[t] = e /\ pc'[t] = "ins_test"
    BY <2>2, <1>0
  <2>5. \A f \in Entries : f # e => owner'[f] = owner[f] /\ name'[f] = name[f]
    BY <2>2, <2>3, <1>0
  <2>6. owner'[e] = q /\ name'[e] = Token(t)
    BY <2>2, <2>3, <1>0
  <2>7. \A p \in Addr : e \notin Children(p) /\ Children(p) \subseteq Entries
    BY <2>3, Zenon DEF Children, Addr
  <2>8. Children(q)' = Children(q) \cup {e}
    BY <2>3, <2>5, <2>6 DEF Children
  <2>9. ASSUME NEW p \in Addr, p # q PROVE Children(p)' = Children(p)
    BY <2>3, <2>5, <2>6, <2>9, Zenon DEF Children, Addr
  <2>10. ASSUME NEW p \in Addr PROVE Linked(t, p)' = Children(p)
    <3>1. Linked(t, p)' = Children(p)' \ {e}
      BY <2>4 DEF Linked
    <3>2. Children(p)' = Children(p) \/ Children(p)' = Children(p) \cup {e}
      BY <2>8, <2>9, <2>10, Zenon
    <3>3. e \notin Children(p)
      BY <2>7, <2>10
    <3>. QED  BY <3>1, <3>2, <3>3
  <2>11. \A f \in Children(q) : name[f] # Token(t)
    BY <1>1, <1>4, <2>1, Zenon DEF WalkInserts, SearchInv
  <2>12. ASSUME NEW p \in Addr PROVE ListInv(t, p)'
    <3>1. ListInv(t, p) /\ Linked(t, p) = Children(p)
      BY <2>12, <1>2, Zenon
    <3>2. OneEach(name, Children(p))
      BY <3>1, ListIs, Zenon
    <3>3. OneEach(name', Children(p)')
      <4>1. \A f \in Children(p) : name'[f] = name[f]
        BY <2>5, <2>7
      <4>2. CASE p # q
        <5>1. Children(p)' = Children(p)
          BY <2>9, <4>2, Zenon
        <5>. QED  BY <3>2, <4>1, <5>1 DEF OneEach
      <4>3. CASE p = q
        <5>1. Children(p)' = Children(p) \cup {e}
          BY <2>8, <4>3
        <5>2. \A f \in Children(p) : name'[f] # name'[e]
          BY <2>6, <2>11, <4>1, <4>3, Zenon
        <5>. QED  BY <3>2, <4>1, <5>1, <5>2, SMTT(30) DEF OneEach
      <4>. QED  BY <4>2, <4>3, Zenon
    <3>4. Linked(t, p)' = Linked(t, p)
      BY <2>10, <3>1
    <3>. QED  BY <3>1, <3>3, <3>4, <2>2, ListKept, Zenon
  <2>13. Children(e)' = {}
    <3>1. \A f \in Entries : owner[f] # e
      <4>1. \A f \in Entries : owner[f] # Nil /\ owner[f] # Root => owner[owner[f]] # Nil
        BY Zenon DEF IInv, HeapInv
      <4>2. e # Nil /\ e # Root
        BY <2>3, Zenon
      <4>. QED  BY <2>3, <4>1, <4>2, Zenon
    <3>2. \A f \in Entries : owner'[f] # e
      BY <2>3, <2>5, <2>6, <3>1, Zenon
    <3>. QED  BY <3>2 DEF Children
  <2>. QED  BY <2>4, <2>12, <2>13 DEF SearchInv, Inserting
<1>. QED  BY <1>3, <1>4, Zenon

(* A lone thread returns from dcache_insert to an entry without children.  *)
LEMMA LoneReturn ==
  ASSUME IInv, NEW t \in Threads, SearchInv(t), pc[t] \in Inserting,
         InsertReturns(t), owner' = owner
  PROVE  SearchInv(t)' /\ pc'[t] = "walk"
<1>1. pc'[t] = "walk" /\ dc'[t] = new[t] /\ new[t] \in Entries
  BY InsertFacts DEF IInv, TypeOK, InsertReturns, Goto
<1>2. Parent(t)' = new[t]
  BY <1>1 DEF Parent, OrRoot
<1>3. Children(Parent(t))' = {}
  BY <1>2, Zenon DEF SearchInv, Children
<1>. QED  BY <1>1, <1>3 DEF SearchInv, Inserting

(* A list of one entry has no proper part.                                 *)
LEMMA SubsetsOfOne ==
  ASSUME NEW n
  PROVE  (SUBSET {n}) \ {{}, {n}} = {}
  OBVIOUS

(* A store changes one field only.                                         *)
LEMMA StoreElsewhere ==
  ASSUME NEW D, NEW R, NEW g \in [D -> R], NEW a \in D, NEW v, NEW h, h = [g EXCEPT ![a] = v]
  PROVE  h[a] = v /\ \A f \in D : f # a => h[f] = g[f]
  BY Zenon

(* The stores of dcache_insert by a lone thread: the new entry is outside  *)
(* every list until the second store of its two siblings stores.           *)
LEMMA LoneInsert ==
  ASSUME IInv, NEW t \in Threads, SearchInv(t), \A p \in Addr : ListInv(t, p),
         \/ InsertTests(t) \/ InsertFirst(t) \/ InsertReloads(t)
         \/ InsertCopiesSiblings(t) \/ InsertLinks(t) \/ InsertPublishes(t)
  PROVE  SearchInv(t)' /\ \A p \in Addr : ListInv(t, p)'
<1>0. /\ childs \in [Addr -> Entries \cup {Nil}] /\ siblings \in [Entries -> Entries \cup {Nil}]
      /\ pc \in [Threads -> Labels] /\ reg \in [Threads -> Entries \cup {Nil}]
  BY DEF IInv, TypeOK, HeapType
<1>1. pc[t] \in Inserting
  BY DEF InsertTests, InsertFirst, InsertReloads, InsertCopiesSiblings, InsertLinks,
         InsertPublishes, Inserting
<1>2. PICK q \in Addr : q = Parent(t) /\ q # Nil
  BY ParentFacts, Zenon
<1>3. PICK n \in Entries : n = new[t] /\ owner[n] = q
  BY <1>1, <1>2, InsertFacts
<1>4. owner' = owner /\ name' = name
  BY Zenon DEF InsertTests, InsertFirst, InsertReloads, InsertCopiesSiblings, InsertLinks,
         InsertPublishes, LinkFirst, SetSiblings, SetChilds, heap
<1>5. \A p : Children(p)' = Children(p)
  BY <1>4 DEF Children
<1>6. n \in Children(q) /\ \A p : Children(p) \subseteq Entries
  BY <1>3 DEF Children
<1>7. \A p \in Addr : p # q => n \notin Children(p)
  BY <1>3 DEF Children
<1>8. ASSUME NEW p \in Addr PROVE ListInv(t, p) /\ OneEach(name', Children(p)')
  <2>1. ListInv(t, p)  BY <1>8
  <2>2. OneEach(name, Children(p))
    BY <2>1, ListIs, Zenon
  <2>. QED  BY <2>1, <2>2, <1>4, <1>5, Zenon
<1>9. Children(n) = {}
  BY <1>1, <1>3, Zenon DEF SearchInv
<1>10. Children(n)' = {}
  BY <1>5, <1>9, Zenon
<1>11. CASE InsertTests(t) \/ InsertReloads(t)
  <2>1. /\ childs' = childs /\ siblings' = siblings /\ new' = new /\ dc' = dc
        /\ reg'[t] = childs[Parent(t)]
        /\ pc[t] \in {"ins_test", "ins_sib", "ins_link"}
        /\ pc'[t] \in {"ins_sib", "ins_link"}
        /\ pc'[t] = "ins_link" => pc[t] = "ins_link"
    BY <1>11, <1>0, Zenon DEF InsertTests, InsertReloads, heap, Goto
  <2>2. \A p : Linked(t, p)' = Linked(t, p)
    BY <2>1, <1>5 DEF Linked
  <2>3. \A p \in Addr : ListInv(t, p)'
    BY <2>1, <2>2, <1>4, ListsKept, Zenon
  <2>4. Parent(t)' = q /\ new'[t] = n
    BY <2>1, <1>2, <1>3 DEF Parent
  <2>5. pc[t] = "ins_link" => siblings[n] = siblings[childs[q]]
    BY <1>2, <1>3, Zenon DEF SearchInv
  <2>6. reg'[t] = childs'[Parent(t)']
    BY <2>1, <2>4, <1>2, Zenon
  <2>7. pc'[t] = "ins_link" => siblings'[new'[t]] = siblings'[reg'[t]]
    BY <2>1, <2>4, <2>5, <1>2
  <2>8. Children(new[t])' = {}
    BY <2>4, <1>10, Zenon
  <2>9. pc'[t] \notin {"match", "again", "walk"}
    BY <2>1, ZenonT(30)
  <2>10. SearchInv(t)'
    BY <2>6, <2>7, <2>8, <2>9 DEF SearchInv
  <2>. QED  BY <2>3, <2>10
<1>12. CASE InsertFirst(t)
  <2>1. /\ siblings' = [siblings EXCEPT ![n] = n] /\ childs' = [childs EXCEPT ![q] = n]
        /\ pc[t] = "ins_sib" /\ reg[t] = Nil /\ InsertReturns(t)
    BY <1>12, <1>2, <1>3, Zenon DEF InsertFirst, LinkFirst
  <2>2. Linked(t, q) = Children(q) \ {n}
    BY <2>1, <1>3, Zenon DEF Linked
  <2>3. Linked(t, q) = {}
    <3>1. childs[q] = Nil
      BY <2>1, <1>2, Zenon DEF SearchInv
    <3>2. Nil \notin Linked(t, q)
      BY <2>2, <1>6
    <3>3. Linked(t, q) # {} => childs[q] \in Linked(t, q)
      BY <1>8, ListIs, Zenon DEF RingOf
    <3>. QED  BY <3>1, <3>2, <3>3
  <2>4. Children(q) = {n}
    BY <2>2, <2>3, <1>6, Zenon
  <2>5. SearchInv(t)' /\ pc'[t] = "walk"
    BY <2>1, <1>1, <1>4, LoneReturn
  <2>6. \A p : Linked(t, p)' = Children(p)
    BY <2>5, <1>5 DEF Linked
  <2>7. childs'[q] = n /\ siblings'[n] = n
    BY <2>1, <1>0
  <2>8. ASSUME NEW p \in Addr PROVE ListInv(t, p)'
    <3>1. CASE p = q
      <4>1. RingOf(childs'[q], siblings', {n})
        <5>1. (SUBSET {n}) \ {{}, {n}} = {}
          BY SubsetsOfOne, Zenon
        <5>. QED  BY <2>7, <5>1 DEF RingOf
      <4>2. Linked(t, q)' = {n}
        BY <2>4, <2>6
      <4>3. ListInv(t, q)'
        BY <4>1, <4>2, <1>8, ListMade, Zenon
      <4>. QED  BY <3>1, <4>3, Zenon
    <3>2. CASE p # q
      <4>1. n \notin Children(p)
        BY <3>2, <1>7
      <4>2. Linked(t, p) = Children(p)
        BY <4>1, <1>3 DEF Linked
      <4>3. Linked(t, p)' = Linked(t, p)
        BY <4>2, <2>6, Zenon
      <4>4. childs'[p] = childs[p]
        BY <3>2, <2>1, <1>0
      <4>5. \A f \in Linked(t, p) : siblings'[f] = siblings[f]
        <5>1. \A f \in Entries : f # n => siblings'[f] = siblings[f]
          BY <2>1, <1>0, StoreElsewhere, Zenon
        <5>2. \A f \in Linked(t, p) : f \in Entries /\ f # n
          BY <4>1, <4>2, <1>6, Zenon
        <5>. QED  BY <5>1, <5>2, Zenon
      <4>. QED  BY <4>3, <4>4, <4>5, <1>8, ListKept, Zenon
    <3>. QED  BY <3>1, <3>2
  <2>. QED  BY <2>5, <2>8
<1>13. CASE InsertCopiesSiblings(t)
  <2>1. /\ siblings' = [siblings EXCEPT ![n] = siblings[reg[t]]] /\ childs' = childs
        /\ pc[t] = "ins_sib" /\ reg[t] # Nil
        /\ pc'[t] = "ins_link" /\ new' = new /\ dc' = dc /\ reg' = reg
    BY <1>13, <1>0, <1>3, Zenon DEF InsertCopiesSiblings, SetSiblings, Goto
  <2>2. \A p : Linked(t, p) = Children(p) \ {n}
    BY <2>1, <1>3 DEF Linked
  <2>3. \A p : Linked(t, p)' = Linked(t, p)
    BY <2>1, <1>5 DEF Linked
  <2>4. ASSUME NEW p \in Addr PROVE ListInv(t, p)'
    <3>1. \A f \in Linked(t, p) : siblings'[f] = siblings[f]
      <4>1. \A f \in Entries : f # n => siblings'[f] = siblings[f]
        BY <2>1, <1>0, StoreElsewhere, Zenon
      <4>2. \A f \in Linked(t, p) : f \in Entries /\ f # n
        <5>1. Linked(t, p) = Children(p) \ {n} /\ Children(p) \subseteq Entries
          BY <2>2, <1>6, Zenon
        <5>. QED  BY <5>1, Zenon
      <4>. QED  BY <4>1, <4>2, Zenon
    <3>2. Linked(t, p)' = Linked(t, p) /\ childs'[p] = childs[p]
      BY <2>1, <2>3, Zenon
    <3>. QED  BY <3>1, <3>2, <1>8, ListKept, Zenon
  <2>5. reg[t] = childs[q]
    BY <2>1, <1>2, Zenon DEF SearchInv
  <2>6. reg[t] \in Linked(t, q)
    BY <2>1, <2>5, <1>8, ListIs, Zenon
  <2>7. siblings'[n] = siblings'[reg[t]]
    <3>1. reg[t] # n /\ reg[t] \in Entries
      BY <2>2, <2>6, <1>6
    <3>. QED  BY <2>1, <3>1, <1>0
  <2>8. Parent(t)' = q /\ new'[t] = n /\ reg'[t] = reg[t]
    BY <2>1, <1>2, <1>3 DEF Parent
  <2>9. Children(new[t])' = {}
    BY <2>8, <1>10, Zenon
  <2>10. reg'[t] = childs'[Parent(t)'] /\ siblings'[new'[t]] = siblings'[reg'[t]]
    BY <2>1, <2>5, <2>7, <2>8, Zenon
  <2>11. SearchInv(t)'
    BY <2>1, <2>9, <2>10, Zenon DEF SearchInv
  <2>. QED  BY <2>4, <2>11
<1>14. CASE InsertLinks(t)
  <2>1. PICK r \in Entries : r = reg[t]
    <3>1. reg[t] # Nil
      BY <1>14, Zenon DEF InsertLinks, IInv, ThreadInv, InList
    <3>. QED  BY <3>1, <1>0
  <2>2. /\ siblings' = [siblings EXCEPT ![r] = n] /\ childs' = childs
        /\ pc[t] = "ins_link" /\ pc'[t] = "ins_pub" /\ new' = new
    BY <1>14, <1>0, <1>3, <2>1, Zenon DEF InsertLinks, SetSiblings, Goto
  <2>3. \A p : Linked(t, p) = Children(p) \ {n}
    BY <2>2, <1>3, Zenon DEF Linked
  <2>4. \A p : Linked(t, p)' = Children(p)
    BY <2>2, <1>5 DEF Linked
  <2>5. r = childs[q] /\ siblings[n] = siblings[r]
    BY <2>1, <2>2, <1>2, <1>3, ZenonT(30) DEF SearchInv
  <2>. DEFINE C == Children(q) \ {n}
  <2>6. n \notin C /\ C \cup {n} = Children(q) /\ C \subseteq Entries
    BY <1>6
  <2>7. r \in C /\ RingOf(r, siblings, C)
    <3>1. Linked(t, q) = C /\ r # Nil
      BY <2>3
    <3>2. r \in Linked(t, q)
      BY <2>5, <3>1, <1>8, ListIs, Zenon
    <3>3. Linked(t, q) # {}
      BY <3>2
    <3>4. RingOf(r, siblings, Linked(t, q))
      BY <2>5, <3>3, <1>8, ListIs, Zenon
    <3>. QED  BY <3>1, <3>2, <3>4, Zenon
  <2>. HIDE DEF C
  <2>8. r # n
    BY <2>6, <2>7, Zenon
  <2>9. siblings'[r] = n /\ \A f \in Entries : f # r => siblings'[f] = siblings[f]
    BY <2>2, <1>0, StoreElsewhere, Zenon
  <2>10. RingOf(r, siblings', C \cup {n})
    <3>1. siblings'[n] = siblings[r]
      BY <2>5, <2>8, <2>9, Zenon
    <3>2. \A f \in C : f # r => siblings'[f] = siblings[f]
      BY <2>6, <2>9
    <3>3. siblings'[r] = n
      BY <2>9, Zenon
    <3>. QED  BY <2>6, <2>7, <3>1, <3>2, <3>3, RingGrows, Zenon
  <2>11. ASSUME NEW p \in Addr PROVE ListInv(t, p)'
    <3>1. CASE p = q
      <4>1. RingOf(childs'[q], siblings', Children(q))
        <5>1. childs'[q] = r
          BY <2>2, <2>5
        <5>. QED  BY <2>6, <2>10, <5>1, Zenon
      <4>2. ListInv(t, q)'
        BY <4>1, <2>4, <1>8, ListMade, Zenon
      <4>. QED  BY <3>1, <4>2, Zenon
    <3>2. CASE p # q
      <4>1. n \notin Children(p) /\ Linked(t, p) = Children(p)
        <5>1. n \notin Children(p)
          BY <3>2, <1>7, Zenon
        <5>2. Linked(t, p) = Children(p) \ {n}
          BY <2>3, Zenon
        <5>. QED  BY <5>1, <5>2
      <4>2. owner[r] = q
        BY <2>6, <2>7, Zenon DEF Children
      <4>3. r \notin Children(p)
        BY <3>2, <4>2, Zenon DEF Children
      <4>4. \A f \in Linked(t, p) : siblings'[f] = siblings[f]
        <5>1. \A f \in Linked(t, p) : f \in Entries /\ f # r
          BY <4>1, <4>3, <1>6, ZenonT(30)
        <5>. QED  BY <5>1, <2>9, Zenon
      <4>5. Linked(t, p)' = Linked(t, p) /\ childs'[p] = childs[p]
        BY <4>1, <2>2, <2>4, Zenon
      <4>. QED  BY <4>4, <4>5, <1>8, ListKept, Zenon
    <3>. QED  BY <3>1, <3>2
  <2>12. Children(new[t])' = {}
    <3>1. new'[t] = n
      BY <2>2, <1>3
    <3>. QED  BY <3>1, <1>10, Zenon
  <2>13. SearchInv(t)'
    BY <2>2, <2>12 DEF SearchInv
  <2>. QED  BY <2>11, <2>13
<1>15. CASE InsertPublishes(t)
  <2>1. /\ childs' = [childs EXCEPT ![q] = n] /\ siblings' = siblings
        /\ pc[t] = "ins_pub" /\ InsertReturns(t)
    BY <1>15, <1>2, <1>3, Zenon DEF InsertPublishes, SetChilds
  <2>2. SearchInv(t)' /\ pc'[t] = "walk"
    BY <2>1, <1>1, <1>4, LoneReturn
  <2>3. \A p : Linked(t, p)' = Linked(t, p) /\ Linked(t, p) = Children(p)
    BY <2>1, <2>2, <1>5, Zenon DEF Linked
  <2>4. \A p \in Addr : childs'[p] = childs[p] \/ childs'[p] \in Linked(t, p)
    BY <2>1, <2>3, <1>0, <1>6
  <2>. QED  BY <2>1, <2>2, <2>3, <2>4, <1>4, ListsKept, Zenon
<1>. QED  BY <1>11, <1>12, <1>13, <1>14, <1>15, Zenon

(* A thread that takes a step has made a request, so no other thread is    *)
(* alone after it; and a thread that is alone after its own step was       *)
(* alone before it.                                                        *)
LEMMA OnlyMoverAlone ==
  ASSUME IInv, NEW u \in Threads, Call(u) \/ Step(u) \/ InsertReloads(u),
         NEW t \in Threads, Alone(t)'
  PROVE  t = u /\ Alone(t)
<1>1. pc \in [Threads -> Labels]
  BY DEF IInv, TypeOK
<1>2. PICK l : l # "idle" /\ pc' = [pc EXCEPT ![u] = l]
  <2>1. CASE WalkUncached(u) \/ InsertReloads(u)
    <3>1. pc' = [pc EXCEPT ![u] = pc[u]] /\ pc[u] # "idle"
      BY <2>1, <1>1 DEF WalkUncached, InsertReloads
    <3>. QED  BY <3>1
  <2>2. CASE ~(WalkUncached(u) \/ InsertReloads(u))
    BY <2>2, Zenon DEF Call, Step, Goto, LookupEnds, LookupStarts, LookupHit, LookupAdvances, LookupRepeats,
      LookupMisses, LeaveCache, WalkEnds, WalkFails, WalkInserts, InsertTests, InsertFirst,
      InsertCopiesSiblings, InsertLinks, InsertPublishes, InsertReturns
  <2>. QED  BY <2>1, <2>2
<1>3. t = u
  BY <1>1, <1>2 DEF Alone
<1>. QED  BY <1>1, <1>2, <1>3, Zenon DEF Alone

(* Every step keeps the tree of a lone thread.                             *)
LEMMA NextKeepsLone ==
  ASSUME InnerNamesFit, IInv, LoneInv, [Next]_vars
  PROVE  LoneInv'
<1>1. CASE UNCHANGED vars
  <2>. SUFFICES ASSUME NEW t \in Threads, Alone(t)'
                PROVE  SearchInv(t)' /\ \A p \in Addr : ListInv(t, p)'
    BY DEF LoneInv
  <2>1. /\ childs' = childs /\ siblings' = siblings /\ name' = name /\ owner' = owner
        /\ pc' = pc /\ path' = path /\ pos' = pos /\ dc' = dc /\ iter' = iter /\ reg' = reg
        /\ new' = new
    BY <1>1 DEF vars, heap, locals
  <2>2. SearchInv(t) /\ \A p \in Addr : ListInv(t, p)
    <3>1. Alone(t)
      BY <2>1 DEF Alone
    <3>. QED  BY <3>1, Zenon DEF LoneInv
  <2>3. \A p : Linked(t, p)' = Linked(t, p)
    BY <2>1 DEF Linked, Children
  <2>4. \A p \in Addr : ListInv(t, p)'
    BY <2>1, <2>2, <2>3, ListsKept, Zenon
  <2>5. SearchInv(t)'
    BY <2>1, <2>2, ZenonT(30) DEF SearchInv, Passed, Children, Parent, Token, Consumed
  <2>. QED  BY <2>4, <2>5
<1>2. ASSUME NEW u \in Threads, Call(u) \/ Step(u) \/ InsertReloads(u) PROVE LoneInv'
  <2>. SUFFICES ASSUME NEW t \in Threads, Alone(t)'
                PROVE  SearchInv(t)' /\ \A p \in Addr : ListInv(t, p)'
    BY DEF LoneInv
  <2>1. t = u /\ Alone(t)
    BY <1>2, OnlyMoverAlone
  <2>2. SearchInv(t) /\ \A p \in Addr : ListInv(t, p)
    BY <2>1 DEF LoneInv
  <2>3. Call(t) \/ Step(t) \/ InsertReloads(t)
    BY <1>2, <2>1
  <2>. QED  BY <2>2, <2>3, LoneLookup, LoneWalk, LoneInsert, Zenon DEF Step
<1>. QED  BY <1>1, <1>2, ZenonT(30) DEF Next, Finished

(* As long as one thread makes all the requests, the cache is a tree of    *)
(* circular lists: dcache_insert neither loses an entry nor splits a list, *)
(* and dcache_lookup finds what is cached, so no name is inserted twice.   *)
THEOREM TreeCorrect ==
  ASSUME InnerNamesFit
  PROVE  Spec => []TreeSafe
<1>1. Init => LoneInv
  <2>. SUFFICES ASSUME Init, NEW t \in Threads
                PROVE  SearchInv(t) /\ \A p \in Addr : ListInv(t, p)
    BY DEF LoneInv
  <2>1. \A p \in Addr : Children(p) = {} /\ childs[p] = Nil
    BY Zenon DEF Init, dcache_init_root, Children, Addr
  <2>2. pc[t] = "idle"
    BY DEF Init
  <2>. QED  BY <2>1, <2>2 DEF SearchInv, ListInv, Linked, Inserting
<1>2. IInv /\ LoneInv /\ [Next]_vars => LoneInv'
  BY NextKeepsLone
<1>3. LoneInv => TreeSafe
  <2>. SUFFICES ASSUME LoneInv, NEW t \in Threads, Alone(t), pc[t] \notin Inserting, NEW p \in Addr,
                       Children(p) # {}
                PROVE  Ring(p, Children(p)) /\ \A e, f \in Children(p) : name[e] = name[f] => e = f
    BY Zenon DEF TreeSafe
  <2>1. ListInv(t, p)  BY DEF LoneInv
  <2>2. Linked(t, p) = Children(p)
    BY LinkedOutside DEF Inserting
  <2>. QED  BY <2>1, <2>2, Zenon DEF ListInv
<1>. QED  BY Inductive, <1>1, <1>2, <1>3, PTL DEF Spec
=============================================================================
