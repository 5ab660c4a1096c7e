----------------------------- MODULE PathLookup -----------------------------
(***************************************************************************)
(* Path resolution (fuse/inode.c, inode_get_idx_by_path) by the threads of *)
(* the FUSE session over the shared directory entry cache.  A thread first *)
(* follows the cache (get_cached_inode_num, dcache_lookup) and then reads  *)
(* the remaining directories from the disk, inserting what it finds        *)
(* (dcache_insert).                                                        *)
(*                                                                         *)
(* Disk is the answer of the scan of a directory's entries: the inode of   *)
(* a name in a directory, 0 if there is none.  The image is never written, *)
(* so Disk is a constant.  The kernel resolves the components of a path in *)
(* order, hence no component but the last is a regular file: Disk answers  *)
(* 0 below a file, and the S_ISDIR test of the scanned inode is true       *)
(* whenever Disk answers.                                                  *)
(***************************************************************************)
EXTENDS Dcache, Sequences

CONSTANTS
  Threads,   \* threads of the FUSE session
  Paths,     \* paths requested, as sequences of tokens
  Disk,      \* Disk[<<i, n>>]: the inode of name n in directory i, or 0
  MaxCalls,  \* bound: number of requests of a behaviour
  MaxRacing  \* bound: number of requests once two threads take part

ASSUME PathAssumption == Paths \subseteq Seq(Names) /\ <<>> \in Paths  \* "/" is one
ASSUME DiskAssumption == Disk \in [Inodes \X Names -> Inodes \cup {0}]
ASSUME MaxCallsAssumption == MaxCalls \in Nat

VARIABLES
  pc,     \* where the thread is
  path,   \* the path argument
  pos,    \* number of its tokens already consumed
  dc,     \* ret of get_cached_inode_num, then dc_entry
  idx,    \* inode_idx
  iter,   \* iter of dcache_lookup
  reg,    \* the value of parent->childs that dcache_insert works with
  new,    \* new_entry
  calls   \* requests made so far

locals == <<pc, path, pos, dc, idx, iter, reg, new>>
vars == <<heap, locals, calls>>

Inserting == {"ins_test", "ins_sib", "ins_link", "ins_pub"}
Labels == {"idle", "lookup", "match", "again", "walk", "done"} \cup Inserting

TypeOK ==
  /\ HeapType
  /\ pc \in [Threads -> Labels]
  /\ path \in [Threads -> Paths]
  /\ pos \in [Threads -> Nat] /\ \A t \in Threads : pos[t] <= Len(path[t])
  /\ dc \in [Threads -> Entries \cup {Nil}]
  /\ idx \in [Threads -> Inodes \cup {0}]
  /\ iter \in [Threads -> Entries \cup {Nil}]
  /\ reg \in [Threads -> Entries \cup {Nil}]
  /\ new \in [Threads -> Entries \cup {Nil}]
  /\ calls \in 0..MaxCalls

Init ==
  /\ dcache_init_root(ROOT_INODE_N)
  /\ pc = [t \in Threads |-> "idle"]
  /\ path = [t \in Threads |-> <<>>]
  /\ pos = [t \in Threads |-> 0]
  /\ dc = [t \in Threads |-> Nil]
  /\ idx = [t \in Threads |-> 0]
  /\ iter = [t \in Threads |-> Nil]
  /\ reg = [t \in Threads |-> Nil]
  /\ new = [t \in Threads |-> Nil]
  /\ calls = 0

Goto(t, label) == pc' = [pc EXCEPT ![t] = label]
Consumed(t) == pos[t] = Len(path[t])
Token(t) == path[t][pos[t] + 1]
Parent(t) == OrRoot(dc[t])

-----------------------------------------------------------------------------
(* No thread but t has made a request yet.                                 *)
Alone(t) == \A u \in Threads \ {t} : pc[u] = "idle"

MayCall(t) ==
  /\ pc[t] \in {"idle", "done"}
  /\ calls < MaxCalls
  /\ Alone(t) \/ calls < MaxRacing

(* Mutant: the number of consumed tokens of the last request is kept.      *)
CallKeepsPos(t) ==
  /\ MayCall(t)
  /\ calls' = calls + 1
  /\ path' \in {[path EXCEPT ![t] = p] : p \in Paths}
  /\ dc' = [dc EXCEPT ![t] = Nil]
  /\ Goto(t, "lookup")
  /\ UNCHANGED <<heap, pos, idx, iter, reg, new>>

(* A request: getattr, open, readdir and readlink resolve their path.      *)
Call(t) ==
  /\ MayCall(t)
  /\ calls' = calls + 1
  /\ path' \in {[path EXCEPT ![t] = p] : p \in Paths}
  /\ pos' = [pos EXCEPT ![t] = 0]
  /\ dc' = [dc EXCEPT ![t] = Nil]
  /\ Goto(t, "lookup")
  /\ UNCHANGED <<heap, idx, iter, reg, new>>

(* get_cached_inode_num is over: the walk starts at the entry it returns.  *)
LeaveCache(t) ==
  /\ Goto(t, "walk")
  /\ idx' = [idx EXCEPT ![t] = dcache_get_inode(dc[t])]
  /\ UNCHANGED <<heap, path, pos, dc, iter, reg, new, calls>>

(* Entry of dcache_lookup for the next token: no token left, or no child.  *)
LookupEnds(t) ==
  /\ pc[t] = "lookup"
  /\ Consumed(t) \/ childs[Parent(t)] = Nil
  /\ LeaveCache(t)

LookupStarts(t) ==
  /\ pc[t] = "lookup"
  /\ ~Consumed(t)
  /\ childs[Parent(t)] # Nil
  /\ iter' = [iter EXCEPT ![t] = childs[Parent(t)]]
  /\ Goto(t, "match")
  /\ UNCHANGED <<heap, path, pos, dc, idx, reg, new, calls>>

(* Mutant: the next token is looked up below the same parent.              *)
LookupHitStays(t) ==
  /\ pc[t] = "match"
  /\ name[iter[t]] = Token(t)
  /\ SetChilds(Parent(t), iter[t])
  /\ pos' = [pos EXCEPT ![t] = @ + 1]
  /\ Goto(t, "lookup")
  /\ UNCHANGED <<path, dc, idx, iter, reg, new, calls>>

(* The entry matches: the parent is made to point to it (a store another   *)
(* thread may see at any time) and the next token is looked up below it.   *)
LookupHit(t) ==
  /\ pc[t] = "match"
  /\ name[iter[t]] = Token(t)
  /\ SetChilds(Parent(t), iter[t])
  /\ dc' = [dc EXCEPT ![t] = iter[t]]
  /\ pos' = [pos EXCEPT ![t] = @ + 1]
  /\ Goto(t, "lookup")
  /\ UNCHANGED <<path, idx, iter, reg, new, calls>>

LookupAdvances(t) ==
  /\ pc[t] = "match"
  /\ name[iter[t]] # Token(t)
  /\ iter' = [iter EXCEPT ![t] = siblings[iter[t]]]
  /\ Goto(t, "again")
  /\ UNCHANGED <<heap, path, pos, dc, idx, reg, new, calls>>

(* Mutant: the walk round the list has no end.                             *)
LookupRepeatsForever(t) ==
  /\ pc[t] = "again"
  /\ Goto(t, "match")
  /\ UNCHANGED <<heap, path, pos, dc, idx, iter, reg, new, calls>>

(* while (iter != parent->childs): the pointer is loaded again.            *)
LookupRepeats(t) ==
  /\ pc[t] = "again"
  /\ iter[t] # childs[Parent(t)]
  /\ Goto(t, "match")
  /\ UNCHANGED <<heap, path, pos, dc, idx, iter, reg, new, calls>>

LookupMisses(t) ==
  /\ pc[t] = "again"
  /\ iter[t] = childs[Parent(t)]
  /\ LeaveCache(t)

-----------------------------------------------------------------------------
(* The directory with inode idx is scanned for the token.                  *)
Found(t) == Disk[<<idx[t], Token(t)>>]

WalkEnds(t) ==
  /\ pc[t] = "walk"
  /\ Consumed(t)
  /\ Goto(t, "done")
  /\ UNCHANGED <<heap, path, pos, dc, idx, iter, reg, new, calls>>

WalkFails(t) ==
  /\ pc[t] = "walk"
  /\ ~Consumed(t)
  /\ Found(t) = 0
  /\ idx' = [idx EXCEPT ![t] = 0]
  /\ Goto(t, "done")
  /\ UNCHANGED <<heap, path, pos, dc, iter, reg, new, calls>>

(* dcache_insert returns NULL for a name that does not fit, and the walk   *)
(* goes on with that NULL as its parent entry.                             *)
WalkUncached(t) ==
  /\ pc[t] = "walk"
  /\ ~Consumed(t)
  /\ Found(t) # 0
  /\ ~Fits(Token(t))
  /\ idx' = [idx EXCEPT ![t] = Found(t)]
  /\ dc' = [dc EXCEPT ![t] = Nil]
  /\ pos' = [pos EXCEPT ![t] = @ + 1]
  /\ UNCHANGED <<heap, pc, path, iter, reg, new, calls>>

WalkInserts(t) ==
  /\ pc[t] = "walk"
  /\ ~Consumed(t)
  /\ Found(t) # 0
  /\ Fits(Token(t))
  /\ Free # {}
  /\ idx' = [idx EXCEPT ![t] = Found(t)]
  /\ LET e == CHOOSE f \in Free : TRUE
     IN  /\ NewEntry(e, Parent(t), Token(t), Found(t))
         /\ new' = [new EXCEPT ![t] = e]
  /\ Goto(t, "ins_test")
  /\ UNCHANGED <<path, pos, dc, iter, reg, calls>>

(* dcache_insert returns the new entry, and the walk goes on below it.     *)
InsertReturns(t) ==
  /\ dc' = [dc EXCEPT ![t] = new[t]]
  /\ pos' = [pos EXCEPT ![t] = @ + 1]
  /\ Goto(t, "walk")
  /\ UNCHANGED <<path, idx, iter, reg, new, calls>>

(* if (!parent->childs)                                                    *)
InsertTests(t) ==
  /\ pc[t] = "ins_test"
  /\ reg' = [reg EXCEPT ![t] = childs[Parent(t)]]
  /\ Goto(t, "ins_sib")
  /\ UNCHANGED <<heap, path, pos, dc, idx, iter, new, calls>>

InsertFirst(t) ==
  /\ pc[t] = "ins_sib"
  /\ reg[t] = Nil
  /\ LinkFirst(Parent(t), new[t])
  /\ InsertReturns(t)

(* The else branch reads parent->childs twice more; the compiler may keep  *)
(* the first value or load it again before each use.                       *)
InsertReloads(t) ==
  /\ pc[t] \in {"ins_sib", "ins_link"}
  /\ reg[t] # Nil
  /\ reg' = [reg EXCEPT ![t] = childs[Parent(t)]]
  /\ UNCHANGED <<heap, pc, path, pos, dc, idx, iter, new, calls>>

InsertCopiesSiblings(t) ==
  /\ pc[t] = "ins_sib"
  /\ reg[t] # Nil
  /\ SetSiblings(new[t], siblings[reg[t]])
  /\ Goto(t, "ins_link")
  /\ UNCHANGED <<path, pos, dc, idx, iter, reg, new, calls>>

(* Mutant: the list is not linked to the new entry.                        *)
InsertForgetsLink(t) ==
  /\ pc[t] = "ins_link"
  /\ Goto(t, "ins_pub")
  /\ UNCHANGED <<heap, path, pos, dc, idx, iter, reg, new, calls>>

InsertLinks(t) ==
  /\ pc[t] = "ins_link"
  /\ SetSiblings(reg[t], new[t])
  /\ Goto(t, "ins_pub")
  /\ UNCHANGED <<path, pos, dc, idx, iter, reg, new, calls>>

InsertPublishes(t) ==
  /\ pc[t] = "ins_pub"
  /\ SetChilds(Parent(t), new[t])
  /\ InsertReturns(t)

-----------------------------------------------------------------------------
(* What a thread executing a request does next.                            *)
Step(t) ==
  \/ LookupEnds(t) \/ LookupStarts(t) \/ LookupHit(t)
  \/ LookupAdvances(t) \/ LookupRepeats(t) \/ LookupMisses(t)
  \/ WalkEnds(t) \/ WalkFails(t) \/ WalkUncached(t) \/ WalkInserts(t)
  \/ InsertTests(t) \/ InsertFirst(t) \/ InsertCopiesSiblings(t)
  \/ InsertLinks(t) \/ InsertPublishes(t)

(* The bound on requests is reached and every thread has answered.         *)
Finished ==
  /\ \A t \in Threads : pc[t] \in {"idle", "done"} /\ ~MayCall(t)
  /\ UNCHANGED vars

Next == (\E t \in Threads : Call(t) \/ Step(t) \/ InsertReloads(t)) \/ Finished

Spec == Init /\ [][Next]_vars

(* A thread inside a request keeps running.                                *)
FairSpec == Spec /\ \A t \in Threads : WF_vars(Step(t))

-----------------------------------------------------------------------------
(* w[k] is the inode the first k tokens of p denote on the disk, 0 if they *)
(* denote nothing; there is nothing below a missing component.             *)
IsWalk(w, p) ==
  /\ w \in [0..Len(p) -> Inodes \cup {0}]
  /\ w[0] = ROOT_INODE_N
  /\ \A k \in 1..Len(p) : w[k-1] # 0 => w[k] = Disk[<<w[k-1], p[k]>>]
  /\ \A j, k \in 0..Len(p) : j <= k /\ w[j] = 0 => w[k] = 0

(* A resolved path denotes what the disk says, whatever the other threads  *)
(* did to the cache meanwhile: inode_get_idx_by_path returns the inode of  *)
(* the path, or 0 exactly when some component does not exist.              *)
ResolvesToDisk ==
  \A t \in Threads : pc[t] = "done" =>
    \A w \in [0..Len(path[t]) -> Inodes \cup {0}] :
      IsWalk(w, path[t]) => idx[t] = w[Len(path[t])]

(* An entry another thread can reach carries the inode its name has in its *)
(* parent's directory: racing insertions may duplicate or lose entries but *)
(* never file one under a parent it does not belong to.                    *)
EntriesMatchDisk ==
  \A p \in Addr, e \in Entries :
    childs[p] = e \/ (\E f \in Entries : owner[f] = p /\ siblings[f] = e) =>
      /\ owner[e] = p
      /\ inode[e] = Disk[<<inode[p], name[e]>>]
      /\ inode[e] # 0

Children(p) == {e \in Entries : owner[e] = p}

(* The entries of L form one circular list and p points into it: no part   *)
(* of L is closed under siblings.                                          *)
Ring(p, L) ==
  /\ childs[p] \in L
  /\ \A e \in L : siblings[e] \in L
  /\ \A S \in (SUBSET L) \ {{}, L} : \E e \in S : siblings[e] \notin S

(* As long as one thread makes all the requests, the children of every     *)
(* entry form, whenever dcache_insert is not running, one circular list    *)
(* that contains them all and the entry points into it, and no name is in  *)
(* the list twice.                                                         *)
TreeSafe ==
  (\E t \in Threads : Alone(t) /\ pc[t] \notin Inserting) =>
    \A p \in Addr : Children(p) # {} =>
      /\ Ring(p, Children(p))
      /\ \A e, f \in Children(p) : name[e] = name[f] => e = f

Running(t) == pc[t] \notin {"idle", "done"}

(* Every request is answered: the loops over the sibling lists end.        *)
CallReturns == \A t \in Threads : Running(t) ~> pc[t] = "done"

(* The same as long as one thread makes all the requests.                  *)
LoneCallReturns ==
  \A t \in Threads : Running(t) /\ Alone(t) ~> pc[t] = "done" \/ ~Alone(t)

-----------------------------------------------------------------------------
(* The inductive invariant behind ResolvesToDisk and EntriesMatchDisk.     *)

(* Only allocated entries are linked, into a list of their own parent, and *)
(* a pointer that can be followed leads to an entry whose siblings pointer *)
(* is set; every allocated entry agrees with the disk.                     *)
HeapInv ==
  /\ inode[Root] = ROOT_INODE_N
  /\ \A p \in Addr : childs[p] # Nil =>
       owner[childs[p]] = p /\ siblings[childs[p]] # Nil
  /\ \A e \in Entries : siblings[e] # Nil =>
       /\ owner[e] # Nil
       /\ owner[siblings[e]] = owner[e]
       /\ siblings[siblings[e]] # Nil
  /\ \A e \in Entries : owner[e] # Nil =>
       /\ owner[e] # Root => owner[owner[e]] # Nil
       /\ name[e] # Nil
       /\ inode[e] # 0
       /\ inode[owner[e]] # 0
       /\ inode[e] = Disk[<<inode[owner[e]], name[e]>>]

(* e is a list member that thread t may follow or link to.                 *)
InList(t, e) == e # Nil /\ owner[e] = Parent(t) /\ siblings[e] # Nil

(* The pointers a thread holds between two of its accesses.                *)
ThreadInv(t) ==
  /\ dc[t] # Nil => owner[dc[t]] # Nil
  /\ pc[t] \in {"match", "again"} => ~Consumed(t) /\ InList(t, iter[t])
  /\ pc[t] = "walk" /\ ~Consumed(t) => inode[Parent(t)] = idx[t] /\ idx[t] # 0
  /\ pc[t] \in Inserting =>
       /\ ~Consumed(t)
       /\ new[t] # Nil
       /\ owner[new[t]] = Parent(t)
       /\ inode[new[t]] = idx[t]
       /\ idx[t] # 0
  /\ pc[t] = "ins_sib" /\ reg[t] # Nil =>
       InList(t, reg[t]) /\ childs[Parent(t)] # Nil
  /\ pc[t] = "ins_link" =>
       /\ InList(t, reg[t])
       /\ childs[Parent(t)] # Nil
       /\ siblings[new[t]] # Nil
  /\ pc[t] = "ins_pub" => siblings[new[t]] # Nil

(* Where the thread stands on the walk w of its path.                      *)
OnWalk(t, w) ==
  /\ pc[t] \in {"lookup", "match", "again"} => dcache_get_inode(dc[t]) = w[pos[t]]
  /\ pc[t] = "walk" => idx[t] = w[pos[t]]
  /\ pc[t] \in Inserting => idx[t] = w[pos[t] + 1]
  /\ pc[t] = "done" => idx[t] = w[Len(path[t])]

WalkInv(t) ==
  \A w \in [0..Len(path[t]) -> Inodes \cup {0}] :
    IsWalk(w, path[t]) => OnWalk(t, w)

IInv == TypeOK /\ HeapInv /\ \A t \in Threads : ThreadInv(t) /\ WalkInv(t)

-----------------------------------------------------------------------------
(* The inductive invariant behind TreeSafe.                                *)

(* The children of p, without the one a lone thread t is about to link.    *)
Linked(t, p) ==
  Children(p) \ (IF pc[t] \in {"ins_test", "ins_sib", "ins_link"} THEN {new[t]} ELSE {})

ListInv(t, p) ==
  /\ childs[p] # Nil => childs[p] \in Linked(t, p)
  /\ Linked(t, p) # {} => Ring(p, Linked(t, p))
  /\ \A e, f \in Children(p) : name[e] = name[f] => e = f

(* The search has passed the entries of V, from the one the parent points  *)
(* to up to iter, and none of them has the token.                          *)
Passed(t, V) ==
  /\ V \subseteq Children(Parent(t))
  /\ childs[Parent(t)] \in V \cup (IF pc[t] = "match" THEN {iter[t]} ELSE {})
  /\ \A e \in V : name[e] # Token(t) /\ siblings[e] \in V \cup {iter[t]}

(* What a lone thread knows: a token it reads from the disk is not in the  *)
(* cache, the entry it links has no children yet, and the list it links it *)
(* to is as it was when the thread loaded the pointer to it.               *)
SearchInv(t) ==
  /\ pc[t] \in {"match", "again"} => \E V \in SUBSET Entries : Passed(t, V)
  /\ pc[t] = "walk" /\ ~Consumed(t) => \A e \in Children(Parent(t)) : name[e] # Token(t)
  /\ pc[t] \in Inserting => Children(new[t]) = {}
  /\ pc[t] = "ins_sib" => reg[t] = childs[Parent(t)]
  /\ pc[t] = "ins_link" =>
       reg[t] = childs[Parent(t)] /\ siblings[new[t]] = siblings[reg[t]]

LoneInv ==
  \A t \in Threads : Alone(t) => SearchInv(t) /\ \A p \in Addr : ListInv(t, p)

(* Every component but the last of a requested path fits a cache entry.    *)
InnerNamesFit == \A p \in Paths : \A k \in 1..(Len(p) - 1) : Fits(p[k])
=============================================================================
