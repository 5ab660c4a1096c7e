------------------------------- MODULE Dcache -------------------------------
(***************************************************************************)
(* The directory entry cache of the ext4 FUSE client (fuse/dcache.c): a    *)
(* tree of dcache_entry structures.  An entry points to one of its         *)
(* children (childs); the children of an entry form a circular list        *)
(* (siblings).  Entries are never freed.                                   *)
(*                                                                         *)
(* The module holds the heap and the individual loads and stores of        *)
(* dcache_insert and dcache_lookup.  No lock protects them, so a step of a *)
(* thread (module PathLookup) is one of these accesses.  Aligned pointer   *)
(* loads and stores are taken to be atomic and sequentially consistent.    *)
(***************************************************************************)
EXTENDS Integers, FiniteSets

CONSTANTS
  Entries,                \* addresses calloc may return for a dcache_entry
  Root,                   \* the address of the static variable root
  Nil,                    \* the NULL pointer
  Names,                  \* path tokens
  NameLen,                \* the length of each token
  DCACHE_ENTRY_NAME_LEN,  \* size of the name array of an entry
  Inodes,                 \* inode numbers in use on the disk
  ROOT_INODE_N            \* inode number of the root directory

ASSUME AddressAssumption == Root \notin Entries /\ Nil \notin Entries \cup {Root}
ASSUME NameAssumption == /\ NameLen \in [Names -> Nat]
                         /\ DCACHE_ENTRY_NAME_LEN \in Nat
                         /\ Nil \notin Names
ASSUME InodeAssumption == Inodes \subseteq Nat \ {0} /\ ROOT_INODE_N \in Inodes

VARIABLES
  childs,    \* childs[p]: the child p points to
  siblings,  \* siblings[e]: the next entry of e's circular list
  inode,     \* inode[e]: the inode number stored in e, 0 after calloc
  name,      \* name[e]: the token stored in e, Nil after calloc
  owner      \* history: the parent e was allocated for, Nil if not allocated

heap == <<childs, siblings, inode, name, owner>>

Addr == Entries \cup {Root}

HeapType ==
  /\ childs \in [Addr -> Entries \cup {Nil}]
  /\ siblings \in [Entries -> Entries \cup {Nil}]
  /\ inode \in [Addr -> Inodes \cup {0}]
  /\ name \in [Entries -> Names \cup {Nil}]
  /\ owner \in [Entries -> Addr \cup {Nil}]

(* dcache_init_root, called once from inode_init before any request.       *)
dcache_init_root(n) ==
  /\ childs = [a \in Addr |-> Nil]
  /\ siblings = [e \in Entries |-> Nil]
  /\ inode = [a \in Addr |-> IF a = Root THEN n ELSE 0]
  /\ name = [e \in Entries |-> Nil]
  /\ owner = [e \in Entries |-> Nil]

(* Mutant: every entry is taken for a child of the root.                   *)
AlwaysRoot(entry) == Root

(* Both operations take a NULL parent to mean the root entry.              *)
OrRoot(entry) == IF entry = Nil THEN Root ELSE entry

dcache_get_inode(entry) == inode[OrRoot(entry)]

(* dcache_insert gives up on a name that does not fit its array.           *)
Fits(n) == NameLen[n] + 1 <= DCACHE_ENTRY_NAME_LEN

Free == {e \in Entries : owner[e] = Nil}

(* calloc and the two field assignments, before the entry is published.    *)
NewEntry(e, p, n, i) ==
  /\ inode' = [inode EXCEPT ![e] = i]
  /\ name' = [name EXCEPT ![e] = n]
  /\ owner' = [owner EXCEPT ![e] = p]
  /\ UNCHANGED <<childs, siblings>>

SetChilds(p, e) ==
  /\ childs' = [childs EXCEPT ![p] = e]
  /\ UNCHANGED <<siblings, inode, name, owner>>

SetSiblings(e, f) ==
  /\ siblings' = [siblings EXCEPT ![e] = f]
  /\ UNCHANGED <<childs, inode, name, owner>>

(* The first child: its list is itself, and the parent points to it.       *)
LinkFirst(p, e) ==
  /\ siblings' = [siblings EXCEPT ![e] = e]
  /\ childs' = [childs EXCEPT ![p] = e]
  /\ UNCHANGED <<inode, name, owner>>
=============================================================================
