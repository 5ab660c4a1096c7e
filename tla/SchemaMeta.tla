----------------------------- MODULE SchemaMeta -----------------------------
(***************************************************************************)
(* The metadata store (metaserver/kv_db.c, metaserver/schmea_meta.c): the  *)
(* registry of open schemas, the table of schema records SYS_SCHEMA_META   *)
(* in WiredTiger, and the in-memory cache of that table.                   *)
(*                                                                         *)
(* WiredTiger (external) is opened without a log: data survives a crash as *)
(* of the last checkpoint; creating and dropping a table is durable at     *)
(* once; a table with an open cursor is not dropped.  Only the rows of the *)
(* meta table are followed.  A schema object is a number, in order of      *)
(* allocation; a record is a value.                                        *)
(***************************************************************************)
EXTENDS Dict

CONSTANTS
  SYS,       \* SYS_SCHEMA_META_TABLE_NAME
  MaxObjs    \* bound: schema objects allocated by one process

(* Keys are the names of the other schemas, which are the keys of the meta *)
(* table, and Vals the schema records.                                     *)
Names == Keys \cup {SYS}

ASSUME NamesAssumption == SYS \notin Keys /\ SYS \in DOMAIN Hash
ASSUME ObjectsAssumption == MaxObjs \in Nat /\ NULL \notin Nat

VARIABLES
  up,           \* a process has the database open
  schema_ctx,   \* the registry: dict from names to objects
  name,         \* name[o] for the objects allocated by the process
  live,         \* the objects not yet destroyed
  cache,        \* db->schmea_meta_cache, NULL before schema_cache_load
  exists,       \* the tables of the database
  rows,         \* rows[k]: record of the meta table, NULL if none
  disk,         \* the rows as of the last checkpoint
  bypassed      \* history: keys whose record was changed without the cache

vars == <<up, schema_ctx, name, live, cache, exists, rows, disk, bypassed>>

NoRows == [k \in Keys |-> NULL]

Init ==
  /\ up = FALSE /\ schema_ctx = dict_create /\ name = <<>> /\ live = {}
  /\ cache = NULL /\ exists = {} /\ rows = NoRows /\ disk = NoRows /\ bypassed = {}

kv_db_alloc ==
  /\ ~up
  /\ up' = TRUE
  /\ UNCHANGED <<schema_ctx, name, live, cache, exists, rows, disk, bypassed>>

(* The process ends, at any point.  kv_db_destroy is no gentler: it hands  *)
(* kv_schema_free_cb the address of the pair's val instead of the schema,  *)
(* and leaves the connection open.                                         *)
Die ==
  /\ up' = FALSE /\ schema_ctx' = dict_create /\ name' = <<>> /\ live' = {}
  /\ cache' = NULL /\ bypassed' = {}
  /\ rows' = disk
  /\ UNCHANGED <<exists, disk>>

Crash == up /\ Die

Checkpoint ==
  /\ up /\ disk # rows
  /\ disk' = rows
  /\ UNCHANGED <<up, schema_ctx, name, live, cache, exists, rows, bypassed>>

-----------------------------------------------------------------------------
(* WiredTiger drops table n unless a cursor of objs is open on it; the     *)
(* callers do not notice a refusal.                                        *)
Dropped(n, objs) == n \in exists /\ \A o \in objs : name[o] # n

(* The rows r of the meta table after table n is dropped, or not.          *)
WithoutRows(n, objs, r) == IF n = SYS /\ Dropped(n, objs) THEN NoRows ELSE r

(* Mutant: the table is only created after a forced drop.                  *)
AllocForgetsCreate(n, is_force_drop) ==
  /\ up
  /\ Len(name) < MaxObjs
  /\ name' = Append(name, n)
  /\ live' = live \cup {Len(name')}
  /\ exists' = IF is_force_drop THEN exists \cup {n} ELSE exists
  /\ schema_ctx' = dict_put(schema_ctx, n, Len(name'))
  /\ UNCHANGED <<up, cache, rows, disk, bypassed>>

(* kv_schema_alloc: the object is registered under its name unless there   *)
(* is one already; the caller is not told.  The forced drop is given the   *)
(* configuration of a create: WiredTiger may refuse it for that, too.      *)
kv_schema_alloc(n, is_force_drop) ==
  /\ up
  /\ Len(name) < MaxObjs
  /\ name' = Append(name, n)
  /\ live' = live \cup {Len(name')}
  /\ exists' = exists \cup {n}
  /\ schema_ctx' = dict_put(schema_ctx, n, Len(name'))
  /\ \/ UNCHANGED <<rows, disk, bypassed>>
     \/ /\ is_force_drop
        /\ rows' = WithoutRows(n, live, rows)
        /\ disk' = WithoutRows(n, live, disk)
        /\ bypassed' = IF rows' # rows THEN Keys ELSE bypassed
  /\ UNCHANGED <<up, cache>>

(* Mutant: the object is freed without being unregistered.                 *)
DestroyRegistered(o) ==
  /\ o \in live
  /\ live' = live \ {o}
  /\ UNCHANGED <<up, schema_ctx, name, cache, exists, rows, disk, bypassed>>

(* kv_schema_destroy: whichever object is registered under the name is     *)
(* unregistered, the cursor is closed, the table dropped.                  *)
kv_schema_destroy(o) ==
  /\ o \in live
  /\ schema_ctx' = dict_del(schema_ctx, name[o])
  /\ live' = live \ {o}
  /\ exists' = IF Dropped(name[o], live') THEN exists \ {name[o]} ELSE exists
  /\ rows' = WithoutRows(name[o], live', rows)
  /\ disk' = WithoutRows(name[o], live', disk)
  /\ bypassed' = IF rows' # rows THEN Keys ELSE bypassed
  /\ UNCHANGED <<up, name, cache>>

kv_db_fetch_schema(n) == dict_get(schema_ctx, n)

Registered(n) == kv_db_fetch_schema(n) # NULL

(* kv_db_set on the meta table.                                            *)
kv_db_set(k, v) == Registered(SYS) /\ rows' = [rows EXCEPT ![k] = v]

(* kv_db_get on the meta table.                                            *)
kv_db_get(k) == IF Registered(SYS) THEN rows[k] ELSE NULL

(* kv_schmea_search: the keys of the rows, each given to the callback.  No *)
(* caller asks for one key (dst_key is NULL).                              *)
kv_schmea_search == SetToSeq({k \in Keys : rows[k] # NULL})

(* schema_cache_load_cb is called for one row after the other: table d     *)
(* after the puts of vals[1] under keys[1], vals[2] under keys[2], ...     *)
PutEach(d, keys, vals) ==
  LET puts[j \in 0..Len(keys)] ==
        IF j = 0 THEN d ELSE dict_put(puts[j - 1], keys[j], vals[j])
  IN  puts[Len(keys)]

Records(keys) == [j \in 1..Len(keys) |-> kv_db_get(keys[j])]

(* Mutant: the old cache is kept and added to.                             *)
LoadIntoOld ==
  LET old == IF cache = NULL THEN dict_create ELSE cache
  IN  PutEach(old, kv_schmea_search, Records(kv_schmea_search))

(* The cache schema_cache_load fills: a new one with every row.            *)
LoadedCache == PutEach(dict_create, kv_schmea_search, Records(kv_schmea_search))

(* schema_cache_load: for every row a schema is opened and its record is   *)
(* copied into the cache.                                                  *)
schema_cache_load ==
  /\ up
  /\ Registered(SYS)
  /\ LET keys == kv_schmea_search
         objs == [j \in 1..Len(keys) |-> Len(name) + j]
     IN  /\ Len(name) + Len(keys) <= MaxObjs
         /\ name' = name \o keys
         /\ live' = live \cup ((Len(name) + 1)..Len(name'))
         /\ exists' = exists \cup ToSet(keys)
         /\ schema_ctx' = PutEach(schema_ctx, keys, objs)
  /\ cache' = LoadedCache
  /\ bypassed' = {}
  /\ UNCHANGED <<up, rows, disk>>

(* Without the schema of the meta table, schema_cache_load and kv_db_del   *)
(* follow a null pointer.                                                  *)
NullSchema == up /\ ~Registered(SYS) /\ Die

-----------------------------------------------------------------------------
(* schmea_cache_add: first the table, then the cache, which refuses a key  *)
(* it has.                                                                 *)
schmea_cache_add(k, v) ==
  /\ up /\ cache # NULL
  /\ kv_db_set(k, v)
  /\ cache' = dict_put(cache, k, v)
  /\ bypassed' = IF dict_find(cache, k) # 0 THEN bypassed \cup {k} ELSE bypassed
  /\ UNCHANGED <<up, schema_ctx, name, live, exists, disk>>

(* Mutant: the cache is not told of the deletion.                          *)
DelFromTable(k) ==
  /\ up /\ cache # NULL
  /\ Registered(SYS)
  /\ rows[k] # NULL
  /\ rows' = [rows EXCEPT ![k] = NULL]
  /\ bypassed' = bypassed \ {k}
  /\ UNCHANGED <<up, schema_ctx, name, live, cache, exists, disk>>

(* schmea_cache_del: the cache follows the table.                          *)
schmea_cache_del(k) ==
  /\ up /\ cache # NULL
  /\ Registered(SYS)
  /\ rows[k] # NULL
  /\ rows' = [rows EXCEPT ![k] = NULL]
  /\ cache' = dict_del(cache, k)
  /\ bypassed' = bypassed \ {k}
  /\ UNCHANGED <<up, schema_ctx, name, live, exists, disk>>

(* The same for a key without a row: WiredTiger may report it or not.      *)
schmea_cache_del_missing(k) ==
  /\ up /\ cache # NULL
  /\ Registered(SYS)
  /\ rows[k] = NULL
  /\ \/ cache' = dict_del(cache, k) /\ bypassed' = bypassed \ {k}
     \/ UNCHANGED <<cache, bypassed>>
  /\ UNCHANGED <<up, schema_ctx, name, live, exists, rows, disk>>

(* schmea_meta_rec_save writes the table and not the cache.                *)
schmea_meta_rec_save(k, v) ==
  /\ up
  /\ kv_db_set(k, v)
  /\ bypassed' = bypassed \cup {k}
  /\ UNCHANGED <<up, schema_ctx, name, live, cache, exists, disk>>

Next ==
  \/ kv_db_alloc \/ Crash \/ Checkpoint \/ schema_cache_load \/ NullSchema
  \/ \E n \in Names, force \in BOOLEAN : kv_schema_alloc(n, force)
  \/ \E o \in 1..MaxObjs : kv_schema_destroy(o)
  \/ \E k \in Keys :
       \/ schmea_cache_del(k) \/ schmea_cache_del_missing(k)
       \/ \E v \in Vals : schmea_cache_add(k, v) \/ schmea_meta_rec_save(k, v)

Spec == Init /\ [][Next]_vars

(* The contents of the meta table, in memory or on the disk.               *)
RowsType == {r \in [Keys -> Vals \cup {NULL}] : IsFiniteSet({k \in Keys : r[k] # NULL})}

TypeOK ==
  /\ up \in BOOLEAN
  /\ DictOf(schema_ctx, Names, Nat)
  /\ name \in Seq(Names)
  /\ live \subseteq 1..Len(name)
  /\ cache # NULL => DictOf(cache, Keys, Vals)
  /\ exists \subseteq Names
  /\ rows \in RowsType /\ disk \in RowsType
  /\ bypassed \subseteq Keys

-----------------------------------------------------------------------------
(* The registry never leads to a schema that was destroyed, nor to one of  *)
(* another name, although objects of one name share an entry and the       *)
(* results of registering are ignored.                                     *)
RegistryLive ==
  \A p \in PairsOf(schema_ctx) : p.val \in live /\ name[p.val] = p.key

(* A key whose record is only changed through the cache functions has the  *)
(* same record in the cache and in the table, across deletions, reloads    *)
(* and crashes.  The others are those added a second time or saved by      *)
(* schmea_meta_rec_save, and all of them once the table is dropped.        *)
CacheAgrees ==
  cache # NULL => \A k \in Keys \ bypassed : ValueOf(cache, k) = rows[k]

(* The table of every schema that is open exists, and rows exist only in a *)
(* table that exists, in memory and on the disk.                           *)
TablesExist ==
  /\ \A o \in live : name[o] \in exists
  /\ rows # NoRows \/ disk # NoRows => SYS \in exists

(* After schema_cache_load the cache is the table, and the schema of every *)
(* row is registered.                                                      *)
LoadRebuilds ==
  [][schema_cache_load =>
       \A k \in Keys : /\ ValueOf(cache', k) = rows'[k]
                       /\ rows'[k] # NULL => dict_get(schema_ctx', k) # NULL]_vars

(* The inductive invariant behind the three invariants: a record is only   *)
(* written with the meta schema registered, which is then live, so that    *)
(* its table exists.                                                       *)
IInv == TypeOK /\ RegistryLive /\ CacheAgrees /\ TablesExist
=============================================================================
