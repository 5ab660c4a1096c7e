------------------------------- MODULE Mount --------------------------------
(***************************************************************************)
(* The life of an ext4 FUSE process: main opens the log and the disk,      *)
(* op_init reads the super block and the group descriptors, then threads   *)
(* answer getattr and readlink.  All of them share the two locks of the    *)
(* program, the one of __LOG and the one of __disk_read, which logs while  *)
(* it holds its own.                                                       *)
(*                                                                         *)
(* todo[t] is what thread t still has to do before its next decision: a    *)
(* sequence of lock operations, writes to the log and reads of the disk,   *)
(* as the calls of __LOG and __disk_read unfold to them.  Paths are        *)
(* resolved by PathLookup: a request comes with the inode number its path  *)
(* resolves to, 0 for none.  Assertions are compiled in, as the build does *)
(* by default.                                                             *)
(***************************************************************************)
EXTENDS Super, Sequences

CONSTANTS
  Threads,      \* the threads of FUSE
  main,         \* the thread of main and op_init
  Free,         \* no thread: the state of a free lock
  Images,       \* Images[i]: a disk that can be given to the program
  MaxRequests   \* bound: requests of a behaviour

ASSUME ThreadsAssumption == main \notin Threads /\ Free \notin Threads \cup {main}

All == Threads \cup {main}

-----------------------------------------------------------------------------
(* The layout of ext4.  A disk d has the super block d.super, the inode    *)
(* table of group i at block d.tables[i], the inodes d.inodes in use and   *)
(* the symbolic links d.links among them.                                  *)
DescSize(s) == IF s.s_desc_size = 0 THEN 32 ELSE s.s_desc_size
DescPlace(d, i) ==
  (d.first_data_block + 1) * super_block_size(d.super) + (i - 1) * DescSize(d.super)

(* The k-th inode of group i.                                              *)
InodeNumber(d, i, k) == (i - 1) * d.super.s_inodes_per_group + k + 1
InodePlace(d, i, k) == d.tables[i] * super_block_size(d.super) + k * d.super.s_inode_size

End(d) == BLOCKS2BYTES(d.super, d.super.s_blocks_count_lo)

(* The numbers of the super block, with as many groups as its blocks make  *)
(* up; the count of blocks, rounded up, fits into 32 bits.                 *)
Geometry(d) ==
  LET s == d.super
      bs == super_block_size(s)
  IN  /\ bs \in Nat /\ (bs = 1024 \/ bs >= 2048)
      /\ d.first_data_block = IF bs = 1024 THEN 1 ELSE 0
      /\ s.s_desc_size \in {0, 64}
      /\ s.s_inode_size \in Nat /\ s.s_inode_size >= 128
      /\ s.s_inodes_per_group \in Nat \ {0} /\ s.s_blocks_per_group \in Nat \ {0}
      /\ s.s_blocks_count_lo \in Nat \ {0}
      /\ s.s_blocks_count_lo + s.s_blocks_per_group - 1 < U32
      /\ d.tables \in Seq(Nat)
      /\ Len(d.tables) = (s.s_blocks_count_lo + s.s_blocks_per_group - 1) \div s.s_blocks_per_group

(* The structures lie on the disk and do not overlap; every inode in use   *)
(* has its place, and the target of a link a block behind the super block. *)
(* No link has 60 characters: there get_link_dest and ext4 differ.         *)
Layout(d) ==
  LET s == d.super
      slots == 0..(s.s_inodes_per_group - 1)
  IN  /\ \A i \in DOMAIN d.tables : DescPlace(d, i) + DescSize(s) <= End(d)
      /\ \A i \in DOMAIN d.tables, k \in slots :
           /\ InodePlace(d, i, k) + s.s_inode_size <= End(d)
           /\ \A j \in DOMAIN d.tables : DescPlace(d, j) # InodePlace(d, i, k)
           /\ \A j \in DOMAIN d.tables, l \in slots :
                InodePlace(d, i, k) = InodePlace(d, j, l) => i = j /\ k = l
      /\ \A n \in d.inodes : \E i \in DOMAIN d.tables, k \in slots : n = InodeNumber(d, i, k)
      /\ \A n \in DOMAIN d.links :
           /\ d.links[n].size \in Nat \ {60}
           /\ d.links[n].pblock \in (d.first_data_block + 1)..(s.s_blocks_count_lo - 1)

(* A disk is of ext4, however much of it is left, or is something else     *)
(* with room for a super block.                                            *)
ASSUME ImagesAssumption ==
  \A i \in DOMAIN Images :
    LET d == Images[i]
    IN  /\ d.bytes \in Nat
        /\ IF d.super.s_magic = EXT4_MAGIC THEN Geometry(d) /\ Layout(d) ELSE d.bytes >= 2048

(* What a disk holds at a place: the structure of ext4 found there.        *)
Contents(d, where, size) ==
  LET s == d.super
      bs == super_block_size(s)
      descs == {i \in DOMAIN d.tables : where = DescPlace(d, i)}
      inodes == {n \in d.inodes : \E i \in DOMAIN d.tables, k \in 0..(s.s_inodes_per_group - 1) :
                   n = InodeNumber(d, i, k) /\ where = InodePlace(d, i, k)}
  IN  IF where + size > d.bytes THEN <<"short">>
      ELSE IF where = 1080 /\ size = 2 THEN <<"magic", s.s_magic>>
      ELSE IF where = 1024 /\ size = 1024 THEN <<"super">>
      ELSE IF descs # {} /\ size = DescSize(s) THEN <<"desc", CHOOSE i \in descs : TRUE>>
      ELSE IF inodes # {} /\ size < bs THEN <<"inode", CHOOSE n \in inodes : TRUE>>
      ELSE IF where % bs = 0 /\ size = bs THEN <<"block", where \div bs>>
      ELSE <<"other">>

-----------------------------------------------------------------------------
VARIABLES
  opt,          \* the command line: which disk, which log file
  disk,         \* the disk, an index of Images
  stage,        \* how far the process has come
  logging,      \* logfile is open
  super, gdesc_table,
  lock,         \* lock["log"], lock["read"]: the thread that holds it
  todo, got,    \* per thread: what is to be done, what was read last
  line,         \* the end of the log: the parts since the last line began
  req,          \* per thread: the request it works on
  requests      \* number of requests received

startup == <<opt, disk, logging, super, gdesc_table>>
serving == <<req, requests>>
vars == <<startup, stage, lock, todo, got, line, serving>>

img == Images[disk]

Parts == <<"prefix", "text", "newline">>
Idle == [op |-> "none", n |-> 0, at |-> "done", ret |-> <<>>]

Init ==
  /\ opt \in [disk : {"none", "missing", "there"}, log : {"none", "writable", "unwritable"}]
  /\ disk \in DOMAIN Images
  /\ stage = "start" /\ logging = FALSE /\ super = <<>> /\ gdesc_table = <<>>
  /\ lock = [m \in {"log", "read"} |-> Free]
  /\ todo = [t \in All |-> <<>>] /\ got = [t \in All |-> <<>>]
  /\ line = <<>>
  /\ req = [t \in Threads |-> Idle] /\ requests = 0

-----------------------------------------------------------------------------
(* What calls unfold to.                                                   *)
Lock(m) == <<<<"lock", m>>>>
Unlock(m) == <<<<"unlock", m>>>>

(* Mutant: no lock around the three writes.                                *)
LogUnlocked ==
  IF logging THEN [k \in 1..3 |-> <<"write", Parts[k]>>] ELSE <<>>

LOG ==
  IF logging THEN Lock("log") \o [k \in 1..3 |-> <<"write", Parts[k]>>] \o Unlock("log")
  ELSE <<>>

disk_read(where, size) ==
  Lock("read") \o LOG \o <<<<"pread", where, size>>>> \o Unlock("read") \o <<<<"check">>>>

disk_read_block(b) == disk_read(BLOCKS2BYTES(super, b), super_block_size(super))

ASSERT_FAILS == LOG \o <<<<"abort">>>>

inode_get_by_number(n) ==
  CASE n = 0 -> <<>>
    [] n # 0 /\ ~GroupExists(super, n) -> ASSERT_FAILS
    [] OTHER -> LOG \o disk_read(inode_offset(super, gdesc_table, n), inode_bytes(super))

-----------------------------------------------------------------------------
(* One operation of thread t.                                              *)
Op(t) == Head(todo[t])
Running(t) == stage \notin {"exit", "aborted"} /\ todo[t] # <<>>
Goes(t) == todo' = [todo EXCEPT ![t] = Tail(@)]

Locks(t) == \E m \in {"log", "read"} :
  /\ Running(t) /\ Op(t) = <<"lock", m>>
  /\ lock[m] = Free
  /\ lock' = [lock EXCEPT ![m] = t]
  /\ Goes(t)
  /\ UNCHANGED <<startup, stage, got, line, serving>>

Unlocks(t) == \E m \in {"log", "read"} :
  /\ Running(t) /\ Op(t) = <<"unlock", m>>
  /\ lock' = [lock EXCEPT ![m] = Free]
  /\ Goes(t)
  /\ UNCHANGED <<startup, stage, got, line, serving>>

Writes(t) == \E part \in {"prefix", "text", "newline"} :
  /\ Running(t) /\ Op(t) = <<"write", part>>
  /\ line' = IF part = "prefix" /\ (line = <<>> \/ line[Len(line)][2] = "newline")
             THEN <<<<t, part>>>> ELSE Append(line, <<t, part>>)
  /\ Goes(t)
  /\ UNCHANGED <<startup, stage, lock, got, serving>>

Preads(t) ==
  /\ Running(t) /\ Op(t)[1] = "pread"
  /\ got' = [got EXCEPT ![t] = Contents(img, Op(t)[2], Op(t)[3])]
  /\ Goes(t)
  /\ UNCHANGED <<startup, stage, lock, line, serving>>

(* Mutant: instead of asserting, the rest of the read is tried again.      *)
ReadsOn(t) ==
  /\ Running(t) /\ Op(t) = <<"check">>
  /\ todo' = [todo EXCEPT ![t] = IF got[t] = <<"short">> THEN disk_read(img.bytes, 1) ELSE Tail(@)]
  /\ UNCHANGED <<startup, stage, lock, got, line, serving>>

(* The assertion that the read was complete.                               *)
Checks(t) ==
  /\ Running(t) /\ Op(t) = <<"check">>
  /\ todo' = [todo EXCEPT ![t] = IF got[t] = <<"short">> THEN ASSERT_FAILS ELSE Tail(@)]
  /\ UNCHANGED <<startup, stage, lock, got, line, serving>>

Aborts(t) ==
  /\ Running(t) /\ Op(t) = <<"abort">>
  /\ stage' = "aborted"
  /\ req' = [u \in Threads |-> Idle]
  /\ UNCHANGED <<startup, lock, todo, got, line, requests>>

Step(t) == Locks(t) \/ Unlocks(t) \/ Writes(t) \/ Preads(t) \/ Checks(t) \/ Aborts(t)

-----------------------------------------------------------------------------
(* main and op_init: the decisions of the first thread.                    *)
At(s) == stage = s /\ todo[main] = <<>>
Does(calls) == todo' = [todo EXCEPT ![main] = calls]

Exits ==
  /\ \/ stage = "start" /\ (opt.disk = "none" \/ opt.log = "unwritable")
     \/ stage = "disk" /\ opt.disk = "missing"
     \/ At("magic") /\ got[main] # <<"magic", EXT4_MAGIC>>
  /\ stage' = "exit"
  /\ UNCHANGED <<startup, lock, todo, got, line, serving>>

(* fuse_main returns.                                                      *)
Unmounts ==
  /\ stage = "serving" /\ \A t \in Threads : req[t] = Idle /\ todo[t] = <<>>
  /\ stage' = "exit"
  /\ UNCHANGED <<startup, lock, todo, got, line, serving>>

logging_open ==
  /\ stage = "start" /\ opt.disk # "none" /\ opt.log # "unwritable"
  /\ stage' = "disk"
  /\ logging' = (opt.log = "writable")
  /\ UNCHANGED <<opt, disk, super, gdesc_table, lock, todo, got, line, serving>>

disk_open ==
  /\ stage = "disk" /\ opt.disk = "there"
  /\ stage' = "magic"
  /\ Does(disk_read(BOOT_SECTOR_SIZE + offsetof_s_magic, sizeof.magic))
  /\ UNCHANGED <<startup, lock, got, line, serving>>

op_init ==
  /\ At("magic") /\ got[main] = <<"magic", EXT4_MAGIC>>
  /\ stage' = "super"
  /\ Does(LOG \o disk_read(BOOT_SECTOR_SIZE, sizeof.super))
  /\ UNCHANGED <<startup, lock, got, line, serving>>

super_fill ==
  /\ At("super")
  /\ super' = img.super
  /\ stage' = "groups"
  /\ Does(LOG \o LOG \o LOG \o LOG \o LOG
            \o disk_read(group_desc_offset(super', 0), super_group_desc_size(super')))
  /\ UNCHANGED <<opt, disk, logging, gdesc_table, lock, got, line, serving>>

super_group_fill ==
  /\ At("groups")
  /\ gdesc_table' = Append(gdesc_table,
                           IF got[main][1] = "desc" THEN img.tables[got[main][2]] ELSE 0)
  /\ LET i == Len(gdesc_table')
     IN  IF i < super_n_block_groups(super)
         THEN /\ Does(disk_read(group_desc_offset(super, i), super_group_desc_size(super)))
              /\ stage' = stage
         ELSE stage' = "serving" /\ todo' = todo
  /\ UNCHANGED <<opt, disk, logging, super, lock, got, line, serving>>

Main == Exits \/ logging_open \/ disk_open \/ op_init \/ super_fill \/ super_group_fill

-----------------------------------------------------------------------------
(* The decisions of a thread of FUSE.                                      *)
Receives(t, o, n) ==
  /\ stage = "serving" /\ req[t] = Idle /\ todo[t] = <<>>
  /\ requests < MaxRequests
  /\ requests' = requests + 1
  /\ req' = [req EXCEPT ![t] = [op |-> o, n |-> n, at |-> "inode", ret |-> <<>>]]
  /\ got' = [got EXCEPT ![t] = <<>>]
  /\ todo' = [todo EXCEPT ![t] = LOG \o inode_get_by_number(n)]
  /\ UNCHANGED <<startup, stage, lock, line>>

(* The kernel asks for the attributes of any path, and for the target of   *)
(* one it knows.                                                           *)
Request(t) ==
  \/ \E n \in img.inodes \cup {0} : Receives(t, "getattr", n)
  \/ \E n \in img.inodes : Receives(t, "readlink", n)

Ready(t, o, at) ==
  stage = "serving" /\ req[t].op = o /\ req[t].at = at /\ todo[t] = <<>>

Returns(t, ret, calls) ==
  /\ req' = [req EXCEPT ![t].at = "done", ![t].ret = ret]
  /\ todo' = [todo EXCEPT ![t] = calls]
  /\ UNCHANGED <<startup, stage, lock, got, line, requests>>

op_getattr(t) ==
  /\ Ready(t, "getattr", "inode")
  /\ IF req[t].n = 0 THEN Returns(t, <<"ENOENT">>, <<>>) ELSE Returns(t, got[t], LOG)

(* The test of get_link_dest.                                              *)
InInode(length) == length <= 60

Target(t) == img.links[got[t][2]]
IsLink(t) == got[t][1] = "inode" /\ got[t][2] \in DOMAIN img.links

op_readlink(t) ==
  /\ Ready(t, "readlink", "inode")
  /\ \/ ~IsLink(t) /\ Returns(t, <<"EINVAL">>, <<>>)
     \/ IsLink(t) /\ InInode(Target(t).size) /\ Returns(t, <<"inline", got[t][2]>>, LOG)
     \/ /\ IsLink(t) /\ ~InInode(Target(t).size)
        /\ req' = [req EXCEPT ![t].at = "block"]
        /\ todo' = [todo EXCEPT ![t] = disk_read_block(Target(t).pblock)]
        /\ UNCHANGED <<startup, stage, lock, got, line, requests>>

get_link_dest(t) == Ready(t, "readlink", "block") /\ Returns(t, got[t], LOG)

Answers(t) ==
  /\ stage = "serving" /\ req[t] # Idle /\ req[t].at = "done" /\ todo[t] = <<>>
  /\ req' = [req EXCEPT ![t] = Idle]
  /\ UNCHANGED <<startup, stage, lock, todo, got, line, requests>>

Serve(t) == op_getattr(t) \/ op_readlink(t) \/ get_link_dest(t) \/ Answers(t)

Finished == stage \in {"exit", "aborted"} /\ UNCHANGED vars

Next ==
  \/ Main \/ Unmounts \/ Finished
  \/ \E t \in All : Step(t)
  \/ \E t \in Threads : Request(t) \/ Serve(t)

(* Every thread that can go on does; the locks are not fair, but only      *)
(* MaxRequests requests compete for them.                                  *)
Spec ==
  /\ Init /\ [][Next]_vars
  /\ WF_vars(Main)
  /\ \A t \in All : WF_vars(Step(t))
  /\ \A t \in Threads : WF_vars(Serve(t))

-----------------------------------------------------------------------------
(* Lines of the log are whole: __LOG says "We have a lock here so          *)
(* different threads don interleave the log output".                       *)
LinesWhole ==
  \E t \in All : line = [k \in 1..Len(line) |-> <<t, Parts[k]>>]

(* What the process serves is what is there: the disk is an ext4 file      *)
(* system and every group descriptor is the one of its group.              *)
ServesWhatIsThere ==
  stage = "serving" => /\ img.super.s_magic = EXT4_MAGIC
                       /\ \A i \in DOMAIN gdesc_table \cap DOMAIN img.tables :
                            gdesc_table[i] = img.tables[i]

(* The answer to a request r for what is on the disk d.                    *)
Answer(d, r) ==
  CASE r.n = 0 -> <<"ENOENT">>
    [] r.n # 0 /\ r.op = "getattr" -> <<"inode", r.n>>
    [] OTHER -> IF r.n \notin DOMAIN d.links THEN <<"EINVAL">>
                ELSE IF d.links[r.n].size < 60 THEN <<"inline", r.n>>
                ELSE <<"block", d.links[r.n].pblock>>

(* A request is answered from the inode asked for, of whatever group, and  *)
(* a link from the place ext4 has put its target in: the inode if it has   *)
(* less than 60 characters (the disks have no link of 60).                 *)
Answered ==
  \A t \in Threads : req[t].op # "none" /\ req[t].at = "done" => req[t].ret = Answer(img, req[t])

(* On a disk that is complete no assertion fails: every read lies within   *)
(* it and every inode belongs to a group.                                  *)
AbortsOnlyIfCut ==
  stage = "aborted" => img.bytes < BLOCKS2BYTES(img.super, img.super.s_blocks_count_lo)

(* The locks never hang the process: it comes to serve or gives up, and    *)
(* every request is answered, or the process ends.                         *)
NothingHangs ==
  /\ stage = "start" ~> stage \in {"serving", "exit", "aborted"}
  /\ \A t \in Threads : req[t] # Idle ~> req[t] = Idle
=============================================================================
