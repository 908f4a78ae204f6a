------------------------------- MODULE Inode -------------------------------
(***************************************************************************)
(* Inodes (fs.c) under open, close, write, link and unlink (sysfile.c) of  *)
(* files in one directory.  What happens under icache.lock is one action;  *)
(* a process runs on from one acquiresleep() it may have to wait for, or   *)
(* one read or change of icache, to the next.                              *)
(*                                                                         *)
(* The directory's inode is always referenced and linked: of it there are  *)
(* the entries, dir, and the lock, dlock.  Disk blocks are those of the    *)
(* buffer cache; Log is what makes a system call atomic in a crash.        *)
(* panic() stops the kernel: an action that would panic for want of an     *)
(* inode, a cache entry or a block is not enabled.                         *)
(***************************************************************************)
EXTENDS Integers, FiniteSets

CONSTANTS Procs, NoProc,
          Names,
          NINODES,     \* sb.ninodes
          NINODE,      \* entries of icache
          Blocks,      \* data blocks
          MaxBlocks    \* bound: blocks of one file

Inums == 1..NINODES
Slots == 1..NINODE
None  == 0

ASSUME InodeAssumption ==
  /\ IsFiniteSet(Procs) /\ NoProc \notin Procs /\ IsFiniteSet(Names)
  /\ NINODES \in Nat /\ NINODE \in Nat /\ MaxBlocks \in Nat

VARIABLES
  dtype, dnlink, daddrs,                      \* struct dinode, on disk
  bitmap,                                     \* blocks marked in use
  dir, dlock,
  inum, ref, valid, type, nlink, addrs, lock, \* struct inode, in icache
  pc,
  next,      \* where ilock(), iput() and iunlockput(dp) return to
  nm,        \* the name a call is to enter or erase
  ip,        \* the inode a call works on, counted in ref
  put,       \* the inode iput() works on, counted in ref
  fd         \* the inode of the one open file a process has, counted in ref

disk  == <<dtype, dnlink, daddrs, bitmap>>
cache == <<inum, ref, valid, type, nlink, addrs>>
vars  == <<disk, dir, dlock, cache, lock, pc, next, nm, ip, put, fd>>

Init ==
  /\ dtype = [i \in Inums |-> "free"] /\ dnlink = [i \in Inums |-> 0]
  /\ daddrs = [i \in Inums |-> {}] /\ bitmap = {}
  /\ dir = [n \in Names |-> None] /\ dlock = NoProc
  /\ inum = [s \in Slots |-> None] /\ ref = [s \in Slots |-> 0]
  /\ valid = [s \in Slots |-> FALSE] /\ type = [s \in Slots |-> "free"]
  /\ nlink = [s \in Slots |-> 0] /\ addrs = [s \in Slots |-> {}]
  /\ lock = [s \in Slots |-> NoProc]
  /\ pc = [p \in Procs |-> "user"] /\ next = [p \in Procs |-> "user"]
  /\ nm = [p \in Procs |-> None]
  /\ ip = [p \in Procs |-> None] /\ put = [p \in Procs |-> None]
  /\ fd = [p \in Procs |-> None]

At(p, l) == pc[p] = l
Goto(p, l) == pc' = [pc EXCEPT ![p] = l]
Call(p, l, r) == Goto(p, l) /\ next' = [next EXCEPT ![p] = r]
Return(p) == Call(p, next[p], "user")

\* The name has served its purpose.
Done(p) == nm' = [nm EXCEPT ![p] = None]

Least(S) == CHOOSE x \in S : \A y \in S : x <= y

-----------------------------------------------------------------------------
(* fs.c *)

\* Mutant: an entry that ilock() has not filled is not a match.
Cached_valid(i) == {s \in Slots : ref[s] > 0 /\ inum[s] = i /\ valid[s]}

\* The entry iget() returns: one that has the inode, else an empty one
Cached(i) == {s \in Slots : ref[s] > 0 /\ inum[s] = i}
Empty     == {s \in Slots : ref[s] = 0}
Entry(i)  == IF Cached(i) # {} THEN Least(Cached(i)) ELSE Least(Empty)

Recycled(s) == [valid EXCEPT ![s] = FALSE]

iget(i) ==
  LET s == Entry(i)
  IN /\ Cached(i) \cup Empty # {}
     /\ inum' = [inum EXCEPT ![s] = i]
     /\ ref' = [ref EXCEPT ![s] = @ + 1]
     /\ valid' = IF Cached(i) # {} THEN valid ELSE Recycled(s)
     /\ UNCHANGED <<type, nlink, addrs>>

\* ilock(): the lock, and the inode from disk unless it is there
ilock(p) ==
  LET s == ip[p]
      i == inum[s]
      read(mem, d) == IF valid[s] THEN mem ELSE [mem EXCEPT ![s] = d[i]]
  IN /\ At(p, "ilock") /\ lock[s] = NoProc
     /\ lock' = [lock EXCEPT ![s] = p]
     /\ type' = read(type, dtype) /\ nlink' = read(nlink, dnlink) /\ addrs' = read(addrs, daddrs)
     /\ valid' = [valid EXCEPT ![s] = TRUE]
     /\ Return(p)
     /\ UNCHANGED <<disk, dir, dlock, inum, ref, nm, ip, put, fd>>

\* ip->nlink = n, then iupdate()
SetLinks(s, n) ==
  /\ nlink' = [nlink EXCEPT ![s] = n]
  /\ dnlink' = [dnlink EXCEPT ![inum[s]] = n]
  /\ UNCHANGED <<dtype, daddrs, bitmap, inum, ref, valid, type, addrs>>

iunlock(s) == lock' = [lock EXCEPT ![s] = NoProc]

\* Mutant: other references are not looked at.
Last_any(s) == valid[s] /\ nlink[s] = 0

\* The test of iput(): no links, and no other references
Last(s) == valid[s] /\ nlink[s] = 0 /\ ref[s] = 1

iput(p) ==
  LET s == put[p]
  IN /\ At(p, "iput") /\ lock[s] = NoProc
     /\ lock' = [lock EXCEPT ![s] = p]
     /\ Goto(p, IF Last(s) THEN "itrunc" ELSE "iput_unlock")
     /\ UNCHANGED <<disk, dir, dlock, cache, next, nm, ip, put, fd>>

\* One turn of itrunc(): bfree() of a block and ip->addrs[i] = 0, or the
\* iupdate() at its end
itrunc(p) ==
  LET s == put[p]
  IN /\ At(p, "itrunc")
     /\ \/ \E b \in addrs[s] :
             /\ bitmap' = bitmap \ {b}
             /\ addrs' = [addrs EXCEPT ![s] = @ \ {b}]
             /\ UNCHANGED <<daddrs, pc>>
        \/ /\ addrs[s] = {}
           /\ daddrs' = [daddrs EXCEPT ![inum[s]] = {}]
           /\ Goto(p, "iput_free")
           /\ UNCHANGED <<bitmap, addrs>>
     /\ UNCHANGED <<dtype, dnlink, dir, dlock, inum, ref, valid, type, nlink, lock, next, nm, ip, put, fd>>

\* ip->type = 0, iupdate(), ip->valid = 0
iput_free(p) ==
  LET s == put[p]
      i == inum[s]
  IN /\ At(p, "iput_free")
     /\ type' = [type EXCEPT ![s] = "free"] /\ dtype' = [dtype EXCEPT ![i] = "free"]
     /\ valid' = [valid EXCEPT ![s] = FALSE]
     /\ Goto(p, "iput_unlock")
     /\ UNCHANGED <<dnlink, daddrs, bitmap, dir, dlock, inum, ref, nlink, addrs, lock, next, nm,
                    ip, put, fd>>

iput_unlock(p) ==
  /\ At(p, "iput_unlock")
  /\ iunlock(put[p])
  /\ Goto(p, "iput_drop")
  /\ UNCHANGED <<disk, dir, dlock, cache, next, nm, ip, put, fd>>

iput_drop(p) ==
  /\ At(p, "iput_drop")
  /\ ref' = [ref EXCEPT ![put[p]] = @ - 1]
  /\ put' = [put EXCEPT ![p] = None]
  /\ Return(p)
  /\ UNCHANGED <<disk, dir, dlock, inum, valid, type, nlink, addrs, lock, nm, ip, fd>>

\* The iput(dp) of an iunlockput(dp): it takes the directory's lock again,
\* only to find that the directory has links.
iput_dp(p) ==
  /\ At(p, "iput_dp") /\ dlock = NoProc
  /\ Return(p)
  /\ UNCHANGED <<disk, dir, dlock, cache, lock, nm, ip, put, fd>>

\* iput(ip) as the next thing p does, before it is back in user space
PutIp(p) ==
  /\ put' = [put EXCEPT ![p] = ip[p]] /\ ip' = [ip EXCEPT ![p] = None]
  /\ Call(p, "iput", "user")

dirlookup(n) == dir[n]

\* dirlink() of a name that is not there
dirlink(n, i) == dirlookup(n) = None /\ dir' = [dir EXCEPT ![n] = i]

-----------------------------------------------------------------------------
(* sys_open() *)

\* namei() of sys_open() without O_CREATE and of sys_link(): the directory is
\* locked for the lookup, with no other lock held.
namei(p, n, then) ==
  /\ At(p, "user") /\ dlock = NoProc /\ dirlookup(n) # None
  /\ iget(dirlookup(n))
  /\ ip' = [ip EXCEPT ![p] = Entry(dirlookup(n))]
  /\ Call(p, "ilock", then)
  /\ UNCHANGED <<disk, dir, dlock, lock, put, fd>>

sys_open(p, n) ==
  /\ fd[p] = None
  /\ namei(p, n, "opened")
  /\ UNCHANGED nm

\* create(): ilock(dp), dirlookup(), and for a new name ialloc(); dp stays locked
create(p, n) ==
  /\ At(p, "user") /\ fd[p] = None /\ dlock = NoProc
  /\ IF dirlookup(n) # None
       THEN /\ iget(dirlookup(n))
            /\ ip' = [ip EXCEPT ![p] = Entry(dirlookup(n))]
            /\ Call(p, "ilock", "opened")
            /\ UNCHANGED <<disk, dlock, nm>>
       ELSE /\ dlock' = p
            /\ nm' = [nm EXCEPT ![p] = n]
            /\ Goto(p, "ialloc")
            /\ UNCHANGED <<disk, cache, next, ip>>
  /\ UNCHANGED <<dir, lock, put, fd>>

FreeInums == {i \in Inums : dtype[i] = "free"}

\* ialloc() marks the inode on disk; the iget() comes later
ialloc(p) ==
  LET i == Least(FreeInums)
  IN /\ At(p, "ialloc") /\ FreeInums # {}
     /\ dtype' = [dtype EXCEPT ![i] = "file"]
     /\ dnlink' = [dnlink EXCEPT ![i] = 0] /\ daddrs' = [daddrs EXCEPT ![i] = {}]
     /\ ip' = [ip EXCEPT ![p] = i]
     /\ Goto(p, "ialloc_iget")
     /\ UNCHANGED <<bitmap, dir, dlock, cache, lock, next, nm, put, fd>>

ialloc_iget(p) ==
  /\ At(p, "ialloc_iget")
  /\ iget(ip[p])
  /\ ip' = [ip EXCEPT ![p] = Entry(ip[p])]
  /\ Call(p, "ilock", "create_link")
  /\ UNCHANGED <<disk, dir, dlock, lock, nm, put, fd>>

\* nlink = 1, dirlink(), iunlock(dp); ip stays locked over the iput(dp)
create_link(p) ==
  /\ At(p, "create_link")
  /\ SetLinks(ip[p], 1)
  /\ dirlink(nm[p], inum[ip[p]])
  /\ dlock' = NoProc
  /\ Done(p) /\ Call(p, "iput_dp", "opened")
  /\ UNCHANGED <<lock, ip, put, fd>>

\* iunlock(): the file is open
open_done(p) ==
  /\ At(p, "opened")
  /\ iunlock(ip[p])
  /\ fd' = [fd EXCEPT ![p] = ip[p]] /\ ip' = [ip EXCEPT ![p] = None]
  /\ Goto(p, "user")
  /\ UNCHANGED <<disk, dir, dlock, cache, next, nm, put>>

\* No file or descriptor: iunlockput()
open_fail(p) ==
  /\ At(p, "opened")
  /\ iunlock(ip[p])
  /\ PutIp(p)
  /\ UNCHANGED <<disk, dir, dlock, cache, nm, fd>>

-----------------------------------------------------------------------------
(* fileclose() and filewrite() *)

close(p) ==
  /\ At(p, "user") /\ fd[p] # None
  /\ put' = [put EXCEPT ![p] = fd[p]] /\ fd' = [fd EXCEPT ![p] = None]
  /\ Call(p, "iput", "user")
  /\ UNCHANGED <<disk, dir, dlock, cache, lock, nm, ip>>

\* Mutant: the block is not marked.
balloc_unmarked(s, b) == bitmap' = bitmap

balloc(s, b) == bitmap' = bitmap \cup {b}

\* bmap() of the first block the file does not have
bmap(s) ==
  \E b \in Blocks \ bitmap :
    balloc(s, b) /\ addrs' = [addrs EXCEPT ![s] = @ \cup {b}]

\* ilock(), and bmap() of one more block in writei(); the inode of an open
\* file is valid
filewrite(p) ==
  LET s == fd[p]
  IN /\ At(p, "user") /\ s # None
     /\ lock[s] = NoProc
     /\ lock' = [lock EXCEPT ![s] = p]
     /\ Cardinality(addrs[s]) < MaxBlocks
     /\ bmap(s)
     /\ Goto(p, "writei")
     /\ UNCHANGED <<dtype, dnlink, daddrs, dir, dlock, inum, ref, valid, type, nlink, next, nm,
                    ip, put, fd>>

\* The iupdate() at the end of writei(), and iunlock()
writei(p) ==
  LET s == fd[p]
  IN /\ At(p, "writei")
     /\ daddrs' = [daddrs EXCEPT ![inum[s]] = addrs[s]]
     /\ iunlock(s)
     /\ Goto(p, "user")
     /\ UNCHANGED <<dtype, dnlink, bitmap, dir, dlock, cache, next, nm, ip, put, fd>>

-----------------------------------------------------------------------------
(* sys_unlink() *)

\* ilock(dp), dirlookup(); dp stays locked over the ilock(ip)
sys_unlink(p, n) ==
  /\ At(p, "user") /\ dlock = NoProc /\ dirlookup(n) # None
  /\ dlock' = p
  /\ nm' = [nm EXCEPT ![p] = n]
  /\ iget(dirlookup(n))
  /\ ip' = [ip EXCEPT ![p] = Entry(dirlookup(n))]
  /\ Call(p, "ilock", "unlink_erase")
  /\ UNCHANGED <<disk, dir, lock, put, fd>>

\* The entry is erased, iunlock(dp); ip stays locked over the iput(dp)
unlink_erase(p) ==
  /\ At(p, "unlink_erase")
  /\ dir' = [dir EXCEPT ![nm[p]] = None]
  /\ dlock' = NoProc
  /\ Done(p) /\ Call(p, "iput_dp", "unlink_dec")
  /\ UNCHANGED <<disk, cache, lock, ip, put, fd>>

\* ip->nlink--, iupdate(), iunlockput(ip); for sys_link() that failed too
dec(p) ==
  /\ pc[p] \in {"unlink_dec", "link_dec"}
  /\ SetLinks(ip[p], nlink[ip[p]] - 1)
  /\ iunlock(ip[p])
  /\ PutIp(p)
  /\ UNCHANGED <<dir, dlock, nm, fd>>

-----------------------------------------------------------------------------
(* sys_link() *)

sys_link(p, n, new) ==
  /\ namei(p, n, "link_inc")
  /\ nm' = [nm EXCEPT ![p] = new]

\* Mutant: the link is counted only when it has been made.
link_inc_late(p) ==
  /\ At(p, "link_inc")
  /\ iunlock(ip[p])
  /\ Goto(p, "link_dir")
  /\ UNCHANGED <<disk, dir, dlock, cache, next, nm, ip, put, fd>>

link_inc(p) ==
  /\ At(p, "link_inc")
  /\ SetLinks(ip[p], nlink[ip[p]] + 1)
  /\ iunlock(ip[p])
  /\ Goto(p, "link_dir")
  /\ UNCHANGED <<dir, dlock, next, nm, ip, put, fd>>

\* ilock(dp) and dirlink(): the name is new
link_dir(p) ==
  /\ At(p, "link_dir") /\ dlock = NoProc
  /\ dirlink(nm[p], inum[ip[p]])
  /\ Done(p) /\ PutIp(p)
  /\ UNCHANGED <<disk, dlock, cache, lock, fd>>

\* The name exists: dirlink() drops the inode it found, dp still locked
link_exists(p) ==
  LET i == dirlookup(nm[p])
  IN /\ At(p, "link_dir") /\ dlock = NoProc /\ i # None
     /\ dlock' = p
     /\ iget(i)
     /\ put' = [put EXCEPT ![p] = Entry(i)]
     /\ Done(p) /\ Call(p, "iput", "link_undo")
     /\ UNCHANGED <<disk, dir, lock, ip, fd>>

\* iunlockput(dp) with no other lock held, then ilock(ip)
link_undo(p) ==
  /\ At(p, "link_undo")
  /\ dlock' = NoProc
  /\ Call(p, "ilock", "link_dec")
  /\ UNCHANGED <<disk, dir, cache, lock, nm, ip, put, fd>>

\* nameiparent() fails
link_nodir(p) ==
  /\ At(p, "link_dir")
  /\ Done(p) /\ Call(p, "ilock", "link_dec")
  /\ UNCHANGED <<disk, dir, dlock, cache, lock, ip, put, fd>>

-----------------------------------------------------------------------------
Next ==
  \E p \in Procs :
    \/ ilock(p) \/ iput(p) \/ itrunc(p) \/ iput_free(p) \/ iput_unlock(p) \/ iput_drop(p)
    \/ iput_dp(p)
    \/ ialloc(p) \/ ialloc_iget(p) \/ create_link(p) \/ open_done(p) \/ open_fail(p)
    \/ close(p) \/ filewrite(p) \/ writei(p)
    \/ unlink_erase(p) \/ dec(p)
    \/ link_inc(p) \/ link_dir(p) \/ link_exists(p) \/ link_undo(p) \/ link_nodir(p)
    \/ \E n \in Names : \/ sys_open(p, n) \/ create(p, n) \/ sys_unlink(p, n)
                        \/ \E new \in Names : sys_link(p, n, new)

Spec == Init /\ [][Next]_vars

-----------------------------------------------------------------------------
PCs == {"user", "ilock", "iput", "itrunc", "iput_free", "iput_unlock", "iput_drop", "iput_dp",
        "writei",
        "ialloc", "ialloc_iget", "create_link", "opened", "unlink_erase", "unlink_dec",
        "link_inc", "link_dir", "link_undo", "link_dec"}

\* Type invariant of the inodes and the directory.
TypeOK ==
  /\ dtype \in [Inums -> {"free", "file"}] /\ dnlink \in [Inums -> Nat]
  /\ daddrs \in [Inums -> SUBSET Blocks] /\ bitmap \subseteq Blocks
  /\ dir \in [Names -> Inums \cup {None}] /\ dlock \in Procs \cup {NoProc}
  /\ inum \in [Slots -> Inums \cup {None}] /\ ref \in [Slots -> Nat]
  /\ valid \in [Slots -> BOOLEAN] /\ type \in [Slots -> {"free", "file"}]
  /\ nlink \in [Slots -> Nat] /\ addrs \in [Slots -> SUBSET Blocks]
  /\ lock \in [Slots -> Procs \cup {NoProc}]
  /\ pc \in [Procs -> PCs] /\ next \in [Procs -> PCs]
  /\ nm \in [Procs -> Names \cup {None}]
  /\ ip \in [Procs -> Slots \cup Inums \cup {None}]
  /\ put \in [Procs -> Slots \cup {None}] /\ fd \in [Procs -> Slots \cup {None}]

\* fs.c:121-126, "ip->ref tracks the number of in-memory pointers to the
\* entry": with every interleaving of open, close, link and unlink, an entry
\* is recycled when and only when nobody points to it, and an inode has at
\* most one entry (and every variable keeps its type).
RefsCounted ==
  /\ TypeOK
  /\ \A s \in Slots :
       ref[s] = Cardinality({p \in Procs : ip[p] = s /\ pc[p] # "ialloc_iget"})
                + Cardinality({p \in Procs : put[p] = s}) + Cardinality({p \in Procs : fd[p] = s})
  /\ \A s, t \in Slots : ref[s] > 0 /\ ref[t] > 0 /\ inum[s] = inum[t] => s = t

\* Links to i that a call in progress has counted and not entered, or has
\* erased and not discounted
Pending(i) ==
  {p \in Procs : /\ ip[p] # None /\ pc[p] # "ialloc_iget" /\ inum[ip[p]] = i
                 /\ \/ pc[p] \in {"unlink_dec", "link_dir", "link_undo", "link_dec"}
                    \/ next[p] \in {"unlink_dec", "link_undo", "link_dec"}
                       /\ pc[p] \in {"iput_dp", "iput", "itrunc", "iput_free", "iput_unlock",
                                    "iput_drop", "ilock"}}

\* sys_link() and sys_unlink(): an inode's nlink is the number of its
\* directory entries, give or take the calls in progress; a name never
\* refers to a free inode.
LinksCounted ==
  \A i \in Inums :
    LET named == {n \in Names : dir[n] = i}
    IN /\ dtype[i] = "file" => dnlink[i] = Cardinality(named) + Cardinality(Pending(i))
       /\ dtype[i] = "free" => named = {}

\* The processes that have inode i open or work on it
Users(i) == {p \in Procs : \/ pc[p] # "ialloc_iget" /\ ip[p] \in Cached(i)
                           \/ pc[p] = "ialloc_iget" /\ ip[p] = i
                           \/ fd[p] \in Cached(i) \/ put[p] \in Cached(i)}

Named(i) == \E n \in Names : dir[n] = i

\* iput(): an inode is not freed, nor its blocks, while a name refers to it,
\* or a process has it open or works on it; the one process that frees it
\* only has its reference left to drop.  panic("ilock: no type") is not
\* reached.
NotFreedInUse ==
  \A i \in Inums : dtype[i] = "free" =>
    ~ Named(i) /\ \A p \in Users(i) : pc[p] \in {"iput_unlock", "iput_drop"}

\* fs.c:327-328, "If that was the last reference and the inode has no links
\* to it, free the inode (and its content) on disk": an inode that no name
\* and no process refers to is free.
NoInodeLeak ==
  \A i \in Inums : dtype[i] = "file" => Named(i) \/ Users(i) # {}

\* The entry is locked between a balloc() or bfree() and the iupdate() that
\* tells the disk.
Updating(s) ==
  \E p \in Procs : (pc[p] = "writei" /\ fd[p] = s) \/ (pc[p] = "itrunc" /\ put[p] = s)

\* fs.c:216-218, "i-node cache is write-through": what a valid entry says is
\* what the disk says, but for the blocks of an inode that itrunc() or
\* writei() is changing under its lock.
WriteThrough ==
  \A s \in Slots : ref[s] > 0 /\ valid[s] =>
    /\ type[s] = dtype[inum[s]] /\ nlink[s] = dnlink[inum[s]]
    /\ Updating(s) \/ addrs[s] = daddrs[inum[s]]

\* The blocks inode i really has: between balloc() or bfree() and iupdate()
\* those of its locked entry, and at any other time those on disk
BlocksOf(i) ==
  IF \E s \in Cached(i) : Updating(s) THEN addrs[CHOOSE s \in Cached(i) : Updating(s)]
                                      ELSE daddrs[i]

\* balloc(), bfree(): the bitmap marks exactly the blocks the inodes have, and
\* no block belongs to two of them, though bitmap and inode are two blocks
\* that are written at different times, and a block that itrunc() has freed
\* may be in another file before the iupdate() that takes it out of the
\* first on disk.  panic("freeing free block") (fs.c:91) is not reached.
BlocksOwned ==
  /\ WriteThrough
  /\ bitmap = UNION {BlocksOf(i) : i \in Inums}
  /\ \A i, j \in Inums : i # j => BlocksOf(i) \cap BlocksOf(j) = {}

Waits(p, q) ==
  \/ pc[p] = "ilock" /\ lock[ip[p]] = q
  \/ pc[p] = "iput" /\ lock[put[p]] = q
  \/ pc[p] = "iput_dp" /\ dlock = q

\* usertests.c:855-856, "another concurrent link/unlink/create test, to look
\* for deadlocks": processes that create, link and unlink names of one file
\* never wait for each other's locks in a circle.
NoDeadlock ==
  \A S \in SUBSET Procs : S # {} => ~ \A p \in S : \E q \in S : Waits(p, q)
=============================================================================
