------------------------------- MODULE FileIO -------------------------------
(***************************************************************************)
(* The path of read() and write() to a file: fileread() and filewrite()    *)
(* (file.c), readi(), writei() and bmap() (fs.c) over the blocks of one    *)
(* inode.  Open files are shared by processes after a fork() or a dup(),   *)
(* with their offset; two open files of the same inode have one each.      *)
(* A byte is the process that wrote it.  What happens between ilock() and  *)
(* iunlock() is one step, and so is the transaction around it.             *)
(***************************************************************************)
EXTENDS Naturals, Sequences, FiniteSets, SequencesExt

CONSTANTS Procs, Files,
          BSIZE, NDIRECT, NINDIRECT,
          FIRST, FSSIZE,   \* the data blocks are FIRST..FSSIZE - 1
          BPB,             \* blocks covered by a block of the bitmap
          MAXOPBLOCKS,     \* blocks a transaction may write
          Writes, Reads,   \* the sizes of the calls
          MaxCalls         \* the number of calls

VARIABLES size,    \* ip->size
          addrs,   \* ip->addrs: the blocks of the file, 0 when not allocated
          ind,     \* the indirect block
          disk,    \* disk[b]: the bytes of data block b
          off,     \* off[f]: f->off
          todo,    \* todo[p]: the file and the n - i bytes of p's filewrite()
          got,     \* what the last fileread() returned
          calls,   \* the calls made so far
          logged   \* the blocks written by a transaction that has just ended

io_vars == <<size, addrs, ind, disk, off, todo, got, calls, logged>>

DataBlocks == FIRST..(FSSIZE - 1)
MAXFILE == NDIRECT + NINDIRECT
max == ((MAXOPBLOCKS - 1 - 1 - 2) \div 2) * BSIZE
Least(a, b) == IF a < b THEN a ELSE b
Idle == <<>>
Zeroes == [i \in 0..(BSIZE - 1) |-> 0]

\* The blocks that are written besides data: the inode's, and the bitmap's.
InodeBlock == <<"inode", 0>>
Bitmap(b) == <<"bitmap", b \div BPB>>
Data(b) == <<"data", b>>

Init ==
  /\ size = 0
  /\ addrs = [i \in 0..NDIRECT |-> 0]
  /\ ind = [i \in 0..(NINDIRECT - 1) |-> 0]
  /\ disk = [b \in DataBlocks |-> Zeroes]
  /\ off = [f \in Files |-> 0]
  /\ todo = [p \in Procs |-> Idle]
  /\ got = <<>>
  /\ calls = 0
  /\ logged = {}

-----------------------------------------------------------------------------

\* The inode as the loops of readi() and writei() change it; log holds the
\* blocks passed to log_write().
Inode == [addrs |-> addrs, ind |-> ind, disk |-> disk, log |-> {}]

Allocated(x) == {x.addrs[i] : i \in DOMAIN x.addrs} \cup {x.ind[i] : i \in DOMAIN x.ind}

\* balloc(): the first block that is free, zeroed.
Fresh(x) == CHOOSE b \in DataBlocks \ Allocated(x) : \A c \in DataBlocks \ Allocated(x) : b <= c
balloc(x, b) == [x EXCEPT !.disk[b] = Zeroes, !.log = @ \cup {Bitmap(b), Data(b)}]

\* bmap(): the inode with block bn allocated.
bmap(x, bn) ==
  IF bn < NDIRECT
  THEN IF x.addrs[bn] # 0 THEN x
       ELSE LET b == Fresh(x) IN [balloc(x, b) EXCEPT !.addrs[bn] = b]
  ELSE LET b == Fresh(x)
           y == IF x.addrs[NDIRECT] # 0 THEN x
                ELSE [balloc(x, b) EXCEPT !.addrs[NDIRECT] = b]
           k == bn - NDIRECT
           c == Fresh(y)
       IN  IF y.ind[k] # 0 THEN y
           ELSE [balloc(y, c) EXCEPT !.ind[k] = c, !.log = @ \cup {Data(y.addrs[NDIRECT])}]

\* The block that bmap() returns
Block(x, bn) == IF bn < NDIRECT THEN x.addrs[bn] ELSE x.ind[bn - NDIRECT]

\* The loop of writei(): n bytes of p from o on.
RECURSIVE Copied(_, _, _, _)
Copied(x, o, n, p) ==
  IF n = 0 THEN x
  ELSE LET y == bmap(x, o \div BSIZE)
           b == Block(y, o \div BSIZE)
           m == Least(n, BSIZE - (o % BSIZE))
       IN  Copied([y EXCEPT !.disk[b] = [i \in DOMAIN @ |->
                                           IF (o % BSIZE) <= i /\ i < (o % BSIZE) + m THEN p ELSE @[i]],
                            !.log = @ \cup {Data(b)}],
                  o + m, n - m, p)

\* The bytes that the loop of readi() copies; every block is there, since the
\* file has no holes.
RECURSIVE Gathered(_, _, _)
Gathered(x, o, n) ==
  IF n = 0 THEN <<>>
  ELSE LET b == Block(x, o \div BSIZE)
           m == Least(n, BSIZE - (o % BSIZE))
       IN  [i \in 1..m |-> x.disk[b][(o % BSIZE) + i - 1]] \o Gathered(x, o + m, n - m)

-----------------------------------------------------------------------------

\* filewrite() is called with n bytes.
filewrite(p, f, n) ==
  /\ todo[p] = Idle
  /\ calls < MaxCalls
  /\ calls' = calls + 1
  /\ todo' = [todo EXCEPT ![p] = IF n > 0 THEN [f |-> f, n |-> n] ELSE Idle]
  /\ logged' = {}
  /\ UNCHANGED <<size, addrs, ind, disk, off, got>>

\* Mutant: a write is one transaction however long it is.
Piece_whole(n) == n

\* The length of a piece.
Piece(n) == Least(n, max)

\* Mutant: ip->size is the end of the last write.
Grown_always(end) == end

\* ip->size after a write that ends at end
Grown(end) == IF end > size THEN end ELSE size

\* A turn of its loop: begin_op(), ilock(), writei(), iunlock(), end_op().
writei(p) ==
  LET f  == todo[p].f
      n1 == Piece(todo[p].n)
      x  == Copied(Inode, off[f], n1, p)
      end == off[f] + n1
      fails == off[f] > size \/ end > MAXFILE * BSIZE
  IN  /\ todo[p] # Idle
      /\ \/ /\ ~fails
            /\ addrs' = x.addrs /\ ind' = x.ind /\ disk' = x.disk
            /\ size' = Grown(end)
            /\ logged' = IF end > size THEN x.log \cup {InodeBlock} ELSE x.log
            /\ off' = [off EXCEPT ![f] = end]
            /\ todo' = [todo EXCEPT ![p] = IF @.n = n1 THEN Idle ELSE [@ EXCEPT !.n = @ - n1]]
         \/ /\ fails
            /\ logged' = {}
            /\ todo' = [todo EXCEPT ![p] = Idle]
            /\ UNCHANGED <<size, addrs, ind, disk, off>>
      /\ UNCHANGED <<got, calls>>

\* fileread(): ilock(), readi(), iunlock().
fileread(p, f, n) ==
  LET r == CASE off[f] > size -> 0
             [] off[f] + n > size -> size - off[f]
             [] OTHER -> n
  IN  /\ todo[p] = Idle
      /\ calls < MaxCalls
      /\ calls' = calls + 1
      /\ got' = Gathered(Inode, off[f], r)
      /\ off' = [off EXCEPT ![f] = @ + r]
      /\ logged' = {}
      /\ UNCHANGED <<size, addrs, ind, disk, todo>>

Next ==
  \E p \in Procs :
    \/ writei(p)
    \/ \E f \in Files : \/ \E n \in Writes : filewrite(p, f, n)
                        \/ \E n \in Reads : fileread(p, f, n)

Spec == Init /\ [][Next]_io_vars

-----------------------------------------------------------------------------

\* The transaction of every piece of a write stays within the blocks that
\* begin_op() reserves for an operation, wherever the piece starts: what the
\* comment at file.c:127 claims of max.
WriteFits == Cardinality(logged) <= MAXOPBLOCKS

Content == Gathered(Inode, 0, size)
Flat == INSTANCE ByteFile WITH content <- Content, MaxSize <- MAXFILE * BSIZE

\* A file kept in blocks behaves as a sequence of bytes with one offset for each
\* open file: pieces of writes through a shared offset neither overwrite each
\* other nor leave holes, and a read returns what was written last.
ImplementsByteFile == Flat!Spec
=============================================================================
