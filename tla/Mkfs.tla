-------------------------------- MODULE Mkfs --------------------------------
(***************************************************************************)
(* mkfs (mkfs.c): lays out an empty file system, copies files into it and  *)
(* writes the bitmap at the end.  An image is the part of the disk that    *)
(* the bytes of the files do not matter for: the inodes, the indirect      *)
(* blocks and the entries of the root directory.                           *)
(***************************************************************************)
EXTENDS Naturals, Sequences, FiniteSets

CONSTANTS NLOG,                \* LOGSIZE
          NINODES, IPB,        \* inodes, and inodes in a block
          BLOCK, DIRENT,       \* sizeof a block and of a struct dirent
          NDIR, NIND,          \* NDIRECT and NINDIRECT
          NFS,                 \* FSSIZE
          BITS,                \* bits in a block of the bitmap
          FileSizes            \* the sizes of the files to copy

VARIABLES dinode,     \* inum |-> [type, nlink, size, addrs]
          indirect,   \* indirect block |-> its entries
          dirents,    \* the inums of the entries of the root directory
          freeinode, freeblock,
          bitmap,     \* the blocks marked as used
          made        \* "new", "open" while files are copied, or "done"

mk_vars == <<dinode, indirect, dirents, freeinode, freeblock, bitmap, made>>

ROOTINO == 1
nbitmap == NFS \div BITS + 1
ninodeblocks == NINODES \div IPB + 1
nmeta == 2 + NLOG + ninodeblocks + nbitmap
Smaller(a, b) == IF a < b THEN a ELSE b

Init ==
  /\ dinode = <<>> /\ indirect = <<>> /\ dirents = <<>>
  /\ freeinode = 1 /\ freeblock = nmeta
  /\ bitmap = {}
  /\ made = "new"

-----------------------------------------------------------------------------

Image == [dinode |-> dinode, indirect |-> indirect, freeblock |-> freeblock]
Set(f, k, v) == [j \in DOMAIN f \cup {k} |-> IF j = k THEN v ELSE f[j]]

ialloc(g, inum, type) ==
  [g EXCEPT !.dinode = Set(@, inum, [type |-> type, nlink |-> 1, size |-> 0,
                                     addrs |-> [i \in 0..NDIR |-> 0]])]

\* The image with block fbn of the inode allocated.
Mapped(g, inum, fbn) ==
  LET a  == g.dinode[inum].addrs
      b  == g.freeblock
      g1 == IF a[NDIR] # 0 THEN g
            ELSE [g EXCEPT !.dinode[inum].addrs[NDIR] = b,
                           !.indirect = Set(@, b, [i \in 0..(NIND - 1) |-> 0]),
                           !.freeblock = b + 1]
      x  == g1.dinode[inum].addrs[NDIR]
  IN  IF fbn < NDIR
      THEN IF a[fbn] # 0 THEN g
           ELSE [g EXCEPT !.dinode[inum].addrs[fbn] = b, !.freeblock = b + 1]
      ELSE IF g1.indirect[x][fbn - NDIR] # 0 THEN g1
           ELSE [g1 EXCEPT !.indirect[x][fbn - NDIR] = g1.freeblock,
                           !.freeblock = g1.freeblock + 1]

\* iappend(): n more bytes at the end of the inode.
RECURSIVE iappend(_, _, _)
iappend(g, inum, n) ==
  IF n = 0 THEN g
  ELSE LET off == g.dinode[inum].size
           fbn == off \div BLOCK
           n1  == Smaller(n, (fbn + 1) * BLOCK - off)
       IN  iappend([Mapped(g, inum, fbn) EXCEPT !.dinode[inum].size = off + n1], inum, n - n1)

\* while((cc = read(fd, buf, sizeof(buf))) > 0) iappend(inum, buf, cc)
RECURSIVE Copied(_, _, _)
Copied(g, inum, n) ==
  IF n = 0 THEN g
  ELSE Copied(iappend(g, inum, Smaller(n, BLOCK)), inum, n - Smaller(n, BLOCK))

Written(g) == dinode' = g.dinode /\ indirect' = g.indirect /\ freeblock' = g.freeblock

\* main(), up to the loop over the files: the root with "." and "..".
format ==
  /\ made = "new"
  /\ Written(iappend(iappend(ialloc(Image, ROOTINO, "T_DIR"), ROOTINO, DIRENT), ROOTINO, DIRENT))
  /\ dirents' = <<ROOTINO, ROOTINO>>
  /\ freeinode' = freeinode + 1
  /\ made' = "open"
  /\ UNCHANGED bitmap

\* A turn of the loop: a file of n bytes.  assert(fbn < MAXFILE) ends mkfs when
\* the file or the directory is too long.  Bound: NINODES files; main() does
\* not look at the number of inodes.
copy(n) ==
  LET inum == freeinode
  IN  /\ made = "open"
      /\ inum < NINODES
      /\ n <= (NDIR + NIND) * BLOCK
      /\ (Len(dirents) + 1) * DIRENT <= (NDIR + NIND) * BLOCK
      /\ Written(Copied(iappend(ialloc(Image, inum, "T_FILE"), ROOTINO, DIRENT), inum, n))
      /\ dirents' = Append(dirents, inum)
      /\ freeinode' = freeinode + 1
      /\ UNCHANGED <<bitmap, made>>

\* Mutant: the last block in use is left out.
balloc_last(used) == 0..(used - 2)

\* balloc(): the bits that are set
balloc(used) == 0..(used - 1)

\* main(), after the loop: the size of the root is rounded up to whole blocks and
\* the bitmap is written; assert(used < BSIZE*8) ends mkfs on a larger image.
finish ==
  LET sz == dinode[ROOTINO].size
  IN  /\ made = "open"
      /\ freeblock < BITS
      /\ dinode' = [dinode EXCEPT ![ROOTINO].size = (sz \div BLOCK + 1) * BLOCK]
      /\ bitmap' = balloc(freeblock)
      /\ made' = "done"
      /\ UNCHANGED <<indirect, dirents, freeinode, freeblock>>

Next == format \/ finish \/ \E n \in FileSizes : copy(n)

-----------------------------------------------------------------------------

\* The blocks of the data of an inode, in order, and all its blocks.
DataOf(i) ==
  LET a == dinode[i].addrs
  IN  [k \in 0..(NDIR + NIND - 1) |->
         CASE k < NDIR -> a[k] [] a[NDIR] = 0 -> 0 [] OTHER -> indirect[a[NDIR]][k - NDIR]]
BlocksOf(i) == ({DataOf(i)[k] : k \in DOMAIN DataOf(i)} \cup {dinode[i].addrs[NDIR]}) \ {0}
Pointers(i) == Cardinality({k \in DOMAIN DataOf(i) : DataOf(i)[k] # 0})
               + (IF dinode[i].addrs[NDIR] # 0 THEN 1 ELSE 0)

\* The image that mkfs leaves is one the kernel may start from: no block belongs
\* to two inodes or twice to one, the bitmap marks the metadata and exactly the
\* blocks in use, a file has a block for every byte of its size and no more, and
\* every inode but the root has the one entry that its link count says.  The root
\* may have a last block that is not there yet (mkfs.c:161).
ImageConsistent ==
  made = "done" =>
    LET inums == DOMAIN dinode
        used  == UNION {BlocksOf(i) : i \in inums}
    IN  /\ \A i \in inums : Cardinality(BlocksOf(i)) = Pointers(i)
        /\ \A i, j \in inums : i # j => BlocksOf(i) \cap BlocksOf(j) = {}
        /\ bitmap = 0..(nmeta - 1) \cup used
        /\ \A b \in used : b >= nmeta
        /\ \A i \in inums \ {ROOTINO}, k \in 0..(NDIR + NIND - 1) :
             (DataOf(i)[k] # 0) <=> (k * BLOCK < dinode[i].size)
        /\ \A k \in 0..(NDIR + NIND - 1) :
             (DataOf(ROOTINO)[k] # 0) <=> (k * BLOCK < Len(dirents) * DIRENT)
        /\ dinode[ROOTINO].size >= Len(dirents) * DIRENT
        /\ \A i \in inums \ {ROOTINO} :
             Cardinality({k \in 1..Len(dirents) : dirents[k] = i}) = dinode[i].nlink
=============================================================================
