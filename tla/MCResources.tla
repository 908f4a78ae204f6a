---------------------------- MODULE MCResources ----------------------------
(***************************************************************************)
(* The machines that hand out and take back something finite, for TLC:     *)
(* the file table (FTable), the blocks of a file (FileIO), the image that  *)
(* mkfs makes (Mkfs), physical pages (Vm), the heap of a program           *)
(* (Umalloc) and the ring of the console (Console).  They share no state,  *)
(* so a behaviour runs one of them.                                        *)
(***************************************************************************)
EXTENDS FTable

CONSTANTS
  Opens, BSIZE, NDIRECT, NINDIRECT, FIRST, FSSIZE, BPB, MAXOPBLOCKS, Writes, Reads, MaxIO,
  NLOG, NINODES, IPB, BLOCK, DIRENT, NDIR, NIND, NFS, BITS, FileSizes,
  NPROC, NFRAME, PGSIZE, NPTE, KERNBASE, Deltas, Stores, Programs, ArgSizes, MaxCalls,
  HEADER, NMORE, LIMIT, Requests, Gaps,
  Readers, Chars, NL, EOF, INPUT_BUF, UINT, ReadSizes

VARIABLES
  size, addrs, ind, disk, off, todo, got, io, logged,
  dinode, indirect, dirents, freeinode, freeblock, bitmap, made,
  free, data, state, parent, kstack, sz, pgdir, job, calls, panicked,
  ptr, units, freep, brk, owned, gaps,
  buf, r, w, e, reader, n, target, line, killed,
  machine    \* which of them runs

File   == INSTANCE FileIO WITH Files <- Opens, MaxCalls <- MaxIO, calls <- io
Disk   == INSTANCE Mkfs
Memory == INSTANCE Vm
Heap   == INSTANCE Umalloc WITH size <- units
Input  == INSTANCE Console WITH Procs <- Readers, pc <- reader, got <- line

ASSUME Memory!VmAssumption /\ Input!ConsoleAssumption

file   == <<size, addrs, ind, disk, off, todo, got, io, logged>>
image  == <<dinode, indirect, dirents, freeinode, freeblock, bitmap, made>>
memory == <<free, data, state, parent, kstack, sz, pgdir, job, calls, panicked>>
heap   == <<ptr, units, freep, brk, owned, gaps>>
ring   == <<buf, r, w, e, reader, n, target, line, killed>>

MCInit ==
  /\ Init /\ File!Init /\ Disk!Init /\ Memory!Init /\ Heap!Init /\ Input!Init
  /\ machine \in {"table", "file", "image", "memory", "heap", "console"}

\* The calls of the machines that are bounded have all been made.
Stop ==
  /\ machine \in {"file", "image", "memory"}
  /\ UNCHANGED <<vars, file, image, memory, heap, ring>>

MCNext ==
  /\ UNCHANGED machine
  /\ \/ machine = "table" /\ Next /\ UNCHANGED <<file, image, memory, heap, ring>>
     \/ machine = "file" /\ File!Next /\ UNCHANGED <<vars, image, memory, heap, ring>>
     \/ machine = "image" /\ Disk!Next /\ UNCHANGED <<vars, file, memory, heap, ring>>
     \/ machine = "memory" /\ Memory!Next /\ UNCHANGED <<vars, file, image, heap, ring>>
     \/ machine = "heap" /\ Heap!Next /\ UNCHANGED <<vars, file, image, memory, ring>>
     \/ machine = "console" /\ Input!Next /\ UNCHANGED <<vars, file, image, memory, heap>>
     \/ Stop

MCSpec == MCInit /\ [][MCNext]_<<vars, file, image, memory, heap, ring, machine>>

-----------------------------------------------------------------------------
Seg(vaddr, memsz, filesz) == [vaddr |-> vaddr, memsz |-> memsz, filesz |-> filesz]

\* A program of two segments, the second with a tail that is not in the file,
\* and one whose second segment is not page-aligned
MCPrograms == {<<Seg(0, 1, 1), Seg(2, 2, 1)>>, <<Seg(0, 2, 2), Seg(3, 1, 1)>>}
MCDeltas == {-3, 6}

-----------------------------------------------------------------------------
\* filewrite(): a piece of a write fits in a transaction; see module FileIO.
WriteFits == machine = "file" => File!WriteFits

\* readi() and writei() make a file of bytes out of blocks; see module FileIO.
ImplementsByteFile ==
  File!Flat!Init /\ [][machine = "file" => File!Flat!Next]_(File!Flat!vars)

\* mkfs.c: the image the kernel starts from is consistent; see module Mkfs.
ImageConsistent == machine = "image" => Disk!ImageConsistent

\* kalloc.c, vm.c: every page has one owner; see module Vm.
PagesOwned == machine = "memory" => Memory!PagesOwned

\* vm.c: every process has a memory of its own; see module Vm.
ImplementsAddrSpace ==
  Memory!Abstract!Init /\ [][machine = "memory" => Memory!Abstract!Next]_(Memory!Abstract!vars)

\* umalloc.c: blocks neither overlap nor get lost; see module Umalloc.
HeapSound == machine = "heap" => Heap!HeapSound

\* console.c: a reader sleeps only when nothing is entered; see module Console.
ReaderSleeps == machine = "console" => Input!ReaderSleeps

\* console.c: the ring is a queue of entered lines; see module Console.
ImplementsLineFifo ==
  Input!Abstract!Init /\ [][machine = "console" => Input!Abstract!Next]_(Input!Abstract!vars)
=============================================================================
