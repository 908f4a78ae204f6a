------------------------------ MODULE Strings ------------------------------
(***************************************************************************)
(* The functions on memory and strings of the kernel (string.c) and of the *)
(* user library (ulib.c), and the conversion of numbers that printf.c and  *)
(* console.c share.  A memory f is a function of addresses to bytes; a     *)
(* function that writes returns the new memory, one that reads its result. *)
(***************************************************************************)
EXTENDS Integers, Sequences, SequencesExt, FiniteSetsExt

CONSTANTS MEM,    \* the addresses are 0..MEM - 1
          BYTE,   \* the bytes are 0..BYTE - 1
          WORD,   \* the bytes of a word (4)
          INT     \* 2^32: an int is in -INT/2..INT/2 - 1, a uint in 0..INT - 1

VARIABLE m        \* the memory

Addrs == 0..(MEM - 1)
In(a, n) == a..(a + n - 1)
NUL == 0

Init == m = [i \in Addrs |-> NUL]

\* The program stores a byte; the library is called on the memory it makes.
Next == \E a \in Addrs, b \in 0..(BYTE - 1) : m' = [m EXCEPT ![a] = b]

-----------------------------------------------------------------------------

\* while(n-- > 0) *d++ = *s++, and the same from the end.
RECURSIVE Up(_, _, _, _)
Up(f, d, s, n) == IF n = 0 THEN f ELSE Up([f EXCEPT ![d] = f[s]], d + 1, s + 1, n - 1)
RECURSIVE Down(_, _, _, _)
Down(f, d, s, n) ==
  IF n = 0 THEN f ELSE Down([f EXCEPT ![d - 1] = f[s - 1]], d - 1, s - 1, n - 1)

\* Mutant: the overlap is not looked at.
memmove_up(f, d, s, n) == Up(f, d, s, n)

memmove(f, d, s, n) ==
  IF s < d /\ s + n > d THEN Down(f, d + n, s + n, n) ELSE Up(f, d, s, n)

\* The library's memmove() always goes up.
ulib_memmove(f, d, s, n) == Up(f, d, s, n)

\* memset() stores whole words when the address and the length are words.
memset(f, d, c, n) ==
  LET written == IF d % WORD = 0 /\ n % WORD = 0
                 THEN UNION {In(d + w * WORD, WORD) : w \in 0..((n \div WORD) - 1)}
                 ELSE In(d, n)
  IN  [i \in DOMAIN f |-> IF i \in written THEN c % BYTE ELSE f[i]]

RECURSIVE memcmp(_, _, _, _)
memcmp(f, a, b, n) ==
  IF n = 0 THEN 0
  ELSE IF f[a] # f[b] THEN f[a] - f[b]
  ELSE memcmp(f, a + 1, b + 1, n - 1)

RECURSIVE strncmp(_, _, _, _)
strncmp(f, p, q, n) ==
  IF n = 0 THEN 0
  ELSE IF f[p] = NUL \/ f[p] # f[q] THEN f[p] - f[q]
  ELSE strncmp(f, p + 1, q + 1, n - 1)

\* The copy stops at the NUL, and zeroes fill what is left of n.
RECURSIVE strncpy(_, _, _, _)
strncpy(f, s, t, n) ==
  IF n = 0 THEN f
  ELSE IF f[t] = NUL THEN memset(f, s, NUL, n)
  ELSE strncpy([f EXCEPT ![s] = f[t]], s + 1, t + 1, n - 1)

\* Past the NUL that it copies, the loop has gone on by one and stores another.
RECURSIVE safestrcpy(_, _, _, _)
safestrcpy(f, s, t, n) ==
  IF n <= 0 THEN f
  ELSE IF n = 1 THEN [f EXCEPT ![s] = NUL]
  ELSE IF f[t] = NUL THEN [f EXCEPT ![s] = NUL, ![s + 1] = NUL]
  ELSE safestrcpy([f EXCEPT ![s] = f[t]], s + 1, t + 1, n - 1)

RECURSIVE strlen(_, _)
strlen(f, s) == IF f[s] = NUL THEN 0 ELSE 1 + strlen(f, s + 1)

RECURSIVE strcpy(_, _, _)
strcpy(f, s, t) ==
  LET g == [f EXCEPT ![s] = f[t]]
  IN  IF f[t] = NUL THEN g ELSE strcpy(g, s + 1, t + 1)

RECURSIVE strcmp(_, _, _)
strcmp(f, p, q) ==
  IF f[p] = NUL \/ f[p] # f[q] THEN f[p] - f[q] ELSE strcmp(f, p + 1, q + 1)

\* The address of c in the string at s, or 0 when it is not there; the NUL at the
\* end is not looked at.
RECURSIVE strchr(_, _, _)
strchr(f, s, c) ==
  IF f[s] = NUL THEN NUL ELSE IF f[s] = c THEN <<s>> ELSE strchr(f, s + 1, c)

\* printint(): the digits of xx, the most significant first; "-" is -1.
RECURSIVE Digits(_, _)
Digits(x, b) == (IF x \div b = 0 THEN <<>> ELSE Digits(x \div b, b)) \o <<x % b>>
printint(xx, b, sign) ==
  IF sign /\ xx < 0 THEN <<-1>> \o Digits((-xx) % INT, b) ELSE Digits(xx % INT, b)

atoi(digits) == FoldLeft(LAMBDA n, d : (n * 10 + d) % INT, 0, digits)

-----------------------------------------------------------------------------

\* The length of the string at a, when there is one in the memory.
HasString(a) == \E i \in Addrs : i >= a /\ m[i] = NUL
Length(a) == Min({i \in Addrs : i >= a /\ m[i] = NUL}) - a
Str(a) == [i \in 1..Length(a) |-> m[a + i - 1]]
Same(g, S) == \A i \in Addrs \ S : g[i] = m[i]
Sign(x) == IF x > 0 THEN 1 ELSE IF x < 0 THEN -1 ELSE 0
\* The order of two sequences of bytes, as of two words of a dictionary.
Order(u, v) ==
  IF u = v THEN 0
  ELSE LET k == Min({i \in 1..(Min({Len(u), Len(v)}) + 1) :
                       \/ i > Len(u) \/ i > Len(v)
                       \/ u[i] # v[i]})
       IN  CASE k > Len(u) -> -1 [] k > Len(v) -> 1 [] OTHER -> Sign(u[k] - v[k])
Prefix(u, n) == SubSeq(u, 1, Min({n, Len(u)}))

\* What a copy of n bytes leaves, whatever overlaps.
Moved(d, s, n) == [i \in Addrs |-> IF i \in In(d, n) THEN m[s + i - d] ELSE m[i]]

MemoryRight ==
  \A d, s \in Addrs : \A n \in 0..Min({MEM - d, MEM - s}) :
    /\ memmove(m, d, s, n) = Moved(d, s, n)
    /\ (d <= s \/ s + n <= d) => ulib_memmove(m, d, s, n) = Moved(d, s, n)
    /\ memset(m, d, BYTE + 1, n) = [i \in Addrs |-> IF i \in In(d, n) THEN 1 ELSE m[i]]
    /\ Sign(memcmp(m, d, s, n)) =
         Order([i \in 1..n |-> m[d + i - 1]], [i \in 1..n |-> m[s + i - 1]])

StringsRight ==
  \A s, t \in {a \in Addrs : HasString(a)} :
    /\ strlen(m, s) = Length(s)
    /\ Sign(strcmp(m, s, t)) = Order(Str(s), Str(t))
    /\ \A n \in 0..MEM : Sign(strncmp(m, s, t, n)) = Order(Prefix(Str(s), n), Prefix(Str(t), n))
    /\ \A c \in 1..(BYTE - 1) :
         strchr(m, s, c) = IF c \in ToSet(Str(s))
                           THEN <<s + Min({i \in 1..Length(s) : Str(s)[i] = c}) - 1>> ELSE NUL

\* Copies between places that do not overlap stay inside their n bytes, and
\* safestrcpy() leaves a string there.
CopiesRight ==
  \A s \in Addrs, t \in {a \in Addrs : HasString(a)} :
    LET len == Length(t)
        Apart(n) == s + n <= t \/ t + len < s
    IN  /\ \A n \in 0..(MEM - s) : Apart(n) =>
             LET g == strncpy(m, s, t, n)
                 h == safestrcpy(m, s, t, n)
             IN  /\ Same(g, In(s, n)) /\ Same(h, In(s, n))
                 /\ \A i \in In(s, n) : g[i] = IF i - s < len THEN m[t + i - s] ELSE NUL
                 /\ n > 0 => /\ \A i \in In(s, Min({len, n - 1})) : h[i] = m[t + i - s]
                             /\ h[s + Min({len, n - 1})] = NUL
        /\ s + len < MEM /\ Apart(len + 1) =>
             strcpy(m, s, t) = Moved(s, t, len + 1)

Value(ds, b) == FoldLeft(LAMBDA n, d : n * b + d, 0, ds)

\* The smallest int has no positive counterpart: -xx is itself, and prints right
\* because it is then taken as unsigned.
NumbersRight ==
  \A xx \in (-(INT \div 2))..((INT \div 2) - 1), b \in {2, 10} :
    /\ LET p == printint(xx, b, TRUE)
       IN  xx = IF p[1] = -1 THEN -Value(Tail(p), b) ELSE Value(p, b)
    /\ Value(printint(xx, b, FALSE), b) = xx % INT
    /\ xx >= 0 => atoi(printint(xx, 10, TRUE)) = xx

\* Every function of the library computes what it is for, on every memory: the
\* copies move the bytes that were there before the call even when source and
\* destination overlap (string.c:39, grep.c relies on it), strings are compared
\* as sequences, nothing is written past n bytes, and numbers print as
\* themselves down to the smallest int.
LibraryRight == MemoryRight /\ StringsRight /\ CopiesRight /\ NumbersRight
=============================================================================
