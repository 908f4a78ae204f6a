-------------------------------- MODULE Grep --------------------------------
(***************************************************************************)
(* grep (grep.c): the loop that reads a descriptor into a buffer and cuts  *)
(* it into lines, and the matcher of regular expressions.  A read() of a   *)
(* pipe or of the console returns what is there, so that it may end in the *)
(* middle of a line.                                                       *)
(***************************************************************************)
EXTENDS Naturals, Sequences, SequencesExt

CONSTANTS Patterns,  \* the patterns: sequences of "^", ".", "*", "$" and letters
          Inputs,    \* what the descriptor holds: sequences of letters and NL
          BUF        \* sizeof(buf)

VARIABLES pattern, input,
          pos,       \* characters of the input read so far
          buf,       \* the characters buf[0] .. buf[m - 1]
          out,       \* the lines written to descriptor 1, without their NL
          cut        \* ghost: some read() left no whole line in the buffer

grep_vars == <<pattern, input, pos, buf, out, cut>>

NL == "n"

-----------------------------------------------------------------------------

\* re and text are passed as the suffixes that the pointers of the code point to.
Is(t, i, c) == Len(t) >= i /\ t[i] = c

RECURSIVE matchhere(_, _), matchstar(_, _, _)
matchhere(re, text) ==
  IF re = <<>> THEN TRUE
  ELSE IF Is(re, 2, "*") THEN matchstar(re[1], SubSeq(re, 3, Len(re)), text)
  ELSE IF re = <<"$">> THEN text = <<>>
  ELSE text # <<>> /\ re[1] \in {".", text[1]} /\ matchhere(Tail(re), Tail(text))

matchstar(c, re, text) ==
  \/ matchhere(re, text)
  \/ text # <<>> /\ c \in {".", text[1]} /\ matchstar(c, re, Tail(text))

\* Mutant: an empty text is not looked at.
match_nonempty(re, text) ==
  IF Is(re, 1, "^") THEN matchhere(Tail(re), text)
  ELSE \E i \in 1..Len(text) : matchhere(re, SubSeq(text, i, Len(text)))

\* match() looks even if the text is empty.
match(re, text) ==
  IF Is(re, 1, "^") THEN matchhere(Tail(re), text)
  ELSE \E i \in 1..(Len(text) + 1) : matchhere(re, SubSeq(text, i, Len(text)))

-----------------------------------------------------------------------------

Init ==
  /\ pattern \in Patterns
  /\ input \in Inputs
  /\ pos = 0
  /\ buf = <<>>
  /\ out = <<>>
  /\ cut = FALSE

\* The loop over the lines of the buffer: what is written and what is left.
RECURSIVE Scan(_, _)
Scan(b, o) ==
  IF NL \notin ToSet(b) THEN [rest |-> b, out |-> o]
  ELSE LET q    == SelectInSeq(b, LAMBDA c : c = NL)
           line == SubSeq(b, 1, q - 1)
       IN  Scan(SubSeq(b, q + 1, Len(b)), IF match(pattern, line) THEN Append(o, line) ELSE o)

\* A turn of the loop: n characters are read, every whole line is matched, and
\* the start of the next line moves to the front; without a whole line, m = 0.
grep(n) ==
  LET b == buf \o SubSeq(input, pos + 1, pos + n)
      r == Scan(b, out)
  IN  /\ n <= BUF - Len(buf) - 1
      /\ pos + n <= Len(input)
      /\ pos' = pos + n
      /\ out' = r.out
      /\ buf' = IF r.rest = b THEN <<>> ELSE r.rest
      /\ cut' = (cut \/ r.rest = b)
      /\ UNCHANGED <<pattern, input>>

Next == \E n \in 1..(BUF - 1) : grep(n)

-----------------------------------------------------------------------------

(***************************************************************************)
(* What a pattern means: it is a sequence of items, each one a character   *)
(* or a repeated character, and matches where the items can be laid end    *)
(* to end.                                                                 *)
(***************************************************************************)
RECURSIVE Items(_)
Items(re) ==
  CASE re = <<>> -> <<>>
    [] Is(re, 2, "*") -> <<[c |-> re[1], star |-> TRUE]>> \o Items(SubSeq(re, 3, Len(re)))
    [] OTHER -> <<[c |-> re[1], star |-> FALSE]>> \o Items(Tail(re))

Fits(item, text, i, j) ==
  /\ item.star \/ j = i + 1
  /\ \A k \in (i + 1)..j : item.c \in {".", text[k]}

\* Where the items can end in the text when they start at one of the places.
Ends(items, text, places) ==
  FoldLeft(LAMBDA from, item : {j \in 0..Len(text) : \E i \in from : i <= j /\ Fits(item, text, i, j)},
           places, items)

Matches(re, text) ==
  LET anchored == Is(re, 1, "^")
      items == Items(IF anchored THEN Tail(re) ELSE re)
      final == items # <<>> /\ Last(items) = [c |-> "$", star |-> FALSE]
      ends  == Ends(IF final THEN Front(items) ELSE items, text,
                    IF anchored THEN {0} ELSE 0..Len(text))
  IN  IF final THEN Len(text) \in ends ELSE ends # {}

RECURSIVE LinesOf(_)
LinesOf(t) ==
  IF NL \notin ToSet(t) THEN <<>>
  ELSE LET q == SelectInSeq(t, LAMBDA c : c = NL)
       IN  <<SubSeq(t, 1, q - 1)>> \o LinesOf(SubSeq(t, q + 1, Len(t)))

\* grep writes exactly the lines that match its pattern, in order, however the
\* reads cut the input up, as long as every read() leaves at least one whole line
\* in the buffer: a read that does not makes grep.c:29 drop the start of a line
\* that the next read goes on with, and then only what is still to come of the
\* line is matched.
GrepPrints ==
  ~cut => /\ out = SelectSeq(LinesOf(SubSeq(input, 1, pos)), LAMBDA l : Matches(pattern, l))
          /\ NL \notin ToSet(buf)
=============================================================================
