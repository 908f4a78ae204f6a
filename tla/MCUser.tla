------------------------------- MODULE MCUser -------------------------------
(***************************************************************************)
(* The user programs for TLC: the shell and its parser (Sh, ShParse), grep *)
(* (Grep) and the library functions (Strings).  A behaviour runs one of    *)
(* them; the parser is given every line that can be typed.                 *)
(***************************************************************************)
EXTENDS Sh

CONSTANTS MaxLine,                 \* bound: characters of a line
          Patterns, Inputs, BUF,
          MEM, BYTE, WORD, INT

VARIABLES line,
          pattern, input, pos, buf, out, cut,
          m,
          program    \* which of them runs

Filter  == INSTANCE Grep
Library == INSTANCE Strings

filter == <<pattern, input, pos, buf, out, cut>>

FilterInit == pattern = <<>> /\ input = <<>> /\ pos = 0 /\ buf = <<>> /\ out = <<>> /\ cut = FALSE

MCInit ==
  /\ Init /\ line = <<>> /\ Library!Init
  /\ \/ program \in {"sh", "parser", "library"} /\ FilterInit
     \/ program = "grep" /\ Filter!Init

Type == /\ Len(line) < MaxLine
        /\ \E c \in WordChars \cup whitespace \cup symbols : line' = Append(line, c)

MCNext ==
  /\ UNCHANGED program
  /\ \/ program = "sh" /\ Next /\ UNCHANGED <<line, filter, m>>
     \/ program = "parser" /\ Type /\ UNCHANGED <<vars, filter, m>>
     \/ program = "grep" /\ Filter!Next /\ UNCHANGED <<vars, line, m>>
     \/ program = "library" /\ Library!Next /\ UNCHANGED <<vars, line, filter>>

\* The fairness of Sh, for the behaviours that run it
MCSpec ==
  /\ MCInit /\ [][MCNext]_<<vars, line, filter, m, program>>
  /\ WF_vars(program = "sh" /\ init_fork) /\ WF_vars(program = "sh" /\ init_wait)
  /\ \A p \in Slots : WF_vars(program = "sh" /\ Step(p))

-----------------------------------------------------------------------------
\* c|c|c   (c|c)&   c<c;c|c   c&;c|c   (c|c)&;c   (
MCTyped == {<<"c", "|", "c", "|", "c">>,
            <<"(", "c", "|", "c", ")", "&">>,
            <<"c", "<", "c", ";", "c", "|", "c">>,
            <<"c", "&", ";", "c", "|", "c">>,
            <<"(", "c", "|", "c", ")", "&", ";", "c">>,
            <<"(">>}

MCPatterns == BoundedSeq({"a", ".", "*", "^", "$"}, 3)
MCInputs   == BoundedSeq({"a", "b", "n"}, 4)

-----------------------------------------------------------------------------
\* sh.c: every line is parsed as the grammar says; see module ShParse.
LineParsed == program = "parser" => ParsesGrammar(line)

\* grep.c: the lines that match are printed; see module Grep.
GrepPrints == program = "grep" => Filter!GrepPrints

\* string.c, ulib.c, printint(): right on every memory; see module Strings.
LibraryRight == program = "library" => Library!LibraryRight
=============================================================================
