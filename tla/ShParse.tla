------------------------------ MODULE ShParse ------------------------------
(***************************************************************************)
(* The command parser of the shell (sh.c).  A line is a sequence of        *)
(* characters, each one a model of a class of characters: " " is any       *)
(* whitespace, the symbols are themselves, and every other character is    *)
(* part of a word.  A word is the pair <<q, eq>> of the indexes that       *)
(* delimit it in the line, as the pairs of pointers of the code do.        *)
(*                                                                         *)
(* A parser takes the line and the index *ps and returns the command and   *)
(* the new index, or a result whose ok is FALSE when it calls panic(),     *)
(* which ends the process that parses.                                     *)
(***************************************************************************)
EXTENDS Naturals, Sequences, SequencesExt

CONSTANTS WordChars, MAXARGS

whitespace == {" "}
symbols == {"<", "|", ">", "&", ";", "(", ")"}

Is(s, i, chars) == i <= Len(s) /\ s[i] \in chars

\* The first index from i on that is past the line or holds none of chars.
Past(s, i, chars) ==
  CHOOSE j \in i..(Len(s) + 1) :
    /\ ~Is(s, j, chars)
    /\ \A k \in i..(j - 1) : Is(s, k, chars)

-----------------------------------------------------------------------------

\* The parsed commands.
execcmd(argv) == [type |-> "EXEC", argv |-> argv]
redircmd(sub, file, fd) == [type |-> "REDIR", cmd |-> sub, file |-> file, fd |-> fd]
pipecmd(left, right) == [type |-> "PIPE", left |-> left, right |-> right]
listcmd(left, right) == [type |-> "LIST", left |-> left, right |-> right]
backcmd(sub) == [type |-> "BACK", cmd |-> sub]

Parsed(c, i) == [ok |-> TRUE, cmd |-> c, at |-> i]
Panic == [ok |-> FALSE]
Then(r, F(_)) == IF r.ok THEN F(r) ELSE Panic

-----------------------------------------------------------------------------

gettoken(s, i) ==
  LET q  == Past(s, i, whitespace)
      eq == CASE q > Len(s) -> q
              [] Is(s, q, {">"}) -> IF Is(s, q + 1, {">"}) THEN q + 2 ELSE q + 1
              [] Is(s, q, symbols \ {">"}) -> q + 1
              [] OTHER -> Past(s, q, WordChars)
  IN  [tok |-> CASE q > Len(s) -> "end"
                 [] eq = q + 2 /\ s[q] = ">" -> "+"
                 [] s[q] \in symbols -> s[q]
                 [] OTHER -> "a",
       word |-> <<q, eq>>,
       at |-> Past(s, eq, whitespace)]

\* Mutant: the whitespace is not skipped.
peek_here(s, i, toks) == Is(s, i, toks)

peek(s, i, toks) == Is(s, Past(s, i, whitespace), toks)

RECURSIVE parseredirs(_, _, _)
parseredirs(cmd, s, i) ==
  IF ~peek(s, i, {"<", ">"}) THEN Parsed(cmd, i)
  ELSE LET op   == gettoken(s, i)
           file == gettoken(s, op.at)
       IN  IF file.tok # "a" THEN Panic
           ELSE parseredirs(redircmd(cmd, file.word, IF op.tok = "<" THEN 0 ELSE 1),
                            s, file.at)

\* cmd->argv[argc++] = q, where ret is a chain of redirections around cmd.
RECURSIVE AddArg(_, _)
AddArg(ret, word) ==
  IF ret.type = "REDIR" THEN [ret EXCEPT !.cmd = AddArg(ret.cmd, word)]
  ELSE [ret EXCEPT !.argv = Append(@, word)]

\* The loop of parseexec(): argc words have been read.
RECURSIVE parseargs(_, _, _, _)
parseargs(ret, argc, s, i) ==
  LET t == gettoken(s, i)
  IN  IF peek(s, i, {"|", ")", "&", ";"}) \/ t.tok = "end" THEN Parsed(ret, i)
      ELSE IF t.tok # "a" \/ argc + 1 >= MAXARGS THEN Panic
      ELSE Then(parseredirs(AddArg(ret, t.word), s, t.at),
                LAMBDA r : parseargs(r.cmd, argc + 1, s, r.at))

RECURSIVE parseline(_, _), parsepipe(_, _), parseblock(_, _), parseexec(_, _),
          parseback(_, _, _)

parseexec(s, i) ==
  IF peek(s, i, {"("}) THEN parseblock(s, i)
  ELSE Then(parseredirs(execcmd(<<>>), s, i),
            LAMBDA r : parseargs(r.cmd, 0, s, r.at))

parseblock(s, i) ==
  Then(parseline(s, gettoken(s, i).at),
       LAMBDA r : IF ~peek(s, r.at, {")"}) THEN Panic
                  ELSE parseredirs(r.cmd, s, gettoken(s, r.at).at))

parsepipe(s, i) ==
  Then(parseexec(s, i),
       LAMBDA l : IF ~peek(s, l.at, {"|"}) THEN l
                  ELSE Then(parsepipe(s, gettoken(s, l.at).at),
                            LAMBDA r : Parsed(pipecmd(l.cmd, r.cmd), r.at)))

\* The loop of parseline() over "&".
parseback(cmd, s, i) ==
  IF peek(s, i, {"&"}) THEN parseback(backcmd(cmd), s, gettoken(s, i).at)
  ELSE Parsed(cmd, i)

parseline(s, i) ==
  Then(parsepipe(s, i),
       LAMBDA p : LET l == parseback(p.cmd, s, p.at)
                  IN  IF ~peek(s, l.at, {";"}) THEN l
                      ELSE Then(parseline(s, gettoken(s, l.at).at),
                                LAMBDA r : Parsed(listcmd(l.cmd, r.cmd), r.at)))

\* The indexes of the line that become NUL.
RECURSIVE nulterminate(_)
nulterminate(cmd) ==
  CASE cmd.type = "EXEC" -> {w[2] : w \in ToSet(cmd.argv)}
    [] cmd.type = "REDIR" -> nulterminate(cmd.cmd) \cup {cmd.file[2]}
    [] cmd.type = "BACK" -> nulterminate(cmd.cmd)
    [] OTHER -> nulterminate(cmd.left) \cup nulterminate(cmd.right)

parsecmd(s) ==
  Then(parseline(s, 1),
       LAMBDA r : IF Past(s, r.at, whitespace) # Len(s) + 1 THEN Panic
                  ELSE [ok |-> TRUE, cmd |-> r.cmd, nul |-> nulterminate(r.cmd)])

-----------------------------------------------------------------------------

(***************************************************************************)
(* The grammar, as the set of the commands that a sequence of tokens       *)
(* derives:                                                                *)
(*     line  ::= back [";" line]          back  ::= pipe | back "&"        *)
(*     pipe  ::= exec ["|" pipe]          exec  ::= block | simple         *)
(*     block ::= "(" line ")" {redir}     simple ::= {redir | word}        *)
(*     redir ::= ("<" | ">" | ">>") word                                   *)
(***************************************************************************)
RECURSIVE TokensFrom(_, _)
TokensFrom(s, i) ==
  LET t == gettoken(s, i)
  IN  IF t.tok = "end" THEN <<>> ELSE <<t>> \o TokensFrom(s, t.at)
Tokens(s) == TokensFrom(s, 1)

Upto(t, k) == SubSeq(t, 1, k - 1)
From(t, k) == SubSeq(t, k + 1, Len(t))
Marks(t, tok) == {k \in 1..Len(t) : t[k].tok = tok}
Ops(t) == Marks(t, "<") \cup Marks(t, ">") \cup Marks(t, "+")
Redirs(t) == {k \in Ops(t) : k < Len(t) /\ t[k + 1].tok = "a"}
Redirected(c, t, k) == redircmd(c, t[k + 1].word, IF t[k].tok = "<" THEN 0 ELSE 1)
Picked(t, P(_)) == SelectSeq([k \in 1..Len(t) |-> k], P)

Simples(t) ==
  LET args == Picked(t, LAMBDA k : t[k].tok = "a" /\ k - 1 \notin Ops(t))
      exec == execcmd([n \in 1..Len(args) |-> t[args[n]].word])
  IN  IF /\ \A k \in 1..Len(t) : t[k].tok = "a" \/ k \in Redirs(t)
         /\ Len(args) < MAXARGS
      THEN {FoldLeft(LAMBDA c, k : Redirected(c, t, k), exec,
                     Picked(t, LAMBDA k : k \in Ops(t)))}
      ELSE {}

RECURSIVE Lines(_), Backs(_), Pipes(_), Blocks(_)
Blocks(t) ==
  IF Len(t) < 2 THEN {}
  ELSE IF t[1].tok = "(" /\ Last(t).tok = ")" THEN Lines(SubSeq(t, 2, Len(t) - 1))
  ELSE IF Len(t) - 1 \in Redirs(t)
  THEN {Redirected(c, t, Len(t) - 1) : c \in Blocks(Upto(t, Len(t) - 1))}
  ELSE {}

Pipes(t) ==
  Blocks(t) \cup Simples(t) \cup
  UNION {{pipecmd(l, r) : l \in Blocks(Upto(t, k)) \cup Simples(Upto(t, k)),
                          r \in Pipes(From(t, k))} : k \in Marks(t, "|")}

Backs(t) ==
  Pipes(t) \cup
  (IF t # <<>> /\ Last(t).tok = "&" THEN {backcmd(c) : c \in Backs(Front(t))} ELSE {})

Lines(t) ==
  Backs(t) \cup
  UNION {{listcmd(l, r) : l \in Backs(Upto(t, k)), r \in Lines(From(t, k))} :
           k \in Marks(t, ";")}

RECURSIVE Words(_)
Words(cmd) ==
  CASE cmd.type = "EXEC" -> ToSet(cmd.argv)
    [] cmd.type = "REDIR" -> Words(cmd.cmd) \cup {cmd.file}
    [] cmd.type = "BACK" -> Words(cmd.cmd)
    [] OTHER -> Words(cmd.left) \cup Words(cmd.right)

\* parsecmd() accepts exactly the lines of the grammar and returns the one
\* command that the line derives, with nothing read past the line, no word lost
\* and no operator out of place; and once nulterminate() has cut the line up,
\* every word of the command still starts, ends and reads as it was typed.
ParsesGrammar(s) ==
  LET r == parsecmd(s)
      derived == Lines(Tokens(s))
  IN  IF ~r.ok THEN derived = {}
      ELSE /\ derived = {r.cmd}
           /\ \A w \in Words(r.cmd) :
                /\ w[2] \in r.nul
                /\ \A i \in w[1]..(w[2] - 1) : i \notin r.nul /\ s[i] \in WordChars
=============================================================================
