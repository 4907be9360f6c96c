-------------------------------- MODULE ShParser -------------------------------
(***************************************************************************)
(* The parser of the shell (user/sh.c): from the tokens of a line to the   *)
(* tree of commands that runcmd runs, or a panic.  Both trees have the same*)
(* shell.                                                                  *)
(*                                                                         *)
(* Abstractions.  A line is the sequence of its tokens, for gettoken skips *)
(* the blanks around each; a word is itself a token.  While it is parsed   *)
(* the tree has the positions of words in the line, and nulterminate makes *)
(* strings of them.  A parse that panics has no tree.                      *)
(***************************************************************************)
EXTENDS Integers, Sequences

CONSTANT MAXARGS       \* entries of argv, with its null at the end

ASSUME MaxArgsAssumption == MAXARGS \in Nat \ {0}

Symbols == {"<", ">", ">>", "|", "&", ";", "(", ")"}

(* The constructors.  RedirFd is the descriptor a redirection replaces.    *)
Exec(argv) == [type |-> "exec", argv |-> argv]
RedirFd == [t \in {"<", ">", ">>"} |-> IF t = "<" THEN 0 ELSE 1]
Redir(cmd, tok, file) == [type |-> "redir", cmd |-> cmd, mode |-> tok, file |-> file]
PipeCmd(left, right) == [type |-> "pipe", left |-> left, right |-> right]
List(left, right) == [type |-> "list", left |-> left, right |-> right]
Back(cmd) == [type |-> "back", cmd |-> cmd]
NoCmd == [type |-> "none"]

(* What a parsing function returns: the tree so far and the next token, in *)
(* a set that is empty after a panic.                                      *)
Parsed(cmd, i) == {[cmd |-> cmd, i |-> i]}
Panic == {}

Peek(s, i, toks) == i <= Len(s) /\ s[i] \in toks
IsWord(s, i) == i <= Len(s) /\ s[i] \notin Symbols

RECURSIVE Parseredirs(_, _, _)
Parseredirs(s, i, cmd) ==
  IF ~ Peek(s, i, {"<", ">", ">>"}) THEN Parsed(cmd, i)
  ELSE IF ~ IsWord(s, i + 1) THEN Panic
  ELSE Parseredirs(s, i + 2, Redir(cmd, s[i], i + 1))

(* The command that gets the arguments is inside the redirections that were*)
(* parsed before them.                                                     *)
RECURSIVE Inner(_)
Inner(cmd) == IF cmd.type = "redir" THEN Inner(cmd.cmd) ELSE cmd
RECURSIVE WithArg(_, _)
WithArg(cmd, q) ==
  IF cmd.type = "redir" THEN [cmd EXCEPT !.cmd = WithArg(@, q)]
  ELSE Exec(Append(cmd.argv, q))

(* The loop of parseexec, from what was parsed so far.                     *)
RECURSIVE Parseargs(_, _)
Parseargs(s, r) ==
  IF Peek(s, r.i, {"|", ")", "&", ";"}) \/ r.i > Len(s) THEN {r}
  ELSE IF ~ IsWord(s, r.i) \/ Len(Inner(r.cmd).argv) + 1 >= MAXARGS THEN Panic
  ELSE UNION {Parseargs(s, t) : t \in Parseredirs(s, r.i + 1, WithArg(r.cmd, r.i))}

(* A faulty loop of parseline, that takes one & for any number of them.    *)
BackOnce(s, r) == IF Peek(s, r.i, {"&"}) THEN Parsed(Back(r.cmd), r.i + 1) ELSE {r}

RECURSIVE Backs(_, _)
Backs(s, r) ==
  IF ~ Peek(s, r.i, {"&"}) THEN {r}
  ELSE UNION {Backs(s, t) : t \in Parsed(Back(r.cmd), r.i + 1)}

RECURSIVE Parseline(_, _), Parsepipe(_, _), Parseblock(_, _)

Parseexec(s, i) ==
  IF Peek(s, i, {"("}) THEN Parseblock(s, i)
  ELSE UNION {Parseargs(s, r) : r \in Parseredirs(s, i, Exec(<< >>))}

Parsepipe(s, i) ==
  UNION {IF ~ Peek(s, l.i, {"|"}) THEN {l}
         ELSE UNION {Parsed(PipeCmd(l.cmd, r.cmd), r.i) : r \in Parsepipe(s, l.i + 1)}
         : l \in Parseexec(s, i)}

Parseline(s, i) ==
  UNION {IF ~ Peek(s, l.i, {";"}) THEN {l}
         ELSE UNION {Parsed(List(l.cmd, r.cmd), r.i) : r \in Parseline(s, l.i + 1)}
         : l \in UNION {Backs(s, c) : c \in Parsepipe(s, i)}}

Parseblock(s, i) ==
  UNION {IF ~ Peek(s, r.i, {")"}) THEN Panic ELSE Parseredirs(s, r.i + 1, r.cmd)
         : r \in Parseline(s, i + 1)}

RECURSIVE Nulterminate(_, _)
Nulterminate(s, cmd) ==
  CASE cmd.type = "exec" -> Exec([k \in 1..Len(cmd.argv) |-> s[cmd.argv[k]]])
    [] cmd.type = "redir" -> Redir(Nulterminate(s, cmd.cmd), cmd.mode, s[cmd.file])
    [] cmd.type = "pipe" -> PipeCmd(Nulterminate(s, cmd.left), Nulterminate(s, cmd.right))
    [] cmd.type = "list" -> List(Nulterminate(s, cmd.left), Nulterminate(s, cmd.right))
    [] cmd.type = "back" -> Back(Nulterminate(s, cmd.cmd))

(* Nothing may be left over.                                               *)
Parsecmd(s) == {Nulterminate(s, r.cmd) : r \in {l \in Parseline(s, 1) : l.i > Len(s)}}

-----------------------------------------------------------------------------
(* How a tree is written: blocks where an operator binds less tightly than *)
(* its context.                                                            *)

RECURSIVE ShowLine(_), ShowBacks(_), ShowPipe(_), ShowExec(_)
ShowLine(c) ==
  IF c.type = "list" THEN ShowBacks(c.left) \o <<";">> \o ShowLine(c.right) ELSE ShowBacks(c)
ShowBacks(c) == IF c.type = "back" THEN ShowBacks(c.cmd) \o <<"&">> ELSE ShowPipe(c)
ShowPipe(c) ==
  IF c.type = "pipe" THEN ShowExec(c.left) \o <<"|">> \o ShowPipe(c.right) ELSE ShowExec(c)
ShowExec(c) ==
  CASE c.type = "exec" -> c.argv
    [] c.type = "redir" -> ShowExec(c.cmd) \o <<c.mode, c.file>>
    [] OTHER -> <<"(">> \o ShowLine(c) \o <<")">>

=============================================================================
