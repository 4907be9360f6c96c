---------------------------------- MODULE MCSh ---------------------------------
(***************************************************************************)
(* Pipelines, lists, blocks, redirections and background commands, in      *)
(* combinations, and lines that are none.                                  *)
(***************************************************************************)
EXTENDS Sh

cat == Exec(<<Cat>>)
echo == Exec(<<Echo, "x">>)
wc == Exec(<<Wc>>)
unknown == Exec(<<"x">>)
empty == Exec(<< >>)

MCInode == [name \in {"f", "g"} |-> IF name = "f" THEN 2 ELSE 3]

Pipelines ==
  {PipeCmd(echo, PipeCmd(cat, wc)),
   PipeCmd(PipeCmd(echo, cat), unknown),
   PipeCmd(List(echo, Back(echo)), Redir(cat, ">>", "f")),
   PipeCmd(echo, Redir(Redir(cat, "<", "f"), ">", "f")),
   PipeCmd(Redir(unknown, "<", "g"), wc),
   Redir(PipeCmd(cat, wc), "<", "f"),
   List(Back(PipeCmd(echo, cat)), empty),
   List(echo, List(cat, Redir(echo, ">", "g"))),
   Back(Back(List(echo, cat)))}

Wrong == {<<"(", Cat>>, <<Cat, ">", "|">>, <<Cat, "&", Cat>>, <<Cat, "(">>,
          <<Cat, "x", "x">>, <<"cd", "x">>}

(* A background command lives on beside the next command.                  *)
Beside ==
  {<<Line(Back(PipeCmd(cat, cat))), Line(cat)>>,
   <<Line(Back(echo)), Line(Back(cat)), Line(PipeCmd(echo, cat))>>}

usertests(test) == Exec(<<"usertests", test>>)

(* Five processes are few for a long pipeline, four for commands beside    *)
(* forktest; the tests mean to have all they fork.  Six are enough for a   *)
(* pipeline that lacks its third pipe.                                     *)
MCSession ==
  {Types(<<Line(c)>>, 2) : c \in Pipelines}
    \union {Types(<<Line(PipeCmd(echo, PipeCmd(cat, PipeCmd(cat, wc))))>>, 1)}
    \union {Types(<<Nonsense(s), Line(cat)>>, 2) : s \in Wrong}
    \union {Types(ls, 2) : ls \in Beside}
    \union {Types(<<Line(Exec(c))>>, 0) : c \in Commands}
    \union {Types(<<Line(Back(Exec(<<"forktest">>))), Line(echo), Line(echo)>>, 3)}
    \union {Types(<<Line(Back(usertests(t))), Line(usertests("killstatus"))>>, 0) :
               t \in {"pipe1", "exitwait"}}
=============================================================================
