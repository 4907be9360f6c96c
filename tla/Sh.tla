----------------------------------- MODULE Sh ----------------------------------
(***************************************************************************)
(* The shell (user/sh.c), with the processes, descriptors and pipes it asks*)
(* the kernel for, and programs for it to run: cat, echo and wc, which use *)
(* the descriptors it gives them, and those of UserPrograms.               *)
(*                                                                         *)
(* Abstractions.  A system call is one step, or a wait until it can be one:*)
(* modules Proc, Pipe and Fs have what happens inside.  A process that     *)
(* exits while init is its parent is reaped at once.  A pipe has a number  *)
(* of bytes; a word is one byte.  What a file or the console hold is not   *)
(* kept, but that they come to an end.                                     *)
(***************************************************************************)
EXTENDS FileTable, ShParser, UserPrograms

CONSTANTS NPipe,       \* pipes the system can have
          PIPESIZE,    \* bytes a pipe holds
          Console,     \* the inode of the console
          Inode,       \* the inode of each file a redirection may name
          Missing,     \* files that cannot be opened
          Preemptive,  \* the scheduler takes the CPU from a process that computes
          Session      \* lines a user types one after the other, and beside how
                       \* many processes of other users

ASSUME ShAssumption ==
  /\ Process = 1..Cardinality(Process)
  /\ NPipe \in Nat \ {0} /\ PIPESIZE \in Nat \ {0}
  /\ Console \in Nat /\ NOFILE >= 5 /\ Preemptive \in BOOLEAN

Shell == 1
InitProc == 0         \* init, which reaps orphans
PipeId == 1..NPipe
Cat == "cat"
Echo == "echo"
Wc == "wc"

VARIABLES
  pipe,      \* bytes in each pipe
  proc,      \* each process: where it is in its program, and its variables
  input,     \* the lines still to come, each with the command it is meant to be
  line       \* the line the shell has read

vars == <<ftable, ofile, pipe, proc, input, line>>

(* todo are the calls runcmd makes next, in the order of its text, before  *)
(* it goes on at at; a program of UserPrograms has all its calls there.  rd*)
(* and wr are p[0] and p[1]; kids are the children such a program has made.*)
(* want and excused are history: the files the command's descriptors 0 and *)
(* 1 are to be, and whether the process may outlive the wait of its parent.*)
Gone == [at |-> "gone", parent |-> InitProc, cmd |-> NoCmd, todo |-> << >>, rd |-> NoFd,
         wr |-> NoFd, n |-> 0, kids |-> << >>, killed |-> FALSE, status |-> 0,
         want |-> <<NoFile, NoFile>>, excused |-> FALSE]

Line(cmd) == [tokens |-> ShowLine(cmd), meant |-> cmd]
Nonsense(tokens) == [tokens |-> tokens, meant |-> NoCmd]
Types(lines, others) == [lines |-> lines, others |-> others]
NoLine == Nonsense(<< >>)

(* The shell begins with the three descriptors init gave it.               *)
Init ==
  /\ ftable = [f \in File |-> IF f = 1 THEN [Closed EXCEPT !.ref = 3, !.type = "inode",
                                                           !.obj = Console, !.writable = TRUE]
                              ELSE Closed]
  /\ ofile = [p \in Process |-> [fd \in Fd |-> IF p = Shell /\ fd < 3 THEN 1 ELSE NoFile]]
  /\ pipe = [pi \in PipeId |-> 0]
  /\ \E s \in Session :
       /\ input = s.lines
       /\ proc = [p \in Process |->
            CASE p = Shell -> [Gone EXCEPT !.at = "start"]
              [] p > Cardinality(Process) - s.others ->
                   [Gone EXCEPT !.at = "other", !.excused = TRUE]
              [] OTHER -> Gone]
  /\ line = NoLine

-----------------------------------------------------------------------------
(* System calls                                                            *)

(* A killed process goes on with nothing.                                  *)
At(p, l) == proc[p].at = l /\ proc[p].todo = << >> /\ ~ proc[p].killed
Goto(p, l) == proc' = [proc EXCEPT ![p].at = l]
Children(p) == {c \in Process : proc[c].at # "gone" /\ proc[c].parent = p}

(* A pipe's ends are the files that refer to it.                           *)
EndOpen(pi, w) ==
  \E f \in File : /\ ftable[f].ref > 0 /\ ftable[f].type = "pipe"
                  /\ ftable[f].obj = pi /\ ftable[f].writable = w
FreePipes == {pi \in PipeId : ~ EndOpen(pi, TRUE) /\ ~ EndOpen(pi, FALSE)}

(* The table without the references of the descriptors in fds.             *)
Released(fds, p) ==
  [f \in File |->
     LET n == Cardinality({fd \in fds : ofile[p][fd] = f}) IN
     IF ftable[f].ref > n THEN [ftable[f] EXCEPT !.ref = @ - n] ELSE Closed]

(* exit: descriptors are closed, children go to init, which has reaped     *)
(* those that are zombies; leaves says that the program did not mean to    *)
(* wait for them, or gave up.                                              *)
ExitsWith(p, status, leaves) ==
  /\ ftable' = Released(OpenFds(p), p)
  /\ ofile' = [ofile EXCEPT ![p] = [fd \in Fd |-> NoFile]]
  /\ proc' = [c \in Process |->
       CASE c = p -> IF proc[p].parent = InitProc /\ p # Shell THEN Gone
                     ELSE [Gone EXCEPT !.at = "zombie", !.parent = proc[p].parent,
                                        !.status = status]
         [] c \in Children(p) /\ c # p ->
              IF proc[c].at = "zombie" THEN Gone
              ELSE [proc[c] EXCEPT !.parent = InitProc, !.excused = @ \/ leaves]
         [] OTHER -> proc[c]]
  /\ UNCHANGED <<pipe, input, line>>
Exits(p, panicked) == ExitsWith(p, IF panicked THEN 1 ELSE 0, panicked)

(* fork1: the child goes on at childs, with the parent's descriptors; a    *)
(* failed fork is a panic.                                                 *)
Slots == {c \in Process : proc[c].at = "gone"}
Fork1(p, child, next) ==
  LET c == Min(Slots) IN
  \/ /\ Slots # {}
     /\ FilesFork(p, c)
     /\ proc' = [proc EXCEPT ![p] = next,
                             ![c] = [child EXCEPT !.parent = p, !.want = proc[p].want]]
     /\ UNCHANGED <<pipe, input, line>>
  \/ Slots = {} /\ Exits(p, TRUE)

Closes(p, fd) ==
  /\ ftable' = Released({fd}, p)
  /\ ofile' = [ofile EXCEPT ![p][fd] = NoFile]
Dups(p, fd) ==
  /\ ftable' = Referred(ftable, ofile[p][fd])
  /\ ofile' = [ofile EXCEPT ![p][FdAlloc(ofile[p])] = ofile[p][fd]]

(* open gives the new file the lowest free descriptor.                     *)
OpensInode(p, inum, w) ==
  LET f == FileAlloc(ftable) IN
  /\ f # NoFile /\ FreeFds(ofile[p]) # {}
  /\ ftable' = [ftable EXCEPT ![f] = [ref |-> 1, type |-> "inode", obj |-> inum,
                                      writable |-> w]]
  /\ ofile' = [ofile EXCEPT ![p][FdAlloc(ofile[p])] = f]

CannotOpen(p) == FileAlloc(ftable) = NoFile \/ FreeFds(ofile[p]) = {}

-----------------------------------------------------------------------------
(* main                                                                    *)

(* "Ensure that three file descriptors are open."                          *)
Start(p) ==
  /\ At(p, "start") /\ p = Shell
  /\ \/ /\ OpensInode(p, Console, TRUE)
        /\ proc' = [proc EXCEPT ![p].at = IF FdAlloc(ofile[p]) < 3 THEN "start" ELSE "prompt",
                                ![p].todo = IF FdAlloc(ofile[p]) < 3 THEN << >>
                                            ELSE <<Close(FdAlloc(ofile[p]))>>]
     \/ CannotOpen(p) /\ Goto(p, "prompt") /\ UNCHANGED <<ftable, ofile>>
  /\ UNCHANGED <<pipe, input, line>>

(* getcmd, and the shell's own commands: a blank line and cd.              *)
IsBuiltin(tokens) == tokens = << >> \/ tokens[1] = "cd"

Getcmd ==
  /\ At(Shell, "prompt") /\ input # << >>
  /\ line' = Head(input)
  /\ input' = Tail(input)
  /\ Goto(Shell, IF IsBuiltin(Head(input).tokens) THEN "prompt" ELSE "fork_main")
  /\ UNCHANGED <<ftable, ofile, pipe>>

EndOfInput == At(Shell, "prompt") /\ input = << >> /\ Exits(Shell, FALSE)

ForkMain(p) ==
  /\ At(p, "fork_main")
  /\ Fork1(p, [Gone EXCEPT !.at = "parse"],
           [proc[p] EXCEPT !.at = "prompt", !.todo = <<Wait>>])

Parse(p) ==
  /\ At(p, "parse")
  /\ \/ /\ \E cmd \in Parsecmd(line.tokens) :
             proc' = [proc EXCEPT ![p].at = "run", ![p].cmd = cmd,
                                  ![p].want = <<ofile[p][0], ofile[p][1]>>]
        /\ UNCHANGED <<ftable, ofile, pipe, input, line>>
     \/ Parsecmd(line.tokens) = Panic /\ Exits(p, TRUE)

-----------------------------------------------------------------------------
(* runcmd                                                                  *)

Runs(p, type) == At(p, "run") /\ proc[p].cmd.type = type
RunChild(cmd, todo) == [Gone EXCEPT !.at = "run", !.cmd = cmd, !.todo = todo]

(* exec keeps the descriptors.  Each argument of echo is a word and a blank*)
(* or the end of the line.                                                 *)
RunExec(p) ==
  LET argv == proc[p].cmd.argv
      Becomes(next) ==
        /\ proc' = [proc EXCEPT ![p] = [next EXCEPT !.cmd = NoCmd]]
        /\ UNCHANGED <<ftable, ofile, pipe, input, line>> IN
  /\ Runs(p, "exec")
  /\ CASE argv \in Commands -> Becomes([proc[p] EXCEPT !.at = "program", !.todo = TextOf(argv)])
       [] argv # << >> /\ argv[1] = Echo ->
            Becomes([proc[p] EXCEPT !.at = Echo, !.n = 2 * (Len(argv) - 1)])
       [] argv # << >> /\ argv[1] \in {Cat, Wc} -> Becomes([proc[p] EXCEPT !.at = argv[1]])
       [] argv = << >> -> ExitsWith(p, 1, FALSE)
       [] OTHER -> Exits(p, FALSE)

RunRedir(p) ==
  /\ Runs(p, "redir")
  /\ proc' = [proc EXCEPT ![p].at = "open", ![p].todo = <<Close(RedirFd[proc[p].cmd.mode])>>]
  /\ UNCHANGED <<ftable, ofile, pipe, input, line>>

Open(p) ==
  LET c == proc[p].cmd IN
  /\ At(p, "open")
  /\ \/ /\ c.file \notin Missing
        /\ OpensInode(p, Inode[c.file], c.mode # "<")
        /\ proc' = [proc EXCEPT ![p].at = "run", ![p].cmd = c.cmd,
                                ![p].want[RedirFd[c.mode] + 1] = FileAlloc(ftable)]
        /\ UNCHANGED <<pipe, input, line>>
     \/ (c.file \in Missing \/ CannotOpen(p)) /\ ExitsWith(p, 1, FALSE)

RunList(p) ==
  LET c == proc[p].cmd IN
  /\ Runs(p, "list")
  /\ Fork1(p, RunChild(c.left, << >>), [proc[p] EXCEPT !.cmd = c.right, !.todo = <<Wait>>])

RunBack(p) ==
  LET c == proc[p].cmd IN
  /\ Runs(p, "back")
  /\ Fork1(p, [RunChild(c.cmd, << >>) EXCEPT !.excused = TRUE], [proc[p] EXCEPT !.at = "exit"])

(* pipe, which takes the two lowest descriptors, in this order.            *)
NewFds(p) == LET rd == FdAlloc(ofile[p]) IN <<rd, Min(FreeFds(ofile[p]) \ {rd})>>
CannotPipe(p) ==
  \/ Cardinality(FreeFiles(ftable)) < 2 \/ FreePipes = {}
  \/ Cardinality(FreeFds(ofile[p])) < 2
Pipes(p) ==
  LET f == FileAlloc(ftable)
      g == Min(FreeFiles(ftable) \ {f})
      pi == Min(FreePipes)
      End(w) == [ref |-> 1, type |-> "pipe", obj |-> pi, writable |-> w] IN
  /\ ~ CannotPipe(p)
  /\ ftable' = [ftable EXCEPT ![f] = End(FALSE), ![g] = End(TRUE)]
  /\ ofile' = [ofile EXCEPT ![p][NewFds(p)[1]] = f, ![p][NewFds(p)[2]] = g]
  /\ pipe' = [pipe EXCEPT ![pi] = 0]
  /\ UNCHANGED <<input, line>>

RunPipe(p) ==
  /\ Runs(p, "pipe")
  /\ \/ /\ Pipes(p)
        /\ proc' = [proc EXCEPT ![p].at = "fork_left", ![p].rd = NewFds(p)[1],
                                ![p].wr = NewFds(p)[2]]
     \/ CannotPipe(p) /\ Exits(p, TRUE)

(* What the two sides do with the ends, and the shell between them.        *)
LeftCalls(p) == <<Close(1), Dup(proc[p].wr), Close(proc[p].rd), Close(proc[p].wr)>>

(* A faulty right side that duplicates before it closes.                   *)
RightDupsFirst(p) == <<Dup(proc[p].rd), Close(0), Close(proc[p].rd), Close(proc[p].wr)>>
RightCalls(p) == <<Close(0), Dup(proc[p].rd), Close(proc[p].rd), Close(proc[p].wr)>>

(* Faulty ends of runcmd: it waits for one side only, or keeps the end     *)
(* that is written.                                                        *)
WaitsOnce(p) == <<Close(proc[p].rd), Close(proc[p].wr), Wait>>
KeepsWriteEnd(p) == <<Close(proc[p].rd), Wait, Wait>>
ParentCalls(p) == <<Close(proc[p].rd), Close(proc[p].wr), Wait, Wait>>

ForkLeft(p) ==
  /\ At(p, "fork_left")
  /\ Fork1(p, RunChild(proc[p].cmd.left, LeftCalls(p)), [proc[p] EXCEPT !.at = "fork_right"])

ForkRight(p) ==
  /\ At(p, "fork_right")
  /\ Fork1(p, RunChild(proc[p].cmd.right, RightCalls(p)),
           [proc[p] EXCEPT !.at = "exit", !.todo = ParentCalls(p)])

Exit(p) == At(p, "exit") /\ Exits(p, FALSE)

(* The next of the calls, and the process after it, or after a test has    *)
(* failed.                                                                 *)
Call(p) == Head(proc[p].todo)
Calls(p, call) == proc[p].todo # << >> /\ Call(p).call = call /\ ~ proc[p].killed
Called(p) == [proc[p] EXCEPT !.todo = Tail(@)]
Failed(p) == [proc[p] EXCEPT !.at = "failed", !.todo = << >>]

SysClose(p) ==
  /\ Calls(p, "close")
  /\ Closes(p, Call(p).fd)
  /\ proc' = [proc EXCEPT ![p] = Called(p)]
  /\ UNCHANGED <<pipe, input, line>>

(* The duplicate stands for the side's end of the pipe.                    *)
SysDup(p) ==
  LET f == ofile[p][Call(p).fd] IN
  /\ Calls(p, "dup")
  /\ Dups(p, Call(p).fd)
  /\ proc' = [proc EXCEPT ![p] = [Called(p) EXCEPT !.want[IF ftable[f].writable THEN 2 ELSE 1] = f]]
  /\ UNCHANGED <<pipe, input, line>>

(* wait returns at once when there is no child.                            *)
SysWait(p) ==
  LET After(right) == IF right THEN Called(p) ELSE Failed(p) IN
  /\ Calls(p, "wait")
  /\ \/ \E c \in Children(p) :
          /\ proc[c].at = "zombie"
          /\ proc' = [proc EXCEPT ![c] = Gone,
               ![p] = After(/\ proc[c].status \in Call(p).statuses
                            /\ Call(p).last => c = Last(proc[p].kids))]
     \/ Children(p) = {} /\ proc' = [proc EXCEPT ![p] = After(Call(p).none)]
  /\ UNCHANGED <<ftable, ofile, pipe, input, line>>

-----------------------------------------------------------------------------
(* Programs                                                                *)

(* One byte of a write: next is the process after it, and failed says what *)
(* follows a write to a pipe nobody reads.                                 *)
Writes(p, fd, next, failed) ==
  LET f == ofile[p][fd]
      pi == ftable[f].obj IN
  /\ \/ /\ ftable[f].type # "pipe"
        /\ proc' = [proc EXCEPT ![p] = next]
        /\ UNCHANGED <<ftable, ofile, pipe, input, line>>
     \/ /\ ftable[f].type = "pipe" /\ EndOpen(pi, FALSE) /\ pipe[pi] < PIPESIZE
        /\ pipe' = [pipe EXCEPT ![pi] = @ + 1]
        /\ proc' = [proc EXCEPT ![p] = next]
        /\ UNCHANGED <<ftable, ofile, input, line>>
     \/ /\ ftable[f].type = "pipe" /\ ~ EndOpen(pi, FALSE)
        /\ failed

(* echo does not look at what write returns.                               *)
EchoWrites(p) ==
  LET next == [proc[p] EXCEPT !.n = @ - 1] IN
  /\ At(p, Echo) /\ proc[p].n > 0
  /\ Writes(p, 1, next, proc' = [proc EXCEPT ![p] = next]
                        /\ UNCHANGED <<ftable, ofile, pipe, input, line>>)
EchoEnds(p) == At(p, Echo) /\ proc[p].n = 0 /\ Exits(p, FALSE)

(* What read finds: bytes of a pipe, or of a file or the console, or the   *)
(* end, which a pipe has when nobody can write to it.                      *)
ReadsSome(p, fd, program) ==
  LET f == ofile[p][fd]
      pi == ftable[f].obj IN
  /\ \/ /\ ftable[f].type = "pipe" /\ pipe[pi] > 0
        /\ proc' = [proc EXCEPT ![p] = program[pipe[pi]]]
        /\ pipe' = [pipe EXCEPT ![pi] = 0]
     \/ /\ ftable[f].type # "pipe"
        /\ proc' = [proc EXCEPT ![p] = program[1]]
        /\ UNCHANGED pipe
  /\ UNCHANGED <<ftable, ofile, input, line>>

ReadsEnd(p, fd) ==
  LET f == ofile[p][fd] IN
  ftable[f].type = "pipe" => pipe[ftable[f].obj] = 0 /\ ~ EndOpen(ftable[f].obj, TRUE)

CatReads(p) ==
  /\ At(p, Cat) /\ proc[p].n = 0
  /\ ReadsSome(p, 0, [k \in 1..PIPESIZE |-> [proc[p] EXCEPT !.n = k]])
CatEnds(p) == At(p, Cat) /\ proc[p].n = 0 /\ ReadsEnd(p, 0) /\ Exits(p, FALSE)

CatWrites(p) ==
  /\ At(p, Cat) /\ proc[p].n > 0
  /\ Writes(p, 1, [proc[p] EXCEPT !.n = @ - 1], Exits(p, FALSE))

(* wc only keeps counts, and has written when n is not 0.                  *)
WcReads(p) ==
  /\ At(p, Wc) /\ proc[p].n = 0
  /\ ReadsSome(p, 0, [k \in 1..PIPESIZE |-> proc[p]])
WcWrites(p) ==
  LET next == [proc[p] EXCEPT !.n = 1] IN
  /\ At(p, Wc) /\ proc[p].n = 0 /\ ReadsEnd(p, 0)
  /\ Writes(p, 1, next, proc' = [proc EXCEPT ![p] = next]
                        /\ UNCHANGED <<ftable, ofile, pipe, input, line>>)
WcEnds(p) == At(p, Wc) /\ proc[p].n = 1 /\ Exits(p, FALSE)

-----------------------------------------------------------------------------
(* The calls of UserPrograms                                               *)

SysFork(p) ==
  LET c == Min(Slots)
      kid == [Gone EXCEPT !.at = "program", !.todo = Call(p).child, !.parent = p,
                          !.want = proc[p].want] IN
  /\ Calls(p, "fork")
  /\ \/ /\ Slots # {}
        /\ FilesFork(p, c)
        /\ proc' = [proc EXCEPT ![p] = [Called(p) EXCEPT !.kids = Append(@, c)], ![c] = kid]
     \/ /\ Slots = {}
        /\ proc' = [proc EXCEPT ![p].todo = Call(p).fails]
        /\ UNCHANGED <<ftable, ofile>>
  /\ UNCHANGED <<pipe, input, line>>

SysExit(p) ==
  \/ Calls(p, "exit") /\ ExitsWith(p, Call(p).status, TRUE)
  \/ At(p, "program") /\ ExitsWith(p, 0, TRUE)

(* kill wakes whoever sleeps; the victim is gone when it next leaves the   *)
(* kernel, at any time from now.                                           *)
SysKill(p) ==
  LET k == Call(p).kid
      victim == IF k = Parent THEN proc[p].parent ELSE proc[p].kids[k] IN
  /\ Calls(p, "kill")
  /\ proc' = [proc EXCEPT ![p] = Called(p), ![victim].killed = TRUE]
  /\ UNCHANGED <<ftable, ofile, pipe, input, line>>

(* A faulty exit of a killed process, which says that all went well.       *)
KilledStatusLost == 0
KilledStatus == -1
KilledExits(p) ==
  /\ proc[p].killed /\ proc[p].at # "zombie"
  /\ ExitsWith(p, KilledStatus, TRUE)

SysPause(p) ==
  /\ Calls(p, "pause")
  /\ proc' = [proc EXCEPT ![p] = Called(p)]
  /\ UNCHANGED <<ftable, ofile, pipe, input, line>>

SysPipe(p) ==
  /\ Calls(p, "pipe")
  /\ \/ Pipes(p) /\ proc' = [proc EXCEPT ![p] = Called(p)]
     \/ /\ CannotPipe(p)
        /\ proc' = [proc EXCEPT ![p].todo = Call(p).fails]
        /\ UNCHANGED <<ftable, ofile, pipe, input, line>>

SysWrite(p) ==
  LET next == [proc[p] EXCEPT !.n = @ + 1] IN
  /\ Calls(p, "write")
  /\ Writes(p, Call(p).fd,
            IF next.n < Call(p).n THEN next ELSE [Called(p) EXCEPT !.n = 0],
            proc' = [proc EXCEPT ![p] = Failed(p)]
            /\ UNCHANGED <<ftable, ofile, pipe, input, line>>)

SysRead(p) ==
  LET n == proc[p].n
      After(right) == IF right THEN [Called(p) EXCEPT !.n = 0] ELSE Failed(p) IN
  \/ /\ Calls(p, "read_once")
     /\ ReadsSome(p, Call(p).fd, [k \in 1..PIPESIZE |-> After(k = Call(p).n)])
  \/ /\ Calls(p, "read_to_end")
     /\ ReadsSome(p, Call(p).fd, [k \in 1..PIPESIZE |-> [proc[p] EXCEPT !.n = @ + k]])
  \/ /\ Calls(p, "read_once") \/ Calls(p, "read_to_end")
     /\ ReadsEnd(p, Call(p).fd)
     /\ proc' = [proc EXCEPT ![p] = After(Call(p).call = "read_to_end" /\ n = Call(p).n)]
     /\ UNCHANGED <<ftable, ofile, pipe, input, line>>

-----------------------------------------------------------------------------

Main(p) == Start(p) \/ ForkMain(p) \/ Parse(p)
Runcmd(p) ==
  \/ RunExec(p) \/ RunRedir(p) \/ Open(p) \/ RunList(p) \/ RunBack(p)
  \/ RunPipe(p) \/ ForkLeft(p) \/ ForkRight(p) \/ Exit(p)
SysCall(p) ==
  \/ SysClose(p) \/ SysDup(p) \/ SysWait(p) \/ SysFork(p) \/ SysExit(p) \/ SysKill(p)
  \/ SysPause(p) \/ SysPipe(p) \/ SysWrite(p) \/ SysRead(p)
EchoMain(p) == EchoWrites(p) \/ EchoEnds(p)
CatMain(p) == CatReads(p) \/ CatEnds(p) \/ CatWrites(p)
WcMain(p) == WcReads(p) \/ WcWrites(p) \/ WcEnds(p)
Step(p) ==
  \/ Main(p) \/ Runcmd(p) \/ SysCall(p) \/ EchoMain(p) \/ CatMain(p) \/ WcMain(p)
  \/ KilledExits(p)

Next ==
  \/ \E p \in Process : Step(p)
  \/ Getcmd \/ EndOfInput

Spec == Init /\ [][Next]_vars

(* Files and the console come to an end, and every process goes on.  That  *)
(* is so in both trees while all of them give up the CPU by themselves, for*)
(* each wait or exit lets the next one run.  Beside a process that spins it*)
(* is so where the timer interrupt yields (usertrap), which only the       *)
(* original tree has it do.                                                *)
SomeoneSpins == \E p \in Process : Calls(p, "spin")
GetsCPU(p) == (Preemptive \/ ~ SomeoneSpins) /\ Step(p)
FairSpec ==
  Spec /\ \A p \in Process : WF_vars(GetsCPU(p)) /\ SF_vars(CatEnds(p) \/ WcWrites(p))

-----------------------------------------------------------------------------
(* Properties                                                              *)

TypeOK ==
  /\ FilesTypeOK
  /\ pipe \in [PipeId -> 0..PIPESIZE]
  /\ \A p \in Process : /\ proc[p].parent \in Process \union {InitProc}
                        /\ proc[p].n \in Nat /\ proc[p].excused \in BOOLEAN
                        /\ \A k \in 1..2 : proc[p].want[k] \in File \union {NoFile}

(* A command is over when the prompt comes back: processes that then still *)
(* work are those put in the background and those of a pipeline that could *)
(* not be built, and what they have started.                               *)
Orphan(p) == proc[p].at # "gone" /\ proc[p].parent = InitProc /\ p # Shell
Foreground ==
  /\ TypeOK
  /\ \A p \in Process : Orphan(p) => proc[p].excused
  /\ At(Shell, "prompt") => Children(Shell) = {}

(* A program starts with three descriptors and no other, whatever pipes and*)
(* redirections it is in: the first two are the ones its place says, though*)
(* dup and open only take the lowest free ones.                            *)
Plumbed ==
  \A p \in Process :
    proc[p].at \in {Cat, Echo, Wc} =>
      /\ OpenFds(p) = {0, 1, 2}
      /\ <<ofile[p][0], ofile[p][1]>> = proc[p].want

(* The child runs the command the user meant, and nothing of a line that is*)
(* none.                                                                   *)
ReadAsWritten ==
  [][\A p \in Process : At(p, "parse") /\ ~ At(p, "parse")' =>
       IF line.meant # NoCmd THEN At(p, "run")' /\ proc'[p].cmd = line.meant
       ELSE ~ At(p, "run")']_vars

(* No test of usertests and no other program finds what it should not find:*)
(* the child it waits for, with the status it left or -1 when it was killed*)
(* and no other child; every byte of its pipe, and its end.  (On one CPU   *)
(* under FCFS killstatus and preempt do not fail either, but never end.)   *)
TestsPass == \A p \in Process : proc[p].at # "failed" /\ ~ Calls(p, "fail")

(* Every command ends, for a program that reads a pipe sees its end: the   *)
(* prompt comes back, or the shell ends.  Of tests with children that spin *)
(* (killstatus, preempt) this is said of a Preemptive scheduler only.      *)
PromptReturns == []<>(At(Shell, "prompt") \/ proc[Shell].at = "zombie")

=============================================================================
