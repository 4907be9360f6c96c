---------------------------------- MODULE Pipe ---------------------------------
(***************************************************************************)
(* Pipes (kernel/pipe.c) with the open files that are their ends           *)
(* (FileTable) and the calls that make, share, use and close them: pipe,   *)
(* dup, fork, close, read, write, exit and kill.  The files of both trees  *)
(* are the same.                                                           *)
(*                                                                         *)
(* Abstractions.  What happens between acquire(&pi->lock) and the release  *)
(* or the sleep that gives it back is one step, cut where killed() looks at*)
(* the flag kkill sets under another lock: before every byte that is       *)
(* written, and before a sleep.  sleep and wakeup are taken to be atomic,  *)
(* which module Proc checks.  Bytes are numbered as they are written: byte *)
(* k of a pipe is k modulo UintMod.  A killed process makes no call any    *)
(* more: the trap kills it.  Zombies are reaped at once.                   *)
(***************************************************************************)
EXTENDS FileTable, Functions

CONSTANTS InitProcess,  \* the process that exists at first
          NPipe,        \* pages the allocator has for pipes
          PIPESIZE,     \* bytes a pipe holds
          UintMod,      \* nread and nwrite count modulo this
          Counts,       \* bound: the counts of reads and writes
          NoProcess

(* PIPESIZE is 512 and unsigned arithmetic is modulo 2^32: the slots go on *)
(* in order when the counters wrap.                                        *)
ASSUME PipeAssumption ==
  /\ InitProcess \in Process /\ NoProcess \notin Process
  /\ NPipe \in Nat /\ Counts \subseteq Nat \ {0}
  /\ PIPESIZE \in Nat \ {0} /\ UintMod \in Nat /\ UintMod % PIPESIZE = 0
  /\ UintMod > PIPESIZE

PipeId == 1..NPipe
Byte == 0..UintMod - 1

VARIABLES pipe,     \* the struct pipe in each page, with the owner of its lock
          thread,   \* where each process is in the kernel, and its locals
          killed,   \* p->killed
          torn      \* history: a writer was killed half way and woke nobody up

vars == <<ftable, ofile, pipe, thread, killed, torn>>

(* f is the file of a read or write, n what is left of its count, i whether*)
(* some of it is done; held are the files that sys_pipe has or that are    *)
(* still to be closed; obj and writable are the copy ff of fileclose;      *)
(* exiting says that the process is in kexit.                              *)
User == [at |-> "user", f |-> NoFile, obj |-> NoObject, writable |-> FALSE,
         n |-> 0, i |-> 0, got |-> << >>, held |-> << >>, exiting |-> FALSE]
Absent == [User EXCEPT !.at = "absent"]

NoPipe == [used |-> FALSE, data |-> [s \in 0..PIPESIZE - 1 |-> 0],
           nread |-> 0, nwrite |-> 0, readopen |-> FALSE, writeopen |-> FALSE,
           lock |-> NoProcess]

Init ==
  /\ FilesInit
  /\ pipe = [pi \in PipeId |-> NoPipe]
  /\ thread = [p \in Process |-> IF p = InitProcess THEN User ELSE Absent]
  /\ killed = [p \in Process |-> FALSE]
  /\ torn = [pi \in PipeId |-> FALSE]

-----------------------------------------------------------------------------

At(p, l) == thread[p].at = l
Goto(p, l) == [thread EXCEPT ![p].at = l]
Return(p) == [thread EXCEPT ![p] = User]

(* A process enters the kernel with a call; a killed one does not.         *)
Calls(p) == At(p, "user") /\ ~ killed[p]

Obj(p) == ftable[thread[p].f].obj

(* The places where a process is asleep, and where it goes on.             *)
WakeAt == [r_asleep |-> "read", w_asleep |-> "write"]

(* wakeup(&pi->nread) or wakeup(&pi->nwrite), in a change t of thread.     *)
Wake(t, pi, place) ==
  [q \in Process |-> IF t[q].at = place /\ Obj(q) = pi
                       THEN [t[q] EXCEPT !.at = WakeAt[place]] ELSE t[q]]

Occupied(pi) == pipe[pi].nwrite = (pipe[pi].nread + PIPESIZE) % UintMod
Vacant(pi) == pipe[pi].nread = pipe[pi].nwrite
Held(pi) == (pipe[pi].nwrite - pipe[pi].nread) % UintMod

-----------------------------------------------------------------------------
(* sys_pipe: two files, a page, two descriptors                            *)

PipeFirst(p) ==
  LET f == FileAlloc(ftable) IN
  /\ Calls(p) /\ f # NoFile
  /\ ftable' = Referred(ftable, f)
  /\ thread' = [thread EXCEPT ![p] = [User EXCEPT !.at = "pipe_second", !.held = <<f>>]]
  /\ UNCHANGED <<ofile, pipe, killed, torn>>

PipeSecond(p) ==
  LET g == FileAlloc(ftable) IN
  /\ At(p, "pipe_second")
  /\ \/ /\ g = NoFile
        /\ thread' = Goto(p, "closing")
        /\ UNCHANGED ftable
     \/ /\ g # NoFile
        /\ ftable' = Referred(ftable, g)
        /\ thread' = [thread EXCEPT ![p] = [@ EXCEPT !.at = "pipe_page",
                                                     !.held = <<thread[p].held[1], g>>]]
  /\ UNCHANGED <<ofile, pipe, killed, torn>>

(* kalloc, the fields, fdalloc twice and the copy of the descriptors to the*)
(* caller; when the page is missing or a later part fails, both files are  *)
(* closed again, with the pipe behind them if there is one.                *)
PipeFails(p) ==
  /\ At(p, "pipe_page")
  /\ thread' = Goto(p, "closing")
  /\ UNCHANGED <<ftable, ofile, pipe, killed, torn>>

Ends(f, g, pi) ==
  [ftable EXCEPT ![f] = [@ EXCEPT !.type = "pipe", !.obj = pi],
                 ![g] = [@ EXCEPT !.type = "pipe", !.obj = pi, !.writable = TRUE]]

PipeMake(p, pi) ==
  LET f == thread[p].held[1]
      g == thread[p].held[2]
      fd0 == FdAlloc(ofile[p])
      fds == IF fd0 = NoFd THEN ofile[p] ELSE [ofile[p] EXCEPT ![fd0] = f]
      fd1 == FdAlloc(fds) IN
  /\ At(p, "pipe_page") /\ ~ pipe[pi].used
  /\ pipe' = [pipe EXCEPT ![pi] = [NoPipe EXCEPT !.used = TRUE, !.readopen = TRUE,
                                                 !.writeopen = TRUE]]
  /\ ftable' = Ends(f, g, pi)
  /\ \/ /\ fd1 # NoFd
        /\ ofile' = [ofile EXCEPT ![p] = [fds EXCEPT ![fd1] = g]]
        /\ thread' = Return(p)
     \/ /\ thread' = Goto(p, "closing")
        /\ UNCHANGED ofile
  /\ torn' = [torn EXCEPT ![pi] = FALSE]
  /\ UNCHANGED killed

-----------------------------------------------------------------------------
(* close, exit, dup and fork                                               *)

Close(p, fd) ==
  /\ Calls(p) /\ ArgFd(p, fd) # NoFile
  /\ ofile' = [ofile EXCEPT ![p][fd] = NoFile]
  /\ thread' = [thread EXCEPT ![p] = [User EXCEPT !.at = "closing",
                                                  !.held = <<ofile[p][fd]>>]]
  /\ UNCHANGED <<ftable, pipe, killed, torn>>

(* kexit, by a call or because a trap finds the process killed; init, which*)
(* the kernel does not let exit, does neither.                             *)
Exit(p) ==
  /\ At(p, "user") /\ p # InitProcess
  /\ thread' = [thread EXCEPT ![p] = [User EXCEPT !.at = "closing", !.exiting = TRUE]]
  /\ UNCHANGED <<ftable, ofile, pipe, killed, torn>>

(* fileclose, by a thread that becomes t: closing the last reference to the*)
(* end of a pipe goes on with pipeclose.                                   *)
Closes(p, f, t) ==
  /\ ftable' = Unreferred(ftable, f)
  /\ thread' = [thread EXCEPT ![p] =
                  IF LastClose(ftable, f) /\ ftable[f].type = "pipe"
                    THEN [t EXCEPT !.at = "pipeclose", !.obj = ftable[f].obj,
                                   !.writable = ftable[f].writable]
                    ELSE t]

(* The next file of a call.                                                *)
FileClose(p) ==
  /\ At(p, "closing") /\ thread[p].held # << >>
  /\ Closes(p, Head(thread[p].held), [thread[p] EXCEPT !.held = Tail(thread[p].held)])
  /\ UNCHANGED <<ofile, pipe, killed, torn>>

(* The next file of a process that exits.                                  *)
ExitClose(p) ==
  LET fd == Min(OpenFds(p)) IN
  /\ At(p, "closing") /\ thread[p].exiting /\ OpenFds(p) # {}
  /\ Closes(p, ofile[p][fd], thread[p])
  /\ ofile' = [ofile EXCEPT ![p][fd] = NoFile]
  /\ UNCHANGED <<pipe, killed, torn>>

(* The pipe after one end is closed; with the other, its page is freed.    *)
WithoutEnd(pp, w) ==
  IF w
    THEN IF pp.readopen THEN [pp EXCEPT !.writeopen = FALSE] ELSE NoPipe
    ELSE IF pp.writeopen THEN [pp EXCEPT !.readopen = FALSE] ELSE NoPipe

Reclosing(p) ==
  [thread EXCEPT ![p] = [@ EXCEPT !.at = "closing", !.obj = NoObject, !.writable = FALSE]]

(* A faulty pipeclose that wakes up nobody.                                *)
PipeCloseQuietly(p) ==
  LET pi == thread[p].obj
      w == thread[p].writable IN
  /\ At(p, "pipeclose") /\ pipe[pi].lock = NoProcess
  /\ pipe' = [pipe EXCEPT ![pi] = WithoutEnd(@, w)]
  /\ thread' = Reclosing(p)
  /\ UNCHANGED <<ftable, ofile, killed, torn>>

(* pipeclose: whoever closes the second end frees the page.                *)
PipeClose(p) ==
  LET pi == thread[p].obj
      w == thread[p].writable IN
  /\ At(p, "pipeclose") /\ pipe[pi].lock = NoProcess
  /\ pipe' = [pipe EXCEPT ![pi] = WithoutEnd(@, w)]
  /\ thread' = Wake(Reclosing(p), pi, IF w THEN "r_asleep" ELSE "w_asleep")
  /\ torn' = IF w THEN [torn EXCEPT ![pi] = FALSE] ELSE torn
  /\ UNCHANGED <<ftable, ofile, killed>>

(* The end of a call that closed files, and of a process.                  *)
CloseDone(p) ==
  /\ At(p, "closing") /\ thread[p].held = << >>
  /\ thread[p].exiting => OpenFds(p) = {}
  /\ thread' = [thread EXCEPT ![p] = IF thread[p].exiting THEN Absent ELSE User]
  /\ killed' = [killed EXCEPT ![p] = IF thread[p].exiting THEN FALSE ELSE @]
  /\ UNCHANGED <<ftable, ofile, pipe, torn>>

Dup(p, fd) ==
  LET f == ArgFd(p, fd)
      new == FdAlloc(ofile[p]) IN
  /\ Calls(p) /\ f # NoFile /\ new # NoFd
  /\ ofile' = [ofile EXCEPT ![p][new] = f]
  /\ ftable' = Referred(ftable, f)
  /\ UNCHANGED <<pipe, thread, killed, torn>>

Fork(p, child) ==
  /\ Calls(p) /\ At(child, "absent")
  /\ FilesFork(p, child)
  /\ thread' = [thread EXCEPT ![child] = User]
  /\ UNCHANGED <<pipe, killed, torn>>

(* kkill: a sleeper wakes up, whatever it sleeps for.                      *)
Kill(p) ==
  /\ ~ At(p, "absent") /\ ~ killed[p] /\ p # InitProcess
  /\ killed' = [killed EXCEPT ![p] = TRUE]
  /\ thread' = [thread EXCEPT ![p].at = IF @ \in DOMAIN WakeAt THEN WakeAt[@] ELSE @]
  /\ UNCHANGED <<ftable, ofile, pipe, torn>>

-----------------------------------------------------------------------------
(* read                                                                    *)

Read(p, fd, n) ==
  LET f == ArgFd(p, fd) IN
  /\ Calls(p) /\ f # NoFile /\ ~ ftable[f].writable
  /\ thread' = [thread EXCEPT ![p] = [User EXCEPT !.at = "read", !.f = f, !.n = n]]
  /\ UNCHANGED <<ftable, ofile, pipe, killed, torn>>

(* piperead, from acquire to the test of the loop and its body.            *)
MustWait(pi) == Vacant(pi) /\ pipe[pi].writeopen

ReadWaits(p) ==
  LET pi == Obj(p) IN
  /\ At(p, "read") /\ pipe[pi].lock = NoProcess /\ MustWait(pi)
  /\ \/ /\ killed[p]
        /\ thread' = Return(p)
        /\ UNCHANGED pipe
     \/ /\ ~ killed[p]
        /\ thread' = Goto(p, "r_sleep")
        /\ pipe' = [pipe EXCEPT ![pi].lock = p]
  /\ UNCHANGED <<ftable, ofile, killed, torn>>

ReadSleeps(p) ==
  /\ At(p, "r_sleep")
  /\ thread' = Goto(p, "r_asleep")
  /\ pipe' = [pipe EXCEPT ![Obj(p)].lock = NoProcess]
  /\ UNCHANGED <<ftable, ofile, killed, torn>>

Taken(pi, k) == [i \in 1..k |-> pipe[pi].data[(pipe[pi].nread + i - 1) % PIPESIZE]]

(* Faulty copies that take one byte too few from the pipe, or that wake up *)
(* no writer.                                                              *)
ReadCopyKeepsOne(p, k) ==
  LET pi == Obj(p) IN
  /\ pipe' = [pipe EXCEPT ![pi].nread = (@ + (IF k > 1 THEN k - 1 ELSE k)) % UintMod]
  /\ thread' = Wake([thread EXCEPT ![p] = [@ EXCEPT !.at = "r_return", !.got = Taken(pi, k)]],
                    pi, "w_asleep")

ReadCopyQuietly(p, k) ==
  LET pi == Obj(p) IN
  /\ pipe' = [pipe EXCEPT ![pi].nread = (@ + k) % UintMod]
  /\ thread' = [thread EXCEPT ![p] = [@ EXCEPT !.at = "r_return", !.got = Taken(pi, k)]]

(* The copy of k bytes, the wakeup and the release.                        *)
ReadCopy(p, k) ==
  LET pi == Obj(p) IN
  /\ pipe' = [pipe EXCEPT ![pi].nread = (@ + k) % UintMod]
  /\ thread' = Wake([thread EXCEPT ![p] = [@ EXCEPT !.at = "r_return", !.got = Taken(pi, k)]],
                    pi, "w_asleep")

(* Fewer bytes than there are and than are asked for: copyout failed.      *)
ReadTakes(p) ==
  LET pi == Obj(p)
      most == Min({Held(pi), thread[p].n}) IN
  /\ At(p, "read") /\ pipe[pi].lock = NoProcess /\ ~ MustWait(pi)
  /\ \/ ReadCopy(p, most)
     \/ \E k \in 1..most - 1 : ReadCopy(p, k)
     \/ /\ most > 0
        /\ thread' = Wake(Return(p), pi, "w_asleep")
        /\ UNCHANGED pipe
  /\ UNCHANGED <<ftable, ofile, killed, torn>>

ReadReturns(p) ==
  /\ At(p, "r_return")
  /\ thread' = Return(p)
  /\ UNCHANGED <<ftable, ofile, pipe, killed, torn>>

-----------------------------------------------------------------------------
(* write                                                                   *)

Write(p, fd, n) ==
  LET f == ArgFd(p, fd) IN
  /\ Calls(p) /\ f # NoFile /\ ftable[f].writable
  /\ thread' = [thread EXCEPT ![p] = [User EXCEPT !.at = "write", !.f = f, !.n = n]]
  /\ UNCHANGED <<ftable, ofile, pipe, killed, torn>>

(* The body of pipewrite's loop begins, after acquire or the last byte.    *)
InLoop(p) ==
  \/ At(p, "write") /\ pipe[Obj(p)].lock = NoProcess
  \/ At(p, "w_loop")

Broken(p) == ~ pipe[Obj(p)].readopen \/ killed[p]

(* Nobody to read, or killed: the bytes written before stay, and no reader *)
(* is woken up for them.                                                   *)
WriteBreaks(p) ==
  LET pi == Obj(p) IN
  /\ InLoop(p) /\ Broken(p)
  /\ thread' = Return(p)
  /\ pipe' = [pipe EXCEPT ![pi].lock = NoProcess]
  /\ torn' = [torn EXCEPT ![pi] = @ \/ thread[p].i > 0]
  /\ UNCHANGED <<ftable, ofile, killed>>

WriteWaits(p) ==
  LET pi == Obj(p) IN
  /\ InLoop(p) /\ ~ Broken(p) /\ Occupied(pi)
  /\ thread' = Wake([thread EXCEPT ![p] = [@ EXCEPT !.at = "w_sleep", !.i = 0]], pi, "r_asleep")
  /\ pipe' = [pipe EXCEPT ![pi].lock = p]
  /\ torn' = [torn EXCEPT ![pi] = FALSE]
  /\ UNCHANGED <<ftable, ofile, killed>>

WriteSleeps(p) ==
  /\ At(p, "w_sleep")
  /\ thread' = Goto(p, "w_asleep")
  /\ pipe' = [pipe EXCEPT ![Obj(p)].lock = NoProcess]
  /\ UNCHANGED <<ftable, ofile, killed, torn>>

(* The end of the loop, after the last byte or when copyin fails.          *)
WriteEnds(p, pi) ==
  /\ thread' = Wake(Return(p), pi, "r_asleep")
  /\ torn' = [torn EXCEPT ![pi] = FALSE]

WriteByte(p) ==
  LET pi == Obj(p)
      last == thread[p].n = 1 IN
  /\ InLoop(p) /\ ~ Broken(p) /\ ~ Occupied(pi)
  /\ pipe' = [pipe EXCEPT ![pi] =
                [@ EXCEPT !.data = [pipe[pi].data EXCEPT ![pipe[pi].nwrite % PIPESIZE] =
                                      pipe[pi].nwrite],
                          !.nwrite = (pipe[pi].nwrite + 1) % UintMod,
                          !.lock = IF last THEN NoProcess ELSE p]]
  /\ \/ last /\ WriteEnds(p, pi)
     \/ /\ ~ last
        /\ thread' = [thread EXCEPT ![p] = [@ EXCEPT !.at = "w_loop",
                                                     !.n = thread[p].n - 1, !.i = 1]]
        /\ UNCHANGED torn
  /\ UNCHANGED <<ftable, ofile, killed>>

WriteFaults(p) ==
  LET pi == Obj(p) IN
  /\ InLoop(p) /\ ~ Broken(p) /\ ~ Occupied(pi)
  /\ pipe' = [pipe EXCEPT ![pi].lock = NoProcess]
  /\ WriteEnds(p, pi)
  /\ UNCHANGED <<ftable, ofile, killed>>

-----------------------------------------------------------------------------

(* A process goes on in the kernel.                                        *)
Pipealloc(p) == PipeSecond(p) \/ PipeFails(p) \/ \E pi \in PipeId : PipeMake(p, pi)
Fileclose(p) == FileClose(p) \/ ExitClose(p) \/ PipeClose(p) \/ CloseDone(p)
Piperead(p) == ReadWaits(p) \/ ReadSleeps(p) \/ ReadTakes(p) \/ ReadReturns(p)
Pipewrite(p) ==
  \/ WriteBreaks(p) \/ WriteWaits(p) \/ WriteSleeps(p) \/ WriteByte(p) \/ WriteFaults(p)

KernelStep(p) == Pipealloc(p) \/ Fileclose(p) \/ Piperead(p) \/ Pipewrite(p)

UserStep(p) ==
  \/ PipeFirst(p)
  \/ Exit(p)
  \/ \E fd \in Fd :
       \/ Close(p, fd)
       \/ Dup(p, fd)
       \/ \E n \in Counts : Read(p, fd, n) \/ Write(p, fd, n)
  \/ \E child \in Process : Fork(p, child)

Next ==
  \E p \in Process : KernelStep(p) \/ UserStep(p) \/ Kill(p)

Spec == Init /\ [][Next]_vars

(* A spinlock that is free again and again is taken in the end.            *)
FairSpec == Spec /\ \A p \in Process : SF_vars(KernelStep(p))

-----------------------------------------------------------------------------
(* Properties                                                              *)

Location == {"absent", "user", "pipe_second", "pipe_page", "closing", "pipeclose",
             "read", "r_sleep", "r_asleep", "r_return",
             "write", "w_loop", "w_sleep", "w_asleep"}

Thread == [at : Location, f : File \union {NoFile}, obj : PipeId \union {NoObject},
           writable : BOOLEAN, n : Nat, i : 0..1, got : Seq(Byte), held : Seq(File),
           exiting : BOOLEAN]

StructPipe == [used : BOOLEAN, data : [0..PIPESIZE - 1 -> Byte],
               nread : Byte, nwrite : Byte, readopen : BOOLEAN, writeopen : BOOLEAN,
               lock : Process \union {NoProcess}]

TypeOK ==
  /\ FilesTypeOK
  /\ pipe \in [PipeId -> StructPipe]
  /\ thread \in [Process -> Thread]
  /\ killed \in [Process -> BOOLEAN]
  /\ torn \in [PipeId -> BOOLEAN]

(* The references a process in the kernel holds besides its descriptors.   *)
LocalRefs(f) ==
  Cardinality({h \in Process \X (1..2) :
                 h[2] \in DOMAIN thread[h[1]].held /\ thread[h[1]].held[h[2]] = f})

(* Some file, or a pipeclose on its way, stands for this end of the pipe.  *)
EndHeld(pi, w) ==
  \/ \E f \in File : /\ ftable[f].ref > 0 /\ ftable[f].type = "pipe"
                     /\ ftable[f].obj = pi /\ ftable[f].writable = w
  \/ \E p \in Process : /\ At(p, "pipeclose")
                        /\ thread[p].obj = pi /\ thread[p].writable = w

(* Files and pipes are freed exactly when their last holder is gone: ref   *)
(* counts the descriptors and the calls that hold a file, an end of a pipe *)
(* is open while a file stands for it, its page is used while an end is    *)
(* open, and nobody reads, writes or sleeps in a pipe whose page is free.  *)
FreedWithLastHolder ==
  /\ TypeOK
  /\ \A f \in File : ftable[f].ref = FdRefs(f) + LocalRefs(f)
  /\ \A pi \in PipeId :
       /\ pipe[pi].readopen = EndHeld(pi, FALSE)
       /\ pipe[pi].writeopen = EndHeld(pi, TRUE)
       /\ pipe[pi].used = (pipe[pi].readopen \/ pipe[pi].writeopen)
  /\ \A p \in Process :
       thread[p].at \in {"read", "r_sleep", "r_asleep", "write", "w_loop", "w_sleep",
                         "w_asleep"} =>
         /\ ftable[thread[p].f].type = "pipe"
         /\ pipe[Obj(p)].used

(* Nobody sleeps in a pipe for what is there already, while nobody is at   *)
(* work in it: a reader while it holds bytes or has no writer, a writer    *)
(* while it has room or no reader.  A killed writer leaves bytes for which *)
(* readers are not woken up (torn).                                        *)
NoLostWakeup ==
  \A p \in Process :
    /\ At(p, "r_asleep") /\ pipe[Obj(p)].lock = NoProcess
         => MustWait(Obj(p)) \/ (torn[Obj(p)] /\ pipe[Obj(p)].writeopen)
    /\ At(p, "w_asleep") => Occupied(Obj(p)) /\ pipe[Obj(p)].readopen

NoAnswer == << -1 >>

Fifo(pi) == INSTANCE PipeFifo WITH
  Size <- PIPESIZE,
  None <- NoAnswer,
  queue <- IF pipe[pi].used THEN Taken(pi, Held(pi)) ELSE << >>,
  readopen <- pipe[pi].readopen,
  writeopen <- pipe[pi].writeopen,
  answer <- [p \in Process |-> IF At(p, "r_return") /\ Obj(p) = pi
                                 THEN thread[p].got ELSE NoAnswer]

(* The ring of each pipe, its wrapping counters and its two flags implement*)
(* the queue: no byte is lost, doubled or overtaken, and a read comes back *)
(* without a byte only at the end of the stream.                           *)
ByteStream ==
  /\ \A pi \in PipeId : Fifo(pi)!Init
  /\ [][\A pi \in PipeId : [Fifo(pi)!Next]_(Fifo(pi)!vars)]_vars

(* A reader whose pipe has lost its last writer, and a writer whose pipe   *)
(* has lost its last reader, come back in the end.                         *)
Stranded(p) ==
  \/ thread[p].at \in {"read", "r_sleep", "r_asleep"} /\ ~ pipe[Obj(p)].writeopen
  \/ thread[p].at \in {"write", "w_loop", "w_sleep", "w_asleep"} /\ ~ pipe[Obj(p)].readopen
EndsAreSeen == \A p \in Process : Stranded(p) ~> At(p, "user")

=============================================================================
