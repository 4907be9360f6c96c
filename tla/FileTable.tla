------------------------------- MODULE FileTable -------------------------------
(***************************************************************************)
(* The system's table of open files (kernel/file.c) and the descriptors of *)
(* each process (ofile[] in kernel/proc.h, fdalloc in kernel/sysfile.c).   *)
(* The modules Pipe and Fs add what a file refers to.                      *)
(*                                                                         *)
(* Abstractions.  A critical section of ftable.lock is one step.  ofile[]  *)
(* is read and written by its own process only, so that several accesses to*)
(* it join the step next to them.  The fields of a file whose type is none *)
(* are not kept, for nobody reads them.                                    *)
(***************************************************************************)
EXTENDS Integers, Sequences, FiniteSets, FiniteSetsExt

CONSTANTS Process,   \* slots of the process table
          NFILE,     \* files the system can have open
          NOFILE     \* descriptors of a process

ASSUME FileTableAssumption ==
  IsFiniteSet(Process) /\ NFILE \in Nat \ {0} /\ NOFILE \in Nat \ {0}

VARIABLES ftable,    \* ftable.file
          ofile      \* ofile[p][fd], NoFile where it is null

File == 1..NFILE
NoFile == 0
Fd == 0..NOFILE - 1
NoFd == NOFILE
NoObject == 0

(* obj is the pipe or the inode of the file.                               *)
Closed == [ref |-> 0, type |-> "none", obj |-> NoObject, writable |-> FALSE]

FilesInit ==
  /\ ftable = [f \in File |-> Closed]
  /\ ofile = [p \in Process |-> [fd \in Fd |-> NoFile]]

-----------------------------------------------------------------------------

(* filealloc: the first file nobody refers to.                             *)
FreeFiles(ft) == {f \in File : ft[f].ref = 0}
FileAlloc(ft) == IF FreeFiles(ft) = {} THEN NoFile ELSE Min(FreeFiles(ft))

Referred(ft, f) == [ft EXCEPT ![f].ref = @ + 1]

(* A faulty fileclose that leaves the type of a file it frees.             *)
UnreferredKeepsType(ft, f) == [ft EXCEPT ![f].ref = @ - 1]

(* fileclose, under ftable.lock: what is left of the file, and whether its *)
(* object has to be closed too.                                            *)
Unreferred(ft, f) ==
  [ft EXCEPT ![f] = IF @.ref > 1 THEN [@ EXCEPT !.ref = ft[f].ref - 1] ELSE Closed]
LastClose(ft, f) == ft[f].ref = 1

(* fdalloc: the first free descriptor.                                     *)
FreeFds(fds) == {fd \in Fd : fds[fd] = NoFile}
FdAlloc(fds) == IF FreeFds(fds) = {} THEN NoFd ELSE Min(FreeFds(fds))

(* argfd: the file behind a descriptor.                                    *)
ArgFd(p, fd) == IF fd \in Fd THEN ofile[p][fd] ELSE NoFile

OpenFds(p) == {fd \in Fd : ofile[p][fd] # NoFile}

(* The part of kfork that shares the parent's files: its references keep   *)
(* them open, and the child does not run yet.                              *)
FilesFork(p, child) ==
  /\ ofile' = [ofile EXCEPT ![child] = ofile[p]]
  /\ ftable' = [f \in File |->
                  [ftable[f] EXCEPT !.ref = @ + Cardinality({fd \in Fd : ofile[p][fd] = f})]]

(* The references from descriptors.                                        *)
FdRefs(f) == Cardinality({d \in Process \X Fd : ofile[d[1]][d[2]] = f})

FilesTypeOK ==
  /\ ftable \in [File -> [ref : Nat, type : {"none", "pipe", "inode"},
                          obj : Nat, writable : BOOLEAN]]
  /\ ofile \in [Process -> [Fd -> File \union {NoFile}]]

=============================================================================
