---------------------------------- MODULE MCFs ---------------------------------
(***************************************************************************)
(* Two processes and few calls, from the disk of mkfs, from one with a     *)
(* directory n1 and a file that is n2 and n1/n1, or from one with a        *)
(* directory n1/n1, whose parent has no link to spare.                     *)
(***************************************************************************)
EXTENDS Fs

CONSTANTS p1, p2, p3, n1, n2

Abs(elems) == [abs |-> TRUE, elems |-> elems]
Ask(call, path) == [call |-> call, path |-> Abs(path), new |-> NoPath]
AskLink(old, new) == [call |-> "link", path |-> Abs(old), new |-> Abs(new)]

Requests ==
  {Ask("open", <<n1>>), Ask("rewrite", <<n1, n1>>), Ask("trunc", <<n1>>),
   Ask("chdir", <<n1>>), Ask("chdir", <<n2>>), Ask("mkdir", <<n1>>), Ask("mkdir", <<n1, n1, n2>>),
   Ask("mknod", <<n2>>),
   Ask("unlink", <<n1>>), Ask("unlink", <<n2>>), Ask("unlink", <<n1, n1>>), Ask("unlink", <<"..">>),
   AskLink(<<n2>>, <<n1, n2>>), AskLink(<<n1, n1>>, <<n1>>), AskLink(<<n1>>, <<n2>>)}

Inode(type, nlink, size, block) ==
  [FreeInode EXCEPT !.type = type, !.nlink = nlink, !.size = size, !.addrs[0] = block]
Link(name, inum) == [name |-> name, inum |-> inum]
Dir(self, parent) == <<Link(".", self), Link("..", parent)>>

Linked ==
  [dinode |-> [Mkfs.dinode EXCEPT ![1] = Inode("dir", 2, DPB, 1), ![2] = Inode("dir", 1, 3, 2),
                                  ![3] = Inode("file", 2, 1, 3)],
   dirs |-> [Mkfs.dirs EXCEPT ![1] = Dir(1, 1) \o <<Link(n1, 2), Link(n2, 3)>>,
                              ![2] = Dir(2, 1) \o <<Link(n1, 3)>>],
   used |-> 1..3]
Nested ==
  [dinode |-> [Mkfs.dinode EXCEPT ![1] = Inode("dir", 2, DPB, 1), ![2] = Inode("dir", 2, 3, 2),
                                  ![3] = Inode("dir", 1, 2, 3)],
   dirs |-> [Mkfs.dirs EXCEPT ![1] = Dir(1, 1) \o <<Link(n1, 2), EmptySlot>>,
                              ![2] = Dir(2, 1) \o <<Link(n1, 3)>>, ![3] = Dir(3, 2)],
   used |-> 1..3]
Trees == {Linked, Nested}
=============================================================================
