------------------------------ MODULE FifoPages ------------------------------
(***************************************************************************)
(* What the page allocator of xv6-riscv-modificado promises its callers,   *)
(* with no list, no tail pointer and no lock: a free page is queued once,  *)
(* pages are handed out in the order in which they were queued, and a page *)
(* that somebody owns is never handed out.                                 *)
(***************************************************************************)
EXTENDS Integers, Sequences

CONSTANTS Thread,     \* the kernel threads that call kalloc and kfree
          NPages      \* pages of physical memory

Page == 1..NPages
Null == 0

VARIABLES queue,      \* the free pages, the one freed first at the head
          owned,      \* the pages that callers of kalloc hold
          releasing,  \* releasing[t]: the page a kfree of t has in hand, or Null
          granted     \* granted[t]: the page a kalloc of t will return, or Null

vars == <<queue, owned, releasing, granted>>

Init ==
  /\ queue = << >>
  /\ owned = Page
  /\ releasing = [t \in Thread |-> Null]
  /\ granted = [t \in Thread |-> Null]

(* A caller gives up a page: from here on nobody owns it.                  *)
Give(t, pg) ==
  /\ releasing[t] = Null
  /\ pg \in owned
  /\ owned' = owned \ {pg}
  /\ releasing' = [releasing EXCEPT ![t] = pg]
  /\ UNCHANGED <<queue, granted>>

(* The page becomes the youngest free page.                                *)
Enqueue(t) ==
  /\ releasing[t] # Null
  /\ queue' = Append(queue, releasing[t])
  /\ releasing' = [releasing EXCEPT ![t] = Null]
  /\ UNCHANGED <<owned, granted>>

(* The oldest free page is reserved for the caller.                        *)
Dequeue(t) ==
  /\ granted[t] = Null
  /\ queue # << >>
  /\ granted' = [granted EXCEPT ![t] = Head(queue)]
  /\ queue' = Tail(queue)
  /\ UNCHANGED <<owned, releasing>>

(* The caller owns it.                                                     *)
Take(t) ==
  /\ granted[t] # Null
  /\ owned' = owned \union {granted[t]}
  /\ granted' = [granted EXCEPT ![t] = Null]
  /\ UNCHANGED <<queue, releasing>>

Next ==
  \E t \in Thread :
    \/ \E pg \in Page : Give(t, pg)
    \/ Enqueue(t)
    \/ Dequeue(t)
    \/ Take(t)

Spec == Init /\ [][Next]_vars

=============================================================================
