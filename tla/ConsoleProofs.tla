----------------------------- MODULE ConsoleProofs -----------------------------
(***************************************************************************)
(* The console loses no wakeup and no byte, and implements Terminal, for   *)
(* any readers and writers, any size of the ring and any width of its      *)
(* indices, wherever they start.                                           *)
(***************************************************************************)
EXTENDS Console, SequenceTheorems, Integers, TLAPS

-----------------------------------------------------------------------------
(* The inductive invariant                                                 *)

Serving == {"edit", "echo", "put", "store"}

(* Places of a read that holds cons.lock.                                  *)
Reading == {"reading", "to_sleep"}

Places == {"user", "write", "read", "asleep"} \union Reading
Thread == [at : Places, n : Nat, target : Nat]

Types ==
  /\ buf \in [0..INPUT_BUF_SIZE - 1 -> Char \union {NoChar}]
  /\ r \in 0..IdxMod - 1 /\ w \in 0..IdxMod - 1 /\ e \in 0..IdxMod - 1
  /\ consLock \in Reader \union {Nobody, Handler}
  /\ thread \in [Reader \union Writer -> Thread]
  /\ \A p \in Reader \union Writer : thread[p].at # "user" => thread[p].n > 0
  /\ killed \in [Reader -> BOOLEAN]
  /\ intr \in [at : {"idle", "tx", "rx", "acquire"} \union Serving, c : Char \union {NoChar}]
  /\ printk \in {"idle", "wait", "put"}
  /\ txBusy \in BOOLEAN /\ txPending \in BOOLEAN
  /\ thr \in Nat /\ rx \in Seq(Char)

(* cons.lock is held where the code is between acquire and release.        *)
LockInv ==
  /\ consLock = Handler <=> intr.at \in Serving
  /\ \A p \in Reader : consLock = p <=> thread[p].at \in Reading
  /\ \A p \in Writer : thread[p].at \notin Reading

(* Read, write and edit index stand in this order around the ring, and the *)
(* places between the first and the last hold characters.                  *)
RingInv ==
  /\ Minus(w, r) + Minus(e, w) = Minus(e, r)
  /\ Minus(e, r) <= INPUT_BUF_SIZE
  /\ \A k \in Nat : k < Minus(e, r) => buf[(r + k) % INPUT_BUF_SIZE] \in Char

(* The handler stores what it has found room for.                          *)
EchoInv ==
  /\ intr.at \in {"acquire"} \union Serving => intr.c \in Char
  /\ intr.at \in {"echo", "put", "store"} /\ ~ Edits => HasRoom
  /\ intr.at = "store" => ~ Edits

(* While tx_busy is set an interrupt is on its way; nobody sleeps beside a *)
(* complete line.                                                          *)
WaitInv ==
  /\ txBusy => thr > 0 \/ txPending \/ IntrAt("tx")
  /\ \A p \in Writer : thread[p].at = "asleep" => txBusy
  /\ \A p \in Reader : thread[p].at \in {"asleep", "to_sleep"} => r = w

(* Each party that may write a byte without looking has looked when the    *)
(* device was idle: uartwrite through tx_busy, printk and the echo         *)
(* themselves.                                                             *)
OutputInv ==
  thr + (IF txBusy THEN 0 ELSE 1) + (IF printk = "put" THEN 1 ELSE 0)
      + (IF intr.at = "put" THEN 1 ELSE 0) <= 3

IInv ==
  /\ Types
  /\ LockInv
  /\ RingInv
  /\ EchoInv
  /\ WaitInv
  /\ OutputInv

USE ConsoleAssumption, ProcessAssumption DEF Nobody, Handler, NoChar, Reading, Places

-----------------------------------------------------------------------------
(* Remainders                                                              *)

LEMMA SameRemainder ==
  ASSUME NEW b \in Nat \ {0}, NEW p \in Int, NEW q \in Int,
         NEW i \in 0..b - 1, NEW j \in 0..b - 1, b * p + i = b * q + j
  PROVE  i = j
<1>1. CASE p = q
  BY <1>1
<1>2. CASE p - q >= 1
  <2>1. b * (p - q) >= b
    BY <1>2
  <2> QED
    BY <2>1
<1>3. CASE q - p >= 1
  <2>1. b * (q - p) >= b
    BY <1>3
  <2> QED
    BY <2>1
<1> QED
  BY <1>1, <1>2, <1>3

LEMMA Division ==
  ASSUME NEW b \in Nat \ {0}, NEW x \in Nat
  PROVE  /\ x \div b \in Nat /\ x % b \in 0..b - 1
         /\ x = b * (x \div b) + (x % b)
OBVIOUS

LEMMA Remainders ==
  ASSUME NEW b \in Nat \ {0}
  PROVE  /\ \A x \in 0..b - 1 : x % b = x
         /\ \A x \in b..2 * b - 1 : x % b = x - b
         /\ \A x, n \in Nat : n % b = 0 => (x + n) % b = x % b
         /\ \A x, y \in Nat : x < y /\ y < x + b => x % b # y % b
<1>1. \A x \in 0..b - 1 : x % b = x
  OBVIOUS
<1>2. \A x \in b..2 * b - 1 : x % b = x - b
  OBVIOUS
<1>3. ASSUME NEW x \in Nat, NEW n \in Nat, n % b = 0
      PROVE  (x + n) % b = x % b
  <2>1. PICK k \in Nat : n = b * k + (n % b)
    BY Division
  <2>2. PICK q \in Nat : x = b * q + (x % b)
    BY Division
  <2>3. PICK p \in Nat : x + n = b * p + ((x + n) % b)
    <3>1. x + n \in Nat
      OBVIOUS
    <3> QED
      BY <3>1, Division
  <2>4. x + n = b * (q + k) + (x % b)
    BY <1>3, <2>1, <2>2
  <2>5. x % b \in 0..b - 1 /\ (x + n) % b \in 0..b - 1 /\ q + k \in Int /\ p \in Int
    <3>1. x + n \in Nat
      OBVIOUS
    <3> QED
      BY <3>1, Division
  <2>6. b * p + ((x + n) % b) = b * (q + k) + (x % b)
    BY <2>3, <2>4
  <2> QED
    BY <2>5, <2>6, SameRemainder, Zenon
<1>4. ASSUME NEW x \in Nat, NEW y \in Nat, x < y, y < x + b, x % b = y % b
      PROVE  FALSE
  <2>1. PICK q \in Nat : x = b * q + (x % b)
    BY Division
  <2>2. PICK p \in Nat : y = b * p + (y % b)
    BY Division
  <2>3. y - x = b * (p - q)
    BY <1>4, <2>1, <2>2, Division
  <2>4. /\ p - q <= 0 => b * (p - q) <= 0
        /\ p - q >= 1 => b * (p - q) >= b
    OBVIOUS
  <2> QED
    BY <1>4, <2>3, <2>4
<1> QED
  BY <1>1, <1>2, <1>3, <1>4

-----------------------------------------------------------------------------
(* Indices                                                                 *)

Index == 0..IdxMod - 1

LEMMA IndexRemainder ==
  ASSUME NEW x \in 0..2 * IdxMod - 1
  PROVE  x % IdxMod = IF x < IdxMod THEN x ELSE x - IdxMod
<1>1. IdxMod \in Nat \ {0}
  OBVIOUS
<1>2. /\ \A y \in 0..IdxMod - 1 : y % IdxMod = y
      /\ \A y \in IdxMod..2 * IdxMod - 1 : y % IdxMod = y - IdxMod
  BY <1>1, Remainders, Zenon
<1> QED
  BY <1>1, <1>2

LEMMA Wrap ==
  ASSUME NEW i \in Index, NEW n \in 0..IdxMod
  PROVE  Plus(i, n) \in Index /\ Plus(i, n) = IF i + n < IdxMod THEN i + n ELSE i + n - IdxMod
<1>1. i + n \in 0..2 * IdxMod - 1
  BY DEF Index
<1> QED
  BY <1>1, IndexRemainder DEF Index, Plus

LEMMA Back ==
  ASSUME NEW i \in Index, NEW j \in Index
  PROVE  Minus(i, j) \in Index /\ Minus(i, j) = IF i >= j THEN i - j ELSE i + IdxMod - j
<1>1. i + IdxMod - j \in 0..2 * IdxMod - 1
  BY DEF Index
<1> QED
  BY <1>1, IndexRemainder DEF Index, Minus

(* Where the ring keeps what is k places after index Plus(i, n).           *)
LEMMA Address ==
  ASSUME NEW i \in Index, NEW n \in 0..IdxMod, NEW k \in Nat
  PROVE  (Plus(i, n) + k) % INPUT_BUF_SIZE = (i + n + k) % INPUT_BUF_SIZE
<1>1. CASE i + n < IdxMod
  BY <1>1, Wrap DEF Index
<1>2. CASE ~ (i + n < IdxMod)
  <2>1. Plus(i, n) = i + n - IdxMod /\ Plus(i, n) + k \in Nat
    BY <1>2, Wrap DEF Index
  <2>2. (Plus(i, n) + k + IdxMod) % INPUT_BUF_SIZE = (Plus(i, n) + k) % INPUT_BUF_SIZE
    BY <2>1, Remainders
  <2> QED
    BY <2>1, <2>2 DEF Index
<1> QED
  BY <1>1, <1>2

-----------------------------------------------------------------------------
(* Steps that leave the ring alone                                         *)

(* The ring, and what the handler knows of it.                             *)
LEMMA RingKept ==
  ASSUME RingInv, EchoInv, UNCHANGED input,
         \/ intr' = intr
         \/ intr'.at \in {"idle", "tx", "rx"}
         \/ intr'.at \in {"acquire", "edit", "echo"} /\ intr'.c \in Char /\ (intr'.at = "echo" /\ ~ Edits' => HasRoom)
         \/ intr'.c = intr.c /\ intr.at = "echo" /\ intr'.at = "put"
         \/ intr'.c = intr.c /\ intr.at = "put" /\ intr'.at = "store" /\ ~ Edits
  PROVE  RingInv' /\ EchoInv'
<1>1. UNCHANGED <<buf, r, w, e>>
  BY DEF input
<1>2. RingInv'
  BY <1>1 DEF RingInv, Minus
<1>3. HasRoom' <=> HasRoom
  BY <1>1 DEF HasRoom, Minus
<1>4. intr'.c = intr.c => (Edits' <=> Edits)
  BY DEF Edits
<1>5. EchoInv'
  BY <1>3, <1>4 DEF EchoInv, Serving, Edits
<1> QED
  BY <1>2, <1>5

LEMMA KeystrokeIInv ==
  ASSUME IInv, NEW c \in Char, Keystroke(c)
  PROVE  IInv'
<1>1. /\ rx' = <<c>>
      /\ UNCHANGED <<input, consLock, thread, killed, intr, printk, txBusy, thr, txPending, calls>>
  BY DEF Keystroke
<1>2. RingInv' /\ EchoInv'
  BY <1>1, RingKept DEF IInv
<1>3. Types'
  BY <1>1 DEF IInv, Types, input
<1>4. LockInv' /\ WaitInv' /\ OutputInv'
  BY <1>1 DEF IInv, LockInv, WaitInv, OutputInv, IntrAt, input
<1> QED
  BY <1>2, <1>3, <1>4 DEF IInv

LEMMA TransmitIInv ==
  ASSUME IInv, Transmit
  PROVE  IInv'
<1>1. /\ thr > 0 /\ thr' = thr - 1 /\ txPending' = (thr' = 0)
      /\ UNCHANGED <<input, consLock, thread, killed, intr, printk, txBusy, rx, typed, calls>>
      /\ thr \in Nat
  BY DEF Transmit, IInv, Types
<1>2. RingInv' /\ EchoInv'
  BY <1>1, RingKept DEF IInv
<1>3. thr' \in Nat /\ txPending' \in BOOLEAN /\ (thr' > 0 \/ txPending')
  <2>1. thr' \in Nat /\ (thr' > 0 \/ thr' = 0)
    BY <1>1
  <2> QED
    BY <1>1, <2>1, Zenon
<1>4. Types'
  BY <1>1, <1>3 DEF IInv, Types, input
<1>5. LockInv' /\ WaitInv'
  BY <1>1, <1>3 DEF IInv, LockInv, WaitInv, IntrAt, input
<1>6. OutputInv'
  BY <1>1 DEF IInv, OutputInv
<1> QED
  BY <1>2, <1>4, <1>5, <1>6 DEF IInv

LEMMA PrintkIInv ==
  ASSUME IInv, PrintkPut
  PROVE  IInv'
<1>1. /\ UNCHANGED <<input, consLock, thread, killed, intr, txBusy, rx, typed>>
      /\ \/ printk = "idle" /\ printk' = "wait" /\ UNCHANGED <<thr, txPending>>
         \/ printk = "wait" /\ thr = 0 /\ printk' = "put" /\ UNCHANGED <<thr, txPending>>
         \/ printk = "put" /\ thr' = thr + 1 /\ txPending' = FALSE /\ printk' = "idle"
      /\ thr \in Nat
  BY DEF PrintkPut, TxIdle, WriteThr, IInv, Types
<1>2. RingInv' /\ EchoInv'
  BY <1>1, RingKept DEF IInv
<1>3. thr' \in Nat /\ (thr > 0 => thr' > 0) /\ (thr' > 0 \/ txPending' = txPending)
  BY <1>1
<1>4. Types'
  BY <1>1, <1>3 DEF IInv, Types, input
<1>5. LockInv' /\ WaitInv'
  BY <1>1, <1>3 DEF IInv, LockInv, WaitInv, IntrAt, input
<1>6. OutputInv'
  BY <1>1 DEF IInv, OutputInv
<1> QED
  BY <1>2, <1>4, <1>5, <1>6 DEF IInv

(* The locals of one process change.                                       *)
LEMMA Moves ==
  ASSUME Types, NEW p \in Reader \union Writer, NEW t \in Thread,
         thread' = [thread EXCEPT ![p] = t]
  PROVE  /\ thread' \in [Reader \union Writer -> Thread]
         /\ thread'[p] = t
         /\ \A q \in Reader \union Writer : q # p => thread'[q] = thread[q]
BY DEF Types

LEMMA GoesTo ==
  ASSUME NEW t \in Thread, NEW l \in Places
  PROVE  /\ [t EXCEPT !.at = l] \in Thread
         /\ [t EXCEPT !.at = l].at = l /\ [t EXCEPT !.at = l].n = t.n
BY DEF Thread

(* uartwrite                                                               *)
LEMMA WriterIInv ==
  ASSUME IInv, NEW p \in Writer, UartWrite(p) \/ \E n \in Counts : ConsoleWrite(p, n)
  PROVE  IInv'
<1>0. /\ thread \in [Reader \union Writer -> Thread]
      /\ thread[p] \in Thread /\ thread[p].n \in Nat /\ thr \in Nat
      /\ thread[p].at # "user" => thread[p].n > 0
      /\ UNCHANGED <<input, consLock, killed, intr, printk, rx, typed>>
  BY DEF IInv, Types, UartWrite, ConsoleWrite, device, Thread
<1>1. /\ thread' = [thread EXCEPT ![p] = thread'[p]]
      /\ thread'[p] \in Thread
      /\ thread'[p].at \in {"user", "write", "asleep"}
      /\ thread'[p].at # "user" => thread'[p].n > 0
      /\ thread'[p].at = "asleep" => txBusy'
      /\ \/ UNCHANGED <<txBusy, thr, txPending>>
         \/ ~ txBusy /\ txBusy' = TRUE /\ thr' = thr + 1 /\ txPending' = FALSE
  <2>1. CASE \E n \in Counts : ConsoleWrite(p, n)
    <3>1. PICK n \in Counts : thread' = [thread EXCEPT ![p] = [at |-> "write", n |-> n, target |-> n]]
      BY <2>1, Zenon DEF ConsoleWrite
    <3> QED
      BY <1>0, <2>1, <3>1 DEF ConsoleWrite, device, Thread
  <2>2. CASE UartWrite(p) /\ txBusy
    <3>1. /\ thread[p].at = "write" /\ thread' = [thread EXCEPT ![p] = [thread[p] EXCEPT !.at = "asleep"]]
          /\ UNCHANGED <<txBusy, thr, txPending>>
      BY <2>2, Zenon DEF UartWrite
    <3> DEFINE t == [thread[p] EXCEPT !.at = "asleep"]
    <3>2. t \in Thread /\ t.at = "asleep" /\ t.n = thread[p].n /\ thread' = [thread EXCEPT ![p] = t]
      BY <1>0, <3>1, GoesTo
    <3> HIDE DEF t
    <3> QED
      BY <1>0, <2>2, <3>1, <3>2, Moves DEF IInv
  <2>3. CASE UartWrite(p) /\ ~ txBusy
    <3>1. /\ thread[p].at = "write" /\ txBusy' = TRUE /\ thr' = thr + 1 /\ txPending' = FALSE
          /\ thread' = [thread EXCEPT ![p] = IF thread[p].n = 1 THEN Idle
               ELSE [at |-> "asleep", n |-> thread[p].n - 1, target |-> thread[p].target]]
      BY <2>3, Zenon DEF UartWrite, WriteThr
    <3>2. CASE thread[p].n = 1
      <4>1. Idle \in Thread /\ Idle.at = "user" /\ thread' = [thread EXCEPT ![p] = Idle]
        BY <3>1, <3>2 DEF Idle, Thread
      <4> QED
        BY <1>0, <2>3, <3>1, <4>1, Moves DEF IInv
    <3>3. CASE thread[p].n # 1
      <4>1. thread[p].n - 1 \in Nat /\ thread[p].n - 1 > 0
        BY <1>0, <3>1, <3>3
      <4> DEFINE t == [at |-> "asleep", n |-> thread[p].n - 1, target |-> thread[p].target]
      <4>2. t \in Thread /\ t.at = "asleep" /\ t.n > 0 /\ thread' = [thread EXCEPT ![p] = t]
        BY <1>0, <3>1, <3>3, <4>1 DEF Thread
      <4> QED
        BY <1>0, <2>3, <3>1, <4>2, Moves DEF IInv
    <3> QED
      BY <3>2, <3>3
  <2> QED
    BY <2>1, <2>2, <2>3
<1>2. RingInv' /\ EchoInv'
  BY <1>0, RingKept DEF IInv
<1>3. \A q \in Reader \union Writer : q # p => thread'[q] = thread[q]
  BY <1>0, <1>1
<1>4. thr' \in Nat /\ (thr' > 0 \/ UNCHANGED <<txBusy, thr, txPending>>)
  BY <1>0, <1>1
<1>5. Types'
  <2>1. thread' \in [Reader \union Writer -> Thread]
    BY <1>0, <1>1
  <2> QED
    BY <1>0, <1>1, <1>3, <1>4, <2>1, Zenon DEF IInv, Types, input
<1>6. LockInv'
  BY <1>0, <1>1, <1>3 DEF IInv, LockInv
<1>7. WaitInv'
  BY <1>0, <1>1, <1>3, <1>4 DEF IInv, WaitInv, IntrAt, input
<1>8. OutputInv'
  BY <1>0, <1>1 DEF IInv, OutputInv
<1> QED
  BY <1>2, <1>5, <1>6, <1>7, <1>8 DEF IInv

-----------------------------------------------------------------------------
(* The interrupt handler, but for what it does to the ring                 *)

LEMMA IntrMoves ==
  ASSUME Types
  PROVE  /\ \A l : IntrTo(l) => intr'.at = l /\ intr'.c = intr.c
         /\ \A l \in {"idle", "tx", "rx", "acquire"} \union Serving : IntrTo(l) =>
              intr' \in [at : {"idle", "tx", "rx", "acquire"} \union Serving, c : Char \union {NoChar}]
         /\ Handled => /\ intr'.at = "rx"
                       /\ intr' \in [at : {"idle", "tx", "rx", "acquire"} \union Serving,
                                     c : Char \union {NoChar}]
         /\ intr.at \in {"idle", "tx", "rx", "acquire"} \union Serving
         /\ intr.c \in Char \union {NoChar}
<1> DEFINE P == {"idle", "tx", "rx", "acquire"} \union Serving
           C == Char \union {NoChar}
<1>1. intr \in [at : P, c : C] /\ "rx" \in P /\ NoChar \in C
  BY DEF Types, Serving
<1> HIDE DEF P, C
<1>2. /\ intr.at \in P /\ intr.c \in C
      /\ \A l : [intr EXCEPT !.at = l].at = l /\ [intr EXCEPT !.at = l].c = intr.c
      /\ \A l \in P : [intr EXCEPT !.at = l] \in [at : P, c : C]
  BY <1>1
<1>3. Handled => intr'.at = "rx" /\ intr' \in [at : P, c : C]
  BY <1>1 DEF Handled
<1> QED
  BY <1>2, <1>3 DEF IntrTo, P, C

LEMMA UartAckIInv ==
  ASSUME IInv, UartAck
  PROVE  IInv'
<1>1. /\ intr.at = "idle" /\ intr'.at = "tx" /\ intr'.c = intr.c
      /\ intr' \in [at : {"idle", "tx", "rx", "acquire"} \union Serving, c : Char \union {NoChar}]
      /\ UNCHANGED <<input, consLock, thread, killed, printk, txBusy, thr, rx, typed, calls>>
  BY IntrMoves DEF IInv, UartAck, IntrAt
<1>2. RingInv' /\ EchoInv'
  BY <1>1, RingKept DEF IInv
<1>3. txPending' \in BOOLEAN
  BY DEF UartAck
<1>4. Types'
  BY <1>1, <1>3 DEF IInv, Types, input
<1>5. LockInv' /\ WaitInv' /\ OutputInv'
  BY <1>1 DEF IInv, LockInv, WaitInv, OutputInv, IntrAt, input, Serving
<1> QED
  BY <1>2, <1>4, <1>5 DEF IInv

LEMMA UartTxIInv ==
  ASSUME IInv, UartTx
  PROVE  IInv'
<1>0. /\ thread \in [Reader \union Writer -> Thread] /\ thr \in Nat /\ DOMAIN thread = Reader \union Writer
  BY DEF IInv, Types
<1>1. /\ intr.at = "tx" /\ intr'.at = "rx" /\ intr'.c = intr.c
      /\ intr' \in [at : {"idle", "tx", "rx", "acquire"} \union Serving, c : Char \union {NoChar}]
      /\ UNCHANGED <<input, consLock, killed, printk, thr, txPending, rx>>
  BY IntrMoves DEF IInv, UartTx, IntrAt, device
<1>2. RingInv' /\ EchoInv'
  BY <1>1, RingKept DEF IInv
<1>3. CASE TxIdle /\ txBusy' = FALSE /\ thread' = WakeWriters
  <2>1. /\ thread' \in [Reader \union Writer -> Thread]
        /\ \A q \in Writer : thread'[q].at # "asleep" /\ (thread[q].at \notin Reading => thread'[q].at \notin Reading)
        /\ \A q \in Reader : thread'[q] = thread[q]
        /\ \A q \in Writer : thread'[q].n = thread[q].n /\ (thread[q].at = "user" => thread'[q].at = "user")
    BY <1>0, <1>3 DEF WakeWriters, Thread
  <2>2. Types'
    BY <1>1, <1>3, <2>1 DEF IInv, Types, input
  <2>3. LockInv' /\ WaitInv' 
    BY <1>1, <1>3, <2>1 DEF IInv, LockInv, WaitInv, IntrAt, input, Serving
  <2>4. OutputInv'
    BY <1>1, <1>3 DEF IInv, OutputInv, TxIdle
  <2> QED
    BY <1>2, <2>2, <2>3, <2>4 DEF IInv
<1>4. CASE ~ TxIdle /\ UNCHANGED <<txBusy, thread>>
  <2>1. thr > 0
    BY <1>0, <1>4 DEF TxIdle
  <2>2. Types'
    BY <1>1, <1>4 DEF IInv, Types, input
  <2>3. LockInv' /\ WaitInv' /\ OutputInv'
    BY <1>1, <1>4, <2>1 DEF IInv, LockInv, WaitInv, OutputInv, IntrAt, input, Serving
  <2> QED
    BY <1>2, <2>2, <2>3 DEF IInv
<1> QED
  BY <1>3, <1>4, Zenon DEF UartTx

LEMMA UartGetcIInv ==
  ASSUME IInv, UartGetc
  PROVE  IInv'
<1>1. /\ intr.at = "rx" /\ intr'.at \in {"idle", "acquire"}
      /\ intr' \in [at : {"idle", "tx", "rx", "acquire"} \union Serving, c : Char \union {NoChar}]
      /\ intr'.at = "acquire" => intr'.c \in Char
      /\ rx' \in Seq(Char)
      /\ UNCHANGED <<input, consLock, thread, killed, printk, txBusy, thr, txPending, typed, calls>>
  <2>1. rx \in Seq(Char)
    BY DEF IInv, Types
  <2>2. CASE rx = << >> /\ IntrTo("idle") /\ UNCHANGED rx
    BY <2>1, <2>2, IntrMoves DEF IInv, UartGetc, IntrAt
  <2>3. CASE rx # << >> /\ intr' = [at |-> "acquire", c |-> Head(rx)] /\ rx' = Tail(rx)
    <3>1. Head(rx) \in Char /\ Tail(rx) \in Seq(Char)
      BY <2>1, <2>3
    <3> QED
      BY <2>3, <3>1 DEF UartGetc, IntrAt
  <2> QED
    BY <2>2, <2>3 DEF UartGetc
<1>2. RingInv' /\ EchoInv'
  BY <1>1, RingKept DEF IInv
<1>3. Types'
  BY <1>1 DEF IInv, Types, input
<1>4. LockInv' /\ WaitInv' /\ OutputInv'
  BY <1>1 DEF IInv, LockInv, WaitInv, OutputInv, IntrAt, input, Serving
<1> QED
  BY <1>2, <1>3, <1>4 DEF IInv

LEMMA IntrAcquireIInv ==
  ASSUME IInv, IntrAcquire
  PROVE  IInv'
<1>1. /\ intr.at = "acquire" /\ consLock = Nobody
      /\ intr'.at = "edit" /\ intr'.c = intr.c /\ consLock' = Handler /\ intr.c \in Char
      /\ intr' \in [at : {"idle", "tx", "rx", "acquire"} \union Serving, c : Char \union {NoChar}]
      /\ UNCHANGED <<input, thread, killed, printk, txBusy, thr, txPending, rx>>
  BY IntrMoves DEF IInv, EchoInv, IntrAcquire, IntrAt, device, Serving
<1>2. RingInv' /\ EchoInv'
  BY <1>1, RingKept DEF IInv
<1>3. Types'
  BY <1>1 DEF IInv, Types, input
<1>4. LockInv' /\ WaitInv' /\ OutputInv'
  BY <1>1 DEF IInv, LockInv, WaitInv, OutputInv, IntrAt, input, Serving
<1> QED
  BY <1>2, <1>3, <1>4 DEF IInv

LEMMA EchoIInv ==
  ASSUME IInv, Echo \/ EchoWait
  PROVE  IInv'
<1>1. /\ \/ intr.at = "edit" /\ intr'.at = "echo" /\ HasRoom
         \/ intr.at = "echo" /\ intr'.at = "put" /\ thr = 0
      /\ intr'.c = intr.c /\ intr.c \in Char
      /\ intr' \in [at : {"idle", "tx", "rx", "acquire"} \union Serving, c : Char \union {NoChar}]
      /\ UNCHANGED <<input, consLock, thread, killed, printk, txBusy, thr, txPending, rx>>
  BY IntrMoves DEF IInv, EchoInv, Echo, EchoWait, TxIdle, IntrAt, device, Serving
<1>2. RingInv' /\ EchoInv'
  BY <1>1, RingKept DEF IInv
<1>3. Types'
  BY <1>1 DEF IInv, Types, input
<1>4. LockInv' /\ WaitInv'
  BY <1>1 DEF IInv, LockInv, WaitInv, IntrAt, input, Serving
<1>5. OutputInv'
  BY <1>1 DEF IInv, OutputInv
<1> QED
  BY <1>2, <1>3, <1>4, <1>5 DEF IInv

LEMMA IgnoreIInv ==
  ASSUME IInv, Ignore
  PROVE  IInv'
<1>1. /\ intr.at = "edit" /\ intr'.at = "rx" /\ consLock' = Nobody
      /\ intr' \in [at : {"idle", "tx", "rx", "acquire"} \union Serving, c : Char \union {NoChar}]
      /\ UNCHANGED <<input, thread, killed, printk, txBusy, thr, txPending, rx>>
  BY IntrMoves, Zenon DEF IInv, Ignore, IntrAt, device
<1>2. RingInv' /\ EchoInv'
  BY <1>1, RingKept DEF IInv
<1>3. Types'
  BY <1>1 DEF IInv, Types, input
<1>4. LockInv' /\ WaitInv' /\ OutputInv'
  BY <1>1 DEF IInv, LockInv, WaitInv, OutputInv, IntrAt, input, Serving
<1> QED
  BY <1>2, <1>3, <1>4 DEF IInv

LEMMA EchoPutIInv ==
  ASSUME IInv, EchoPut
  PROVE  IInv'
<1>1. /\ intr.at = "put" /\ thr \in Nat /\ thr' = thr + 1 /\ txPending' = FALSE
      /\ \/ intr'.at = "rx" /\ consLock' = Nobody
         \/ intr'.at = "edit" /\ consLock' = consLock /\ intr'.c = intr.c
         \/ intr'.at = "store" /\ consLock' = consLock /\ intr'.c = intr.c /\ ~ Edits
      /\ intr.c \in Char
      /\ intr' \in [at : {"idle", "tx", "rx", "acquire"} \union Serving, c : Char \union {NoChar}]
      /\ UNCHANGED <<input, thread, killed, printk, txBusy, rx>>
  BY IntrMoves DEF IInv, Types, EchoInv, EchoPut, WriteThr, IntrAt, Serving
<1>2. RingInv' /\ EchoInv'
  BY <1>1, RingKept DEF IInv
<1>3. thr' \in Nat /\ thr' > 0
  BY <1>1
<1>4. Types'
  BY <1>1, <1>3 DEF IInv, Types, input
<1>5. LockInv' /\ WaitInv'
  BY <1>1, <1>3 DEF IInv, LockInv, WaitInv, IntrAt, input, Serving
<1>6. OutputInv'
  BY <1>1 DEF IInv, OutputInv
<1> QED
  BY <1>2, <1>4, <1>5, <1>6 DEF IInv

-----------------------------------------------------------------------------
(* Readers, but for what they take from the ring                           *)

LEMMA ReaderIInv ==
  ASSUME IInv, NEW p \in Reader,
         Acquire(p) \/ ReadWait(p) \/ Kill(p) \/ \E n \in Counts : ConsoleRead(p, n)
  PROVE  IInv'
<1>0. /\ thread[p] \in Thread /\ thread[p].n \in Nat
      /\ thread[p].at # "user" => thread[p].n > 0
      /\ UNCHANGED <<input, intr, printk, txBusy, thr, txPending, rx>>
  BY DEF IInv, Types, Acquire, ReadWait, Kill, ConsoleRead, device, Thread
<1>1. PICK t \in Thread :
        /\ thread' = [thread EXCEPT ![p] = t]
        /\ t.at # "user" => t.n > 0
        /\ t.at \in {"asleep", "to_sleep"} => r = w
        /\ \/ consLock' = consLock /\ (t.at \in Reading <=> thread[p].at \in Reading)
           \/ consLock = Nobody /\ consLock' = p /\ t.at \in Reading
           \/ consLock = p /\ consLock' = Nobody /\ t.at \notin Reading
  <2>1. CASE \E n \in Counts : ConsoleRead(p, n)
    <3>1. PICK n \in Counts : /\ thread' = [thread EXCEPT ![p] = [at |-> "read", n |-> n, target |-> n]]
                              /\ thread[p].at = "user" /\ consLock' = consLock
      BY <2>1, Zenon DEF ConsoleRead
    <3>2. n \in Nat /\ n > 0
      OBVIOUS
    <3> DEFINE t == [at |-> "read", n |-> n, target |-> n]
    <3>3. t \in Thread /\ t.at = "read" /\ t.n = n
      BY <3>2 DEF Thread
    <3>4. thread' = [thread EXCEPT ![p] = t] /\ thread[p].at = "user" /\ consLock' = consLock
      BY <3>1
    <3> HIDE DEF t
    <3> QED
      BY <3>2, <3>3, <3>4
  <2>2. CASE Acquire(p)
    <3> DEFINE t == [thread[p] EXCEPT !.at = "reading"]
    <3>1. /\ thread' = [thread EXCEPT ![p] = t] /\ thread[p].at = "read"
          /\ consLock = Nobody /\ consLock' = p
      BY <2>2, Zenon DEF Acquire
    <3>2. t \in Thread /\ t.at = "reading" /\ t.n = thread[p].n
      BY <1>0, GoesTo
    <3> HIDE DEF t
    <3> QED
      BY <1>0, <3>1, <3>2
  <2>3. CASE ReadWait(p)
    <3>1. consLock = p /\ r = w /\ thread[p].at \in Reading
      BY <2>3 DEF ReadWait, IInv, LockInv, WaitInv
    <3>2. CASE Return(p)
      <4>1. Idle \in Thread /\ Idle.at = "user"
        BY DEF Idle, Thread
      <4> QED
        BY <3>1, <3>2, <4>1 DEF Return
    <3>3. CASE thread' = [thread EXCEPT ![p] = [thread[p] EXCEPT !.at = "asleep"]] /\ consLock' = Nobody
      <4> DEFINE t == [thread[p] EXCEPT !.at = "asleep"]
      <4>1. t \in Thread /\ t.at = "asleep" /\ t.n = thread[p].n /\ thread' = [thread EXCEPT ![p] = t]
        BY <1>0, <3>3, GoesTo
      <4> HIDE DEF t
      <4> QED
        BY <1>0, <3>1, <3>3, <4>1
    <3>4. CASE thread' = [thread EXCEPT ![p] = [thread[p] EXCEPT !.at = "to_sleep"]] /\ consLock' = consLock
      <4> DEFINE t == [thread[p] EXCEPT !.at = "to_sleep"]
      <4>1. t \in Thread /\ t.at = "to_sleep" /\ t.n = thread[p].n /\ thread' = [thread EXCEPT ![p] = t]
        BY <1>0, <3>4, GoesTo
      <4> HIDE DEF t
      <4> QED
        BY <1>0, <3>1, <3>4, <4>1
    <3> QED
      BY <2>3, <3>2, <3>3, <3>4, Zenon DEF ReadWait
  <2>4. CASE Kill(p)
    <3>0. PICK l : l = IF thread[p].at = "asleep" THEN "read" ELSE thread[p].at
      OBVIOUS
    <3> DEFINE t == [thread[p] EXCEPT !.at = l]
    <3>1. l \in Places
      BY <1>0, <3>0 DEF Thread
    <3>2. thread' = [thread EXCEPT ![p] = t]
      BY <2>4, <3>0, Zenon DEF Kill
    <3>3. t \in Thread /\ t.at = l /\ t.n = thread[p].n
      <4>1. thread[p] \in Thread
        BY <1>0
      <4> QED
        BY <3>1, <4>1 DEF Thread
    <3>4. /\ l # "asleep" /\ (l \in Reading <=> thread[p].at \in Reading) /\ (l # "user" => thread[p].n > 0)
          /\ l = "to_sleep" => r = w
      BY <1>0, <3>0 DEF IInv, WaitInv
    <3>5. consLock' = consLock
      BY <2>4 DEF Kill
    <3> HIDE DEF t
    <3> QED
      BY <3>2, <3>3, <3>4, <3>5
  <2> QED
    BY <2>1, <2>2, <2>3, <2>4
<1>2. /\ thread' \in [Reader \union Writer -> Thread]
      /\ thread'[p] = t
      /\ \A q \in Reader \union Writer : q # p => thread'[q] = thread[q]
  BY <1>1, Moves DEF IInv
<1>3. RingInv' /\ EchoInv'
  BY <1>0, RingKept DEF IInv
<1>4. killed' \in [Reader -> BOOLEAN]
  BY DEF IInv, Types, Acquire, ReadWait, Kill, ConsoleRead
<1>5. Types'
  BY <1>0, <1>1, <1>2, <1>4 DEF IInv, Types, input
<1>6. LockInv'
  BY <1>0, <1>1, <1>2 DEF IInv, LockInv, Serving
<1>7. WaitInv' /\ OutputInv'
  BY <1>0, <1>1, <1>2 DEF IInv, WaitInv, OutputInv, IntrAt, input
<1> QED
  BY <1>3, <1>5, <1>6, <1>7 DEF IInv

-----------------------------------------------------------------------------
(* Steps of the ring                                                       *)

LEMMA Distances ==
  ASSUME NEW i \in Index, NEW j \in Index
  PROVE  /\ Minus(j, i) \in Nat /\ Minus(j, i) < IdxMod
         /\ Minus(j, i) = 0 <=> i = j
         /\ Plus(j, 1) \in Index /\ Minus(j, 1) \in Index
         /\ Minus(i, i) = 0
         /\ i # j => Minus(Minus(j, 1), i) = Minus(j, i) - 1
         /\ Minus(j, i) + 1 < IdxMod => Minus(Plus(j, 1), i) = Minus(j, i) + 1
         /\ i # j => Minus(j, Plus(i, 1)) = Minus(j, i) - 1
<1>0. 1 \in Index /\ 1 \in 0..IdxMod
  BY DEF Index
<1>1. Minus(j, i) \in Index /\ Minus(j, i) = IF j >= i THEN j - i ELSE j + IdxMod - i
  BY Back
<1>2. Minus(j, 1) \in Index /\ Minus(j, 1) = IF j >= 1 THEN j - 1 ELSE j + IdxMod - 1
  BY <1>0, Back
<1>3. Plus(j, 1) \in Index /\ Plus(j, 1) = IF j + 1 < IdxMod THEN j + 1 ELSE j + 1 - IdxMod
  BY <1>0, Wrap
<1>4. Plus(i, 1) \in Index /\ Plus(i, 1) = IF i + 1 < IdxMod THEN i + 1 ELSE i + 1 - IdxMod
  BY <1>0, Wrap
<1>5. Minus(i, i) = 0
  BY Back DEF Index
<1>6. i # j => Minus(Minus(j, 1), i) = Minus(j, i) - 1
  <2>1. PICK k \in Index : k = Minus(j, 1)
    BY <1>2
  <2>2. Minus(k, i) = IF k >= i THEN k - i ELSE k + IdxMod - i
    BY Back
  <2> QED
    BY <1>1, <1>2, <2>1, <2>2 DEF Index
<1>7. Minus(j, i) + 1 < IdxMod => Minus(Plus(j, 1), i) = Minus(j, i) + 1
  <2>1. PICK k \in Index : k = Plus(j, 1)
    BY <1>3
  <2>2. Minus(k, i) = IF k >= i THEN k - i ELSE k + IdxMod - i
    BY Back
  <2> QED
    BY <1>1, <1>3, <2>1, <2>2 DEF Index
<1>8. i # j => Minus(j, Plus(i, 1)) = Minus(j, i) - 1
  <2>1. PICK k \in Index : k = Plus(i, 1)
    BY <1>4
  <2>2. Minus(j, k) = IF j >= k THEN j - k ELSE j + IdxMod - k
    BY Back
  <2> QED
    BY <1>1, <1>4, <2>1, <2>2 DEF Index
<1> QED
  BY <1>1, <1>2, <1>3, <1>5, <1>6, <1>7, <1>8 DEF Index

(* Index j seen from index i.                                              *)
LEMMA SlotOf ==
  ASSUME NEW i \in Index, NEW j \in Index
  PROVE  /\ Slot(j) \in 0..INPUT_BUF_SIZE - 1
         /\ (i + Minus(j, i)) % INPUT_BUF_SIZE = Slot(j)
         /\ Minus(j, i) < INPUT_BUF_SIZE => \A k \in Nat : k < Minus(j, i) =>
              (i + k) % INPUT_BUF_SIZE # Slot(j)
<1>0. PICK d \in Nat : d = Minus(j, i)
  BY Distances
<1>1. j \in Nat /\ i \in Nat /\ Slot(j) \in 0..INPUT_BUF_SIZE - 1
  BY Division DEF Slot, Index
<1>2. (i + d) % INPUT_BUF_SIZE = Slot(j)
  <2>1. d = IF j >= i THEN j - i ELSE j + IdxMod - i
    BY <1>0, Back
  <2>2. CASE j >= i
    BY <1>1, <2>1, <2>2 DEF Slot
  <2>3. CASE ~ (j >= i)
    <3>1. i + d = j + IdxMod
      BY <1>1, <2>1, <2>3
    <3>2. (j + IdxMod) % INPUT_BUF_SIZE = j % INPUT_BUF_SIZE
      <4>1. \A x, n \in Nat : n % INPUT_BUF_SIZE = 0 =>
              (x + n) % INPUT_BUF_SIZE = x % INPUT_BUF_SIZE
        BY Remainders
      <4> QED
        BY <1>1, <4>1
    <3> QED
      BY <3>1, <3>2 DEF Slot
  <2> QED
    BY <2>2, <2>3
<1>3. ASSUME NEW k \in Nat, k < d, d < INPUT_BUF_SIZE
      PROVE  (i + k) % INPUT_BUF_SIZE # Slot(j)
  <2>1. i + k \in Nat /\ i + d \in Nat /\ i + k < i + d /\ i + d < i + k + INPUT_BUF_SIZE
    BY <1>1, <1>3
  <2>2. (i + k) % INPUT_BUF_SIZE # (i + d) % INPUT_BUF_SIZE
    BY <2>1, Remainders
  <2> QED
    BY <1>2, <2>2
<1> QED
  BY <1>0, <1>1, <1>2, <1>3

LEMMA RingFacts ==
  ASSUME IInv
  PROVE  /\ r \in Index /\ w \in Index /\ e \in Index
         /\ Minus(w, r) \in Nat /\ Minus(e, w) \in Nat /\ Minus(e, r) \in Nat
         /\ Minus(w, r) + Minus(e, w) = Minus(e, r)
         /\ Minus(e, r) <= INPUT_BUF_SIZE
         /\ \A k \in Nat : k < Minus(e, r) => buf[(r + k) % INPUT_BUF_SIZE] \in Char
  BY Distances DEF IInv, Types, RingInv, Index

LEMMA EraseIInv ==
  ASSUME IInv, Erase
  PROVE  IInv'
<1>1. /\ intr.at = "edit" /\ Edits /\ e # w /\ e' = Minus(e, 1)
      /\ intr'.at = "echo" /\ intr'.c = intr.c /\ intr.c \in Char
      /\ intr' \in [at : {"idle", "tx", "rx", "acquire"} \union Serving, c : Char \union {NoChar}]
      /\ UNCHANGED <<buf, r, w, consLock, thread, killed, printk, txBusy, thr, txPending, rx>>
  BY IntrMoves DEF IInv, EchoInv, Erase, Erasable, EmptyLine, IntrAt, device, Serving
<1>2. /\ e' \in Index /\ e # r
      /\ Minus(e', w) = Minus(e, w) - 1 /\ Minus(e', r) = Minus(e, r) - 1
  BY <1>1, RingFacts, Distances
<1>3. RingInv'
  <2>1. Minus(w, r)' = Minus(w, r) /\ Minus(e, w)' = Minus(e', w) /\ Minus(e, r)' = Minus(e', r)
    BY <1>1 DEF Minus
  <2> QED
    BY <1>1, <1>2, <2>1, RingFacts DEF RingInv
<1>4. EchoInv' /\ OutputInv'
  BY <1>1 DEF IInv, EchoInv, OutputInv, Serving, Edits
<1>5. Types'
  BY <1>1, <1>2 DEF IInv, Types, Index
<1>6. LockInv' /\ WaitInv'
  BY <1>1 DEF IInv, LockInv, WaitInv, IntrAt, Serving
<1> QED
  BY <1>3, <1>4, <1>5, <1>6 DEF IInv

(* What Store does to the indices and to the places between them.          *)
LEMMA Stored ==
  ASSUME IInv, Store
  PROVE  /\ intr.at = "store" /\ intr.c \in Char /\ ~ Edits
         /\ Minus(e, r) < INPUT_BUF_SIZE
         /\ e' \in Index /\ r' = r
         /\ Minus(e', r) = Minus(e, r) + 1 /\ Minus(e', w) = Minus(e, w) + 1
         /\ buf' = [buf EXCEPT ![Slot(e)] = intr.c]
         /\ buf'[Slot(e)] = intr.c /\ (r + Minus(e, r)) % INPUT_BUF_SIZE = Slot(e)
         /\ \A k \in Nat : k < Minus(e, r) =>
              buf'[(r + k) % INPUT_BUF_SIZE] = buf[(r + k) % INPUT_BUF_SIZE]
         /\ \/ /\ EndOfLine(intr.c) \/ Minus(e, r) + 1 = INPUT_BUF_SIZE
               /\ w' = e' /\ thread' = WakeReaders
            \/ /\ ~ EndOfLine(intr.c) /\ Minus(e, r) + 1 # INPUT_BUF_SIZE
               /\ w' = w /\ thread' = thread
<1>1. /\ intr.at = "store" /\ intr.c \in Char /\ ~ Edits /\ Minus(e, r) < INPUT_BUF_SIZE
      /\ r' = r /\ e' = Plus(e, 1)
      /\ buf' = [buf EXCEPT ![Slot(e)] = intr.c]
  BY DEF IInv, EchoInv, Store, IntrAt, HasRoom, Serving
<1>2. e' \in Index /\ Minus(e', r) = Minus(e, r) + 1 /\ Minus(e', w) = Minus(e, w) + 1
  BY <1>1, RingFacts, Distances
<1>3. buf \in [0..INPUT_BUF_SIZE - 1 -> Char \union {NoChar}]
  BY DEF IInv, Types
<1>4. /\ Slot(e) \in 0..INPUT_BUF_SIZE - 1
      /\ (r + Minus(e, r)) % INPUT_BUF_SIZE = Slot(e)
      /\ \A k \in Nat : k < Minus(e, r) => (r + k) % INPUT_BUF_SIZE # Slot(e)
  BY <1>1, RingFacts, SlotOf
<1>5. \A k \in Nat : (r + k) % INPUT_BUF_SIZE \in 0..INPUT_BUF_SIZE - 1
  <2> SUFFICES ASSUME NEW k \in Nat
               PROVE  (r + k) % INPUT_BUF_SIZE \in 0..INPUT_BUF_SIZE - 1
    OBVIOUS
  <2>1. r + k \in Nat
    BY RingFacts DEF Index
  <2> QED
    BY <2>1, Division
<1>6. /\ buf'[Slot(e)] = intr.c
      /\ \A k \in Nat : k < Minus(e, r) =>
              buf'[(r + k) % INPUT_BUF_SIZE] = buf[(r + k) % INPUT_BUF_SIZE]
  BY <1>1, <1>3, <1>4, <1>5
<1>7. \/ /\ EndOfLine(intr.c) \/ Minus(e, r) + 1 = INPUT_BUF_SIZE
         /\ w' = e' /\ thread' = WakeReaders
      \/ /\ ~ EndOfLine(intr.c) /\ Minus(e, r) + 1 # INPUT_BUF_SIZE
         /\ w' = w /\ thread' = thread
  BY <1>1, <1>2 DEF Store
<1> QED
  BY <1>1, <1>2, <1>4, <1>6, <1>7

LEMMA StoreIInv ==
  ASSUME IInv, Store
  PROVE  IInv'
<1>1. /\ intr'.at = "rx" /\ consLock' = Nobody
      /\ intr' \in [at : {"idle", "tx", "rx", "acquire"} \union Serving, c : Char \union {NoChar}]
      /\ UNCHANGED <<killed, printk, txBusy, thr, txPending, rx>>
  BY IntrMoves DEF IInv, Store, device
<1>2. PICK d \in Nat : d = Minus(e, r)
  BY RingFacts
<1>3. RingInv'
  <2>1. Minus(e, r)' = d + 1 /\ Minus(w, r)' + Minus(e, w)' = d + 1
    <3>1. CASE w' = e'
      <4>1. Minus(w, r)' = d + 1 /\ Minus(e, w)' = 0
        BY <1>2, <3>1, Stored, Distances DEF Minus
      <4> QED
        BY <1>2, <4>1, Stored DEF Minus
    <3>2. CASE w' = w
      <4>1. Minus(w, r)' = Minus(w, r) /\ Minus(e, w)' = Minus(e, w) + 1 /\ Minus(e, r)' = d + 1
        BY <1>2, <3>2, Stored DEF Minus
      <4> QED
        BY <1>2, <4>1, RingFacts
    <3> QED
      BY <3>1, <3>2, Stored
  <2>2. \A k \in Nat : k < d + 1 => buf'[(r + k) % INPUT_BUF_SIZE] \in Char
    <3> SUFFICES ASSUME NEW k \in Nat, k < d + 1
                 PROVE  buf'[(r + k) % INPUT_BUF_SIZE] \in Char
      OBVIOUS
    <3>1. CASE k = d
      BY <1>2, <3>1, Stored
    <3>2. CASE k < d
      BY <1>2, <3>2, Stored, RingFacts
    <3> QED
      BY <1>2, <3>1, <3>2
  <2>3. d + 1 <= INPUT_BUF_SIZE /\ r' = r
    BY <1>2, Stored
  <2> QED
    BY <2>1, <2>2, <2>3 DEF RingInv
<1>4. EchoInv' /\ OutputInv'
  BY <1>1, Stored DEF IInv, EchoInv, OutputInv, Serving
<1>5. /\ thread' \in [Reader \union Writer -> Thread]
      /\ \A q \in Writer : thread'[q] = thread[q]
      /\ \A q \in Reader : /\ thread'[q].n = thread[q].n
                           /\ thread[q].at = "user" => thread'[q].at = "user"
                           /\ thread'[q].at \in Reading <=> thread[q].at \in Reading
                           /\ thread'[q].at = "asleep" => thread[q].at = "asleep" /\ w' = w
  <2>1. thread \in [Reader \union Writer -> Thread] /\ DOMAIN thread = Reader \union Writer
    BY DEF IInv, Types
  <2>2. CASE thread' = WakeReaders
    BY <2>1, <2>2 DEF WakeReaders, Thread
  <2> QED
    BY <2>1, <2>2, Stored
<1>6. Types'
  <2>1. buf' \in [0..INPUT_BUF_SIZE - 1 -> Char \union {NoChar}]
    BY Stored DEF IInv, Types
  <2>2. r' \in Index /\ w' \in Index /\ e' \in Index
    BY Stored, RingFacts
  <2>3. \A q \in Reader \union Writer : thread'[q].at # "user" => thread'[q].n > 0
    BY <1>5 DEF IInv, Types
  <2>4. consLock' \in Reader \union {Nobody, Handler}
    BY <1>1
  <2> QED
    BY <1>1, <1>5, <2>1, <2>2, <2>3, <2>4 DEF IInv, Types, Index
<1>7. LockInv'
  BY <1>1, <1>5, Stored DEF IInv, LockInv, Serving
<1>8. WaitInv'
  <2>1. \A q \in Reader : thread'[q].at # "to_sleep"
    BY <1>5 DEF IInv, LockInv, Serving, Store, IntrAt
  <2> QED
    BY <1>1, <1>5, <2>1, Stored DEF IInv, WaitInv, IntrAt
<1> QED
  BY <1>3, <1>4, <1>6, <1>7, <1>8 DEF IInv

LEMMA ReadByteIInv ==
  ASSUME IInv, NEW p \in Reader, ReadByte(p)
  PROVE  IInv'
<1>0. /\ thread[p].at = "reading" /\ thread[p] \in Thread /\ consLock = p /\ r # w
      /\ UNCHANGED <<buf, w, e, killed, intr, printk, txBusy, thr, txPending, rx>>
  BY DEF IInv, Types, LockInv, ReadByte, device
<1>1. r' \in Index /\ (r' = r \/ r' = Plus(r, 1))
  <2>1. r' = r \/ r' = Plus(r, 1)
    BY DEF ReadByte
  <2> QED
    BY <2>1, RingFacts, Distances
<1>2. PICK t \in Thread :
        /\ thread' = [thread EXCEPT ![p] = t]
        /\ t.at # "user" => t.n > 0
        /\ \/ consLock' = consLock /\ t.at = "reading"
           \/ consLock' = Nobody /\ t.at = "user"
  <2>1. CASE Return(p)
    <3>1. Idle \in Thread /\ Idle.at = "user"
      BY DEF Idle, Thread
    <3> QED
      BY <2>1, <3>1 DEF Return
  <2>2. CASE /\ thread[p].n > 1 /\ UNCHANGED consLock
             /\ thread' = [thread EXCEPT ![p] = [thread[p] EXCEPT !.n = thread[p].n - 1]]
    <3>1. thread[p].n - 1 \in Nat /\ thread[p].n - 1 > 0
      BY <1>0, <2>2 DEF Thread
    <3> DEFINE t == [thread[p] EXCEPT !.n = thread[p].n - 1]
    <3>2. t \in Thread /\ t.at = "reading" /\ t.n = thread[p].n - 1
      BY <1>0, <3>1 DEF Thread
    <3>3. thread' = [thread EXCEPT ![p] = t] /\ consLock' = consLock
      BY <2>2
    <3> HIDE DEF t
    <3> QED
      BY <3>1, <3>2, <3>3
  <2> QED
    BY <2>1, <2>2, Zenon DEF ReadByte
<1>3. /\ thread' \in [Reader \union Writer -> Thread]
      /\ thread'[p] = t
      /\ \A q \in Reader \union Writer : q # p => thread'[q] = thread[q]
  BY <1>2, Moves DEF IInv
<1>4. RingInv'
  <2>1. CASE r' = r
    BY <1>0, <2>1 DEF IInv, RingInv, Minus
  <2>2. CASE r' = Plus(r, 1)
    <3>1. /\ Minus(w, r') = Minus(w, r) - 1
          /\ Minus(e, r') = Minus(e, r) - 1
      <4>1. e # r
        BY <1>0, RingFacts, Distances
      <4> QED
        BY <1>0, <2>2, <4>1, RingFacts, Distances
    <3>2. ASSUME NEW k \in Nat, k < Minus(e, r) - 1
          PROVE  buf'[(r' + k) % INPUT_BUF_SIZE] \in Char
      <4>1. (r' + k) % INPUT_BUF_SIZE = (r + 1 + k) % INPUT_BUF_SIZE
        BY <2>2, RingFacts, Address
      <4>2. k + 1 \in Nat /\ k + 1 < Minus(e, r) /\ r + 1 + k = r + (k + 1)
        BY <3>2, RingFacts DEF Index
      <4> QED
        BY <1>0, <4>1, <4>2, RingFacts
    <3>3. Minus(w, r)' = Minus(w, r') /\ Minus(e, r)' = Minus(e, r') /\ Minus(e, w)' = Minus(e, w)
      BY <1>0 DEF Minus
    <3> QED
      BY <3>1, <3>2, <3>3, RingFacts DEF RingInv
  <2> QED
    BY <1>1, <2>1, <2>2
<1>5. EchoInv' /\ OutputInv'
  <2>1. intr.at \notin Serving
    BY <1>0 DEF IInv, LockInv
  <2> QED
    BY <1>0, <2>1 DEF IInv, EchoInv, OutputInv, Serving
<1>6. Types'
  <2>1. \A q \in Reader \union Writer : thread'[q].at # "user" => thread'[q].n > 0
    BY <1>2, <1>3 DEF IInv, Types
  <2> QED
    BY <1>0, <1>1, <1>2, <1>3, <2>1 DEF IInv, Types, Index
<1>7. LockInv' /\ WaitInv'
  BY <1>0, <1>2, <1>3 DEF IInv, LockInv, WaitInv, IntrAt, Serving
<1> QED
  BY <1>4, <1>5, <1>6, <1>7 DEF IInv

-----------------------------------------------------------------------------
(* The safety theorem                                                      *)

LEMMA InitIInv == Init => IInv
<1> SUFFICES ASSUME Init
             PROVE  IInv
  OBVIOUS
<1>1. Start \in Index /\ r = Start /\ w = Start /\ e = Start
  BY DEF Init, Index
<1>2. Minus(r, r) = 0
  BY <1>1, Distances
<1>3. Types
  <2>1. thread \in [Reader \union Writer -> Thread] /\ \A p \in Reader \union Writer : thread[p].at = "user"
    BY DEF Init, Idle, Thread
  <2>2. intr \in [at : {"idle", "tx", "rx", "acquire"} \union Serving, c : Char \union {NoChar}]
    BY DEF Init, Serving
  <2>3. buf \in [0..INPUT_BUF_SIZE - 1 -> Char \union {NoChar}] /\ killed \in [Reader -> BOOLEAN]
    BY DEF Init
  <2>4. rx \in Seq(Char) /\ thr \in Nat
    BY DEF Init
  <2> QED
    BY <1>1, <2>1, <2>2, <2>3, <2>4 DEF Init, Types, Index
<1>4. RingInv
  BY <1>1, <1>2 DEF RingInv
<1>5. LockInv /\ EchoInv /\ WaitInv /\ OutputInv
  BY DEF Init, LockInv, EchoInv, WaitInv, OutputInv, Idle, Serving
<1> QED
  BY <1>3, <1>4, <1>5 DEF IInv

LEMMA NextIInv == IInv /\ [Next]_vars => IInv'
<1> SUFFICES ASSUME IInv, [Next]_vars
             PROVE  IInv'
  OBVIOUS
<1>1. CASE UNCHANGED vars
  <2>1. RingInv' /\ EchoInv'
    BY <1>1, RingKept DEF IInv, vars
  <2> QED
    BY <1>1, <2>1 DEF IInv, Types, LockInv, WaitInv, OutputInv, IntrAt, vars, input, device
<1>2. ASSUME NEW c \in Char, Keystroke(c)
      PROVE  IInv'
  BY <1>2, KeystrokeIInv
<1>3. CASE Transmit \/ PrintkPut
  BY <1>3, TransmitIInv, PrintkIInv
<1>4. CASE Interrupt
  BY <1>4, UartAckIInv, UartTxIInv, UartGetcIInv, IntrAcquireIInv, EchoIInv, IgnoreIInv,
     EchoPutIInv, EraseIInv, StoreIInv DEF Interrupt, Uartintr, Consoleintr, Consputc
<1>5. ASSUME NEW p \in Writer, UartWrite(p) \/ \E n \in Counts : ConsoleWrite(p, n)
      PROVE  IInv'
  BY <1>5, WriterIInv
<1>6. ASSUME NEW p \in Reader, Consoleread(p) \/ Kill(p) \/ \E n \in Counts : ConsoleRead(p, n)
      PROVE  IInv'
  BY <1>6, ReaderIInv, ReadByteIInv DEF Consoleread
<1> QED
  BY <1>1, <1>2, <1>3, <1>4, <1>5, <1>6 DEF Next

LEMMA SpecIInv == Spec => []IInv
<1> QED
  BY InitIInv, NextIInv, PTL DEF Spec

(* uart.c and console.c: no sleeping reader or writer misses its wakeup,   *)
(* and the device never gets a byte it has no room for, if it has room for *)
(* three: the bytes of uartwrite, of printk and of the echo.               *)
THEOREM InterruptsArrive ==
  ASSUME FIFO >= 3
  PROVE  Spec => []NothingLost
<1>1. IInv => NothingLost
  <2> SUFFICES ASSUME IInv
               PROVE  NothingLost
    OBVIOUS
  <2>1. TypeOK
    BY DEF IInv, Types, TypeOK, Serving
  <2>2. NoLostWakeup
    BY DEF IInv, WaitInv, NoLostWakeup
  <2>3. OutputFits
    BY DEF IInv, Types, OutputInv, OutputFits
  <2> QED
    BY <2>1, <2>2, <2>3 DEF NothingLost
<1> QED
  BY <1>1, SpecIInv, PTL

-----------------------------------------------------------------------------
(* The ring implements the terminal's two queues                           *)

Any == Char \union {NoChar}

LEMMA RingSeq ==
  ASSUME NEW b \in [0..INPUT_BUF_SIZE - 1 -> Any], NEW i \in Index, NEW j \in Index
  PROVE  LET s == [k \in 1..Minus(j, i) |-> b[Slot(Plus(i, k - 1))]]
         IN  /\ s \in Seq(Any) /\ Len(s) = Minus(j, i)
             /\ \A k \in 1..Minus(j, i) : s[k] = b[(i + (k - 1)) % INPUT_BUF_SIZE]
<1>1. PICK n \in Nat : n = Minus(j, i) /\ n < IdxMod
  BY Distances
<1>2. ASSUME NEW k \in 1..n
      PROVE  /\ Slot(Plus(i, k - 1)) = (i + (k - 1)) % INPUT_BUF_SIZE
             /\ b[(i + (k - 1)) % INPUT_BUF_SIZE] \in Any
  <2>1. k - 1 \in 0..IdxMod /\ 0 \in Nat /\ i + (k - 1) \in Nat /\ i + (k - 1) + 0 = i + (k - 1)
    BY <1>1 DEF Index
  <2>2. (Plus(i, k - 1) + 0) % INPUT_BUF_SIZE = (i + (k - 1) + 0) % INPUT_BUF_SIZE
    BY <2>1, Address
  <2>3. Plus(i, k - 1) + 0 = Plus(i, k - 1)
    BY <2>1, Wrap DEF Index
  <2>4. (i + (k - 1)) % INPUT_BUF_SIZE \in 0..INPUT_BUF_SIZE - 1
    BY <2>1, Division
  <2> QED
    BY <2>1, <2>2, <2>3, <2>4 DEF Slot
<1> DEFINE s == [k \in 1..n |-> b[Slot(Plus(i, k - 1))]]
<1>3. s \in [1..n -> Any] /\ \A k \in 1..n : s[k] = b[(i + (k - 1)) % INPUT_BUF_SIZE]
  BY <1>2
<1>4. s \in Seq(Any) /\ Len(s) = n
  BY <1>3
<1> QED
  BY <1>1, <1>3, <1>4

(* What is read, and what is typed, in any state.                          *)
QueuesAre ==
  /\ Ring(r, w) \in Seq(Any) /\ Len(Ring(r, w)) = Minus(w, r)
  /\ \A k \in 1..Minus(w, r) : Ring(r, w)[k] = buf[(r + (k - 1)) % INPUT_BUF_SIZE]
  /\ Ring(w, e) \in Seq(Any) /\ Len(Ring(w, e)) = Minus(e, w)
  /\ \A k \in 1..Minus(e, w) :
       Ring(w, e)[k] = buf[(r + (Minus(w, r) + k - 1)) % INPUT_BUF_SIZE]

LEMMA Queues == IInv => QueuesAre
<1> SUFFICES ASSUME IInv
             PROVE  QueuesAre
  OBVIOUS
<1>1. buf \in [0..INPUT_BUF_SIZE - 1 -> Any]
  BY DEF IInv, Types, Any
<1>0. ASSUME NEW i \in Index, NEW j \in Index
      PROVE  /\ Ring(i, j) \in Seq(Any) /\ Len(Ring(i, j)) = Minus(j, i)
             /\ \A k \in 1..Minus(j, i) : Ring(i, j)[k] = buf[(i + (k - 1)) % INPUT_BUF_SIZE]
  <2> DEFINE s == [k \in 1..Minus(j, i) |-> buf[Slot(Plus(i, k - 1))]]
  <2>1. /\ s \in Seq(Any) /\ Len(s) = Minus(j, i)
        /\ \A k \in 1..Minus(j, i) : s[k] = buf[(i + (k - 1)) % INPUT_BUF_SIZE]
    BY <1>1, RingSeq
  <2>2. s = Ring(i, j)
    BY DEF Ring
  <2> HIDE DEF s
  <2> QED
    BY <2>1, <2>2
<1>2. /\ Ring(r, w) \in Seq(Any) /\ Len(Ring(r, w)) = Minus(w, r)
      /\ \A k \in 1..Minus(w, r) : Ring(r, w)[k] = buf[(r + (k - 1)) % INPUT_BUF_SIZE]
  BY <1>0, RingFacts
<1>3. /\ Ring(w, e) \in Seq(Any) /\ Len(Ring(w, e)) = Minus(e, w)
      /\ \A k \in 1..Minus(e, w) : Ring(w, e)[k] = buf[(w + (k - 1)) % INPUT_BUF_SIZE]
  BY <1>0, RingFacts
<1>4. ASSUME NEW k \in 1..Minus(e, w)
      PROVE  (w + (k - 1)) % INPUT_BUF_SIZE = (r + (Minus(w, r) + k - 1)) % INPUT_BUF_SIZE
  <2>1. PICK d \in Nat : d = Minus(w, r) /\ d < IdxMod
    BY RingFacts, Distances
  <2>2. w = Plus(r, d)
    <3>1. r \in Index /\ w \in Index
      BY RingFacts
    <3>2. d = IF w >= r THEN w - r ELSE w + IdxMod - r
      BY <2>1, <3>1, Back
    <3>3. Plus(r, d) = IF r + d < IdxMod THEN r + d ELSE r + d - IdxMod
      <4>1. d \in 0..IdxMod
        BY <2>1
      <4> QED
        BY <3>1, <4>1, Wrap
    <3> QED
      BY <3>1, <3>2, <3>3 DEF Index
  <2>3. k - 1 \in Nat /\ d \in 0..IdxMod /\ r + d + (k - 1) = r + (d + k - 1)
    BY <2>1, RingFacts DEF Index
  <2>4. (Plus(r, d) + (k - 1)) % INPUT_BUF_SIZE = (r + d + (k - 1)) % INPUT_BUF_SIZE
    BY <2>3, RingFacts, Address
  <2> QED
    BY <2>1, <2>2, <2>3, <2>4
<1> QED
  BY <1>2, <1>3, <1>4 DEF QueuesAre

LEMMA Joined ==
  \A s, t \in Seq(Any) :
     /\ s \o t \in Seq(Any)
     /\ Len(s \o t) = Len(s) + Len(t)
     /\ \A i \in 1..Len(s) + Len(t) :
          (s \o t)[i] = IF i <= Len(s) THEN s[i] ELSE t[i - Len(s)]
BY ConcatProperties, Zenon

LEMMA StorePromise ==
  ASSUME IInv, IInv', QueuesAre, QueuesAre', Store
  PROVE  Promise!Next
<1> DEFINE q == Ring(r, w)
           l == Ring(w, e)
           n == Append(l, intr.c)
<1>0. PICK dq \in Nat, dl \in Nat : dq = Minus(w, r) /\ dl = Minus(e, w) /\ Minus(e, r) = dq + dl
  BY RingFacts
<1>1. /\ q \in Seq(Any) /\ Len(q) = dq /\ l \in Seq(Any) /\ Len(l) = dl
      /\ \A k \in 1..dq : q[k] = buf[(r + (k - 1)) % INPUT_BUF_SIZE]
      /\ \A k \in 1..dl : l[k] = buf[(r + (dq + k - 1)) % INPUT_BUF_SIZE]
  BY <1>0 DEF QueuesAre
<1>2. /\ intr.c \in Char /\ intr.c \in Any /\ dq + dl < INPUT_BUF_SIZE /\ r' = r
      /\ buf'[(r + (dq + dl)) % INPUT_BUF_SIZE] = intr.c
      /\ \A k \in Nat : k < dq + dl =>
           buf'[(r + k) % INPUT_BUF_SIZE] = buf[(r + k) % INPUT_BUF_SIZE]
      /\ Minus(e', r) = dq + dl + 1 /\ Minus(e', w) = dl + 1
  BY <1>0, Stored DEF Any
<1>3. /\ n \in Seq(Any) /\ Len(n) = dl + 1
      /\ \A k \in 1..dl : n[k] = l[k]
      /\ n[dl + 1] = intr.c
  BY <1>1, <1>2, AppendProperties
<1>4. /\ \A k \in 1..dq : buf'[(r + (k - 1)) % INPUT_BUF_SIZE] = q[k]
      /\ \A k \in 1..dl : buf'[(r + (dq + k - 1)) % INPUT_BUF_SIZE] = n[k]
      /\ buf'[(r + (dq + (dl + 1) - 1)) % INPUT_BUF_SIZE] = n[dl + 1]
  <2>1. ASSUME NEW k \in 1..dq
        PROVE  buf'[(r + (k - 1)) % INPUT_BUF_SIZE] = q[k]
    <3>1. k - 1 \in Nat /\ k - 1 < dq + dl
      OBVIOUS
    <3> QED
      BY <1>1, <1>2, <3>1
  <2>2. ASSUME NEW k \in 1..dl
        PROVE  buf'[(r + (dq + k - 1)) % INPUT_BUF_SIZE] = n[k]
    <3>1. dq + k - 1 \in Nat /\ dq + k - 1 < dq + dl
      OBVIOUS
    <3> QED
      BY <1>1, <1>2, <1>3, <3>1
  <2>3. dq + (dl + 1) - 1 = dq + dl
    OBVIOUS
  <2> QED
    BY <1>2, <1>3, <2>1, <2>2, <2>3
<1> HIDE DEF q, l, n
<1>5. CASE w' = w /\ ~ EndOfLine(intr.c) /\ Minus(e, r) + 1 # INPUT_BUF_SIZE
  <2>1. Minus(w, r)' = dq /\ Minus(e, w)' = dl + 1
    BY <1>0, <1>2, <1>5 DEF Minus
  <2>2. Ring(r, w)' = q
    <3>1. /\ Ring(r, w)' \in Seq(Any) /\ Len(Ring(r, w)') = dq
          /\ \A k \in 1..dq : Ring(r, w)'[k] = buf'[(r + (k - 1)) % INPUT_BUF_SIZE]
      BY <1>2, <2>1 DEF QueuesAre
    <3>2. \A k \in 1..dq : Ring(r, w)'[k] = q[k]
      BY <1>4, <3>1
    <3> QED
      BY <1>1, <3>1, <3>2, SeqEqual
  <2>3. Ring(w, e)' = n
    <3>1. /\ Ring(w, e)' \in Seq(Any) /\ Len(Ring(w, e)') = dl + 1
          /\ \A k \in 1..dl + 1 : Ring(w, e)'[k] = buf'[(r + (dq + k - 1)) % INPUT_BUF_SIZE]
      BY <1>2, <2>1 DEF QueuesAre
    <3>2. \A k \in 1..dl + 1 : k \in 1..dl \/ k = dl + 1
      OBVIOUS
    <3>3. ASSUME NEW k \in 1..dl + 1
          PROVE  Ring(w, e)'[k] = n[k]
      <4>1. Ring(w, e)'[k] = buf'[(r + (dq + k - 1)) % INPUT_BUF_SIZE]
        BY <3>1
      <4>2. CASE k \in 1..dl
        BY <1>4, <4>1, <4>2
      <4>3. CASE k = dl + 1
        BY <1>4, <4>1, <4>3
      <4> QED
        BY <3>2, <4>2, <4>3
    <3> QED
      BY <1>3, <3>1, <3>3, SeqEqual
  <2>4. Promise!Store(intr.c)
    BY <1>0, <1>1, <1>2, <1>5, <2>2, <2>3
       DEF q, l, n, Promise!Store, Promise!Room, Promise!Complete
  <2> QED
    BY <1>2, <2>4 DEF Promise!Next
<1>6. CASE w' = e' /\ (EndOfLine(intr.c) \/ Minus(e, r) + 1 = INPUT_BUF_SIZE)
  <2>1. Minus(w, r)' = dq + dl + 1 /\ Minus(e, w)' = 0
    <3>1. Minus(e', e') = 0
      BY Stored, Distances
    <3> QED
      BY <1>2, <1>6, <3>1 DEF Minus
  <2>2. Ring(w, e)' = << >>
    <3>1. Ring(w, e)' \in Seq(Any) /\ Len(Ring(w, e)') = 0
      BY <2>1 DEF QueuesAre
    <3> QED
      BY <3>1, EmptySeq
  <2>3. /\ q \o n \in Seq(Any) /\ Len(q \o n) = dq + dl + 1
        /\ \A k \in 1..dq + dl + 1 : (q \o n)[k] = IF k <= dq THEN q[k] ELSE n[k - dq]
    <3>1. dq \in Nat /\ dl \in Nat /\ dq + (dl + 1) = dq + dl + 1
      BY <1>1
    <3>2. /\ q \in Seq(Any) /\ Len(q) = dq
          /\ n \in Seq(Any) /\ Len(n) = dl + 1
      BY <1>1, <1>3
    <3>3. /\ q \o n \in Seq(Any)
          /\ Len(q \o n) = Len(q) + Len(n)
          /\ \A i \in 1..Len(q) + Len(n) :
               (q \o n)[i] = IF i <= Len(q) THEN q[i] ELSE n[i - Len(q)]
      BY <3>2, Joined, Zenon
    <3>4. Len(q) + Len(n) = dq + dl + 1
      BY <3>1, <3>2
    <3> QED
      BY <3>2, <3>3, <3>4, Zenon
  <2>4. Ring(r, w)' = q \o n
    <3>1. /\ Ring(r, w)' \in Seq(Any) /\ Len(Ring(r, w)') = dq + dl + 1
          /\ \A k \in 1..dq + dl + 1 : Ring(r, w)'[k] = buf'[(r + (k - 1)) % INPUT_BUF_SIZE]
      BY <1>2, <2>1 DEF QueuesAre
    <3>2. ASSUME NEW k \in 1..dq + dl + 1
          PROVE  Ring(r, w)'[k] = (q \o n)[k]
      <4>1. CASE k <= dq
        <5>1. k \in 1..dq
          BY <4>1
        <5> QED
          BY <1>4, <2>3, <3>1, <4>1, <5>1
      <4>2. CASE ~ (k <= dq)
        <5>1. PICK m \in 1..dl + 1 : m = k - dq
          BY <4>2
        <5>2. dq + m - 1 = k - 1 /\ (m \in 1..dl \/ m = dl + 1)
          BY <5>1
        <5>3. buf'[(r + (dq + m - 1)) % INPUT_BUF_SIZE] = n[m]
          BY <1>4, <5>2
        <5> QED
          BY <2>3, <3>1, <4>2, <5>1, <5>2, <5>3
      <4> QED
        BY <4>1, <4>2
    <3> QED
      BY <2>3, <3>1, <3>2, SeqEqual
  <2>5. Promise!StoreLast(intr.c)
    BY <1>0, <1>1, <1>2, <1>6, <2>2, <2>4
       DEF q, l, n, Promise!StoreLast, Promise!Room, Promise!Complete
  <2> QED
    BY <1>2, <2>5 DEF Promise!Next
<1> QED
  BY <1>5, <1>6, Stored

LEMMA ErasePromise ==
  ASSUME IInv, IInv', QueuesAre, QueuesAre', Erase
  PROVE  Promise!Next
<1> DEFINE l == Ring(w, e)
<1>0. PICK dq \in Nat, dl \in Nat : dq = Minus(w, r) /\ dl = Minus(e, w)
  BY RingFacts
<1>1. /\ e # w /\ e' = Minus(e, 1) /\ UNCHANGED <<buf, r, w>>
  BY DEF Erase, Erasable, EmptyLine
<1>2. /\ Minus(w, r)' = dq /\ Minus(e, w)' = dl - 1 /\ dl > 0
  <2>1. Minus(e', w) = dl - 1 /\ dl # 0
    BY <1>0, <1>1, RingFacts, Distances
  <2> QED
    BY <1>0, <1>1, <2>1 DEF Minus
<1>3. UNCHANGED Ring(r, w)
  BY <1>1 DEF Ring, Minus
<1>4. /\ l \in Seq(Any) /\ Len(l) = dl
      /\ \A k \in 1..dl : l[k] = buf[(r + (dq + k - 1)) % INPUT_BUF_SIZE]
  BY <1>0 DEF QueuesAre
<1>5. /\ l' \in Seq(Any) /\ Len(l') = dl - 1
      /\ \A k \in 1..dl - 1 : l'[k] = buf[(r + (dq + k - 1)) % INPUT_BUF_SIZE]
  BY <1>1, <1>2 DEF QueuesAre
<1> HIDE DEF l
<1>6. /\ SubSeq(l, 1, dl - 1) \in Seq(Any) /\ Len(SubSeq(l, 1, dl - 1)) = dl - 1
      /\ \A k \in 1..dl - 1 : SubSeq(l, 1, dl - 1)[k] = l[k]
  <2>1. \A k \in 1..dl - 1 : l[k] \in Any
    BY <1>4, ElementOfSeq
  <2> QED
    BY <1>2, <2>1, SubSeqProperties
<1>7. l' = SubSeq(l, 1, dl - 1)
  <2>1. \A k \in 1..dl - 1 : l'[k] = SubSeq(l, 1, dl - 1)[k]
    BY <1>4, <1>5, <1>6
  <2> QED
    BY <1>5, <1>6, <2>1, SeqEqual
<1>8. l # << >>
  BY <1>2, <1>4
<1>9. Promise!Erase
  BY <1>3, <1>4, <1>7, <1>8 DEF l, Promise!Erase
<1> QED
  BY <1>9 DEF Promise!Next

LEMMA ReadPromise ==
  ASSUME IInv, IInv', QueuesAre, QueuesAre', NEW p \in Reader, ReadByte(p)
  PROVE  [Promise!Next]_<<Ring(r, w), Ring(w, e)>>
<1>1. r # w /\ UNCHANGED <<buf, w, e>> /\ (r' = r \/ r' = Plus(r, 1))
  BY DEF ReadByte
<1>2. UNCHANGED Ring(w, e)
  BY <1>1 DEF Ring, Minus
<1>3. CASE r' = r
  BY <1>1, <1>2, <1>3 DEF Ring, Minus
<1>4. CASE r' = Plus(r, 1)
  <2> DEFINE q == Ring(r, w)
  <2>0. PICK dq \in Nat : dq = Minus(w, r) /\ dq > 0
    BY <1>1, RingFacts, Distances
  <2>1. Minus(w, r)' = dq - 1
    <3>1. Minus(w, Plus(r, 1)) = dq - 1
      BY <1>1, <2>0, RingFacts, Distances
    <3> QED
      BY <1>1, <1>4, <3>1 DEF Minus
  <2>2. /\ q \in Seq(Any) /\ Len(q) = dq
        /\ \A k \in 1..dq : q[k] = buf[(r + (k - 1)) % INPUT_BUF_SIZE]
    BY <2>0 DEF QueuesAre
  <2>3. /\ q' \in Seq(Any) /\ Len(q') = dq - 1
        /\ \A k \in 1..dq - 1 : q'[k] = buf[(r' + (k - 1)) % INPUT_BUF_SIZE]
    BY <1>1, <2>1 DEF QueuesAre
  <2>4. \A k \in 1..dq - 1 : (r' + (k - 1)) % INPUT_BUF_SIZE = (r + ((k + 1) - 1)) % INPUT_BUF_SIZE
    <3> SUFFICES ASSUME NEW k \in 1..dq - 1
                 PROVE  (r' + (k - 1)) % INPUT_BUF_SIZE = (r + ((k + 1) - 1)) % INPUT_BUF_SIZE
      OBVIOUS
    <3>1. k - 1 \in Nat /\ 1 \in 0..IdxMod /\ r \in Index
      BY RingFacts
    <3>2. (Plus(r, 1) + (k - 1)) % INPUT_BUF_SIZE = (r + 1 + (k - 1)) % INPUT_BUF_SIZE
      BY <3>1, Address
    <3>3. r + 1 + (k - 1) = r + ((k + 1) - 1)
      BY <3>1 DEF Index
    <3> QED
      BY <1>4, <3>2, <3>3
  <2> HIDE DEF q
  <2>5. q # << >>
    BY <2>0, <2>2
  <2>6. /\ Tail(q) \in Seq(Any) /\ Len(Tail(q)) = dq - 1
        /\ \A k \in 1..dq - 1 : Tail(q)[k] = q[k + 1]
    BY <2>2, <2>5, HeadTailProperties
  <2>7. q' = Tail(q)
    <3>1. \A k \in 1..dq - 1 : q'[k] = Tail(q)[k]
      <4> SUFFICES ASSUME NEW k \in 1..dq - 1
                   PROVE  q'[k] = Tail(q)[k]
        OBVIOUS
      <4>1. k + 1 \in 1..dq
        OBVIOUS
      <4> QED
        BY <2>2, <2>3, <2>4, <2>6, <4>1
    <3> QED
      BY <2>3, <2>6, <3>1, SeqEqual
  <2>8. Promise!Take
    BY <1>2, <2>5, <2>7 DEF q, Promise!Take
  <2> QED
    BY <2>8 DEF Promise!Next
<1> QED
  BY <1>1, <1>3, <1>4

(* console.c: whatever the size of the ring, and when the indices wrap, the*)
(* ring is the terminal's queue of complete lines followed by the line that*)
(* is being typed: readers get each character once and in order.           *)
THEOREM Refinement == Spec => LineDiscipline
<1>1. Init => Promise!Init
  <2> SUFFICES ASSUME Init
               PROVE  Ring(r, w) = << >> /\ Ring(w, e) = << >>
    BY DEF Promise!Init
  <2>1. Start \in Index /\ r = Start /\ w = Start /\ e = Start
    BY DEF Init, Index
  <2>2. Minus(Start, Start) = 0
    BY <2>1, Distances
  <2> QED
    BY <2>1, <2>2 DEF Ring
<1>2. IInv /\ IInv' /\ QueuesAre /\ QueuesAre' /\ [Next]_vars
        => [Promise!Next]_<<Ring(r, w), Ring(w, e)>>
  <2> SUFFICES ASSUME IInv, IInv', QueuesAre, QueuesAre', [Next]_vars
               PROVE  [Promise!Next]_<<Ring(r, w), Ring(w, e)>>
    OBVIOUS
  <2>1. CASE UNCHANGED input
    BY <2>1 DEF input, Ring, Minus
  <2>2. CASE Store
    BY <2>2, StorePromise
  <2>3. CASE Erase
    BY <2>3, ErasePromise
  <2>4. CASE \E p \in Reader : ReadByte(p)
    BY <2>4, ReadPromise
  <2> QED
    BY <2>1, <2>2, <2>3, <2>4
       DEF Next, vars, Keystroke, Transmit, PrintkPut, Interrupt, Uartintr, UartAck, UartTx, UartGetc,
           Consoleintr, IntrAcquire, Echo, Ignore, Consputc, EchoWait, EchoPut, UartWrite,
           ConsoleWrite, Consoleread, Acquire, ReadWait, Kill, ConsoleRead
<1> QED
  BY <1>1, <1>2, Queues, SpecIInv, PTL DEF Spec, LineDiscipline, Promise!Spec

=============================================================================
