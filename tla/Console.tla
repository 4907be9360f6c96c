-------------------------------- MODULE Console --------------------------------
(***************************************************************************)
(* The console (kernel/console.c) on the UART (kernel/uart.c): processes   *)
(* that read lines and write bytes, the interrupt handler that edits and   *)
(* echoes what is typed, and printk, against the device.                   *)
(*                                                                         *)
(* Abstractions.  What happens under tx_lock is one step: nothing under it *)
(* waits but sleep, which gives it up.  cons.lock is kept: readers and the *)
(* handler hold it over several steps.  The wake-up itself is module       *)
(* Proc's.  Erasing echoes one byte (three in the code).  C('P'), a dump   *)
(* of the process table, is left out.  One CPU at a time serves the UART:  *)
(* the PLIC gives the interrupt out again only when plic_complete has been *)
(* called.  All that printk does here is uartputc_sync, under its own lock.*)
(***************************************************************************)
EXTENDS Naturals, Sequences, FiniteSets

CONSTANTS Reader, Writer,
          INPUT_BUF_SIZE,
          IdxMod,        \* width of r, w and e
          Start,         \* where they stand at first: 0, or near the end of their range
          Char,          \* characters: "nl", "eof", "bs", "kill", and others
          FIFO,          \* bytes the device takes before it loses one
          MaxTyped,      \* bound: characters typed
          Counts,        \* bound: how many bytes a read or a write is for
          MaxCalls       \* bound: writes and bytes of printk

ASSUME ConsoleAssumption ==
  /\ INPUT_BUF_SIZE \in Nat \ {0} /\ IdxMod \in Nat /\ IdxMod > INPUT_BUF_SIZE
  /\ IdxMod % INPUT_BUF_SIZE = 0 /\ Start \in 0..IdxMod - 1
  /\ MaxTyped \in Nat /\ Counts \subseteq Nat \ {0} /\ MaxCalls \in Nat /\ FIFO \in Nat

VARIABLES
  buf, r, w, e,  \* cons.buf and its indices: read, write and edit
  consLock,      \* cons.lock: who holds it
  thread,        \* the read or write each process is in
  killed,        \* p->killed
  intr,          \* the interrupt handler, and the character in its hands
  printk,        \* "idle", or a byte waits for the device, or is written
  txBusy,        \* tx_busy
  thr,           \* how many bytes the device has yet to send
  txPending,     \* the device reports that it has sent all
  rx,            \* characters the device has received
  typed, calls   \* bounds: characters typed, output calls begun

input == <<buf, r, w, e>>
device == <<thr, txPending, rx, typed>>
vars == <<input, consLock, thread, killed, intr, printk, txBusy, device, calls>>

Nobody == "none"
Handler == "handler"
NoChar == "none"
Idle == [at |-> "user", n |-> 0, target |-> 0]

Plus(i, n) == (i + n) % IdxMod
Minus(i, j) == (i + IdxMod - j) % IdxMod
Slot(i) == i % INPUT_BUF_SIZE
EndOfLine(c) == c \in {"nl", "eof"}

(* A reader is not a writer, and neither is the interrupt handler.         *)
ASSUME ProcessAssumption ==
  Reader \intersect Writer = {} /\ Nobody \notin Reader /\ Handler \notin Reader

Init ==
  /\ buf = [i \in 0..INPUT_BUF_SIZE - 1 |-> NoChar] /\ r = Start /\ w = Start /\ e = Start
  /\ consLock = Nobody
  /\ thread = [p \in Reader \union Writer |-> Idle]
  /\ killed = [p \in Reader |-> FALSE]
  /\ intr = [at |-> "idle", c |-> NoChar]
  /\ printk = "idle"
  /\ txBusy = FALSE /\ thr = 0 /\ txPending = FALSE /\ rx = << >>
  /\ typed = 0 /\ calls = 0

-----------------------------------------------------------------------------
(* The device                                                              *)

(* Typed on the keyboard; the receiver has room for one here, 16 in truth. *)
Keystroke(c) ==
  /\ typed < MaxTyped /\ rx = << >>
  /\ typed' = typed + 1
  /\ rx' = <<c>>
  /\ UNCHANGED <<input, consLock, thread, killed, intr, printk, txBusy, thr, txPending, calls>>

(* A byte goes out; when it was the last the device asks for more.         *)
Transmit ==
  /\ thr > 0
  /\ thr' = thr - 1
  /\ txPending' = (thr' = 0)
  /\ UNCHANGED <<input, consLock, thread, killed, intr, printk, txBusy, rx, typed, calls>>

TxIdle == thr = 0                           \* LSR_TX_IDLE
WriteThr == thr' = thr + 1 /\ txPending' = FALSE

-----------------------------------------------------------------------------
(* uartwrite                                                               *)

ConsoleWrite(p, n) ==
  /\ thread[p].at = "user" /\ calls < MaxCalls
  /\ thread' = [thread EXCEPT ![p] = [at |-> "write", n |-> n, target |-> n]]
  /\ calls' = calls + 1
  /\ UNCHANGED <<input, consLock, killed, intr, printk, txBusy, device>>

(* Under tx_lock: sleep if busy; else write a byte, and sleep for the next *)
(* one, or return.                                                         *)
UartWrite(p) ==
  /\ thread[p].at = "write"
  /\ IF txBusy
     THEN /\ thread' = [thread EXCEPT ![p].at = "asleep"]
          /\ UNCHANGED <<txBusy, thr, txPending>>
     ELSE /\ WriteThr
          /\ txBusy' = TRUE
          /\ thread' = [thread EXCEPT ![p] =
                          IF @.n = 1 THEN Idle
                          ELSE [at |-> "asleep", n |-> @.n - 1, target |-> @.target]]
  /\ UNCHANGED <<input, consLock, killed, intr, printk, rx, typed, calls>>

(* uartputc_sync by printk: the test and the write are two steps.          *)
PrintkPut ==
  /\ \/ printk = "idle" /\ calls < MaxCalls /\ calls' = calls + 1 /\ printk' = "wait"
        /\ UNCHANGED <<thr, txPending>>
     \/ printk = "wait" /\ TxIdle /\ printk' = "put"
        /\ UNCHANGED <<thr, txPending, calls>>
     \/ printk = "put" /\ WriteThr /\ printk' = "idle"
        /\ UNCHANGED calls
  /\ UNCHANGED <<input, consLock, thread, killed, intr, txBusy, rx, typed>>

-----------------------------------------------------------------------------
(* uartintr                                                                *)

IntrAt(l) == intr.at = l
IntrTo(l) == intr' = [intr EXCEPT !.at = l]
Handled == intr' = [at |-> "rx", c |-> NoChar]

(* ReadReg(ISR): it takes the report back, unless that is of input.        *)
UartAck ==
  /\ IntrAt("idle") /\ (txPending \/ rx # << >>)
  /\ IntrTo("tx")
  /\ txPending' = (txPending /\ rx # << >>)
  /\ UNCHANGED <<input, consLock, thread, killed, printk, txBusy, thr, rx, typed, calls>>

WakeWriters == [p \in DOMAIN thread |->
                  IF p \in Writer /\ thread[p].at = "asleep" THEN [thread[p] EXCEPT !.at = "write"]
                  ELSE thread[p]]
WakeReaders == [p \in DOMAIN thread |->
                  IF p \in Reader /\ thread[p].at = "asleep" THEN [thread[p] EXCEPT !.at = "read"]
                  ELSE thread[p]]

(* Under tx_lock.                                                          *)
UartTx ==
  /\ IntrAt("tx")
  /\ IntrTo("rx")
  /\ IF TxIdle THEN txBusy' = FALSE /\ thread' = WakeWriters ELSE UNCHANGED <<txBusy, thread>>
  /\ UNCHANGED <<input, consLock, killed, printk, device, calls>>

(* Fault: the interrupt is acknowledged only when it has been served.      *)
UartGetcAcks ==
  /\ IntrAt("rx")
  /\ IF rx = << >> THEN IntrTo("idle") /\ txPending' = FALSE /\ UNCHANGED rx
     ELSE intr' = [at |-> "acquire", c |-> Head(rx)] /\ rx' = Tail(rx) /\ UNCHANGED txPending
  /\ UNCHANGED <<input, consLock, thread, killed, printk, txBusy, thr, typed, calls>>

(* uartgetc: a character for consoleintr, or the end of the handler.       *)
UartGetc ==
  /\ IntrAt("rx")
  /\ IF rx = << >> THEN IntrTo("idle") /\ UNCHANGED rx
     ELSE intr' = [at |-> "acquire", c |-> Head(rx)] /\ rx' = Tail(rx)
  /\ UNCHANGED <<input, consLock, thread, killed, printk, txBusy, thr, txPending, typed, calls>>

-----------------------------------------------------------------------------
(* consoleintr, with cons.lock                                             *)

IntrAcquire ==
  /\ IntrAt("acquire") /\ consLock = Nobody
  /\ consLock' = Handler
  /\ IntrTo("edit")
  /\ UNCHANGED <<input, thread, killed, printk, txBusy, device, calls>>

EmptyLine == e = w
(* Fault: room for one character too many.                                 *)
HasRoomForOneMore == Minus(e, r) <= INPUT_BUF_SIZE
HasRoom == Minus(e, r) < INPUT_BUF_SIZE

Edits == intr.c \in {"bs", "kill"}
Erasable == ~ EmptyLine /\ (intr.c = "kill" => buf[Slot(Minus(e, 1))] # "nl")

(* C('H') erases a character, C('U') as many as the line has.              *)
Erase ==
  /\ IntrAt("edit") /\ Edits /\ Erasable
  /\ e' = Minus(e, 1)
  /\ IntrTo("echo")
  /\ UNCHANGED <<buf, r, w, consLock, thread, killed, printk, txBusy, device, calls>>

(* Any other character is echoed before it is stored.                      *)
Echo ==
  /\ IntrAt("edit") /\ ~ Edits /\ HasRoom
  /\ IntrTo("echo")
  /\ UNCHANGED <<input, consLock, thread, killed, printk, txBusy, device, calls>>

(* Nothing to erase, or no room: release(&cons.lock).                      *)
Ignore ==
  /\ IntrAt("edit")
  /\ IF Edits THEN ~ Erasable ELSE ~ HasRoom
  /\ Handled
  /\ consLock' = Nobody
  /\ UNCHANGED <<input, thread, killed, printk, txBusy, device, calls>>

(* consputc: uartputc_sync waits for the device with cons.lock held.       *)
EchoWait ==
  /\ IntrAt("echo") /\ TxIdle
  /\ IntrTo("put")
  /\ UNCHANGED <<input, consLock, thread, killed, printk, txBusy, device, calls>>

EchoPut ==
  /\ IntrAt("put")
  /\ WriteThr
  /\ \/ intr.c = "bs" /\ Handled /\ consLock' = Nobody
     \/ intr.c = "kill" /\ IntrTo("edit") /\ UNCHANGED consLock
     \/ ~ Edits /\ IntrTo("store") /\ UNCHANGED consLock
  /\ UNCHANGED <<input, thread, killed, printk, txBusy, rx, typed, calls>>

(* The line is complete: readers may have it.                              *)
Store ==
  LET complete == EndOfLine(intr.c) \/ Minus(Plus(e, 1), r) = INPUT_BUF_SIZE IN
  /\ IntrAt("store")
  /\ buf' = [buf EXCEPT ![Slot(e)] = intr.c]
  /\ e' = Plus(e, 1)
  /\ IF complete THEN w' = e' /\ thread' = WakeReaders ELSE UNCHANGED <<w, thread>>
  /\ Handled
  /\ consLock' = Nobody
  /\ UNCHANGED <<r, killed, printk, txBusy, device, calls>>

-----------------------------------------------------------------------------
(* consoleread                                                             *)

ConsoleRead(p, n) ==
  /\ thread[p].at = "user" /\ ~ killed[p]
  /\ thread' = [thread EXCEPT ![p] = [at |-> "read", n |-> n, target |-> n]]
  /\ UNCHANGED <<input, consLock, killed, intr, printk, txBusy, device, calls>>

Acquire(p) ==
  /\ thread[p].at = "read" /\ consLock = Nobody
  /\ consLock' = p
  /\ thread' = [thread EXCEPT ![p].at = "reading"]
  /\ UNCHANGED <<input, killed, intr, printk, txBusy, device, calls>>

Return(p) == thread' = [thread EXCEPT ![p] = Idle] /\ consLock' = Nobody

(* Nothing to read: return if killed, sleep otherwise; a kill in between   *)
(* wakes nobody.                                                           *)
ReadWait(p) ==
  /\ \/ /\ thread[p].at = "reading" /\ r = w
        /\ \/ killed[p] /\ Return(p)
           \/ /\ ~ killed[p]
              /\ thread' = [thread EXCEPT ![p].at = "to_sleep"]
              /\ UNCHANGED consLock
     \/ /\ thread[p].at = "to_sleep"
        /\ thread' = [thread EXCEPT ![p].at = "asleep"]
        /\ consLock' = Nobody
  /\ UNCHANGED <<input, killed, intr, printk, txBusy, device, calls>>

(* A byte. C('D') after others stays for the next read; copyout may fail.  *)
ReadByte(p) ==
  LET t == thread[p]
      c == buf[Slot(r)] IN
  /\ t.at = "reading" /\ r # w
  /\ IF c = "eof"
     THEN /\ r' = (IF t.n < t.target THEN r ELSE Plus(r, 1))
          /\ Return(p)
     ELSE /\ r' = Plus(r, 1)
          /\ \/ Return(p)
             \/ /\ c # "nl" /\ t.n > 1
                /\ thread' = [thread EXCEPT ![p].n = @ - 1]
                /\ UNCHANGED consLock
  /\ UNCHANGED <<buf, w, e, killed, intr, printk, txBusy, device, calls>>

(* kkill: a sleeper is woken. It is not killed again.                      *)
Kill(p) ==
  /\ ~ killed[p]
  /\ killed' = [killed EXCEPT ![p] = TRUE]
  /\ thread' = [thread EXCEPT ![p].at = IF @ = "asleep" THEN "read" ELSE @]
  /\ UNCHANGED <<input, consLock, intr, printk, txBusy, device, calls>>

-----------------------------------------------------------------------------

Consputc == EchoWait \/ EchoPut
Consoleintr == IntrAcquire \/ Erase \/ Echo \/ Ignore \/ Consputc \/ Store
Uartintr == UartAck \/ UartTx \/ UartGetc
Interrupt == Uartintr \/ Consoleintr

Consoleread(p) == Acquire(p) \/ ReadWait(p) \/ ReadByte(p)

Next ==
  \/ \E c \in Char : Keystroke(c)
  \/ Transmit \/ PrintkPut \/ Interrupt
  \/ \E p \in Writer : UartWrite(p) \/ \E n \in Counts : ConsoleWrite(p, n)
  \/ \E p \in Reader : Consoleread(p) \/ Kill(p) \/ \E n \in Counts : ConsoleRead(p, n)

(* The device works, interrupts are served, and a process that can run is  *)
(* run. Nobody has to type, to call printk, read or write, or to kill.     *)
Fairness ==
  /\ WF_vars(Transmit) /\ WF_vars(Interrupt) /\ WF_vars(printk # "idle" /\ PrintkPut)
  /\ \A p \in Writer : WF_vars(UartWrite(p))
  /\ \A p \in Reader : WF_vars(Consoleread(p))

Spec == Init /\ [][Next]_vars
FairSpec == Spec /\ Fairness

-----------------------------------------------------------------------------

TypeOK ==
  /\ r \in 0..IdxMod - 1 /\ w \in 0..IdxMod - 1 /\ e \in 0..IdxMod - 1
  /\ consLock \in Reader \union {Nobody, Handler}
  /\ intr.at \in {"idle", "tx", "rx", "acquire", "edit", "echo", "put", "store"}
  /\ printk \in {"idle", "wait", "put"}
  /\ txBusy \in BOOLEAN /\ txPending \in BOOLEAN /\ killed \in [Reader -> BOOLEAN]

(* Who sleeps will be woken. A writer: the device has a byte to send, or   *)
(* reports, or the handler is about to look (uartwrite, uartintr). A       *)
(* reader: there is no complete line (consoleread, consoleintr).           *)
NoLostWakeup ==
  /\ \A p \in Writer : thread[p].at = "asleep" =>
       txBusy /\ (thr > 0 \/ txPending \/ IntrAt("tx"))
  /\ \A p \in Reader : thread[p].at = "asleep" => r = w

(* Though three parties write to the device and only two of them look      *)
(* first, it never gets more bytes than it can take (uartwrite relies on   *)
(* tx_busy alone, uartputc_sync on the status alone).                      *)
OutputFits == thr <= FIFO

NothingLost == TypeOK /\ NoLostWakeup /\ OutputFits

(* The ring with its three indices, which wrap, is the terminal's queue of *)
(* lines and the line being typed.                                         *)
Ring(i, j) == [k \in 1..Minus(j, i) |-> buf[Slot(Plus(i, k - 1))]]
Promise == INSTANCE Terminal WITH unread <- Ring(r, w), line <- Ring(w, e)
LineDiscipline == Promise!Spec

(* A write returns if the other writes, what printk has to say and what is *)
(* typed come to an end, as they do within MaxCalls and MaxTyped: sharing  *)
(* the device and its one interrupt loses no turn for good.  Without an    *)
(* end they may: whoever is woken together with a writer (uartintr wakes   *)
(* all) and comes first finds the device free and sets tx_busy again.      *)
WritesReturn == \A p \in Writer : thread[p].at = "write" ~> thread[p].at = "user"

=============================================================================
