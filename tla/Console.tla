------------------------------ MODULE Console ------------------------------
(***************************************************************************)
(* The console (kernel/src/driver/console.rs) over the UART                *)
(* (kernel/src/driver/uart.rs): processes that read edited lines and write *)
(* characters, and the interrupt handler that edits what is typed, echoes  *)
(* it and feeds the transmitter.                                           *)
(*                                                                         *)
(* The indices of the rings only grow (they are wrapping words and both    *)
(* buffers are powers of two); a cell of a ring is an index modulo its     *)
(* size.  The lock of the console is explicit, since a reader keeps it     *)
(* over several characters and the handler while it waits for the device   *)
(* to echo; the lock of the UART covers single steps.  Sleeping releases   *)
(* the lock and is atomic with respect to wakeup (module Proc).            *)
(*                                                                         *)
(* The device is external: received characters (which ones is settled when *)
(* they are read), a transmit queue (the FIFO is on) that is "idle" when   *)
(* empty, and an interrupt that is raised while there is something to      *)
(* receive or the device is idle.                                          *)
(* A transmitter that finds it idle and writes is one step: two that race  *)
(* fill two places of the queue, as when they came one after the other.    *)
(***************************************************************************)
EXTENDS Naturals, FiniteSets, Sequences, SequencesExt

CONSTANTS Readers, Writers,
          CONSOLE_BUF, UART_BUF,
          Keys,         \* what is typed: a printable key, CR, LF, EOT, BS, BS_LINE, CTRL_P
          Wanted,       \* sizes of a read
          MaxEvents,    \* bound on the keys typed and writes begun
          MaxReads,     \* bound on the reads of each reader
          Chars         \* characters in the write of each writer

ASSUME ConsoleAssumption ==
    /\ {CONSOLE_BUF, UART_BUF} \subseteq Nat \ {0}
    /\ Wanted \subseteq Nat \ {0}
    /\ {MaxEvents, MaxReads, Chars} \subseteq Nat

VARIABLES con,       \* Console: buf, ri, wi and ei
          lock,      \* the holder of its lock
          rd,        \* the readers
          killed,    \* Process.killed of the readers (putc does not look at it)
          handler,   \* the interrupt handler: off, receiving, or panicked
          echo,      \* what it still has to echo
          uart,      \* Uart: buf, ri and wi
          wr,        \* the writers
          rx, fifo,  \* the device: how many keys it holds, and what it sends
          typed,     \* number of keys typed
          line, input,   \* the line being edited, and the committed input not yet read
          owed           \* what putc took and the device has not sent

console == <<con, lock, rd, killed, line, input>>
device == <<rx, typed>>
output == <<uart, wr, fifo, owed>>
vars == <<con, lock, rd, killed, handler, echo, uart, wr, rx, fifo, typed, line, input, owed>>

Init ==
    /\ con = [buf |-> [i \in 0 .. CONSOLE_BUF - 1 |-> "a"], ri |-> 0, wi |-> 0, ei |-> 0]
    /\ lock = "free" /\ handler = "off" /\ echo = <<>>
    /\ rd = [r \in Readers |-> [pc |-> "idle", tot |-> 0, left |-> 0, calls |-> 0]]
    /\ killed = [r \in Readers |-> FALSE]
    /\ uart = [buf |-> [i \in 0 .. UART_BUF - 1 |-> <<"tty", "a">>], ri |-> 0, wi |-> 0]
    /\ wr = [w \in Writers |-> [pc |-> "idle", i |-> 0]]
    /\ rx = 0 /\ fifo = <<>> /\ typed = 0
    /\ line = <<>> /\ input = <<>> /\ owed = <<>>

-----------------------------------------------------------------------------
(* The device: a key arrives, a character leaves.  After a panic neither a *)
(* key nor a write that begins has any effect.                             *)
Another == /\ handler # "panicked"
           /\ typed + Cardinality({w \in Writers : wr[w].pc # "idle"}) < MaxEvents
Type == /\ Another
        /\ typed' = typed + 1 /\ rx' = rx + 1
        /\ UNCHANGED <<console, handler, echo, output>>
Sent(s, cs) == SubSeq(s, 1 + Len(SelectSeq(cs, LAMBDA c : c[1] \in Writers)), Len(s))
Drain == /\ fifo # <<>>
         /\ owed' = Sent(owed, <<Head(fifo)>>) /\ fifo' = Tail(fifo)
         /\ UNCHANGED <<console, handler, echo, uart, wr, device>>
is_idle == fifo = <<>>

-----------------------------------------------------------------------------
(* Fault: the ring is taken to be full one character late. *)
FullLate(u) == u.wi = u.ri + UART_BUF + 1

(* The transmit ring is full. *)
Full(u) == u.wi = u.ri + UART_BUF

(* Fault: transmit does not wake up the writers. *)
NotWoken(ws) == ws

(* wakeup of the processes that sleep on uart.ri. *)
WakeWriters(ws) == [w \in Writers |-> IF ws[w].pc = "asleep" THEN [ws[w] EXCEPT !.pc = "put"] ELSE ws[w]]

(* transmit: while the device is idle, the characters of the ring go out,  *)
(* one at least; n of them when the device sends that many meanwhile.  ws  *)
(* are the writers, all what is owed before.                               *)
transmit(u, ws, all) ==
    LET c(n) == u.buf[(u.ri + n - 1) % UART_BUF]
    IN IF is_idle /\ u.wi # u.ri
       THEN \E n \in 1 .. u.wi - u.ri :
              /\ fifo' = <<c(n)>>
              /\ owed' = Sent(all, [i \in 1 .. n - 1 |-> c(i)])
              /\ uart' = [u EXCEPT !.ri = @ + n]
              /\ wr' = WakeWriters(ws)
       ELSE uart' = u /\ wr' = ws /\ owed' = all /\ UNCHANGED fifo

(* console::write and UART.putc: each character waits for room in the      *)
(* ring, is put there and transmitted; a character that cannot be read     *)
(* from the user's memory ends the call.  A putc that finds PANICKED set   *)
(* spins for ever; one that has slept does not look again.                 *)
Write(w) == /\ wr[w].pc = "idle" /\ Another
            /\ wr' = [wr EXCEPT ![w].pc = "next"]
            /\ UNCHANGED <<console, handler, echo, uart, fifo, owed, device>>
Runs(w) == wr[w].pc = "put" \/ (wr[w].pc = "next" /\ handler # "panicked")
Putc(w) ==
    LET i == wr[w].i + 1
    IN /\ Runs(w) /\ ~Full(uart)
       /\ transmit([uart EXCEPT !.buf[uart.wi % UART_BUF] = <<w, i>>, !.wi = @ + 1],
                   [wr EXCEPT ![w] = [pc |-> IF i = Chars THEN "done" ELSE "next", i |-> i]],
                   Append(owed, <<w, i>>))
       /\ UNCHANGED <<console, handler, echo, device>>
PutcSleep(w) == /\ Runs(w) /\ Full(uart)
                /\ wr' = [wr EXCEPT ![w].pc = "asleep"]
                /\ UNCHANGED <<console, handler, echo, uart, fifo, owed, device>>
WriteStops(w) == /\ wr[w].pc = "next"
                 /\ wr' = [wr EXCEPT ![w].pc = "done"]
                 /\ UNCHANGED <<console, handler, echo, uart, fifo, owed, device>>

-----------------------------------------------------------------------------
(* console::read of tot characters: it takes the lock; *)
Read(r) ==
    \E tot \in Wanted :
        /\ rd[r].pc = "idle" /\ rd[r].calls < MaxReads /\ ~killed[r] /\ lock = "free"
        /\ rd' = [rd EXCEPT ![r] = [pc |-> "loop", tot |-> tot, left |-> tot, calls |-> @.calls + 1]]
        /\ lock' = r
        /\ UNCHANGED <<con, killed, line, input, handler, echo, output, device>>

(* without input it sleeps, and takes the lock again after a wakeup; a     *)
(* kill may come between the test of killed and the sleep;                 *)
ReadSleep(r) ==
    /\ rd[r].pc = "loop" /\ lock = r /\ con.ri = con.wi /\ ~killed[r]
    /\ rd' = [rd EXCEPT ![r].pc = "asleep"]
    /\ killed' \in {killed, [killed EXCEPT ![r] = TRUE]}
    /\ lock' = "free"
    /\ UNCHANGED <<con, line, input, handler, echo, output, device>>
ReadWake(r) ==
    /\ rd[r].pc = "woken" /\ lock = "free"
    /\ rd' = [rd EXCEPT ![r].pc = "loop"]
    /\ lock' = r
    /\ UNCHANGED <<con, killed, line, input, handler, echo, output, device>>
ReadKilled(r) ==
    /\ rd[r].pc = "loop" /\ lock = r /\ con.ri = con.wi /\ killed[r]
    /\ rd' = [rd EXCEPT ![r].pc = "idle"]
    /\ lock' = "free"
    /\ UNCHANGED <<con, killed, line, input, handler, echo, output, device>>

(* An EOT ends the read; when characters were read before it, it stays for *)
(* the next read.                                                          *)
PutBack(c, started) == c = "EOT" /\ started

(* otherwise it takes a character, until there are enough or the line      *)
(* ends.                                                                   *)
ReadChar(r) ==
    LET c == con.buf[con.ri % CONSOLE_BUF]
        left == IF c = "EOT" THEN rd[r].left ELSE rd[r].left - 1
        over == c \in {"EOT", "LF"} \/ left = 0
    IN /\ rd[r].pc = "loop" /\ lock = r /\ con.ri # con.wi
       /\ con' = [con EXCEPT !.ri = IF PutBack(c, rd[r].left < rd[r].tot) THEN @ ELSE @ + 1]
       /\ rd' = [rd EXCEPT ![r].left = left, ![r].pc = IF over THEN "idle" ELSE "loop"]
       /\ lock' = IF over THEN "free" ELSE r
       /\ input' = IF c = "EOT" /\ rd[r].left < rd[r].tot THEN input ELSE Tail(input)
       /\ UNCHANGED <<killed, line, handler, echo, output, device>>

(* kill does not queue a sleeper, which never runs again (module Proc). *)
KillReader(r) ==
    /\ rd[r].pc # "idle"
    /\ killed' = [killed EXCEPT ![r] = TRUE]
    /\ rd' = [rd EXCEPT ![r].pc = IF @ = "asleep" THEN "stuck" ELSE @]
    /\ UNCHANGED <<con, lock, line, input, handler, echo, output, device>>
KillWriter(w) ==
    /\ wr[w].pc = "asleep"
    /\ wr' = [wr EXCEPT ![w].pc = "stuck"]
    /\ UNCHANGED <<console, handler, echo, uart, fifo, owed, device>>
Kill == (\E r \in Readers : KillReader(r)) \/ (\E w \in Writers : KillWriter(w))

-----------------------------------------------------------------------------
(* UART.intr: it receives while there is something received (Receive, and  *)
(* Echo for what putc_sync writes), then transmits.                        *)
Interrupt ==
    /\ handler = "off" /\ (rx # 0 \/ is_idle)
    /\ handler' = "on"
    /\ UNCHANGED <<console, echo, output, device>>

WakeReaders(s) == [r \in Readers |-> IF s[r].pc = "asleep" THEN [s[r] EXCEPT !.pc = "woken"] ELSE s[r]]

(* console::intr, the editing keys: the characters of the line from        *)
(* position e on are erased, each as putc does it.                         *)
Erased(e) == [i \in 1 .. 3 * (con.ei - e) |-> <<"tty", IF i % 3 = 2 THEN " " ELSE "BS">>]
EraseTo(e) ==
    /\ con' = [con EXCEPT !.ei = e]
    /\ line' = SubSeq(line, 1, Len(line) - (con.ei - e))
    /\ echo' = Erased(e)
    /\ UNCHANGED <<rd, input>>
LineStart == CHOOSE e \in con.wi .. con.ei :
                /\ e = con.wi \/ con.buf[(e - 1) % CONSOLE_BUF] = "LF"
                /\ \A i \in e .. con.ei - 1 : con.buf[i % CONSOLE_BUF] # "LF"

(* A character that ends the line, or fills the ring, passes it on. *)
Commits(c, ei) == c \in {"LF", "EOT"} \/ ei - con.ri = CONSOLE_BUF

(* Fault: room is looked for behind the line only. *)
RoomInLine == con.ei - con.wi < CONSOLE_BUF

(* Room in the ring: what has not been read counts, committed or not. *)
Room == con.ei - con.ri < CONSOLE_BUF

(* console::intr, any other key: without room it is dropped. *)
Insert(key) ==
    LET c == IF key = "CR" THEN "LF" ELSE key
        commit == Commits(c, con.ei + 1)
    IN /\ echo' = <<<<"tty", c>>>>
       /\ con' = [con EXCEPT !.buf[con.ei % CONSOLE_BUF] = c, !.ei = @ + 1,
                             !.wi = IF commit THEN con.ei + 1 ELSE @]
       /\ line' = IF commit THEN <<>> ELSE Append(line, c)
       /\ input' = IF commit THEN input \o Append(line, c) ELSE input
       /\ rd' = IF commit THEN WakeReaders(rd) ELSE rd
Nothing == UNCHANGED <<con, rd, line, input, echo>>

(* A received key.  CTRL_P is a todo!: the handler panics with the lock of *)
(* the console held and its interrupt never completed.                     *)
Receive ==
    \E c \in Keys :
       /\ handler = "on" /\ rx # 0 /\ lock = "free"
       /\ rx' = rx - 1 /\ lock' = "intr"
       /\ \/ c = "BS_LINE" /\ EraseTo(LineStart)
          \/ c = "BS" /\ con.ei # con.wi /\ EraseTo(con.ei - 1)
          \/ c = "BS" /\ con.ei = con.wi /\ Nothing
          \/ c \notin {"BS", "BS_LINE", "CTRL_P"} /\ Room /\ Insert(c)
          \/ c \notin {"BS", "BS_LINE", "CTRL_P"} /\ ~Room /\ Nothing
          \/ c = "CTRL_P" /\ Nothing
       /\ handler' = IF c = "CTRL_P" THEN "panicked" ELSE handler
       /\ UNCHANGED <<killed, output, typed>>

(* putc_sync waits until the device is idle. *)
Echo ==
    /\ echo # <<>> /\ is_idle
    /\ fifo' = <<Head(echo)>> /\ echo' = Tail(echo)
    /\ UNCHANGED <<console, handler, uart, wr, owed, device>>
Received ==
    /\ handler = "on" /\ lock = "intr" /\ echo = <<>>
    /\ lock' = "free"
    /\ UNCHANGED <<con, rd, killed, line, input, handler, echo, output, device>>
Transmit ==
    /\ handler = "on" /\ rx = 0 /\ lock # "intr"
    /\ transmit(uart, wr, owed)
    /\ handler' = "off"
    /\ UNCHANGED <<console, echo, device>>

Next ==
    \/ Type
    \/ Drain \/ Interrupt \/ Receive \/ Echo \/ Received \/ Transmit
    \/ \E w \in Writers : Write(w) \/ Putc(w) \/ PutcSleep(w) \/ WriteStops(w)
    \/ \E r \in Readers : Read(r) \/ ReadSleep(r) \/ ReadWake(r) \/ ReadKilled(r) \/ ReadChar(r)
    \/ Kill

(* The device sends what it holds, a raised interrupt is taken, the        *)
(* handler runs on, and a process that can run does (Proc's QueuedRuns).   *)
Fairness ==
    /\ WF_vars(Drain) /\ WF_vars(Interrupt) /\ WF_vars(Transmit)
    /\ WF_vars(Receive) /\ WF_vars(Echo) /\ WF_vars(Received)
    /\ \A w \in Writers : WF_vars(Putc(w)) /\ WF_vars(PutcSleep(w))
    /\ \A r \in Readers : WF_vars(ReadChar(r)) /\ WF_vars(ReadSleep(r)) /\ WF_vars(ReadKilled(r))

Spec == Init /\ [][Next]_vars /\ Fairness

-----------------------------------------------------------------------------
(* The ring of the console holds exactly the input that has not been read: *)
(* the committed characters from ri to wi in the order they were typed,    *)
(* the line being edited from wi to ei, and nothing of either has been     *)
(* overwritten when the indices have gone round the ring.  A full ring has *)
(* been passed on: the reader is never left waiting for the end of a line  *)
(* that has no room left to be typed.                                      *)
InputKept ==
    LET cells(from, to) == [i \in 1 .. to - from |-> con.buf[(from + i - 1) % CONSOLE_BUF]]
    IN /\ con.ri <= con.wi /\ con.wi <= con.ei /\ con.ei <= con.ri + CONSOLE_BUF
       /\ cells(con.wi, con.ei) = line
       /\ cells(con.ri, con.wi) = input
       /\ con.ei - con.ri = CONSOLE_BUF => con.wi = con.ei

(* A reader sleeps only while nothing is committed and a writer only while *)
(* the transmit ring is full, although an EOT put back and a transmission  *)
(* by another writer change the rings without an interrupt.                *)
NoLostWakeup ==
    /\ \A r \in Readers : rd[r].pc = "asleep" => con.ri = con.wi
    /\ \A w \in Writers : wr[w].pc = "asleep" => Full(uart)

(* What writers write leaves the device once and in the order in which     *)
(* putc took it, whatever is echoed in between: the transmit queue and     *)
(* the ring hold exactly what is owed.                                     *)
OutputInOrder ==
    LET ring == [i \in 1 .. uart.wi - uart.ri |-> uart.buf[(uart.ri + i - 1) % UART_BUF]]
    IN SelectSeq(fifo, LAMBDA c : c[1] \in Writers) \o ring = owed

(* Every write finishes: its characters find room again and again, since   *)
(* each transmission wakes the sleepers and the idle device interrupts.    *)
(* Only a writer killed in its sleep, which is never queued again, and the *)
(* todo! of CTRL_P leave a write unfinished.                               *)
WritesFinish == \A w \in Writers :
    wr[w].pc = "next" ~> wr[w].pc \in {"done", "stuck"} \/ handler = "panicked"
=============================================================================
