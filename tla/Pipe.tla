-------------------------------- MODULE Pipe --------------------------------
(***************************************************************************)
(* The pipe of kernel/src/fs/file/pipe.rs: a ring buffer with wrapping     *)
(* counters, readers and writers that sleep on its two counters, the       *)
(* closing of its ends, and kill, which takes no lock.                     *)
(*                                                                         *)
(* read is one step between two sleeps.  write looks at `killed` for every *)
(* byte, so it is one step per byte with the lock held.  Bytes are         *)
(* numbered in the order in which writers put them in.                     *)
(***************************************************************************)
EXTENDS Integers, Sequences, FiniteSets

CONSTANTS Readers, Writers,  \* processes that use either end
          Killable,          \* those that somebody may kill
          None,              \* nobody
          PIPESIZE,          \* length of the ring buffer
          CntMod,            \* values of the wrapping counters (2^32)
          MaxCount,          \* largest count of a call
          MaxBytes           \* bound: no write begins after this many bytes

Procs == Readers \cup Writers

ASSUME PipeAssumption == /\ PIPESIZE \in Nat \ {0}
                         /\ CntMod \in Nat /\ CntMod > PIPESIZE
                         /\ MaxCount \in Nat /\ MaxBytes \in Nat
                         /\ Readers \cap Writers = {}
                         /\ Killable \subseteq Procs
                         /\ None \notin Procs

VARIABLES data,       \* PipeInner.data: the number of the byte in each cell
          readCnt, writeCnt, readOpen, writeOpen,
          life,       \* "none", "open", "dropped": the Arc<Pipe>
          lk,         \* the writer that holds the lock between two bytes
          pc,         \* "out" or "call"
          left,       \* bytes the call still wants
          asleep,     \* asleep on read_cnt (readers) or write_cnt (writers)
          stuck,      \* sleepers made RUNNABLE by kill and never scheduled
          killed,     \* Process.killed
          sent,       \* bytes put in so far
          taken,      \* bytes taken out so far
          got         \* the bytes the last read has taken

ring == <<data, readCnt, writeCnt>>
hist == <<sent, taken, got>>
ends == <<readOpen, writeOpen, life>>
calls == <<pc, left>>
vars == <<data, readCnt, writeCnt, readOpen, writeOpen, life, lk, pc, left,
          asleep, stuck, killed, sent, taken, got>>

Init == /\ data = [i \in 0 .. (PIPESIZE - 1) |-> 0]
        /\ readCnt = 0 /\ writeCnt = 0
        /\ readOpen = FALSE /\ writeOpen = FALSE
        /\ life = "none"
        /\ lk = None
        /\ pc = [p \in Procs |-> "out"]
        /\ left = [p \in Procs |-> 0]
        /\ asleep = {} /\ stuck = {} /\ killed = {}
        /\ sent = 0 /\ taken = 0 /\ got = <<>>

(* Wrapping addition to a counter, and the cell it points to. *)
Add(c, n) == (c + n) % CntMod
Cell(c) == c % PIPESIZE

Least(a, b) == IF a <= b THEN a ELSE b

(***************************************************************************)
(* create.  An Arc::try_new that fails drops the File it was given, which  *)
(* closes that end; then the pipe itself is dropped.                       *)
(***************************************************************************)
Create ==
    /\ life = "none"
    /\ \/ readOpen' = TRUE /\ writeOpen' = TRUE /\ life' = "open"
       \/ readOpen' = FALSE /\ writeOpen' = TRUE /\ life' = "dropped"
       \/ readOpen' = FALSE /\ writeOpen' = FALSE /\ life' = "dropped"
    /\ UNCHANGED <<ring, lk, calls, asleep, stuck, killed, hist>>

(* sys_pipe, which looks for two free descriptors first.  When they cannot *)
(* be copied out to the user, both files are dropped, and with them the    *)
(* pipe.                                                                   *)
SysPipe ==
    \/ Create
    \/ /\ life = "none"
       /\ readOpen' = FALSE /\ writeOpen' = FALSE /\ life' = "dropped"
       /\ UNCHANGED <<ring, lk, calls, asleep, stuck, killed, hist>>

Return(p) == pc' = [pc EXCEPT ![p] = "out"]

(* A process calls read or write on an end it has open. *)
Call(p, n) ==
    /\ life = "open"
    /\ pc[p] = "out" /\ p \notin killed
    /\ IF p \in Readers THEN readOpen ELSE writeOpen /\ sent < MaxBytes
    /\ pc' = [pc EXCEPT ![p] = "call"]
    /\ left' = [left EXCEPT ![p] = n]
    /\ UNCHANGED <<ring, ends, lk, asleep, stuck, killed, hist>>

(* A process that runs inside its call. *)
In(p) == pc[p] = "call" /\ p \notin asleep \cup stuck

-----------------------------------------------------------------------------
(***************************************************************************)
(* read.                                                                   *)
(***************************************************************************)
Unread == (writeCnt - readCnt) % CntMod
Empty == readCnt = writeCnt

(* sleep: a kill may come after the test of killed and before the process  *)
(* sleeps; it then sleeps all the same.                                    *)
Sleeps(p) == killed' \in {killed, killed \cup ({p} \cap Killable)}

(* The pipe is empty: give up when killed, else sleep on read_cnt. *)
ReadWait(p) ==
    /\ In(p) /\ p \in Readers
    /\ lk = None
    /\ Empty /\ writeOpen
    /\ \/ p \in killed /\ Return(p) /\ UNCHANGED <<asleep, killed>>
       \/ p \notin killed /\ asleep' = asleep \cup {p} /\ Sleeps(p) /\ UNCHANGED pc
    /\ UNCHANGED <<ring, ends, lk, left, stuck, hist>>

(* wakeup on write_cnt. *)
WakeWriters == asleep \ Writers

(* Copy out as much as there is, up to the count, or up to the byte where  *)
(* copy_out fails, which is consumed all the same; wake the writers.       *)
ReadCopy(p) ==
    /\ In(p) /\ p \in Readers
    /\ lk = None
    /\ ~Empty \/ ~writeOpen
    /\ LET count == Least(left[p], Unread) IN
       \E n \in Least(1, count) .. count :
           /\ readCnt' = Add(readCnt, n)
           /\ got' = [i \in 1 .. n |-> data[Cell(Add(readCnt, i - 1))]]
           /\ taken' = taken + n
    /\ asleep' = WakeWriters
    /\ Return(p)
    /\ UNCHANGED <<data, writeCnt, ends, lk, left, stuck, killed, sent>>

-----------------------------------------------------------------------------
(***************************************************************************)
(* write: its loop, one step per turn, with the lock held.                 *)
(***************************************************************************)
WriteLock(p) ==
    /\ In(p) /\ p \in Writers
    /\ lk = None
    /\ lk' = p
    /\ UNCHANGED <<ring, ends, calls, asleep, stuck, killed, hist>>

Writing(p) == lk = p /\ left[p] > 0
Aborts(p) == ~readOpen \/ p \in killed

(* Fault: one byte too many fits into the buffer. *)
FullLate == writeCnt = Add(readCnt, PIPESIZE + 1)

Full == writeCnt = Add(readCnt, PIPESIZE)

(* wakeup on read_cnt. *)
WakeReaders == asleep \ Readers

(* The read end is closed or the writer killed: Err, and nobody is woken. *)
WriteAbort(p) ==
    /\ Writing(p) /\ Aborts(p)
    /\ lk' = None
    /\ Return(p)
    /\ UNCHANGED <<ring, ends, left, asleep, stuck, killed, hist>>

(* Fault: the writer does not wake the readers before it sleeps. *)
WriteWaitSilent(p) ==
    /\ Writing(p) /\ ~Aborts(p) /\ Full
    /\ asleep' = asleep \cup {p}
    /\ lk' = None
    /\ UNCHANGED <<ring, ends, calls, stuck, killed, hist>>

(* The buffer is full: wake the readers and sleep on write_cnt. *)
WriteWait(p) ==
    /\ Writing(p) /\ ~Aborts(p) /\ Full
    /\ asleep' = WakeReaders \cup {p} /\ Sleeps(p)
    /\ lk' = None
    /\ UNCHANGED <<ring, ends, calls, stuck, hist>>

(* One byte. *)
WriteByte(p) ==
    /\ Writing(p) /\ ~Aborts(p) /\ ~Full
    /\ data' = [data EXCEPT ![Cell(writeCnt)] = sent + 1]
    /\ writeCnt' = Add(writeCnt, 1)
    /\ sent' = sent + 1
    /\ left' = [left EXCEPT ![p] = @ - 1]
    /\ UNCHANGED <<readCnt, ends, lk, pc, asleep, stuck, killed, taken, got>>

(* The count is reached, or copy_in fails: wake the readers and return. *)
WriteEnd(p) ==
    /\ lk = p
    /\ left[p] = 0 \/ (~Aborts(p) /\ ~Full)
    /\ asleep' = WakeReaders
    /\ lk' = None
    /\ Return(p)
    /\ UNCHANGED <<ring, ends, left, stuck, killed, hist>>

-----------------------------------------------------------------------------
(* The File of an end is dropped once no process uses it any more. *)
NotUsed(S) == lk = None /\ life = "open" /\ \A p \in S : pc[p] = "out"

(* Fault: the readers are not woken. *)
CloseWriteSilent ==
    /\ NotUsed(Writers) /\ writeOpen
    /\ writeOpen' = FALSE
    /\ life' = IF readOpen THEN life ELSE "dropped"
    /\ UNCHANGED <<ring, readOpen, lk, calls, asleep, stuck, killed, hist>>

CloseWrite ==
    /\ NotUsed(Writers) /\ writeOpen
    /\ writeOpen' = FALSE
    /\ life' = IF readOpen THEN life ELSE "dropped"
    /\ asleep' = WakeReaders
    /\ UNCHANGED <<ring, readOpen, lk, calls, stuck, killed, hist>>

CloseRead ==
    /\ NotUsed(Readers) /\ readOpen
    /\ readOpen' = FALSE
    /\ life' = IF writeOpen THEN life ELSE "dropped"
    /\ asleep' = WakeWriters
    /\ UNCHANGED <<ring, writeOpen, lk, calls, stuck, killed, hist>>

(* PROC_MANAGER.kill takes neither the pipe's lock nor the trouble to      *)
(* queue a sleeper.                                                        *)
Kill(p) ==
    /\ p \in Killable \ killed
    /\ killed' = killed \cup {p}
    /\ asleep' = asleep \ {p}
    /\ stuck' = IF p \in asleep THEN stuck \cup {p} ELSE stuck
    /\ UNCHANGED <<ring, ends, lk, calls, hist>>

-----------------------------------------------------------------------------
Step(p) == \/ ReadWait(p) \/ ReadCopy(p)
           \/ WriteLock(p) \/ WriteAbort(p) \/ WriteWait(p) \/ WriteByte(p) \/ WriteEnd(p)

Next == \/ SysPipe
        \/ \E p \in Procs : \/ \E n \in 0 .. MaxCount : Call(p, n)
                            \/ Step(p)
                            \/ Kill(p)
        \/ CloseWrite
        \/ CloseRead

Spec == Init /\ [][Next]_vars

(* A process inside a call goes on, and gets the lock among others that    *)
(* take it again and again.                                                *)
FairSpec == Spec /\ \A p \in Procs : SF_vars(Step(p))

-----------------------------------------------------------------------------
(***************************************************************************)
(* Properties.                                                             *)
(***************************************************************************)

(* Every variable has its type. *)
TypeOK ==
    /\ data \in [0 .. (PIPESIZE - 1) -> Nat]
    /\ readCnt \in 0 .. (CntMod - 1) /\ writeCnt \in 0 .. (CntMod - 1)
    /\ readOpen \in BOOLEAN /\ writeOpen \in BOOLEAN
    /\ life \in {"none", "open", "dropped"}
    /\ lk \in Procs \cup {None}
    /\ pc \in [Procs -> {"out", "call"}]
    /\ left \in [Procs -> Nat]
    /\ asleep \subseteq Procs /\ stuck \subseteq Procs /\ killed \subseteq Procs
    /\ sent \in Nat /\ taken \in Nat /\ got \in Seq(Nat)

(* Byte k (the first is byte 0) is further than a buffer away from the     *)
(* next wrap of the counters, or no wrap moves the cells: PIPESIZE divides *)
(* the number of their values.  The code's 454 does not divide 2^32.       *)
FarFromWrap(k) == CntMod % PIPESIZE = 0 \/ (k % CntMod) + PIPESIZE <= CntMod

(* The counters always tell the bytes put in from those taken out, and no  *)
(* more than the buffer holds is ever unread; readers together get the     *)
(* bytes in the order in which they were put in, each once, and the bytes  *)
(* between the counters are in their cells, none overwritten: PipeInner's  *)
(* wrapping counters "构成环形缓冲区读指针" (make up the read pointer of a  *)
(* ring buffer).  The bytes that may be lost, whatever the readers and     *)
(* writers do, are the last ones before a counter wraps.                   *)
BytesInOrder ==
    /\ taken <= sent /\ sent - taken <= PIPESIZE
    /\ Unread = sent - taken
    /\ \A i \in 1 .. Len(got) :
          FarFromWrap(taken - Len(got) + i - 1) => got[i] = taken - Len(got) + i
    /\ \A k \in 1 .. (sent - taken) :
          FarFromWrap(taken + k - 1) => data[Cell(Add(readCnt, k - 1))] = taken + k

(* A reader sleeps only while there is nothing to read and somebody may    *)
(* still write, a writer only while there is no room and somebody may      *)
(* still read; and never do a reader and a writer sleep on each other.     *)
(* The first part is stated without killed writers: see NoSleepOnData.     *)
NoLostWakeup ==
    lk = None =>
        /\ \A p \in asleep :
              IF p \in Readers THEN (Empty \/ killed \cap Writers # {}) /\ writeOpen
                               ELSE Full /\ readOpen
        /\ asleep \cap Readers = {} \/ asleep \cap Writers = {}

(* read sleeps "直到有数据可读或写端关闭" (until there is data or the write  *)
(* end is closed).                                                         *)
NoSleepOnData == lk = None => \A p \in asleep \cap Readers : Empty

(* Drop for Pipe: debug_assert that both ends have been closed. *)
DropAssert == life = "dropped" => readOpen = writeOpen

(* A call returns once the other end has been closed. *)
CloseEndsCalls ==
    /\ \A p \in Readers : pc[p] = "call" /\ ~writeOpen ~> pc[p] = "out" \/ p \in killed
    /\ \A p \in Writers : pc[p] = "call" /\ ~readOpen ~> pc[p] = "out" \/ p \in killed
=============================================================================
