----------------------------- MODULE PipeProofs -----------------------------
(***************************************************************************)
(* Proofs about the pipe for any readers and writers, any size of the ring *)
(* buffer, any width of its counters and any counts: the bytes keep their  *)
(* order, and nobody sleeps without a reason.                              *)
(***************************************************************************)
EXTENDS Pipe, TLAPS

(* Division with remainder. *)
LEMMA DivMod ==
  ASSUME NEW a \in Int, NEW n \in Nat \ {0}
  PROVE  \E q \in Int, r \in 0 .. (n - 1) : a = n * q + r /\ a % n = r
OBVIOUS

(* The remainder is unique. *)
LEMMA ModIs ==
  ASSUME NEW n \in Nat \ {0}, NEW q \in Int, NEW r \in 0 .. (n - 1),
         NEW a \in Int, a = n * q + r
  PROVE  a % n = r
OBVIOUS

(* A number below the modulus is its own remainder. *)
LEMMA ModSmall == ASSUME NEW n \in Nat \ {0}, NEW a \in 0 .. (n - 1) PROVE a % n = a
OBVIOUS

(* A multiple of the modulus does not change the remainder. *)
LEMMA ModShift ==
  ASSUME NEW n \in Nat \ {0}, NEW q \in Int, NEW a \in Int
  PROVE  (n * q + a) % n = a % n
<1>1. PICK k \in Int, r \in 0 .. (n - 1) : a = n * k + r /\ a % n = r  BY DivMod
<1> DEFINE b == n * q + a
           j == q + k
<1>2. b = n * j + r /\ j \in Int /\ b \in Int  BY <1>1
<1> HIDE DEF b, j
<1>3. b % n = r  BY <1>2, ModIs
<1> QED  BY <1>1, <1>3 DEF b

(* Adding to a counter that has wrapped. *)
LEMMA ModAdd ==
  ASSUME NEW n \in Nat \ {0}, NEW a \in Int, NEW b \in Int
  PROVE  ((a % n) + b) % n = (a + b) % n
<1>1. PICK k \in Int, r \in 0 .. (n - 1) : a = n * k + r /\ a % n = r  BY DivMod
<1> DEFINE c == r + b
<1>2. a + b = n * k + c /\ c \in Int  BY <1>1
<1> HIDE DEF c
<1>3. (n * k + c) % n = c % n  BY <1>2, ModShift
<1> QED  BY <1>1, <1>2, <1>3 DEF c

(* The cell of a counter that has wrapped, when the size of the buffer     *)
(* divides the number of values of the counter.                            *)
LEMMA ModMod ==
  ASSUME NEW n \in Nat \ {0}, NEW m \in Nat \ {0}, m % n = 0, NEW a \in Int
  PROVE  (a % m) % n = a % n
<1>1. PICK k \in Int, r \in 0 .. (m - 1) : a = m * k + r /\ a % m = r  BY DivMod
<1>2. PICK j \in Int : m = n * j  BY DivMod
<1> DEFINE i == j * k
<1>3. i \in Int /\ m * k = n * i  BY <1>1, <1>2
<1> HIDE DEF i
<1>4. a = n * i + r /\ r \in Int  BY <1>1, <1>3
<1>5. (n * i + r) % n = r % n  BY <1>3, <1>4, ModShift
<1> QED  BY <1>1, <1>4, <1>5

(* Numbers less than the modulus apart have different remainders: no two   *)
(* entries of a ring share a cell, and full and empty can be told apart.   *)
LEMMA ModApart ==
  ASSUME NEW n \in Nat \ {0}, NEW a \in Int, NEW b \in Int, a < b, b < a + n
  PROVE  a % n # b % n
<1>1. PICK k \in Int, r \in 0 .. (n - 1) : a = n * k + r /\ a % n = r  BY DivMod
<1>2. PICK j \in Int, s \in 0 .. (n - 1) : b = n * j + s /\ b % n = s  BY DivMod
<1> SUFFICES ASSUME r = s PROVE FALSE  BY <1>1, <1>2
<1> DEFINE d == j - k
<1>3. b - a = n * d /\ d \in Int  BY <1>1, <1>2
<1> HIDE DEF d
<1>4. d <= 0 \/ d >= 1  BY <1>3
<1>5. d <= 0 => n * d <= 0  BY <1>3
<1>6. d >= 1 => n * d >= n  BY <1>3
<1> QED  BY <1>3, <1>4, <1>5, <1>6

-----------------------------------------------------------------------------
(* A counter keeps within its range. *)
LEMMA AddType ==
  ASSUME NEW c \in Int, NEW n \in Int
  PROVE  Add(c, n) \in 0 .. (CntMod - 1)
<1>1. c + n \in Int /\ CntMod \in Nat \ {0}  BY PipeAssumption
<1>2. (c + n) % CntMod \in 0 .. (CntMod - 1)  BY <1>1, DivMod
<1> QED  BY <1>2 DEF Add

(* A cell is one of the buffer's. *)
LEMMA CellType == ASSUME NEW c \in Int PROVE Cell(c) \in 0 .. (PIPESIZE - 1)
<1>1. PIPESIZE \in Nat \ {0}  BY PipeAssumption
<1>2. c % PIPESIZE \in 0 .. (PIPESIZE - 1)  BY <1>1, DivMod
<1> QED  BY <1>2 DEF Cell

-----------------------------------------------------------------------------
USE DEF ring, hist, ends, calls

(* Initially every variable has its type, and every step keeps it so. *)
LEMMA TypeInit == Init => TypeOK
BY PipeAssumption DEF Init, TypeOK

LEMMA TypeStep == TypeOK /\ [Next]_vars => TypeOK'
<1> SUFFICES ASSUME TypeOK, [Next]_vars PROVE TypeOK'  OBVIOUS
<1> USE PipeAssumption DEF TypeOK, Procs
<1>0. readCnt \in Nat /\ writeCnt \in Nat  OBVIOUS
<1>1. CASE SysPipe  BY <1>1 DEF SysPipe, Create
<1>2. ASSUME NEW p \in Procs, NEW n \in 0 .. MaxCount, Call(p, n) PROVE TypeOK'
  BY <1>2 DEF Call
<1>3. ASSUME NEW p \in Procs, ReadWait(p) PROVE TypeOK'
  BY <1>3 DEF ReadWait, Return, Sleeps
<1>4. ASSUME NEW p \in Procs, ReadCopy(p) PROVE TypeOK'
  <2>1. Unread \in Nat
    <3>1. writeCnt - readCnt \in Int /\ CntMod \in Nat \ {0}  OBVIOUS
    <3>2. (writeCnt - readCnt) % CntMod \in 0 .. (CntMod - 1)  BY <3>1, DivMod
    <3> QED  BY <3>2 DEF Unread
  <2>2. PICK n \in Least(1, Least(left[p], Unread)) .. Least(left[p], Unread) :
           /\ readCnt' = Add(readCnt, n)
           /\ got' = [i \in 1 .. n |-> data[Cell(Add(readCnt, i - 1))]]
           /\ taken' = taken + n
    BY <1>4 DEF ReadCopy
  <2>3. n \in Nat  BY <2>1, <2>2 DEF Least
  <2>4. got' \in Seq(Nat)
    <3>1. ASSUME NEW i \in 1 .. n PROVE data[Cell(Add(readCnt, i - 1))] \in Nat
      <4>1. readCnt \in Int /\ i - 1 \in Int  BY <1>0, <2>3
      <4>2. Add(readCnt, i - 1) \in Int  BY <4>1, AddType
      <4>3. Cell(Add(readCnt, i - 1)) \in 0 .. (PIPESIZE - 1)  BY <4>2, CellType
      <4> QED  BY <4>3
    <3> QED  BY <2>2, <2>3, <3>1
  <2>5. readCnt' \in 0 .. (CntMod - 1)  BY <2>2, <2>3, <1>0, AddType
  <2>6. taken' \in Nat  BY <2>2, <2>3
  <2>7. pc' \in [Procs -> {"out", "call"}]  BY <1>4 DEF ReadCopy, Return
  <2> QED  BY <1>4, <2>4, <2>5, <2>6, <2>7 DEF ReadCopy, WakeWriters
<1>5. ASSUME NEW p \in Procs, WriteLock(p) PROVE TypeOK'
  BY <1>5 DEF WriteLock
<1>6. ASSUME NEW p \in Procs, WriteAbort(p) PROVE TypeOK'
  BY <1>6 DEF WriteAbort, Return
<1>7. ASSUME NEW p \in Procs, WriteWait(p) PROVE TypeOK'
  BY <1>7 DEF WriteWait, WakeReaders, Sleeps
<1>8. ASSUME NEW p \in Procs, WriteByte(p) PROVE TypeOK'
  <2>1. writeCnt' \in 0 .. (CntMod - 1)  BY <1>8, <1>0, AddType DEF WriteByte
  <2>2. left' \in [Procs -> Nat]  BY <1>8 DEF WriteByte, Writing
  <2>3. data' \in [0 .. (PIPESIZE - 1) -> Nat]
    <3>1. data' = [data EXCEPT ![Cell(writeCnt)] = sent + 1]  BY <1>8 DEF WriteByte
    <3>2. sent + 1 \in Nat  OBVIOUS
    <3> QED  BY <3>1, <3>2
  <2>4. sent' \in Nat  BY <1>8 DEF WriteByte
  <2> QED  BY <1>8, <2>1, <2>2, <2>3, <2>4 DEF WriteByte
<1>9. ASSUME NEW p \in Procs, WriteEnd(p) PROVE TypeOK'
  BY <1>9 DEF WriteEnd, WakeReaders, Return
<1>10. CASE CloseWrite  BY <1>10 DEF CloseWrite, WakeReaders
<1>11. CASE CloseRead  BY <1>11 DEF CloseRead, WakeWriters
<1>12. ASSUME NEW p \in Procs, Kill(p) PROVE TypeOK'
  BY <1>12 DEF Kill
<1>13. CASE UNCHANGED vars  BY <1>13 DEF vars
<1> QED  BY <1>1, <1>2, <1>3, <1>4, <1>5, <1>6, <1>7, <1>8, <1>9, <1>10, <1>11,
            <1>12, <1>13 DEF Next, Step

(* Every variable of the pipe has its type in every reachable state. *)
THEOREM PipeTypeCorrect == Spec => []TypeOK
BY TypeInit, TypeStep, PTL DEF Spec

-----------------------------------------------------------------------------
(***************************************************************************)
(* The bytes.  The counters are the numbers of bytes taken and sent, cut   *)
(* to the width of a counter, and byte k goes to the cell of k cut to that *)
(* width.  Whether that cell is still its own when the next bytes come     *)
(* depends on how far k is from the wrap.                                  *)
(***************************************************************************)
RingInv ==
    /\ readCnt = taken % CntMod /\ writeCnt = sent % CntMod
    /\ taken <= sent /\ sent <= taken + PIPESIZE
    /\ \A k \in taken .. (sent - 1) : FarFromWrap(k) => data[Cell(k % CntMod)] = k + 1
    /\ \A i \in 1 .. Len(got) :
          FarFromWrap(taken - Len(got) + i - 1) => got[i] = taken - Len(got) + i

(* A byte far from the wrap shares its cell with none of those that may    *)
(* come while it is in the buffer.                                         *)
LEMMA CellApart ==
  ASSUME NEW k \in Nat, FarFromWrap(k), NEW m \in Nat, k < m, m < k + PIPESIZE
  PROVE  Cell(k % CntMod) # Cell(m % CntMod)
<1>1. /\ CntMod \in Nat \ {0} /\ PIPESIZE \in Nat \ {0} /\ PIPESIZE < CntMod
      /\ k \in Int /\ m \in Int
  BY PipeAssumption
<1>2. CASE CntMod % PIPESIZE = 0
  <2>1. (k % CntMod) % PIPESIZE = k % PIPESIZE  BY <1>1, <1>2, ModMod
  <2>2. (m % CntMod) % PIPESIZE = m % PIPESIZE  BY <1>1, <1>2, ModMod
  <2>3. k % PIPESIZE # m % PIPESIZE  BY <1>1, ModApart
  <2> QED  BY <2>1, <2>2, <2>3 DEF Cell
<1>3. CASE (k % CntMod) + PIPESIZE <= CntMod
  <2>1. PICK q \in Int, r \in 0 .. (CntMod - 1) : k = CntMod * q + r /\ k % CntMod = r
    BY <1>1, DivMod
  <2> DEFINE s == r + (m - k)
  <2>2. m = CntMod * q + s /\ s \in 0 .. (CntMod - 1) /\ r < s /\ s < r + PIPESIZE
    BY <1>1, <1>3, <2>1
  <2> HIDE DEF s
  <2>3. m % CntMod = s  BY <1>1, <2>1, <2>2, ModIs
  <2>4. r \in Int /\ s \in Int  BY <1>1, <2>1, <2>2
  <2>5. r % PIPESIZE # s % PIPESIZE  BY <1>1, <2>2, <2>4, ModApart
  <2> QED  BY <2>1, <2>3, <2>5 DEF Cell
<1> QED  BY <1>2, <1>3 DEF FarFromWrap

(* The cells read takes the bytes from: add to the wrapped read_cnt. *)
LEMMA CellOfRead ==
  ASSUME TypeOK, RingInv, NEW i \in Nat
  PROVE  Add(readCnt, i - 1) = (taken + i - 1) % CntMod
<1>1. taken \in Int /\ i - 1 \in Int /\ CntMod \in Nat \ {0}  BY PipeAssumption DEF TypeOK
<1>2. ((taken % CntMod) + (i - 1)) % CntMod = (taken + (i - 1)) % CntMod
  BY <1>1, ModAdd
<1>3. taken + (i - 1) = taken + i - 1  BY <1>1
<1> QED  BY <1>2, <1>3 DEF Add, RingInv

(* What the counters tell of the contents: empty, full, the bytes unread. *)
LEMMA RingCounts ==
  ASSUME TypeOK, RingInv
  PROVE  /\ Empty <=> sent = taken
         /\ Full <=> sent = taken + PIPESIZE
         /\ Unread = sent - taken
<1>1. /\ CntMod \in Nat \ {0} /\ PIPESIZE \in Nat \ {0} /\ PIPESIZE < CntMod
      /\ taken \in Nat /\ sent \in Nat /\ taken <= sent /\ sent <= taken + PIPESIZE
  BY PipeAssumption DEF TypeOK, RingInv
<1>2. /\ taken \in Int /\ sent \in Int /\ taken + PIPESIZE \in Int /\ -taken \in Int
      /\ PIPESIZE \in Int /\ 0 \in Int
  BY <1>1
<1>3. taken < sent => taken % CntMod # sent % CntMod
  <2>1. sent < taken + CntMod  BY <1>1
  <2> QED  BY <1>1, <1>2, <2>1, ModApart
<1>4. sent < taken + PIPESIZE => sent % CntMod # (taken + PIPESIZE) % CntMod
  <2> SUFFICES ASSUME sent < taken + PIPESIZE
               PROVE  sent % CntMod # (taken + PIPESIZE) % CntMod
    OBVIOUS
  <2> DEFINE b == taken + PIPESIZE
  <2>1. sent < b /\ b < sent + CntMod /\ b \in Int  BY <1>1
  <2> HIDE DEF b
  <2>2. sent % CntMod # b % CntMod  BY <1>1, <1>2, <2>1, ModApart
  <2> QED  BY <2>2 DEF b
<1>5. Add(readCnt, PIPESIZE) = (taken + PIPESIZE) % CntMod
  <2>1. ((taken % CntMod) + PIPESIZE) % CntMod = (taken + PIPESIZE) % CntMod
    BY <1>1, <1>2, ModAdd
  <2> QED  BY <2>1 DEF Add, RingInv
<1>6. Unread = sent - taken
  <2>1. PICK q \in Int, r \in 0 .. (CntMod - 1) : taken = CntMod * q + r /\ taken % CntMod = r
    BY <1>1, <1>2, DivMod
  <2>2. PICK k \in Int, s \in 0 .. (CntMod - 1) : sent = CntMod * k + s /\ sent % CntMod = s
    BY <1>1, <1>2, DivMod
  <2> DEFINE d == s - r
             m == q - k
             u == sent - taken
  <2>3. d = CntMod * m + u /\ d \in Int /\ m \in Int /\ u \in 0 .. (CntMod - 1)
    BY <1>1, <2>1, <2>2
  <2>4. Unread = d % CntMod  BY <2>1, <2>2 DEF Unread, RingInv
  <2> HIDE DEF d, m, u
  <2>5. d % CntMod = u  BY <1>1, <2>3, ModIs
  <2> QED  BY <2>4, <2>5 DEF u
<1>7. Empty <=> sent = taken  BY <1>1, <1>3 DEF Empty, RingInv
<1>8. Full <=> sent = taken + PIPESIZE
  <2>1. Full <=> sent % CntMod = (taken + PIPESIZE) % CntMod  BY <1>5 DEF Full, RingInv
  <2> QED  BY <1>1, <1>4, <2>1
<1> QED  BY <1>6, <1>7, <1>8

(* Initially the buffer is empty. *)
LEMMA RingInit == Init => RingInv
<1> SUFFICES ASSUME Init PROVE RingInv  OBVIOUS
<1>1. CntMod \in Nat \ {0} /\ PIPESIZE \in Nat \ {0}  BY PipeAssumption
<1>2. 0 = CntMod * 0 + 0 /\ 0 \in Int /\ 0 \in 0 .. (CntMod - 1)  BY <1>1
<1>3. 0 % CntMod = 0  BY <1>1, <1>2, ModIs
<1> QED  BY <1>1, <1>3 DEF Init, RingInv

(* read takes the oldest bytes, in order. *)
LEMMA ReadCopyRing ==
  ASSUME TypeOK, RingInv, NEW p \in Procs, ReadCopy(p)
  PROVE  RingInv'
<1> USE DEF TypeOK
<1>1. Unread = sent - taken  BY RingCounts
<1>2. taken <= sent /\ sent <= taken + PIPESIZE /\ PIPESIZE \in Nat  BY PipeAssumption DEF RingInv
<1>3. PICK n \in Least(1, Least(left[p], Unread)) .. Least(left[p], Unread) :
         /\ readCnt' = Add(readCnt, n)
         /\ got' = [i \in 1 .. n |-> data[Cell(Add(readCnt, i - 1))]]
         /\ taken' = taken + n
  BY DEF ReadCopy
<1>4. n \in Nat /\ n <= sent - taken  BY <1>1, <1>2 DEF Least
<1>5. UNCHANGED <<data, writeCnt, sent>>  BY DEF ReadCopy
<1>6. readCnt' = taken' % CntMod
  <2>1. CntMod \in Nat \ {0} /\ taken \in Int /\ n \in Int  BY <1>4, PipeAssumption
  <2>2. ((taken % CntMod) + n) % CntMod = (taken + n) % CntMod  BY <2>1, ModAdd
  <2> QED  BY <1>3, <2>2 DEF Add, RingInv
<1>7. Len(got') = n  BY <1>3, <1>4
<1>8. ASSUME NEW i \in 1 .. n, FarFromWrap(taken' - n + i - 1)
      PROVE  got'[i] = taken' - n + i
  <2>1. i \in Nat /\ n \in Nat /\ taken' = taken + n  BY <1>3, <1>4
  <2> DEFINE k == taken + i - 1
  <2>2. k = taken' - n + i - 1 /\ k + 1 = taken' - n + i /\ k \in taken .. (sent - 1)
    BY <1>4, <2>1
  <2>3. Add(readCnt, i - 1) = k % CntMod  BY <2>1, CellOfRead
  <2> HIDE DEF k
  <2>4. data[Cell(k % CntMod)] = k + 1  BY <1>8, <2>2 DEF RingInv
  <2>5. got'[i] = data[Cell(Add(readCnt, i - 1))]  BY <1>3
  <2> QED  BY <2>2, <2>3, <2>4, <2>5
<1>9. ASSUME NEW k \in taken' .. (sent' - 1), FarFromWrap(k)
      PROVE  data'[Cell(k % CntMod)] = k + 1
  <2>1. k \in taken .. (sent - 1)  BY <1>3, <1>4, <1>5
  <2> QED  BY <1>5, <1>9, <2>1 DEF RingInv
<1>10. taken' <= sent' /\ sent' <= taken' + PIPESIZE  BY <1>2, <1>3, <1>4, <1>5
<1>11. writeCnt' = sent' % CntMod  BY <1>5 DEF RingInv
<1> QED  BY <1>6, <1>7, <1>8, <1>9, <1>10, <1>11 DEF RingInv

(* write puts a byte into a cell that holds no byte still to be read. *)
LEMMA WriteByteRing ==
  ASSUME TypeOK, RingInv, NEW p \in Procs, WriteByte(p)
  PROVE  RingInv'
<1> USE DEF TypeOK
<1>1. sent # taken + PIPESIZE  BY RingCounts DEF WriteByte
<1>2. /\ taken <= sent /\ sent < taken + PIPESIZE /\ PIPESIZE \in Nat \ {0}
      /\ CntMod \in Nat \ {0} /\ sent \in Int /\ 1 \in Int
  BY <1>1, PipeAssumption DEF RingInv
<1>3. /\ data' = [data EXCEPT ![Cell(writeCnt)] = sent + 1]
      /\ writeCnt' = Add(writeCnt, 1) /\ sent' = sent + 1
      /\ UNCHANGED <<readCnt, taken, got>>
  BY DEF WriteByte
<1>4. writeCnt' = sent' % CntMod
  <2>1. ((sent % CntMod) + 1) % CntMod = (sent + 1) % CntMod  BY <1>2, ModAdd
  <2> QED  BY <1>3, <2>1 DEF Add, RingInv
<1>5. ASSUME NEW k \in taken' .. (sent' - 1), FarFromWrap(k)
      PROVE  data'[Cell(k % CntMod)] = k + 1
  <2>1. k \in Nat /\ k \in Int /\ k \in taken .. sent  BY <1>2, <1>3
  <2>2. Cell(writeCnt) = Cell(sent % CntMod)  BY DEF RingInv
  <2>3. k % CntMod \in Int /\ sent % CntMod \in Int  BY <1>2, <2>1, DivMod
  <2>4. /\ Cell(k % CntMod) \in 0 .. (PIPESIZE - 1)
        /\ Cell(sent % CntMod) \in 0 .. (PIPESIZE - 1)
    BY <2>3, CellType
  <2>5. CASE k = sent  BY <1>3, <2>2, <2>4, <2>5
  <2>6. CASE k # sent
    <3>1. k \in taken .. (sent - 1) /\ k < sent /\ sent < k + PIPESIZE /\ sent \in Nat
      BY <1>2, <2>1, <2>6
    <3>2. Cell(k % CntMod) # Cell(sent % CntMod)  BY <1>5, <2>1, <3>1, CellApart
    <3>3. data'[Cell(k % CntMod)] = data[Cell(k % CntMod)]  BY <1>3, <2>2, <2>4, <3>2
    <3>4. data[Cell(k % CntMod)] = k + 1  BY <1>5, <3>1 DEF RingInv
    <3> QED  BY <3>3, <3>4
  <2> QED  BY <2>5, <2>6
<1>6. \A i \in 1 .. Len(got') :
         FarFromWrap(taken' - Len(got') + i - 1) => got'[i] = taken' - Len(got') + i
  BY <1>3 DEF RingInv
<1>7. taken' <= sent' /\ sent' <= taken' + PIPESIZE  BY <1>2, <1>3
<1> QED  BY <1>3, <1>4, <1>5, <1>6, <1>7 DEF RingInv

(* No other step touches the bytes. *)
LEMMA RingStep == TypeOK /\ RingInv /\ [Next]_vars => RingInv'
<1> SUFFICES ASSUME TypeOK, RingInv, [Next]_vars PROVE RingInv'  OBVIOUS
<1>1. ASSUME NEW p \in Procs, ReadCopy(p) PROVE RingInv'  BY <1>1, ReadCopyRing
<1>2. ASSUME NEW p \in Procs, WriteByte(p) PROVE RingInv'  BY <1>2, WriteByteRing
<1>3. CASE UNCHANGED <<ring, hist>>  BY <1>3 DEF RingInv
<1>4. \/ UNCHANGED <<ring, hist>>
      \/ \E p \in Procs : ReadCopy(p) \/ WriteByte(p)
  BY DEF Next, Step, vars, SysPipe, Create, Call, ReadWait, WriteLock, WriteAbort,
         WriteWait, WriteEnd, CloseWrite, CloseRead, Kill
<1> QED  BY <1>1, <1>2, <1>3, <1>4

(* What the invariant on the counters says of the bytes. *)
LEMMA RingOrder == TypeOK /\ RingInv => BytesInOrder
<1> SUFFICES ASSUME TypeOK, RingInv PROVE BytesInOrder  OBVIOUS
<1>1. Unread = sent - taken  BY RingCounts
<1>2. taken <= sent /\ sent - taken <= PIPESIZE
  BY PipeAssumption DEF TypeOK, RingInv
<1>3. ASSUME NEW i \in 1 .. (sent - taken), FarFromWrap(taken + i - 1)
      PROVE  data[Cell(Add(readCnt, i - 1))] = taken + i
  <2>1. i \in Nat /\ taken \in Nat /\ sent \in Nat  BY DEF TypeOK
  <2> DEFINE k == taken + i - 1
  <2>2. k + 1 = taken + i /\ k \in taken .. (sent - 1)  BY <2>1
  <2>3. Add(readCnt, i - 1) = k % CntMod  BY <2>1, CellOfRead
  <2>4. FarFromWrap(k)  BY <1>3
  <2> HIDE DEF k
  <2>5. data[Cell(k % CntMod)] = k + 1  BY <2>2, <2>4 DEF RingInv
  <2> QED  BY <2>2, <2>3, <2>5
<1> QED  BY <1>1, <1>2, <1>3 DEF BytesInOrder, RingInv

(* For any sizes of the buffer and of the counters: the counters tell how  *)
(* many bytes are unread, never more than the buffer holds, and every byte *)
(* leaves the pipe in the order in which it was put in, once, and is not   *)
(* overwritten before it is read, unless it is one of the PIPESIZE - 1     *)
(* last before read_cnt and write_cnt wrap and PIPESIZE does not divide    *)
(* the number of their values.                                             *)
THEOREM PipeBytesInOrder == Spec => []BytesInOrder
<1>1. TypeOK /\ RingInv => BytesInOrder  BY RingOrder
<1> QED  BY TypeInit, TypeStep, RingInit, RingStep, <1>1, PTL DEF Spec

-----------------------------------------------------------------------------
(***************************************************************************)
(* The sleepers.  NoLostWakeup speaks of the moments when nobody holds the *)
(* lock; between them a writer may have put bytes in and not yet woken the *)
(* readers.  That it will is only certain while it has not been killed:    *)
(* the abort in the middle of write wakes nobody.                          *)
(***************************************************************************)
SleepInv ==
    /\ \A p \in Procs : pc[p] = "call" =>
          life = "open" /\ IF p \in Readers THEN readOpen ELSE writeOpen
    /\ \A p \in asleep : pc[p] = "call"
    /\ lk # None => lk \in Writers /\ pc[lk] = "call" /\ lk \notin asleep
    /\ \A p \in asleep \cap Readers :
          writeOpen /\ (Empty \/ lk # None \/ killed \cap Writers # {})
    /\ \A p \in asleep \cap Writers : Full /\ readOpen
    /\ asleep \cap Readers = {} \/ asleep \cap Writers = {}

(* Each step of the pipe keeps it so. *)
LEMMA SleepStep == TypeOK /\ RingInv /\ SleepInv /\ [Next]_vars => SleepInv'
<1> SUFFICES ASSUME TypeOK, RingInv, SleepInv, [Next]_vars PROVE SleepInv'  OBVIOUS
<1>0. ~(Empty /\ Full)
  <2>1. sent \in Nat /\ taken \in Nat /\ PIPESIZE \in Nat \ {0}
    BY PipeAssumption DEF TypeOK
  <2>2. ~(sent = taken /\ sent = taken + PIPESIZE)  BY <2>1
  <2> QED  BY <2>2, RingCounts
<1> USE PipeAssumption DEF SleepInv, Procs, TypeOK
<1>1. CASE SysPipe  BY <1>1 DEF SysPipe, Create, Empty, Full, Add
<1>2. ASSUME NEW p \in Procs, NEW n \in 0 .. MaxCount, Call(p, n) PROVE SleepInv'
  BY <1>2 DEF Call, Empty, Full, Add
<1>3. ASSUME NEW p \in Procs, ReadWait(p) PROVE SleepInv'
  <2>1. UNCHANGED <<readCnt, writeCnt, readOpen, writeOpen, life, lk>> /\ lk = None
    BY <1>3 DEF ReadWait
  <2>2. Empty /\ Empty' /\ ~Full /\ ~Full' /\ writeOpen /\ In(p) /\ p \in Readers
    BY <1>0, <1>3 DEF ReadWait, Empty, Full, Add
  <2> QED  BY <1>3, <2>1, <2>2 DEF ReadWait, Return, In
<1>4. ASSUME NEW p \in Procs, ReadCopy(p) PROVE SleepInv'
  <2>1. /\ asleep' = asleep \ Writers /\ lk = None /\ In(p) /\ p \in Readers
        /\ pc' = [pc EXCEPT ![p] = "out"]
        /\ UNCHANGED <<readOpen, writeOpen, life, lk, killed, writeCnt>>
    BY <1>4 DEF ReadCopy, WakeWriters, Return
  <2>2. ASSUME NEW q \in asleep \cap Readers PROVE Empty' \/ killed \cap Writers # {}
    <3>1. CASE Empty
      <4>1. Unread = 0  BY <3>1, RingCounts
      <4>2. PICK n \in Least(1, Least(left[p], Unread)) .. Least(left[p], Unread) :
               readCnt' = Add(readCnt, n)
        BY <1>4 DEF ReadCopy
      <4>3. n = 0  BY <4>1 DEF Least
      <4>4. Add(readCnt, 0) = readCnt
        <5>1. readCnt + 0 = readCnt /\ CntMod \in Nat \ {0}  OBVIOUS
        <5>2. readCnt % CntMod = readCnt  BY <5>1, ModSmall
        <5> QED  BY <5>1, <5>2 DEF Add
      <4> QED  BY <2>1, <3>1, <4>2, <4>3, <4>4 DEF Empty
    <3>2. CASE ~Empty  BY <2>1, <3>2
    <3> QED  BY <3>1, <3>2
  <2> QED  BY <2>1, <2>2 DEF In
<1>5. ASSUME NEW p \in Procs, WriteLock(p) PROVE SleepInv'
  BY <1>5 DEF WriteLock, In, Empty, Full, Add
<1>6. ASSUME NEW p \in Procs, WriteAbort(p) PROVE SleepInv'
  <2>1. /\ lk = p /\ lk' = None /\ p \in Writers /\ (~readOpen \/ p \in killed)
        /\ pc' = [pc EXCEPT ![p] = "out"]
        /\ UNCHANGED <<ring, ends, asleep, killed>>
    BY <1>6 DEF WriteAbort, Writing, Aborts, Return
  <2>2. Empty' = Empty /\ Full' = Full  BY <2>1 DEF Empty, Full, Add
  <2>3. ASSUME NEW q \in asleep \cap Readers PROVE killed \cap Writers # {}
    <3>1. readOpen  OBVIOUS
    <3> QED  BY <2>1, <3>1
  <2> QED  BY <2>1, <2>2, <2>3
<1>7. ASSUME NEW p \in Procs, WriteWait(p) PROVE SleepInv'
  <2>1. /\ lk = p /\ lk' = None /\ p \in Writers /\ readOpen /\ Full
        /\ asleep' = (asleep \ Readers) \cup {p}
        /\ UNCHANGED <<ring, ends, pc>>
    BY <1>7 DEF WriteWait, Writing, Aborts, WakeReaders
  <2>2. Full' = Full  BY <2>1 DEF Full, Add
  <2> QED  BY <2>1, <2>2
<1>8. ASSUME NEW p \in Procs, WriteByte(p) PROVE SleepInv'
  BY <1>8 DEF WriteByte, Writing
<1>9. ASSUME NEW p \in Procs, WriteEnd(p) PROVE SleepInv'
  BY <1>9 DEF WriteEnd, WakeReaders, Return, Empty, Full, Add
<1>10. CASE CloseWrite
  <2>1. /\ asleep' = asleep \ Readers /\ lk = None /\ \A q \in Writers : pc[q] = "out"
        /\ UNCHANGED <<pc, lk, readOpen>> /\ life' = IF readOpen THEN life ELSE "dropped"
        /\ UNCHANGED <<readCnt, writeCnt>>
    BY <1>10 DEF CloseWrite, NotUsed, WakeReaders
  <2> QED  BY <2>1 DEF Full, Add
<1>11. CASE CloseRead
  <2>1. /\ asleep' = asleep \ Writers /\ lk = None /\ \A q \in Readers : pc[q] = "out"
        /\ UNCHANGED <<pc, lk, writeOpen>> /\ life' = IF writeOpen THEN life ELSE "dropped"
        /\ UNCHANGED <<readCnt, writeCnt>>
    BY <1>11 DEF CloseRead, NotUsed, WakeWriters
  <2> QED  BY <2>1
<1>12. ASSUME NEW p \in Procs, Kill(p) PROVE SleepInv'
  BY <1>12 DEF Kill, Empty, Full, Add
<1>13. CASE UNCHANGED vars  BY <1>13 DEF vars, Empty, Full, Add
<1> QED  BY <1>1, <1>2, <1>3, <1>4, <1>5, <1>6, <1>7, <1>8, <1>9, <1>10, <1>11,
            <1>12, <1>13 DEF Next, Step

(* Whenever the lock is free, a reader sleeps only while there is nothing  *)
(* to read and the write end is open (a killed writer excepted), a writer  *)
(* only while the buffer is full and the read end is open, and readers and *)
(* writers never sleep at the same time: neither read, write nor close     *)
(* forgets a wakeup.                                                       *)
THEOREM PipeNoLostWakeup == Spec => []NoLostWakeup
<1>1. Init => SleepInv  BY PipeAssumption DEF Init, SleepInv, Procs
<1>2. TypeOK /\ SleepInv => NoLostWakeup
  BY PipeAssumption DEF SleepInv, NoLostWakeup, TypeOK, Procs
<1> QED  BY <1>1, <1>2, TypeInit, TypeStep, RingInit, RingStep, SleepStep, PTL DEF Spec
=============================================================================
