--------------------------- MODULE ConsoleProofs ---------------------------
(***************************************************************************)
(* Proofs about the console for any readers, writers, keys and ring sizes: *)
(* the ring of the console holds exactly the input not yet read, and no    *)
(* reader or writer sleeps without a reason.                               *)
(***************************************************************************)
EXTENDS Console, WellFoundedInduction, TLAPS

Symbols == Keys \cup {"a", "LF"}
Cells == 0 .. (CONSOLE_BUF - 1)

(* The character at an index of the console's ring. *)
Cell(n) == con.buf[n % CONSOLE_BUF]

(* InputKept cell by cell, and the types behind it. *)
InputInv ==
    /\ con \in [buf : [Cells -> Symbols], ri : Nat, wi : Nat, ei : Nat]
    /\ line \in Seq(Symbols) /\ input \in Seq(Symbols)
    /\ con.ri <= con.wi /\ con.wi <= con.ei /\ con.ei <= con.ri + CONSOLE_BUF
    /\ Len(line) = con.ei - con.wi /\ Len(input) = con.wi - con.ri
    /\ \A i \in 1 .. Len(line) : line[i] = Cell(con.wi + i - 1)
    /\ \A i \in 1 .. Len(input) : input[i] = Cell(con.ri + i - 1)
    /\ con.ei - con.ri = CONSOLE_BUF => con.wi = con.ei

(* Readers sleep while nothing is committed. *)
ReaderInv ==
    /\ rd \in [Readers -> [pc : {"idle", "loop", "asleep", "woken", "stuck"},
                           tot : Int, left : Int, calls : Int]]
    /\ \A r \in Readers : rd[r].pc = "asleep" => con.ri = con.wi

(* Writers sleep while the transmit ring is full. *)
WriterInv ==
    /\ uart \in [buf : [0 .. (UART_BUF - 1) -> {<<"tty", "a">>} \cup (Writers \X Int)],
                 ri : Int, wi : Int]
    /\ wr \in [Writers -> [pc : {"idle", "next", "put", "asleep", "stuck", "done"}, i : Int]]
    /\ \A w \in Writers : wr[w].pc = "asleep" => Full(uart)

USE DEF console, device, output

-----------------------------------------------------------------------------
(***************************************************************************)
(* The input.                                                              *)
(***************************************************************************)

(* Division with remainder. *)
LEMMA DivMod ==
  ASSUME NEW a \in Int, NEW n \in Nat \ {0}
  PROVE  \E q \in Int, r \in 0 .. (n - 1) : a = n * q + r /\ a % n = r
OBVIOUS

(* Numbers less than the modulus apart have different remainders: no two   *)
(* entries of a ring share a cell, and full and empty can be told apart.   *)
LEMMA ModApart ==
  ASSUME NEW n \in Nat \ {0}, NEW a \in Int, NEW b \in Int, a < b, b < a + n
  PROVE  a % n # b % n
<1>1. PICK k \in Int, r \in 0 .. (n - 1) : a = n * k + r /\ a % n = r  BY DivMod
<1>2. PICK j \in Int, s \in 0 .. (n - 1) : b = n * j + s /\ b % n = s  BY DivMod
<1> SUFFICES ASSUME r = s PROVE FALSE  BY <1>1, <1>2
<1> DEFINE d == j - k
<1>3. b - a = n * d /\ d \in Int  BY <1>1, <1>2
<1> HIDE DEF d
<1>4. d <= 0 \/ d >= 1  BY <1>3
<1>5. d <= 0 => n * d <= 0  BY <1>3
<1>6. d >= 1 => n * d >= n  BY <1>3
<1> QED  BY <1>3, <1>4, <1>5, <1>6

(* A nonempty set of naturals has a least element. *)
LEMMA HasLeast == ASSUME NEW S, S \subseteq Nat, S # {} PROVE \E x \in S : \A y \in S : x <= y
<1>1. \E x \in S : \A y \in S : ~(<<y, x>> \in OpToRel(<, Nat))
  BY NatLessThanWellFounded, WFMin
<1>2. PICK x \in S : \A y \in S : ~(<<y, x>> \in OpToRel(<, Nat))  BY <1>1
<1>3. ASSUME NEW y \in S PROVE x <= y
  <2>1. <<y, x>> \in Nat \X Nat /\ x \in Nat /\ y \in Nat  OBVIOUS
  <2>2. ~(y < x)  BY <1>2, <2>1 DEF OpToRel
  <2> QED  BY <2>1, <2>2
<1> QED  BY <1>3

(* The fields of the console. *)
LEMMA Fields ==
  ASSUME InputInv
  PROVE  /\ con.buf \in [Cells -> Symbols] /\ con.ri \in Nat /\ con.wi \in Nat /\ con.ei \in Nat
         /\ con.ri <= con.wi /\ con.wi <= con.ei /\ con.ei <= con.ri + CONSOLE_BUF
         /\ CONSOLE_BUF \in Nat \ {0} /\ line \in Seq(Symbols) /\ input \in Seq(Symbols)
         /\ Len(line) = con.ei - con.wi /\ Len(input) = con.wi - con.ri
<1>1. CONSOLE_BUF \in Nat \ {0}  BY ConsoleAssumption
<1> QED  BY <1>1 DEF InputInv

(* Every index of the ring has a cell. *)
LEMMA CellIn == ASSUME NEW n \in Nat PROVE n % CONSOLE_BUF \in Cells
<1>1. CONSOLE_BUF \in Nat \ {0}  BY ConsoleAssumption
<1>2. n % CONSOLE_BUF \in 0 .. (CONSOLE_BUF - 1)  BY <1>1, DivMod
<1> QED  BY <1>2 DEF Cells

(* A reader takes a committed character, or leaves an EOT for the next     *)
(* read.                                                                   *)
LEMMA ReadCharInput == ASSUME InputInv, NEW r \in Readers, ReadChar(r) PROVE InputInv'
<1> DEFINE back == Cell(con.ri) = "EOT" /\ rd[r].left < rd[r].tot
<1>1. /\ con' = [con EXCEPT !.ri = IF back THEN @ ELSE @ + 1] /\ con.ri # con.wi
      /\ input' = (IF back THEN input ELSE Tail(input)) /\ UNCHANGED line
  BY DEF ReadChar, PutBack, Cell
<1>0. /\ con.buf \in [Cells -> Symbols] /\ con.ri \in Nat /\ con.wi \in Nat /\ con.ei \in Nat
      /\ con.ri <= con.wi /\ con.wi <= con.ei /\ con.ei <= con.ri + CONSOLE_BUF
      /\ CONSOLE_BUF \in Nat \ {0} /\ line \in Seq(Symbols) /\ input \in Seq(Symbols)
      /\ Len(line) = con.ei - con.wi /\ Len(input) = con.wi - con.ri
  BY Fields
<1>2. /\ \A i \in 1 .. Len(line) : line[i] = Cell(con.wi + i - 1)
      /\ \A i \in 1 .. Len(input) : input[i] = Cell(con.ri + i - 1)
      /\ con \in [buf : [Cells -> Symbols], ri : Nat, wi : Nat, ei : Nat]
  BY DEF InputInv
<1> HIDE DEF back
<1>3. CASE back
  <2>1. con' = con /\ input' = input  BY <1>1, <1>2, <1>3
  <2>2. \A n : Cell(n)' = Cell(n)  BY <2>1 DEF Cell
  <2> QED  BY <1>1, <2>1, <2>2 DEF InputInv
<1>4. CASE ~back
  <2>1. /\ con'.buf = con.buf /\ con'.ri = con.ri + 1 /\ con'.wi = con.wi /\ con'.ei = con.ei
        /\ con' \in [buf : [Cells -> Symbols], ri : Nat, wi : Nat, ei : Nat]
    <3>1. con' = [con EXCEPT !.ri = con.ri + 1]  BY <1>1, <1>2, <1>4
    <3>2. con.ri + 1 \in Nat  BY <1>0
    <3> QED  BY <1>2, <3>1, <3>2
  <2>2. \A n : Cell(n)' = Cell(n)  BY <2>1 DEF Cell
  <2>3. con.ri < con.wi /\ Len(input) # 0  BY <1>0, <1>1
  <2>4. /\ input' \in Seq(Symbols) /\ Len(input') = Len(input) - 1
        /\ \A i \in 1 .. Len(input') : input'[i] = input[i + 1]
    <3>1. input' = Tail(input) /\ input # <<>>  BY <1>1, <1>4, <2>3
    <3> QED  BY <1>0, <3>1
  <2>5. \A i \in 1 .. Len(input') : input'[i] = Cell(con.ri + 1 + i - 1)
    <3>1. SUFFICES ASSUME NEW i \in 1 .. Len(input') PROVE input'[i] = Cell(con.ri + 1 + i - 1)
      OBVIOUS
    <3>2. i + 1 \in 1 .. Len(input) /\ con.ri + (i + 1) - 1 = con.ri + 1 + i - 1
      <4>1. PICK n \in Nat : n = Len(input)  BY <1>0
      <4>2. i \in 1 .. (n - 1)  BY <2>4, <4>1
      <4>3. i + 1 \in 1 .. n  BY <4>2
      <4>4. PICK a \in Nat : a = con.ri  BY <1>0
      <4>5. a + (i + 1) - 1 = a + 1 + i - 1  BY <4>2
      <4> QED  BY <4>1, <4>3, <4>4, <4>5, Zenon
    <3>3. input[i + 1] = Cell(con.ri + (i + 1) - 1)  BY <1>2, <3>2
    <3> QED  BY <2>4, <3>2, <3>3
  <2>6. /\ con.ri + 1 <= con.wi /\ con.ei <= con.ri + 1 + CONSOLE_BUF
        /\ Len(input') = con.wi - (con.ri + 1) /\ con.ei - (con.ri + 1) # CONSOLE_BUF
    <3>1. PICK r1 \in Nat, w1 \in Nat, e1 \in Nat, k1 \in Nat :
             /\ r1 = con.ri /\ w1 = con.wi /\ e1 = con.ei /\ k1 = CONSOLE_BUF
             /\ r1 < w1 /\ e1 <= r1 + k1 /\ Len(input) = w1 - r1
      <4>1. /\ con.ri \in Nat /\ con.wi \in Nat /\ con.ei \in Nat /\ CONSOLE_BUF \in Nat
            /\ con.ri < con.wi /\ con.ei <= con.ri + CONSOLE_BUF /\ Len(input) = con.wi - con.ri
        BY <1>0, <2>3
      <4> QED  BY <4>1, Zenon
    <3>2. r1 < w1 /\ e1 <= r1 + k1  BY <3>1, Zenon
    <3>3. r1 + 1 <= w1 /\ (w1 - r1) - 1 = w1 - (r1 + 1)  BY <3>2
    <3>4. e1 <= r1 + 1 + k1 /\ e1 - (r1 + 1) # k1  BY <3>2
    <3>5. Len(input') = (w1 - r1) - 1  BY <2>4, <3>1, Zenon
    <3> QED  BY <3>1, <3>3, <3>4, <3>5, Zenon
  <2> QED  BY <1>0, <1>1, <1>2, <2>1, <2>2, <2>4, <2>5, <2>6 DEF InputInv
<1> QED  BY <1>3, <1>4

(* Erasing the end of the line leaves the rest of it and the input.        *)
LEMMA EraseInput ==
  ASSUME InputInv, NEW e \in con.wi .. con.ei, EraseTo(e)
  PROVE  InputInv' /\ con'.wi = con.wi /\ con'.ri = con.ri /\ rd' = rd
<1>1. con' = [con EXCEPT !.ei = e] /\ input' = input /\ rd' = rd
      /\ line' = SubSeq(line, 1, Len(line) - (con.ei - e))
  BY DEF EraseTo
<1>0. /\ con.buf \in [Cells -> Symbols] /\ con.ri \in Nat /\ con.wi \in Nat /\ con.ei \in Nat
      /\ con.ri <= con.wi /\ con.wi <= con.ei /\ con.ei <= con.ri + CONSOLE_BUF
      /\ CONSOLE_BUF \in Nat \ {0} /\ line \in Seq(Symbols) /\ input \in Seq(Symbols)
      /\ Len(line) = con.ei - con.wi /\ Len(input) = con.wi - con.ri
  BY Fields
<1>2. /\ \A i \in 1 .. Len(line) : line[i] = Cell(con.wi + i - 1)
      /\ \A i \in 1 .. Len(input) : input[i] = Cell(con.ri + i - 1)
      /\ con \in [buf : [Cells -> Symbols], ri : Nat, wi : Nat, ei : Nat]
      /\ con.ei - con.ri = CONSOLE_BUF => con.wi = con.ei
  BY DEF InputInv
<1>3. e \in Nat /\ con.wi <= e /\ e <= con.ei  BY <1>0
<1>4. /\ con'.buf = con.buf /\ con'.ri = con.ri /\ con'.wi = con.wi /\ con'.ei = e
      /\ con' \in [buf : [Cells -> Symbols], ri : Nat, wi : Nat, ei : Nat]
  BY <1>1, <1>2, <1>3
<1>5. \A n : Cell(n)' = Cell(n)  BY <1>4 DEF Cell
<1>6. /\ line' \in Seq(Symbols) /\ Len(line') = e - con.wi
      /\ \A i \in 1 .. Len(line') : line'[i] = line[i] /\ i \in 1 .. Len(line)
  <2>1. PICK w \in Nat, k \in Nat, n \in Nat : w = con.wi /\ k = con.ei /\ n = Len(line)  BY <1>0
  <2>2. n = k - w /\ w <= e /\ e <= k  BY <1>0, <1>3, <2>1
  <2>3. n - (k - e) = e - w /\ e - w \in 0 .. n  BY <1>3, <2>2
  <2>4. PICK m \in 0 .. n : m = e - w  BY <2>3
  <2>5. Len(line) - (con.ei - e) = m /\ e - con.wi = m  BY <2>1, <2>3, <2>4, Zenon
  <2>6. line' = SubSeq(line, 1, m)  BY <1>1, <2>5, Zenon
  <2>7. /\ line' \in Seq(Symbols) /\ Len(line') = m
        /\ \A i \in 1 .. m : line'[i] = line[i] /\ i \in 1 .. Len(line)
    <3>1. line \in Seq(Symbols) /\ m \in 0 .. Len(line)  BY <1>0, <2>1, <2>4
    <3> QED  BY <2>6, <3>1
  <2> QED  BY <2>5, <2>7, Zenon
<1>7. \A i \in 1 .. Len(line') : line'[i] = Cell(con.wi + i - 1)  BY <1>2, <1>6
<1>8. e <= con.ri + CONSOLE_BUF /\ (e - con.ri = CONSOLE_BUF => con.wi = e)
  <2>1. e - con.ri = CONSOLE_BUF => e = con.ei /\ con.ei - con.ri = CONSOLE_BUF  BY <1>0, <1>3
  <2>2. e <= con.ri + CONSOLE_BUF  BY <1>0, <1>3
  <2> QED  BY <1>2, <2>1, <2>2
<1>9. InputInv'  BY <1>0, <1>1, <1>2, <1>3, <1>4, <1>5, <1>6, <1>7, <1>8 DEF InputInv
<1> QED  BY <1>1, <1>4, <1>9

(* The line has a beginning.                                               *)
LEMMA LineStartIs == ASSUME InputInv PROVE LineStart \in con.wi .. con.ei
<1>0. con.wi \in Nat /\ con.ei \in Nat /\ con.wi <= con.ei  BY Fields
<1> DEFINE S == {e \in con.wi .. con.ei : \A i \in e .. con.ei - 1 : con.buf[i % CONSOLE_BUF] # "LF"}
<1>1. con.ei \in S
  <2>1. con.ei .. con.ei - 1 = {}  BY <1>0
  <2> QED  BY <1>0, <2>1
<1>2. S \subseteq Nat  BY <1>0
<1>3. PICK e \in S : \A x \in S : e <= x  BY <1>1, <1>2, HasLeast
<1>4. e = con.wi \/ con.buf[(e - 1) % CONSOLE_BUF] = "LF"
  <2>1. SUFFICES ASSUME e # con.wi, con.buf[(e - 1) % CONSOLE_BUF] # "LF" PROVE FALSE
    OBVIOUS
  <2>2. e - 1 \in con.wi .. con.ei  BY <1>0, <2>1
  <2>3. \A i \in (e - 1) .. con.ei - 1 : i = e - 1 \/ i \in e .. con.ei - 1  BY <1>0
  <2>4. e - 1 \in S  BY <2>1, <2>2, <2>3
  <2>5. e <= e - 1  BY <1>3, <2>4
  <2> QED  BY <1>0, <2>5
<1>5. \E x \in con.wi .. con.ei : /\ x = con.wi \/ con.buf[(x - 1) % CONSOLE_BUF] = "LF"
                                  /\ \A i \in x .. con.ei - 1 : con.buf[i % CONSOLE_BUF] # "LF"
  BY <1>3, <1>4
<1> QED  BY <1>5 DEF LineStart

(* A key with room for it goes behind the line and overwrites nothing that *)
(* has not been read; at the end of a line, or of the room, the line       *)
(* becomes input and the readers are woken.                                *)
LEMMA InsertInput ==
  ASSUME InputInv, NEW key \in Keys, Room, Insert(key)
  PROVE  /\ InputInv' /\ con'.ri = con.ri
         /\ (con'.wi = con.wi /\ rd' = rd) \/ rd' = WakeReaders(rd)
<1>1. PICK c \in Symbols, commit \in BOOLEAN :
        /\ commit = Commits(c, con.ei + 1)
        /\ con' = [con EXCEPT !.buf[con.ei % CONSOLE_BUF] = c, !.ei = @ + 1,
                              !.wi = IF commit THEN con.ei + 1 ELSE @]
        /\ line' = (IF commit THEN <<>> ELSE Append(line, c))
        /\ input' = (IF commit THEN input \o Append(line, c) ELSE input)
        /\ rd' = (IF commit THEN WakeReaders(rd) ELSE rd)
  <2>1. (IF key = "CR" THEN "LF" ELSE key) \in Symbols  BY DEF Symbols
  <2>2. Commits(IF key = "CR" THEN "LF" ELSE key, con.ei + 1) \in BOOLEAN  BY DEF Commits
  <2> QED  BY <2>1, <2>2 DEF Insert
<1>0. /\ con.buf \in [Cells -> Symbols] /\ con.ri \in Nat /\ con.wi \in Nat /\ con.ei \in Nat
      /\ con.ri <= con.wi /\ con.wi <= con.ei /\ con.ei <= con.ri + CONSOLE_BUF
      /\ CONSOLE_BUF \in Nat \ {0} /\ line \in Seq(Symbols) /\ input \in Seq(Symbols)
      /\ Len(line) = con.ei - con.wi /\ Len(input) = con.wi - con.ri
  BY Fields
<1>2. /\ \A i \in 1 .. Len(line) : line[i] = Cell(con.wi + i - 1)
      /\ \A i \in 1 .. Len(input) : input[i] = Cell(con.ri + i - 1)
      /\ con \in [buf : [Cells -> Symbols], ri : Nat, wi : Nat, ei : Nat]
  BY DEF InputInv
<1>3. con.ei < con.ri + CONSOLE_BUF /\ con.ei + 1 <= con.ri + CONSOLE_BUF
  <2>1. con.ei - con.ri < CONSOLE_BUF  BY DEF Room
  <2> QED  BY <1>0, <2>1
<1>p. PICK r0 \in Nat, w0 \in Nat, e0 \in Nat :
         /\ r0 = con.ri /\ w0 = con.wi /\ e0 = con.ei
         /\ r0 <= w0 /\ w0 <= e0 /\ e0 + 1 <= r0 + CONSOLE_BUF /\ CONSOLE_BUF \in Nat
         /\ Len(line) = e0 - w0 /\ Len(input) = w0 - r0
  <2>1. con.ri \in Nat /\ con.wi \in Nat /\ con.ei \in Nat /\ CONSOLE_BUF \in Nat
        /\ con.ri <= con.wi /\ con.wi <= con.ei /\ con.ei + 1 <= con.ri + CONSOLE_BUF
        /\ Len(line) = con.ei - con.wi /\ Len(input) = con.wi - con.ri
    BY <1>0, <1>3
  <2> QED  BY <2>1, Zenon
<1>q. r0 <= w0 /\ w0 <= e0 /\ r0 \in Int /\ w0 \in Int /\ e0 \in Int  BY <1>p
<1>4. con.ei % CONSOLE_BUF \in Cells  BY <1>0, CellIn
<1>5. /\ con'.buf = [con.buf EXCEPT ![con.ei % CONSOLE_BUF] = c] /\ con'.ri = con.ri
      /\ con'.ei = con.ei + 1 /\ con'.wi = (IF commit THEN con.ei + 1 ELSE con.wi)
      /\ con' \in [buf : [Cells -> Symbols], ri : Nat, wi : Nat, ei : Nat]
  <2>1. con' = [buf |-> [con.buf EXCEPT ![con.ei % CONSOLE_BUF] = c], ri |-> con.ri,
                wi |-> IF commit THEN con.ei + 1 ELSE con.wi, ei |-> con.ei + 1]
    BY <1>1, <1>2
  <2>2. [con.buf EXCEPT ![con.ei % CONSOLE_BUF] = c] \in [Cells -> Symbols]  BY <1>0, <1>4
  <2>3. con.ei + 1 \in Nat /\ (IF commit THEN con.ei + 1 ELSE con.wi) \in Nat  BY <1>0
  <2> QED  BY <1>0, <2>1, <2>2, <2>3
<1> DEFINE new(n) == con'.buf[n % CONSOLE_BUF]
<1>6. \A n \in con.ri .. (con.ei - 1) : new(n) = Cell(n)
  <2>1. SUFFICES ASSUME NEW n \in con.ri .. (con.ei - 1) PROVE new(n) = Cell(n)
    OBVIOUS
  <2>2. n \in Nat /\ n < con.ei /\ con.ei < n + CONSOLE_BUF  BY <1>0, <1>3
  <2>3. n % CONSOLE_BUF # con.ei % CONSOLE_BUF
    <3>1. n \in Int /\ con.ei \in Int /\ CONSOLE_BUF \in Nat \ {0}  BY <1>0, <2>2
    <3> QED  BY <2>2, <3>1, ModApart
  <2>4. n % CONSOLE_BUF \in Cells  BY <2>2, CellIn
  <2> QED  BY <1>0, <1>5, <2>3, <2>4 DEF Cell
<1>7. new(con.ei) = c  BY <1>0, <1>4, <1>5
<1> HIDE DEF new
<1>8. /\ Append(line, c) \in Seq(Symbols) /\ Len(Append(line, c)) = con.ei + 1 - con.wi
      /\ \A i \in 1 .. (con.ei + 1 - con.wi) : Append(line, c)[i] = new(con.wi + i - 1)
  <2>1. /\ Append(line, c) \in Seq(Symbols) /\ Len(Append(line, c)) = Len(line) + 1
        /\ \A i \in 1 .. Len(line) : Append(line, c)[i] = line[i]
        /\ Append(line, c)[Len(line) + 1] = c
    BY <1>0
  <2>2. Len(line) + 1 = con.ei + 1 - con.wi  BY <1>0
  <2>3. ASSUME NEW i \in 1 .. (con.ei + 1 - con.wi) PROVE Append(line, c)[i] = new(con.wi + i - 1)
    <3>1. CASE i \in 1 .. Len(line)
      <4>1. con.wi + i - 1 \in con.ri .. (con.ei - 1)
        <5>1. i \in 1 .. (e0 - w0)  BY <1>p, <3>1
        <5>2. i \in Int /\ 1 <= i /\ i <= e0 - w0  BY <1>q, <5>1
        <5>3. w0 + i - 1 \in r0 .. (e0 - 1)  BY <1>q, <5>2
        <5> QED  BY <1>p, <5>3, Zenon
      <4> QED  BY <1>2, <1>6, <2>1, <3>1, <4>1
    <3>2. CASE i = Len(line) + 1
      <4>1. con.wi + i - 1 = con.ei  BY <1>0, <3>2
      <4> QED  BY <1>7, <2>1, <3>2, <4>1
    <3>3. i \in 1 .. Len(line) \/ i = Len(line) + 1
      <4>1. PICK n \in Nat : n = Len(line)  BY <1>0
      <4>2. i \in 1 .. (n + 1)  BY <2>2, <4>1
      <4>3. i \in 1 .. n \/ i = n + 1  BY <4>2
      <4> QED  BY <4>1, <4>3, Zenon
    <3> QED  BY <3>1, <3>2, <3>3
  <2> QED  BY <2>1, <2>2, <2>3
<1>9. \A i \in 1 .. Len(input) : input[i] = new(con.ri + i - 1)
  <2>1. SUFFICES ASSUME NEW i \in 1 .. Len(input) PROVE input[i] = new(con.ri + i - 1)
    OBVIOUS
  <2>2. con.ri + i - 1 \in con.ri .. (con.ei - 1)
    <3>1. i \in 1 .. (w0 - r0)  BY <1>p
    <3>2. i \in Int /\ 1 <= i /\ i <= w0 - r0  BY <1>q, <3>1
    <3>3. r0 + i - 1 \in r0 .. (e0 - 1)  BY <1>q, <3>2
    <3> QED  BY <1>p, <3>3, Zenon
  <2> QED  BY <1>2, <1>6, <2>2
<1>10. /\ con.ri \in Nat /\ con.wi \in Nat /\ con.ei \in Nat /\ con.ri <= con.wi /\ con.wi <= con.ei
       /\ Len(input) = con.wi - con.ri /\ Len(input) \in Nat
  BY <1>0
<1>11. CASE commit
  <2>1. /\ con'.wi = con.ei + 1 /\ line' = <<>> /\ input' = input \o Append(line, c)
        /\ rd' = WakeReaders(rd)
    BY <1>1, <1>5, <1>11
  <2> DEFINE l == Append(line, c)
  <2>2. l \in Seq(Symbols) /\ Len(l) = con.ei + 1 - con.wi  BY <1>8
  <2>3. \A i \in 1 .. (con.ei + 1 - con.wi) : l[i] = new(con.wi + i - 1)  BY <1>8
  <2>4. input' = input \o l  BY <2>1
  <2> HIDE DEF l
  <2>5. /\ input' \in Seq(Symbols) /\ Len(input') = con.ei + 1 - con.ri
        /\ \A i \in 1 .. Len(input) : input'[i] = input[i]
        /\ \A i \in 1 .. Len(l) : input'[Len(input) + i] = l[i]
    <3>1. /\ input' \in Seq(Symbols) /\ Len(input') = Len(input) + Len(l)
          /\ \A i \in 1 .. Len(input) : input'[i] = input[i]
          /\ \A i \in 1 .. Len(l) : input'[Len(input) + i] = l[i]
      <4>1. input \in Seq(Symbols) /\ l \in Seq(Symbols)  BY <1>0, <2>2
      <4> QED  BY <2>4, <4>1
    <3>2. Len(input) + Len(l) = con.ei + 1 - con.ri
      <4>1. (w0 - r0) + (e0 + 1 - w0) = e0 + 1 - r0  BY <1>q
      <4> QED  BY <1>p, <2>2, <4>1, Zenon
    <3> QED  BY <3>1, <3>2
  <2>6. ASSUME NEW i \in 1 .. (con.ei + 1 - con.ri) PROVE input'[i] = new(con.ri + i - 1)
    <3>1. CASE i \in 1 .. Len(input)  BY <1>9, <2>5, <3>1
    <3>2. CASE i \notin 1 .. Len(input)
      <4>1. PICK j \in 1 .. Len(l) : i = Len(input) + j
        <5>1. PICK a \in Nat, m \in Nat : a = Len(input) /\ m = Len(l) /\ i \in 1 .. (a + m)
          <6>1. Len(l) \in Nat /\ Len(input) + Len(l) = con.ei + 1 - con.ri  BY <1>10, <2>2
          <6> QED  BY <1>10, <6>1
        <5>2. i \notin 1 .. a  BY <3>2, <5>1
        <5>3. i - a \in 1 .. m /\ i = a + (i - a)  BY <5>1, <5>2
        <5> QED  BY <5>1, <5>3
      <4>2. j \in 1 .. (con.ei + 1 - con.wi) /\ con.ri + i - 1 = con.wi + j - 1
        <5>1. j \in 1 .. (con.ei + 1 - con.wi) /\ i = con.wi - con.ri + j  BY <1>10, <2>2, <4>1
        <5>2. PICK a \in Nat, b \in Nat : a = con.wi /\ b = con.ri  BY <1>10
        <5>3. b + (a - b + j) - 1 = a + j - 1
          <6>1. j \in Int  BY <1>10
          <6> QED  BY <6>1
        <5> QED  BY <5>1, <5>2, <5>3, Zenon
      <4> QED  BY <2>3, <2>5, <4>1, <4>2
    <3> QED  BY <3>1, <3>2
  <2>7. con.ri <= con.ei + 1 /\ con.ei + 1 - (con.ei + 1) = 0  BY <1>0
  <2>8. \A i \in 1 .. Len(input') : input'[i] = con'.buf[(con'.ri + i - 1) % CONSOLE_BUF]
    BY <1>5, <2>5, <2>6 DEF new
  <2>9. /\ line' \in Seq(Symbols) /\ Len(line') = con'.ei - con'.wi
        /\ \A i \in 1 .. Len(line') : line'[i] = con'.buf[(con'.wi + i - 1) % CONSOLE_BUF]
    <3>1. <<>> \in Seq(Symbols) /\ Len(<<>>) = 0 /\ 1 .. 0 = {}  OBVIOUS
    <3> QED  BY <1>5, <2>1, <2>7, <3>1
  <2>10. /\ con'.ri <= con'.wi /\ con'.wi <= con'.ei /\ con'.ei <= con'.ri + CONSOLE_BUF
         /\ Len(input') = con'.wi - con'.ri /\ con'.wi = con'.ei
    <3>1. con.ei + 1 <= con.ei + 1 /\ con.ei + 1 <= con.ri + CONSOLE_BUF  BY <1>3, <1>10
    <3>2. con'.ri = con.ri /\ con'.wi = con.ei + 1 /\ con'.ei = con.ei + 1  BY <1>5, <2>1
    <3>3. Len(input') = con.ei + 1 - con.ri /\ con.ri <= con.ei + 1  BY <2>5, <2>7
    <3>4. PICK e \in Nat : e = e0 + 1  OBVIOUS
    <3>5. con'.ri = r0 /\ con'.wi = e /\ con'.ei = e  BY <1>p, <3>2, <3>4, Zenon
    <3>6. r0 <= e /\ e <= e /\ e <= r0 + CONSOLE_BUF
      <4>1. e0 + 1 <= r0 + CONSOLE_BUF  BY <1>p, Zenon
      <4> QED  BY <1>q, <3>4, <4>1
    <3>7. Len(input') = e - r0
      <4>1. e0 + 1 - r0 = e - r0  BY <3>4
      <4> QED  BY <1>p, <3>3, <4>1, Zenon
    <3> QED  BY <3>5, <3>6, <3>7, Zenon
  <2>11. InputInv'  BY <1>5, <2>5, <2>8, <2>9, <2>10 DEF InputInv, Cell
  <2> QED  BY <1>5, <2>1, <2>11
<1>12. CASE ~commit
  <2>1. /\ con'.wi = con.wi /\ line' = Append(line, c) /\ input' = input /\ rd' = rd
    BY <1>1, <1>5, <1>12
  <2>2. con.ei + 1 - con.ri # CONSOLE_BUF
    <3>1. commit = Commits(c, con.ei + 1)  BY <1>1
    <3>2. ~Commits(c, con.ei + 1)  BY <1>12, <3>1, Zenon
    <3>3. con.ei + 1 - con.ri = CONSOLE_BUF => Commits(c, con.ei + 1)  BY <1>0 DEF Commits
    <3> QED  BY <3>2, <3>3, Zenon
  <2>3. con.wi <= con.ei + 1  BY <1>0
  <2>4. \A i \in 1 .. Len(line') : line'[i] = con'.buf[(con'.wi + i - 1) % CONSOLE_BUF]
    BY <1>8, <2>1 DEF new
  <2>5. \A i \in 1 .. Len(input') : input'[i] = con'.buf[(con'.ri + i - 1) % CONSOLE_BUF]
    BY <1>5, <1>9, <2>1 DEF new
  <2>6. /\ con'.ri <= con'.wi /\ con'.wi <= con'.ei /\ con'.ei <= con'.ri + CONSOLE_BUF
        /\ Len(input') = con'.wi - con'.ri /\ Len(line') = con'.ei - con'.wi
        /\ con'.ei - con'.ri # CONSOLE_BUF
    <3>1. con'.ri = con.ri /\ con'.wi = con.wi /\ con'.ei = con.ei + 1  BY <1>5, <2>1
    <3>2. Len(input') = con.wi - con.ri /\ Len(line') = con.ei + 1 - con.wi  BY <1>8, <1>10, <2>1
    <3>3. con.ri <= con.wi /\ con.ei + 1 <= con.ri + CONSOLE_BUF  BY <1>3, <1>10
    <3>4. PICK e \in Nat : e = e0 + 1  OBVIOUS
    <3>5. con'.ri = r0 /\ con'.wi = w0 /\ con'.ei = e  BY <1>p, <3>1, <3>4, Zenon
    <3>6. r0 <= w0 /\ w0 <= e /\ e <= r0 + CONSOLE_BUF  BY <1>p, <3>4
    <3>7. Len(input') = w0 - r0 /\ Len(line') = e - w0 /\ e - r0 # CONSOLE_BUF
      <4>1. e0 + 1 - w0 = e - w0 /\ e0 + 1 - r0 = e - r0  BY <3>4
      <4> QED  BY <1>p, <2>2, <3>2, <4>1, Zenon
    <3> QED  BY <3>5, <3>6, <3>7, Zenon
  <2>7. line' \in Seq(Symbols) /\ input' \in Seq(Symbols)  BY <1>0, <1>8, <2>1
  <2>8. InputInv'  BY <1>5, <2>4, <2>5, <2>6, <2>7 DEF InputInv, Cell
  <2> QED  BY <1>5, <2>1, <2>8
<1> QED  BY <1>11, <1>12

(* The handler takes a key: whatever the key, the ring holds the input,    *)
(* and what is newly committed wakes the readers.                          *)
LEMMA ReceiveInput ==
  ASSUME InputInv, Receive
  PROVE  /\ InputInv' /\ con'.ri = con.ri
         /\ (con'.wi = con.wi /\ rd' = rd) \/ rd' = WakeReaders(rd)
<1>3. \/ EraseTo(LineStart)
      \/ con.ei # con.wi /\ EraseTo(con.ei - 1)
      \/ Nothing
      \/ \E key \in Keys : Room /\ Insert(key)
  BY DEF Receive
<1>4. CASE EraseTo(LineStart)
  <2>1. PICK e \in con.wi .. con.ei : e = LineStart  BY LineStartIs
  <2>2. EraseTo(e)  BY <1>4, <2>1
  <2> QED  BY <2>2, EraseInput
<1>5. CASE con.ei # con.wi /\ EraseTo(con.ei - 1)
  <2>1. con.ei - 1 \in con.wi .. con.ei
    <3>1. con.wi \in Nat /\ con.ei \in Nat /\ con.wi <= con.ei  BY Fields
    <3> QED  BY <1>5, <3>1
  <2>2. PICK e \in con.wi .. con.ei : e = con.ei - 1  BY <2>1
  <2>3. EraseTo(e)  BY <1>5, <2>2
  <2> QED  BY <2>3, EraseInput
<1>6. CASE Nothing  BY <1>6 DEF Nothing, InputInv, Cell
<1>7. ASSUME NEW key \in Keys, Room, Insert(key)
      PROVE  /\ InputInv' /\ con'.ri = con.ri
             /\ (con'.wi = con.wi /\ rd' = rd) \/ rd' = WakeReaders(rd)
  BY <1>7, InsertInput
<1> QED  BY <1>3, <1>4, <1>5, <1>6, <1>7

(* Every step keeps the input: only ReadChar and Receive touch it.         *)
LEMMA InputStep == InputInv /\ [Next]_vars => InputInv'
<1> SUFFICES ASSUME InputInv, [Next]_vars PROVE InputInv'
  OBVIOUS
<1>3. ASSUME UNCHANGED <<con, line, input>> PROVE InputInv'  BY <1>3 DEF InputInv, Cell
<1>4. CASE Type  BY <1>3, <1>4 DEF Type
<1>5. CASE Receive  BY <1>5, ReceiveInput
<1>6. ASSUME NEW r \in Readers, ReadChar(r) PROVE InputInv'  BY <1>6, ReadCharInput
<1>7. CASE Drain \/ Interrupt \/ Echo \/ Received \/ Transmit
  BY <1>3, <1>7 DEF Drain, Interrupt, Echo, Received, Transmit
<1>8. ASSUME NEW w \in Writers, Write(w) \/ Putc(w) \/ PutcSleep(w) \/ WriteStops(w) PROVE InputInv'
  BY <1>3, <1>8 DEF Write, Putc, PutcSleep, WriteStops
<1>9. ASSUME NEW r \in Readers, Read(r) \/ ReadSleep(r) \/ ReadWake(r) \/ ReadKilled(r)
      PROVE  InputInv'
  BY <1>3, <1>9 DEF Read, ReadSleep, ReadWake, ReadKilled
<1>11. CASE Kill  BY <1>3, <1>11 DEF Kill, KillReader, KillWriter
<1>10. CASE UNCHANGED vars  BY <1>3, <1>10 DEF vars
<1> QED  BY <1>4, <1>5, <1>6, <1>7, <1>8, <1>9, <1>10, <1>11 DEF Next

-----------------------------------------------------------------------------
(***************************************************************************)
(* The sleepers.                                                           *)
(***************************************************************************)

(* Every step keeps the readers' reason to sleep.                          *)
LEMMA ReaderStep == InputInv /\ ReaderInv /\ [Next]_vars => ReaderInv'
<1> SUFFICES ASSUME InputInv, ReaderInv, [Next]_vars PROVE ReaderInv'
  OBVIOUS
<1> DEFINE RdType == [pc : {"idle", "loop", "asleep", "woken", "stuck"}, tot : Int, left : Int, calls : Int]
<1>0. /\ rd \in [Readers -> RdType] /\ \A r \in Readers : rd[r].pc = "asleep" => con.ri = con.wi
      /\ con \in [buf : [Cells -> Symbols], ri : Nat, wi : Nat, ei : Nat]
  BY DEF ReaderInv, InputInv
<1>1. ASSUME UNCHANGED <<con, rd>> PROVE ReaderInv'  BY <1>1 DEF ReaderInv
<1>2. ASSUME NEW r \in Readers, NEW x \in RdType, rd' = [rd EXCEPT ![r] = x],
             UNCHANGED con, x.pc = "asleep" => con.ri = con.wi
      PROVE  ReaderInv'
  <2>1. rd' \in [Readers -> RdType] /\ rd'[r] = x /\ \A q \in Readers \ {r} : rd'[q] = rd[q]
    BY <1>0, <1>2
  <2> QED  BY <1>0, <1>2, <2>1 DEF ReaderInv
<1>3. ASSUME NEW r \in Readers, NEW s \in {"idle", "loop", "asleep", "woken", "stuck"},
             rd' = [rd EXCEPT ![r].pc = s], UNCHANGED con, s = "asleep" => con.ri = con.wi
      PROVE  ReaderInv'
  <2>1. rd[r] \in RdType  BY <1>0
  <2>2. [rd[r] EXCEPT !.pc = s] \in RdType /\ [rd[r] EXCEPT !.pc = s].pc = s  BY <2>1
  <2>3. rd' = [rd EXCEPT ![r] = [rd[r] EXCEPT !.pc = s]]  BY <1>0, <1>3
  <2> HIDE DEF RdType
  <2> QED  BY <1>2, <1>3, <2>2, <2>3
<1>4. ASSUME rd' = WakeReaders(rd) PROVE ReaderInv'
  <2>1. ASSUME NEW r \in Readers PROVE rd'[r] \in RdType /\ rd'[r].pc # "asleep"
    <3>1. rd[r] \in RdType /\ rd'[r] = IF rd[r].pc = "asleep" THEN [rd[r] EXCEPT !.pc = "woken"] ELSE rd[r]
      BY <1>0, <1>4 DEF WakeReaders
    <3> QED  BY <3>1
  <2>2. rd' \in [Readers -> RdType]
    <3>1. rd' = [r \in Readers |-> rd'[r]]  BY <1>4 DEF WakeReaders
    <3> HIDE DEF RdType
    <3> QED  BY <2>1, <3>1
  <2> QED  BY <2>1, <2>2 DEF ReaderInv
<1>5. ASSUME NEW r \in Readers, Read(r) PROVE ReaderInv'
  <2>1. PICK tot \in Wanted : /\ UNCHANGED con
          /\ rd' = [rd EXCEPT ![r] = [pc |-> "loop", tot |-> tot, left |-> tot, calls |-> rd[r].calls + 1]]
    BY <1>0, <1>5 DEF Read
  <2>2. [pc |-> "loop", tot |-> tot, left |-> tot, calls |-> rd[r].calls + 1] \in RdType
    <3>1. tot \in Int /\ rd[r].calls + 1 \in Int  BY <1>0, ConsoleAssumption
    <3> QED  BY <3>1
  <2> HIDE DEF RdType
  <2> QED  BY <1>2, <2>1, <2>2
<1>6. ASSUME NEW r \in Readers, ReadSleep(r) PROVE ReaderInv'
  BY <1>3, <1>6 DEF ReadSleep
<1>7. ASSUME NEW r \in Readers, ReadWake(r) \/ ReadKilled(r) PROVE ReaderInv'
  BY <1>3, <1>7 DEF ReadWake, ReadKilled
<1>8. ASSUME NEW r \in Readers, KillReader(r) PROVE ReaderInv'
  <2>1. PICK s \in {"idle", "loop", "asleep", "woken", "stuck"} :
           s = IF rd[r].pc = "asleep" THEN "stuck" ELSE rd[r].pc
    BY <1>0
  <2>2. s # "asleep" /\ UNCHANGED con /\ rd' = [rd EXCEPT ![r].pc = s]  BY <1>0, <1>8, <2>1 DEF KillReader
  <2> QED  BY <1>3, <2>2
<1>9. ASSUME NEW r \in Readers, ReadChar(r) PROVE ReaderInv'
  <2>1. con.ri # con.wi  BY <1>9 DEF ReadChar
  <2>2. PICK left \in Int, s \in {"idle", "loop"} :
           rd' = [rd EXCEPT ![r].left = left, ![r].pc = s]
    <3>1. rd[r].left \in Int /\ rd[r].left - 1 \in Int  BY <1>0
    <3> QED  BY <1>9, <3>1 DEF ReadChar
  <2>3. rd' \in [Readers -> RdType] /\ rd'[r].pc = s /\ \A q \in Readers \ {r} : rd'[q] = rd[q]
    <3>1. rd[r] \in RdType  BY <1>0
    <3>2. /\ [rd[r] EXCEPT !.left = left, !.pc = s] \in RdType
          /\ [rd[r] EXCEPT !.left = left, !.pc = s].pc = s
      BY <3>1
    <3>3. rd' = [rd EXCEPT ![r] = [rd[r] EXCEPT !.left = left, !.pc = s]]  BY <1>0, <2>2
    <3> HIDE DEF RdType
    <3> QED  BY <1>0, <3>2, <3>3
  <2> QED  BY <1>0, <2>1, <2>3 DEF ReaderInv
<1>10. CASE Receive
  <2>1. con'.ri = con.ri /\ ((con'.wi = con.wi /\ rd' = rd) \/ rd' = WakeReaders(rd))
    BY <1>10, ReceiveInput
  <2>2. CASE con'.wi = con.wi /\ rd' = rd  BY <1>0, <2>1, <2>2 DEF ReaderInv
  <2> QED  BY <1>4, <2>1, <2>2
<1>11. CASE Drain \/ Interrupt \/ Echo \/ Received \/ Transmit \/ Type
  BY <1>1, <1>11 DEF Drain, Interrupt, Echo, Received, Transmit, Type
<1>12. ASSUME NEW w \in Writers, Write(w) \/ Putc(w) \/ PutcSleep(w) \/ WriteStops(w) PROVE ReaderInv'
  BY <1>1, <1>12 DEF Write, Putc, PutcSleep, WriteStops
<1>13. CASE UNCHANGED vars  BY <1>1, <1>13 DEF vars
<1>14. ASSUME NEW w \in Writers, KillWriter(w) PROVE ReaderInv'  BY <1>1, <1>14 DEF KillWriter
<1> QED  BY <1>5, <1>6, <1>7, <1>8, <1>9, <1>10, <1>11, <1>12, <1>13, <1>14 DEF Next, Kill

(* transmit, given a ring that is full if any writer sleeps: what it takes *)
(* from the ring wakes the writers.                                        *)
LEMMA TransmitWriters ==
  ASSUME NEW u \in [buf : [0 .. (UART_BUF - 1) -> {<<"tty", "a">>} \cup (Writers \X Int)],
                    ri : Int, wi : Int],
         NEW ws \in [Writers -> [pc : {"idle", "next", "put", "asleep", "stuck", "done"}, i : Int]],
         NEW all, transmit(u, ws, all),
         \A w \in Writers : ws[w].pc = "asleep" => Full(u)
  PROVE  WriterInv'
<1> DEFINE WrType == [pc : {"idle", "next", "put", "asleep", "stuck", "done"}, i : Int]
<1>1. CASE is_idle /\ u.wi # u.ri
  <2>1. PICK n \in 1 .. u.wi - u.ri : uart' = [u EXCEPT !.ri = @ + n] /\ wr' = WakeWriters(ws)
    BY <1>1 DEF transmit
  <2>2. uart' \in [buf : [0 .. (UART_BUF - 1) -> {<<"tty", "a">>} \cup (Writers \X Int)],
                   ri : Int, wi : Int]
    <3>1. u.ri + n \in Int  OBVIOUS
    <3> QED  BY <2>1, <3>1
  <2>3. ASSUME NEW w \in Writers PROVE wr'[w] \in WrType /\ wr'[w].pc # "asleep"
    <3>1. ws[w] \in WrType /\ wr'[w] = IF ws[w].pc = "asleep" THEN [ws[w] EXCEPT !.pc = "put"] ELSE ws[w]
      BY <2>1 DEF WakeWriters
    <3> QED  BY <3>1
  <2>4. wr' \in [Writers -> WrType]
    <3>1. wr' = [w \in Writers |-> wr'[w]]  BY <2>1 DEF WakeWriters
    <3> HIDE DEF WrType
    <3> QED  BY <2>3, <3>1
  <2> QED  BY <2>2, <2>3, <2>4 DEF WriterInv
<1>2. CASE ~(is_idle /\ u.wi # u.ri)
  <2>1. uart' = u /\ wr' = ws  BY <1>2 DEF transmit
  <2> QED  BY <2>1 DEF WriterInv, Full
<1> QED  BY <1>1, <1>2

(* Every step keeps the writers' reason to sleep.                          *)
LEMMA WriterStep == WriterInv /\ [Next]_vars => WriterInv'
<1> SUFFICES ASSUME WriterInv, [Next]_vars PROVE WriterInv'
  OBVIOUS
<1> DEFINE WrType == [pc : {"idle", "next", "put", "asleep", "stuck", "done"}, i : Int]
           UartType == [buf : [0 .. (UART_BUF - 1) -> {<<"tty", "a">>} \cup (Writers \X Int)],
                        ri : Int, wi : Int]
<1>0. uart \in UartType /\ wr \in [Writers -> WrType]
      /\ \A w \in Writers : wr[w].pc = "asleep" => Full(uart)
  BY DEF WriterInv
<1>1. ASSUME UNCHANGED <<uart, wr>> PROVE WriterInv'  BY <1>1 DEF WriterInv, Full
<1>2. ASSUME NEW w \in Writers, NEW s \in {"next", "asleep", "stuck", "done"}, uart' = uart,
             wr' = [wr EXCEPT ![w].pc = s], s = "asleep" => Full(uart)
      PROVE  WriterInv'
  <2>1. wr[w] \in WrType  BY <1>0
  <2>2. [wr[w] EXCEPT !.pc = s] \in WrType /\ [wr[w] EXCEPT !.pc = s].pc = s  BY <2>1
  <2>3. wr' = [wr EXCEPT ![w] = [wr[w] EXCEPT !.pc = s]]  BY <1>0, <1>2
  <2>4. wr' \in [Writers -> WrType] /\ wr'[w].pc = s /\ \A v \in Writers \ {w} : wr'[v] = wr[v]
    <3> HIDE DEF WrType
    <3> QED  BY <1>0, <2>2, <2>3
  <2> QED  BY <1>0, <1>2, <2>4 DEF WriterInv, Full
<1>3. ASSUME NEW w \in Writers, Write(w) \/ PutcSleep(w) \/ WriteStops(w) \/ KillWriter(w)
      PROVE  WriterInv'
  BY <1>2, <1>3 DEF Write, PutcSleep, WriteStops, KillWriter
<1>4. ASSUME NEW w \in Writers, Putc(w) PROVE WriterInv'
  <2> DEFINE n == wr[w].i + 1
             u == [uart EXCEPT !.buf[uart.wi % UART_BUF] = <<w, n>>, !.wi = @ + 1]
             ws == [wr EXCEPT ![w] = [pc |-> IF n = Chars THEN "done" ELSE "next", i |-> n]]
  <2>1. ~Full(uart) /\ transmit(u, ws, Append(owed, <<w, n>>))  BY <1>4 DEF Putc
  <2>2. n \in Int  BY <1>0
  <2>3. u \in UartType
    <3>1. uart.wi % UART_BUF \in 0 .. (UART_BUF - 1)
      <4>1. UART_BUF \in Nat \ {0} /\ uart.wi \in Int  BY <1>0, ConsoleAssumption
      <4> QED  BY <4>1, DivMod
    <3>2. <<w, n>> \in {<<"tty", "a">>} \cup (Writers \X Int)  BY <2>2
    <3>3. u = [buf |-> [uart.buf EXCEPT ![uart.wi % UART_BUF] = <<w, n>>], ri |-> uart.ri,
               wi |-> uart.wi + 1]
      <4>1. ASSUME NEW k, NEW x, NEW S, NEW T, NEW v,
                   uart \in [buf : [S -> T], ri : Int, wi : Int],
                   v = [uart EXCEPT !.buf[k] = x, !.wi = @ + 1]
            PROVE  v = [buf |-> [uart.buf EXCEPT ![k] = x], ri |-> uart.ri, wi |-> uart.wi + 1]
        BY <4>1
      <4> QED  BY <1>0, <4>1, Zenon
    <3>4. [uart.buf EXCEPT ![uart.wi % UART_BUF] = <<w, n>>]
             \in [0 .. (UART_BUF - 1) -> {<<"tty", "a">>} \cup (Writers \X Int)]
      BY <1>0, <3>2
    <3>5. uart.wi + 1 \in Int /\ uart.ri \in Int  BY <1>0
    <3> QED  BY <3>3, <3>4, <3>5
  <2>4. ws \in [Writers -> WrType] /\ \A v \in Writers : ws[v].pc # "asleep"
    <3>1. /\ [pc |-> IF n = Chars THEN "done" ELSE "next", i |-> n] \in WrType
          /\ [pc |-> IF n = Chars THEN "done" ELSE "next", i |-> n].pc # "asleep"
      BY <2>2
    <3>2. \A v \in Writers : wr[v].pc # "asleep"  BY <1>0, <2>1
    <3> HIDE DEF WrType, n
    <3> QED  BY <1>0, <3>1, <3>2
  <2> HIDE DEF u, ws
  <2> QED  BY <2>1, <2>3, <2>4, TransmitWriters
<1>5. CASE Transmit
  <2>1. transmit(uart, wr, owed)  BY <1>5 DEF Transmit
  <2> QED  BY <1>0, <2>1, TransmitWriters
<1>6. CASE Drain \/ Interrupt \/ Echo \/ Received \/ Receive \/ Type
  BY <1>1, <1>6 DEF Drain, Interrupt, Echo, Received, Receive, Type
<1>7. ASSUME NEW r \in Readers,
             Read(r) \/ ReadSleep(r) \/ ReadWake(r) \/ ReadKilled(r) \/ ReadChar(r) \/ KillReader(r)
      PROVE  WriterInv'
  BY <1>1, <1>7 DEF Read, ReadSleep, ReadWake, ReadKilled, ReadChar, KillReader
<1>8. CASE UNCHANGED vars  BY <1>1, <1>8 DEF vars
<1> QED  BY <1>3, <1>4, <1>5, <1>6, <1>7, <1>8 DEF Next, Kill

-----------------------------------------------------------------------------
(***************************************************************************)
(* The theorems.                                                           *)
(***************************************************************************)

(* The three invariants hold of an empty console. *)
LEMMA InitInv == Init => InputInv /\ ReaderInv /\ WriterInv
<1> SUFFICES ASSUME Init PROVE InputInv /\ ReaderInv /\ WriterInv
  OBVIOUS
<1>1. CONSOLE_BUF \in Nat \ {0}  BY ConsoleAssumption
<1>2. /\ con = [buf |-> [i \in Cells |-> "a"], ri |-> 0, wi |-> 0, ei |-> 0]
      /\ line = <<>> /\ input = <<>>
  BY DEF Init, Cells
<1>3. con \in [buf : [Cells -> Symbols], ri : Nat, wi : Nat, ei : Nat]
  BY <1>2 DEF Symbols
<1>4. InputInv
  <2>1. con.ri = 0 /\ con.wi = 0 /\ con.ei = 0  BY <1>2
  <2>2. <<>> \in Seq(Symbols) /\ Len(<<>>) = 0 /\ 1 .. 0 = {}  OBVIOUS
  <2>3. 0 <= 0 + CONSOLE_BUF /\ 0 <= 0 /\ 0 - 0 = 0  BY <1>1
  <2> QED  BY <1>2, <1>3, <2>1, <2>2, <2>3 DEF InputInv
<1>5. ReaderInv
  <2>1. [pc |-> "idle", tot |-> 0, left |-> 0, calls |-> 0]
            \in [pc : {"idle", "loop", "asleep", "woken", "stuck"}, tot : Int, left : Int, calls : Int]
    OBVIOUS
  <2> QED  BY <2>1 DEF Init, ReaderInv
<1>6. WriterInv
  <2>1. [pc |-> "idle", i |-> 0] \in [pc : {"idle", "next", "put", "asleep", "stuck", "done"}, i : Int]
    OBVIOUS
  <2>2. [buf |-> [i \in 0 .. (UART_BUF - 1) |-> <<"tty", "a">>], ri |-> 0, wi |-> 0]
           \in [buf : [0 .. (UART_BUF - 1) -> {<<"tty", "a">>} \cup (Writers \X Int)], ri : Int, wi : Int]
    OBVIOUS
  <2> QED  BY <2>1, <2>2 DEF Init, WriterInv
<1> QED  BY <1>4, <1>5, <1>6

(* The ring of the console holds exactly the input that has not been read: *)
(* the committed characters in the order they were typed, then the line    *)
(* being edited, and a full ring has been passed on to the reader.         *)
THEOREM ConsoleInputKept == Spec => []InputKept
<1>1. ASSUME InputInv PROVE InputKept
  <2>1. /\ con.ri \in Nat /\ con.wi \in Nat /\ con.ei \in Nat /\ con.ri <= con.wi /\ con.wi <= con.ei
        /\ con.ei <= con.ri + CONSOLE_BUF /\ line \in Seq(Symbols) /\ input \in Seq(Symbols)
        /\ Len(line) = con.ei - con.wi /\ Len(input) = con.wi - con.ri
    BY <1>1, Fields
  <2>2. line = [i \in 1 .. con.ei - con.wi |-> con.buf[(con.wi + i - 1) % CONSOLE_BUF]]
    <3>1. line = [i \in 1 .. Len(line) |-> line[i]]  BY <2>1
    <3>2. \A i \in 1 .. Len(line) : line[i] = con.buf[(con.wi + i - 1) % CONSOLE_BUF]
      BY <1>1 DEF InputInv, Cell
    <3>3. Len(line) = con.ei - con.wi  BY <2>1
    <3> QED  BY <3>1, <3>2, <3>3
  <2>3. input = [i \in 1 .. con.wi - con.ri |-> con.buf[(con.ri + i - 1) % CONSOLE_BUF]]
    <3>1. input = [i \in 1 .. Len(input) |-> input[i]]  BY <2>1
    <3>2. \A i \in 1 .. Len(input) : input[i] = con.buf[(con.ri + i - 1) % CONSOLE_BUF]
      BY <1>1 DEF InputInv, Cell
    <3>3. Len(input) = con.wi - con.ri  BY <2>1
    <3> QED  BY <3>1, <3>2, <3>3
  <2>4. con.ei - con.ri = CONSOLE_BUF => con.wi = con.ei  BY <1>1 DEF InputInv
  <2> QED  BY <2>1, <2>2, <2>3, <2>4 DEF InputKept
<1> QED  BY <1>1, InitInv, InputStep, PTL DEF Spec

(* A reader sleeps only while nothing is committed and a writer only while *)
(* the transmit ring is full: neither the handler nor another writer's     *)
(* transmission forgets to wake them.                                      *)
THEOREM ConsoleNoLostWakeup == Spec => []NoLostWakeup
<1>1. ReaderInv /\ WriterInv => NoLostWakeup  BY DEF ReaderInv, WriterInv, NoLostWakeup
<1> QED  BY <1>1, InitInv, InputStep, ReaderStep, WriterStep, PTL DEF Spec
=============================================================================
