----------------------------- MODULE LogProofs -----------------------------
(***************************************************************************)
(* Proofs about the log for any number of processes, blocks and values and *)
(* any log capacity: LogInv is an invariant, Log implements AtomicDisk, no *)
(* wakeup of begin_op is lost, and what begin_op reserves is enough.       *)
(***************************************************************************)
EXTENDS Log, FiniteSetTheorems, TLAPS

(* Appending a new block number to a header without duplicates: what write *)
(* does when it records a block.                                           *)
LEMMA AppendLogged ==
  ASSUME NEW h \in Seq(Blocks), NEW b \in Blocks, b \notin Logged(h), Distinct(h)
  PROVE  /\ Append(h, b) \in Seq(Blocks)
         /\ Len(Append(h, b)) = Len(h) + 1
         /\ \A i \in 1 .. Len(h) : Append(h, b)[i] = h[i]
         /\ Append(h, b)[Len(h) + 1] = b
         /\ Logged(Append(h, b)) = Logged(h) \cup {b}
         /\ Distinct(Append(h, b))
<1> DEFINE g == Append(h, b)
<1>1. /\ g \in Seq(Blocks) /\ Len(g) = Len(h) + 1
      /\ \A i \in 1 .. Len(h) : g[i] = h[i]
      /\ g[Len(h) + 1] = b
      /\ Len(h) \in Nat
  OBVIOUS
<1> HIDE DEF g
<1>2. Logged(g) = Logged(h) \cup {b}
  <2>1. ASSUME NEW x \in Logged(g) PROVE x \in Logged(h) \cup {b}
    <3>1. PICK i \in 1 .. Len(g) : x = g[i]  BY <2>1 DEF Logged
    <3>2. i \in 1 .. Len(h) \/ i = Len(h) + 1  BY <1>1
    <3> QED  BY <3>1, <3>2, <1>1 DEF Logged
  <2>2. ASSUME NEW x \in Logged(h) PROVE x \in Logged(g)
    <3>1. PICK i \in 1 .. Len(h) : x = h[i]  BY <2>2 DEF Logged
    <3>2. i \in 1 .. Len(g) /\ x = g[i]  BY <3>1, <1>1
    <3> QED  BY <3>2 DEF Logged
  <2>3. b \in Logged(g)
    <3>1. Len(h) + 1 \in 1 .. Len(g)  BY <1>1
    <3> QED  BY <3>1, <1>1 DEF Logged
  <2> QED  BY <2>1, <2>2, <2>3
<1>3. Distinct(g)
  <2> SUFFICES ASSUME NEW i \in 1 .. Len(g), NEW j \in 1 .. Len(g), g[i] = g[j]
               PROVE  i = j
    BY DEF Distinct
  <2>1. \A k \in 1 .. Len(h) : g[k] # b
    BY <1>1 DEF Logged
  <2>2. /\ i \in 1 .. Len(h) \/ i = Len(h) + 1
        /\ j \in 1 .. Len(h) \/ j = Len(h) + 1
    BY <1>1
  <2> QED  BY <1>1, <2>1, <2>2 DEF Distinct
<1> QED  BY <1>1, <1>2, <1>3 DEF g

(* The empty header. *)
LEMMA EmptyLogged ==
  /\ Len(<<>>) = 0 /\ <<>> \in Seq(Blocks) /\ Logged(<<>>) = {} /\ Distinct(<<>>)
BY DEF Logged, Distinct

(* Cardinality bookkeeping for outstanding: a process enters or leaves an  *)
(* operation.                                                              *)
LEMMA CountOps ==
  ASSUME NEW S, IsFiniteSet(S), NEW p
  PROVE  /\ Cardinality(S) \in Nat
         /\ p \notin S => Cardinality(S \cup {p}) = Cardinality(S) + 1
         /\ p \in S => /\ Cardinality(S \ {p}) = Cardinality(S) - 1
                       /\ Cardinality(S) >= 1
                       /\ Cardinality(S) = 1 <=> S \ {p} = {}
<1>1. Cardinality(S) \in Nat  BY FS_CardinalityType
<1>2. p \notin S => Cardinality(S \cup {p}) = Cardinality(S) + 1
  BY FS_AddElement
<1>3. p \in S => Cardinality(S \ {p}) = Cardinality(S) - 1 /\ IsFiniteSet(S \ {p})
  BY FS_RemoveElement
<1>4. p \in S => S # {}  OBVIOUS
<1>5. p \in S => Cardinality(S) # 0  BY <1>4, FS_EmptySet
<1>6. p \in S => (Cardinality(S \ {p}) = 0 <=> S \ {p} = {})
  BY <1>3, FS_EmptySet
<1> QED  BY <1>1, <1>2, <1>3, <1>5, <1>6

-----------------------------------------------------------------------------
USE DEF disk, bufs, procs, loop

(* Boot: the disk left by mkfs has an empty log. *)
LEMMA InitInv == Init => LogInv
<1> SUFFICES ASSUME Init PROVE LogInv  OBVIOUS
<1> USE LogAssumption, EmptyLogged DEF Init
<1>1. TypeOK
  <2>1. LOGSIZE >= 1 /\ idx \in 1 .. LOGSIZE  OBVIOUS
  <2>2. logblk \in [Slots -> Data]  OBVIOUS
  <2>3. pc \in [Procs -> {"out", "sleep", "woken", "in", "commit"}]  OBVIOUS
  <2>4. wrote \in [Procs -> SUBSET Blocks] /\ pins \in [Blocks -> Nat]  OBVIOUS
  <2>5. /\ dhead \in Seq(Blocks) /\ Len(dhead) < LOGSIZE
        /\ lh \in Seq(Blocks) /\ Len(lh) < LOGSIZE
    BY <2>1
  <2>6. committing \in BOOLEAN /\ panicked \in BOOLEAN /\ outstanding \in Nat  OBVIOUS
  <2> HIDE LogAssumption, EmptyLogged
  <2> QED  BY <2>1, <2>2, <2>3, <2>4, <2>5, <2>6 DEF TypeOK, RecoverStages
<1>2. OpsInv
  <2>1. InOp = {}  BY DEF InOp
  <2> QED  BY <2>1, FS_EmptySet DEF OpsInv, CommitStages, RecoverStages
<1>3. CacheInv  BY DEF CacheInv, RecoverStages
<1>4. StageInv  BY DEF StageInv
<1> QED  BY <1>1, <1>2, <1>3, <1>4 DEF LogInv

(* The header holds block numbers, one per slot. *)
LEMMA HeaderType ==
  ASSUME TypeOK
  PROVE  /\ Len(lh) \in Nat /\ Len(dhead) \in Nat
         /\ \A i \in 1 .. Len(lh) : lh[i] \in Blocks /\ i \in Slots /\ lh[i] \in Logged(lh)
         /\ \A i \in 1 .. Len(dhead) : dhead[i] \in Blocks /\ i \in Slots
BY LogAssumption DEF TypeOK, Slots, Logged

(* begin_op, whether it sleeps or enters, preserves LogInv. *)
LEMMA BeginOpInv == ASSUME LogInv, NEW p \in Procs, BeginOp(p) PROVE LogInv'
<1> USE DEF BeginOp, Running, LogInv
<1>1. TypeOK'
  <2>1. outstanding' \in Nat  BY DEF TypeOK
  <2>2. pc' \in [Procs -> {"out", "sleep", "woken", "in", "commit"}]  BY DEF TypeOK
  <2> QED  BY <2>1, <2>2 DEF TypeOK
<1>2. OpsInv'
  <2>1. IsFiniteSet(InOp)  BY LogAssumption, FS_Subset DEF InOp
  <2>2. p \notin InOp  BY DEF InOp
  <2>3. CASE MustWait
    <3>1. InOp' = InOp  BY <2>3 DEF InOp, TypeOK
    <3> QED  BY <2>3, <3>1 DEF OpsInv
  <2>4. CASE ~MustWait
    <3>1. InOp' = InOp \cup {p}  BY <2>4 DEF InOp, TypeOK
    <3>2. stage = "idle"  BY <2>4 DEF OpsInv, MustWait, TypeOK
    <3> QED  BY <2>1, <2>2, <2>4, <3>1, <3>2, CountOps DEF OpsInv
  <2> QED  BY <2>3, <2>4
<1>3. CacheInv'  BY DEF CacheInv
<1>4. StageInv'  BY DEF StageInv, Copied, Installed
<1> QED  BY <1>1, <1>2, <1>3, <1>4 DEF Distinct

(* write, in its three outcomes (absorbed, recorded, panic), preserves LogInv. *)
LEMMA WriteInv ==
  ASSUME LogInv, NEW p \in Procs, NEW b \in Blocks, NEW d \in Data, Write(p, b, d)
  PROVE  LogInv'
<1> USE DEF LogInv
<1>1. /\ p \in InOp /\ InOp' = InOp /\ ~panicked
  BY DEF Write, Running, InOp
<1>2. stage = "idle"
  <2>1. IsFiniteSet(InOp)  BY LogAssumption, FS_Subset DEF InOp
  <2>2. Cardinality(InOp) >= 1 /\ Cardinality(InOp) \in Nat  BY <1>1, <2>1, CountOps
  <2> QED  BY <2>2 DEF OpsInv
<1>3. CASE panicked' = TRUE
  <2>1. UNCHANGED <<lh, pins, wrote>>  BY <1>1, <1>3 DEF Write
  <2>2. TypeOK'  BY <1>3, <2>1 DEF TypeOK, Write
  <2>3. OpsInv'  BY <1>1, <1>2, <1>3 DEF OpsInv, Write, RecoverStages
  <2>4. CacheInv'  BY <1>3 DEF CacheInv
  <2>5. StageInv'  BY <1>2, <2>1 DEF StageInv, Write
  <2> QED  BY <2>1, <2>2, <2>3, <2>4, <2>5 DEF Distinct, Write
<1>4. CASE ~panicked' /\ b \in Logged(lh)
  <2>1. UNCHANGED <<lh, pins>> /\ wrote' = [wrote EXCEPT ![p] = @ \cup {b}]
    BY <1>1, <1>4 DEF Write
  <2>2. TypeOK'  BY <1>4, <2>1 DEF TypeOK, Write
  <2>3. OpsInv'  BY <1>1, <1>2, <1>4 DEF OpsInv, Write, RecoverStages
  <2>4. CacheInv'  BY <1>1, <1>2, <1>4, <2>1 DEF CacheInv, Write, TypeOK, RecoverStages
  <2>5. StageInv'  BY <1>2, <2>1 DEF StageInv, Write
  <2> QED  BY <2>1, <2>2, <2>3, <2>4, <2>5 DEF Distinct, Write
<1>5. CASE ~panicked' /\ b \notin Logged(lh)
  <2>1. /\ Record(b) /\ ~NoRoomForNew
        /\ wrote' = [wrote EXCEPT ![p] = @ \cup {b}]
    BY <1>1, <1>5 DEF Write
  <2>2. /\ lh' \in Seq(Blocks) /\ Len(lh') = Len(lh) + 1
        /\ \A i \in 1 .. Len(lh) : lh'[i] = lh[i]
        /\ lh'[Len(lh) + 1] = b
        /\ Logged(lh') = Logged(lh) \cup {b}
        /\ Distinct(lh')
    BY <1>5, <2>1, AppendLogged DEF Record, TypeOK
  <2>3. TypeOK'  BY <1>5, <2>1, <2>2, LogAssumption DEF TypeOK, Write, Record, NoRoomForNew
  <2>4. OpsInv'  BY <1>1, <1>2, <1>5 DEF OpsInv, Write, RecoverStages
  <2>5. CacheInv'
    <3>1. ASSUME NEW c \in Blocks, c \notin Logged(lh')
          PROVE  cache'[c] = home'[c] /\ pins'[c] = 0
      BY <1>1, <1>2, <2>1, <2>2, <3>1 DEF CacheInv, Write, Record, TypeOK, RecoverStages
    <3>2. ASSUME NEW i \in 1 .. Len(lh') PROVE pins'[lh'[i]] = 1
      <4>1. pins[b] = 0  BY <1>1, <1>2, <1>5 DEF CacheInv, RecoverStages
      <4>2. CASE i \in 1 .. Len(lh)
        <5>1. lh[i] \in Blocks /\ lh[i] # b  BY <1>5, <4>2, HeaderType
        <5>2. pins[lh[i]] = 1  BY <1>1, <1>2, <4>2 DEF CacheInv, RecoverStages
        <5> QED  BY <2>1, <2>2, <4>2, <5>1, <5>2 DEF Record, TypeOK
      <4>3. CASE i = Len(lh) + 1
        BY <2>1, <2>2, <4>1, <4>3 DEF Record, TypeOK
      <4> QED  BY <2>2, <4>2, <4>3, HeaderType
    <3>3. stage' = "idle"  BY <1>2 DEF Write
    <3> QED  BY <3>1, <3>2, <3>3 DEF CacheInv
  <2>6. StageInv'  BY <1>2 DEF StageInv, Write
  <2> QED  BY <2>2, <2>3, <2>4, <2>5, <2>6 DEF Distinct, Write
<1> QED  BY <1>1, <1>3, <1>4, <1>5 DEF Write

(* wakeup changes neither the set of operations nor the types. *)
LEMMA WakeAllType ==
  ASSUME TypeOK, NEW p \in Procs, NEW to \in {"out", "commit"}, pc' = WakeAll(p, to)
  PROVE  /\ pc' \in [Procs -> {"out", "sleep", "woken", "in", "commit"}]
         /\ InOp' = InOp \ {p}
BY DEF TypeOK, WakeAll, InOp

(* end_op up to the decision to commit preserves LogInv. *)
LEMMA EndOpInv == ASSUME LogInv, NEW p \in Procs, EndOp(p) PROVE LogInv'
<1> USE DEF LogInv
<1>1. p \in InOp /\ ~panicked  BY DEF EndOp, Running, InOp
<1>2. IsFiniteSet(InOp)  BY LogAssumption, FS_Subset DEF InOp
<1>3. /\ Cardinality(InOp) \in Nat /\ Cardinality(InOp) >= 1
      /\ Cardinality(InOp \ {p}) = Cardinality(InOp) - 1
  BY <1>1, <1>2, CountOps
<1>4. stage = "idle" /\ ~committing
  BY <1>3 DEF OpsInv, CommitStages
<1>5. UNCHANGED panicked  BY <1>4 DEF EndOp
<1>6. outstanding' = outstanding - 1 /\ outstanding' \in Nat
  BY <1>3 DEF EndOp, OpsInv
<1>7. CASE LastOp
  <2>1. /\ committing' = TRUE /\ idx' = 1
        /\ pc' = [pc EXCEPT ![p] = "commit"]
        /\ stage' = IF Len(lh) > 0 THEN "write_log" ELSE "finish"
    BY <1>4, <1>7 DEF EndOp
  <2>2. InOp' = InOp \ {p}  BY <2>1 DEF InOp, TypeOK
  <2>3. TypeOK'
    <3>1. wrote' \in [Procs -> SUBSET Blocks]  BY DEF EndOp, TypeOK
    <3>2. pc' \in [Procs -> {"out", "sleep", "woken", "in", "commit"}]  BY <2>1 DEF TypeOK
    <3>3. idx' \in 1 .. LOGSIZE /\ committing' \in BOOLEAN  BY <2>1, LogAssumption
    <3> QED  BY <1>5, <1>6, <2>1, <3>1, <3>2, <3>3 DEF TypeOK, EndOp, CommitStages
  <2>4. OpsInv'
    BY <1>3, <1>6, <1>7, <2>1, <2>2 DEF OpsInv, LastOp, CommitStages, RecoverStages
  <2>5. CacheInv'
    BY <1>1, <1>4, <2>1 DEF CacheInv, EndOp, RecoverStages
  <2>6. StageInv'
    <3>1. Len(lh) \in Nat /\ (Len(lh) > 0 \/ lh = <<>>)  BY DEF TypeOK
    <3> QED  BY <1>4, <2>1, <3>1 DEF StageInv, EndOp, Copied
  <2> QED  BY <2>3, <2>4, <2>5, <2>6 DEF EndOp, Distinct
<1>8. CASE ~LastOp
  <2>1. pc' = WakeAll(p, "out") /\ UNCHANGED <<committing, stage, idx>>
    BY <1>4, <1>8 DEF EndOp
  <2>2. /\ pc' \in [Procs -> {"out", "sleep", "woken", "in", "commit"}]
        /\ InOp' = InOp \ {p}
    BY <2>1, WakeAllType
  <2>3. TypeOK'
    <3>1. wrote' \in [Procs -> SUBSET Blocks]  BY DEF EndOp, TypeOK
    <3> QED  BY <1>5, <1>6, <2>1, <2>2, <3>1 DEF TypeOK, EndOp
  <2>4. OpsInv'
    BY <1>3, <1>4, <1>6, <2>1, <2>2 DEF OpsInv, CommitStages, RecoverStages
  <2>5. CacheInv'  BY <1>5, <2>1 DEF CacheInv, EndOp
  <2>6. StageInv'  BY <1>4, <2>1 DEF StageInv, EndOp
  <2> QED  BY <2>3, <2>4, <2>5, <2>6 DEF EndOp, Distinct
<1> QED  BY <1>7, <1>8

(* Where a loop over the header stands after one turn. *)
LEMMA AdvanceType ==
  ASSUME TypeOK, NEW here, NEW next, Advance(here, next), idx <= Len(lh)
  PROVE  /\ idx \in 1 .. Len(lh) /\ idx \in Slots /\ lh[idx] \in Blocks
         /\ idx' \in 1 .. LOGSIZE
         /\ \/ idx < Len(lh) /\ stage' = here /\ idx' = idx + 1
            \/ idx = Len(lh) /\ stage' = next /\ idx' = 1
<1>1. /\ lh \in Seq(Blocks) /\ Len(lh) \in Nat /\ Len(lh) <= LOGSIZE /\ idx \in 1 .. LOGSIZE
      /\ LOGSIZE \in Nat
  BY LogAssumption, HeaderType DEF TypeOK
<1>2. idx \in 1 .. Len(lh) /\ idx \in Slots
  <2>1. PICK n \in Nat : n = Len(lh)  BY <1>1
  <2>2. idx \in 1 .. LOGSIZE /\ idx <= n /\ LOGSIZE \in Nat  BY <1>1, <2>1
  <2>3. idx \in 1 .. n  BY <2>2
  <2>4. idx \in 1 .. Len(lh)  BY <2>1, <2>3, Zenon
  <2> QED  BY <2>4, HeaderType, Zenon
<1>3. lh[idx] \in Blocks  BY <1>1, <1>2
<1>4. \/ idx < Len(lh) /\ stage' = here /\ idx' = idx + 1
      \/ idx = Len(lh) /\ stage' = next /\ idx' = 1
  BY <1>1, <1>2 DEF Advance
<1>5. idx' \in 1 .. LOGSIZE  BY <1>1, <1>4
<1> QED  BY <1>2, <1>3, <1>4, <1>5

(* write_log: one cached block copied into the log area. *)
LEMMA WriteLogInv == ASSUME LogInv, WriteLog PROVE LogInv'
<1> USE DEF LogInv
<1>1. stage = "write_log" /\ idx <= Len(lh) /\ Copied(idx - 1) /\ dhead = <<>>
  BY DEF WriteLog, Advance, StageInv
<1>2. /\ idx \in 1 .. Len(lh) /\ idx \in Slots /\ lh[idx] \in Blocks
      /\ idx' \in 1 .. LOGSIZE
      /\ \/ idx < Len(lh) /\ stage' = "write_log" /\ idx' = idx + 1
         \/ idx = Len(lh) /\ stage' = "write_head" /\ idx' = 1
  BY <1>1, AdvanceType DEF WriteLog
<1>3. logblk' \in [Slots -> Data] /\ logblk'[idx] = cache[lh[idx]]
      /\ \A i \in Slots : i # idx => logblk'[i] = logblk[i]
  BY <1>2 DEF WriteLog, TypeOK
<1>4. TypeOK'
  BY <1>2, <1>3 DEF WriteLog, TypeOK, CommitStages
<1>5. OpsInv'
  BY <1>1, <1>2 DEF WriteLog, OpsInv, InOp, CommitStages, RecoverStages
<1>6. CacheInv'
  BY <1>1, <1>2 DEF WriteLog, CacheInv, RecoverStages
<1>7. \A i \in 1 .. idx : logblk'[i] = cache[lh[i]]
  <2> SUFFICES ASSUME NEW i \in 1 .. idx PROVE logblk'[i] = cache[lh[i]]
    OBVIOUS
  <2>1. i \in Slots  BY <1>2, HeaderType
  <2>2. i = idx \/ i \in 1 .. (idx - 1)  BY <1>2
  <2> QED  BY <1>1, <1>3, <2>1, <2>2 DEF Copied
<1>8. StageInv'
  <2>1. UNCHANGED <<lh, cache, dhead>>  BY DEF WriteLog
  <2>2. CASE idx < Len(lh) /\ stage' = "write_log" /\ idx' = idx + 1
    <3>1. Copied(idx - 1)'
      BY <1>2, <1>7, <2>1, <2>2 DEF Copied
    <3> QED  BY <1>1, <1>2, <2>1, <2>2, <3>1 DEF StageInv
  <2>3. CASE idx = Len(lh) /\ stage' = "write_head" /\ idx' = 1
    <3>1. Copied(Len(lh))'
      BY <1>7, <2>1, <2>3 DEF Copied
    <3> QED  BY <1>1, <1>2, <2>1, <2>3, <3>1 DEF StageInv
  <2> QED  BY <1>2, <2>2, <2>3
<1> QED  BY <1>4, <1>5, <1>6, <1>8 DEF WriteLog, Distinct

(* write_head, the commit point, preserves LogInv. *)
LEMMA WriteHeadInv == ASSUME LogInv, WriteHead PROVE LogInv'
<1> USE DEF LogInv
<1>1. stage = "write_head" /\ idx = 1  BY DEF WriteHead, StageInv
<1>2. TypeOK'  BY DEF WriteHead, TypeOK, CommitStages
<1>3. OpsInv'  BY <1>1 DEF WriteHead, OpsInv, InOp, CommitStages, RecoverStages
<1>4. CacheInv'
  <2>1. \A i \in 1 .. Len(lh) : ~(i < idx)  BY <1>1
  <2> QED  BY <1>1, <2>1 DEF WriteHead, CacheInv, RecoverStages
<1>5. StageInv'
  BY <1>1 DEF WriteHead, StageInv, Copied, Installed
<1> QED  BY <1>2, <1>3, <1>4, <1>5 DEF WriteHead, Distinct

(* One turn of install_trans, in commit or in recovery. *)
LEMMA InstallBlockFacts ==
  ASSUME TypeOK, Distinct(lh), idx \in 1 .. Len(lh), idx \in Slots,
         lh[idx] \in Blocks, Installed(idx - 1), InstallBlock(lh[idx]),
         UNCHANGED <<lh, logblk>>
  PROVE  /\ home' \in [Blocks -> Data] /\ cache' \in [Blocks -> Data]
         /\ home'[lh[idx]] = logblk[idx] /\ cache'[lh[idx]] = logblk[idx]
         /\ \A b \in Blocks : b # lh[idx] => home'[b] = home[b] /\ cache'[b] = cache[b]
         /\ \A i \in 1 .. idx : home'[lh[i]] = logblk[i]
<1>1. /\ home' \in [Blocks -> Data] /\ cache' \in [Blocks -> Data]
      /\ home'[lh[idx]] = logblk[idx] /\ cache'[lh[idx]] = logblk[idx]
      /\ \A b \in Blocks : b # lh[idx] => home'[b] = home[b] /\ cache'[b] = cache[b]
  BY DEF TypeOK, InstallBlock
<1>2. ASSUME NEW i \in 1 .. idx PROVE home'[lh[i]] = logblk[i]
  <2>1. i = idx \/ (i \in 1 .. (idx - 1) /\ i \in 1 .. Len(lh) /\ i # idx)
    BY HeaderType
  <2>2. i # idx => lh[i] # lh[idx] /\ lh[i] \in Blocks
    BY <2>1, HeaderType DEF Distinct
  <2> QED  BY <1>1, <2>1, <2>2 DEF Installed
<1> QED  BY <1>1, <1>2

(* install_trans in commit, unpin included, preserves LogInv. *)
LEMMA InstallInv == ASSUME LogInv, Install PROVE LogInv'
<1> USE DEF LogInv
<1>1. /\ stage = "install" /\ idx <= Len(lh) /\ Installed(idx - 1)
      /\ Copied(Len(lh)) /\ dhead = lh /\ ~panicked
      /\ UNCHANGED <<lh, logblk, dhead, panicked>>
  BY DEF Install, Commits, Advance, StageInv
<1>2. /\ idx \in 1 .. Len(lh) /\ idx \in Slots /\ lh[idx] \in Blocks
      /\ idx' \in 1 .. LOGSIZE
      /\ \/ idx < Len(lh) /\ stage' = "install" /\ idx' = idx + 1
         \/ idx = Len(lh) /\ stage' = "empty_head" /\ idx' = 1
  BY <1>1, AdvanceType DEF Install
<1>3. /\ home' \in [Blocks -> Data] /\ cache' \in [Blocks -> Data]
      /\ home'[lh[idx]] = logblk[idx] /\ cache'[lh[idx]] = logblk[idx]
      /\ \A b \in Blocks : b # lh[idx] => home'[b] = home[b] /\ cache'[b] = cache[b]
      /\ \A i \in 1 .. idx : home'[lh[i]] = logblk[i]
  BY <1>1, <1>2, InstallBlockFacts DEF Install
<1>4. cache' = cache
  <2>1. cache[lh[idx]] = logblk[idx]  BY <1>1, <1>2 DEF Copied
  <2> QED  BY <1>2, <1>3, <2>1 DEF TypeOK, Install, InstallBlock
<1>5. pins[lh[idx]] = 1
  BY <1>1, <1>2 DEF CacheInv, RecoverStages
<1>6. /\ pins' \in [Blocks -> Nat]
      /\ pins'[lh[idx]] = 0
      /\ \A b \in Blocks : b # lh[idx] => pins'[b] = pins[b]
  BY <1>2, <1>5 DEF Install, TypeOK
<1>7. TypeOK'
  BY <1>1, <1>2, <1>3, <1>6 DEF Install, TypeOK, CommitStages
<1>8. OpsInv'
  BY <1>1, <1>2 DEF Install, OpsInv, InOp, CommitStages, RecoverStages
<1>9. CacheInv'
  <2>1. ASSUME NEW b \in Blocks, b \notin Logged(lh)
        PROVE  cache'[b] = home'[b] /\ pins'[b] = 0
    <3>1. b # lh[idx]  BY <1>2, <2>1, HeaderType
    <3>2. cache[b] = home[b] /\ pins[b] = 0  BY <1>1, <2>1 DEF CacheInv, RecoverStages
    <3> QED  BY <1>3, <1>6, <3>1, <3>2
  <2>2. ASSUME NEW i \in 1 .. Len(lh)
        PROVE  pins'[lh[i]] = IF i < idx + 1 THEN 0 ELSE 1
    <3>1. pins[lh[i]] = IF i < idx THEN 0 ELSE 1
      BY <1>1 DEF CacheInv, RecoverStages
    <3>2. i # idx => lh[i] # lh[idx]  BY <1>2 DEF Distinct
    <3> QED  BY <1>2, <1>6, <3>1, <3>2, HeaderType
  <2>3. CASE idx < Len(lh) /\ stage' = "install" /\ idx' = idx + 1
    BY <1>1, <2>1, <2>2, <2>3 DEF CacheInv
  <2>4. CASE idx = Len(lh) /\ stage' = "empty_head" /\ idx' = 1
    <3>1. \A i \in 1 .. Len(lh) : i < idx + 1  BY <1>2, <2>4
    <3> QED  BY <1>1, <2>1, <2>2, <2>4, <3>1 DEF CacheInv
  <2> QED  BY <1>2, <2>3, <2>4
<1>10. StageInv'
  <2>1. Copied(Len(lh))'  BY <1>1, <1>4 DEF Copied
  <2>2. CASE idx < Len(lh) /\ stage' = "install" /\ idx' = idx + 1
    <3>1. Installed(idx - 1)'  BY <1>1, <1>2, <1>3, <2>2 DEF Installed
    <3> QED  BY <1>1, <1>2, <2>1, <2>2, <3>1 DEF StageInv
  <2>3. CASE idx = Len(lh) /\ stage' = "empty_head" /\ idx' = 1
    <3>1. Installed(Len(lh))'  BY <1>1, <1>3, <2>3 DEF Installed
    <3> QED  BY <1>1, <2>1, <2>3, <3>1 DEF StageInv
  <2> QED  BY <1>2, <2>2, <2>3
<1> QED  BY <1>1, <1>7, <1>8, <1>9, <1>10 DEF Distinct

(* Once every block is installed the home blocks equal the cache. *)
LEMMA InstalledClean ==
  ASSUME LogInv, stage = "empty_head", ~panicked
  PROVE  \A b \in Blocks : cache[b] = home[b] /\ pins[b] = 0
<1> USE DEF LogInv
<1> SUFFICES ASSUME NEW b \in Blocks PROVE cache[b] = home[b] /\ pins[b] = 0
  OBVIOUS
<1>1. CASE b \in Logged(lh)
  <2>1. PICK i \in 1 .. Len(lh) : b = lh[i]  BY <1>1 DEF Logged
  <2>2. logblk[i] = cache[lh[i]] /\ home[lh[i]] = logblk[i]
    BY <2>1 DEF StageInv, Copied, Installed
  <2>3. pins[lh[i]] = 0  BY <2>1 DEF CacheInv, RecoverStages
  <2> QED  BY <2>1, <2>2, <2>3
<1>2. CASE b \notin Logged(lh)
  BY <1>2 DEF CacheInv, RecoverStages
<1> QED  BY <1>1, <1>2

(* empty_head at the end of commit preserves LogInv. *)
LEMMA EmptyHeadInv == ASSUME LogInv, EmptyHead PROVE LogInv'
<1> USE DEF LogInv
<1>1. TypeOK'  BY EmptyLogged, LogAssumption DEF EmptyHead, TypeOK, CommitStages
<1>2. OpsInv'  BY DEF EmptyHead, OpsInv, InOp, CommitStages, RecoverStages
<1>3. CacheInv'
  BY InstalledClean, EmptyLogged DEF EmptyHead, CacheInv
<1>4. StageInv'  BY DEF EmptyHead, StageInv
<1> QED  BY <1>1, <1>2, <1>3, <1>4, EmptyLogged DEF EmptyHead

(* end_op after commit preserves LogInv. *)
LEMMA FinishCommitInv ==
  ASSUME LogInv, NEW p \in Procs, FinishCommit(p) PROVE LogInv'
<1> USE DEF LogInv
<1>1. stage = "finish" /\ stage' = "idle" /\ committing' = FALSE /\ pc[p] = "commit"
  BY DEF FinishCommit
<1>2. /\ pc' \in [Procs -> {"out", "sleep", "woken", "in", "commit"}]
      /\ InOp' = InOp \ {p}
  BY WakeAllType DEF FinishCommit
<1>3. InOp' = InOp  BY <1>1, <1>2 DEF InOp
<1>4. TypeOK'  BY <1>1, <1>2 DEF FinishCommit, TypeOK
<1>5. OpsInv'  BY <1>1, <1>3 DEF FinishCommit, OpsInv, CommitStages, RecoverStages
<1>6. CacheInv'  BY <1>1 DEF FinishCommit, CacheInv, RecoverStages
<1>7. StageInv'  BY <1>1 DEF FinishCommit, StageInv
<1> QED  BY <1>4, <1>5, <1>6, <1>7 DEF FinishCommit, Distinct

(* A crash at any point preserves LogInv. *)
LEMMA CrashInv == ASSUME LogInv, Crash PROVE LogInv'
<1> USE DEF LogInv
<1>1. TypeOK'
  <2>1. wrote' \in [Procs -> SUBSET Blocks] /\ pins' \in [Blocks -> Nat]
    BY DEF Crash
  <2>2. pc' \in [Procs -> {"out", "sleep", "woken", "in", "commit"}]  BY DEF Crash
  <2>3. idx' \in 1 .. LOGSIZE /\ 0 < LOGSIZE  BY LogAssumption DEF Crash
  <2>4. committing' \in BOOLEAN /\ panicked' \in BOOLEAN /\ outstanding' \in Nat
    BY DEF Crash
  <2>5. lh' \in Seq(Blocks) /\ Len(lh') < LOGSIZE  BY <2>3, EmptyLogged DEF Crash
  <2> QED  BY <2>1, <2>2, <2>3, <2>4, <2>5 DEF Crash, TypeOK, RecoverStages
<1>2. OpsInv'
  <2>1. InOp' = {}  BY DEF Crash, InOp
  <2> QED  BY <2>1, FS_EmptySet DEF Crash, OpsInv, CommitStages, RecoverStages
<1>3. CacheInv'  BY DEF Crash, CacheInv, RecoverStages
<1>4. StageInv'  BY DEF Crash, StageInv
<1> QED  BY <1>1, <1>2, <1>3, <1>4, EmptyLogged DEF Crash, Distinct

(* read_head at boot preserves LogInv. *)
LEMMA ReadHeadInv == ASSUME LogInv, ReadHead PROVE LogInv'
<1> USE DEF LogInv
<1>1. Len(dhead) \in Nat /\ (Len(dhead) > 0 \/ dhead = <<>>)  BY DEF TypeOK
<1>2. TypeOK'  BY DEF ReadHead, TypeOK, RecoverStages
<1>3. OpsInv'  BY DEF ReadHead, OpsInv, InOp, CommitStages, RecoverStages
<1>4. CacheInv'
  BY <1>1, EmptyLogged DEF ReadHead, CacheInv, OpsInv, RecoverStages
<1>5. StageInv'  BY <1>1 DEF ReadHead, StageInv, Installed
<1> QED  BY <1>2, <1>3, <1>4, <1>5 DEF ReadHead, Distinct

(* install_trans in recover preserves LogInv. *)
LEMMA RecoverInstallInv == ASSUME LogInv, RecoverInstall PROVE LogInv'
<1> USE DEF LogInv
<1>1. /\ stage = "recover" /\ idx <= Len(lh) /\ Installed(idx - 1) /\ dhead = lh
      /\ UNCHANGED <<lh, logblk, dhead, pins, panicked>>
  BY DEF RecoverInstall, Advance, StageInv
<1>2. /\ idx \in 1 .. Len(lh) /\ idx \in Slots /\ lh[idx] \in Blocks
      /\ idx' \in 1 .. LOGSIZE
      /\ \/ idx < Len(lh) /\ stage' = "recover" /\ idx' = idx + 1
         \/ idx = Len(lh) /\ stage' = "recover_empty" /\ idx' = 1
  BY <1>1, AdvanceType DEF RecoverInstall
<1>3. /\ home' \in [Blocks -> Data] /\ cache' \in [Blocks -> Data]
      /\ \A i \in 1 .. idx : home'[lh[i]] = logblk[i]
  BY <1>1, <1>2, InstallBlockFacts DEF RecoverInstall
<1>4. cache' = home'
  BY <1>1 DEF RecoverInstall, InstallBlock, OpsInv, RecoverStages
<1>5. TypeOK'
  BY <1>1, <1>2, <1>3 DEF RecoverInstall, TypeOK, RecoverStages
<1>6. OpsInv'
  BY <1>1, <1>2, <1>4 DEF RecoverInstall, OpsInv, InOp, CommitStages, RecoverStages
<1>7. CacheInv'  BY <1>2 DEF CacheInv, RecoverStages
<1>8. StageInv'
  <2>1. CASE idx < Len(lh) /\ stage' = "recover" /\ idx' = idx + 1
    <3>1. Installed(idx - 1)'  BY <1>1, <1>2, <1>3, <2>1 DEF Installed
    <3> QED  BY <1>1, <1>2, <2>1, <3>1 DEF StageInv
  <2>2. CASE idx = Len(lh) /\ stage' = "recover_empty" /\ idx' = 1
    <3>1. Installed(Len(lh))'  BY <1>1, <1>3, <2>2 DEF Installed
    <3> QED  BY <1>1, <2>2, <3>1 DEF StageInv
  <2> QED  BY <1>2, <2>1, <2>2
<1> QED  BY <1>1, <1>5, <1>6, <1>7, <1>8 DEF Distinct

(* empty_head in recover preserves LogInv. *)
LEMMA RecoverEmptyInv == ASSUME LogInv, RecoverEmpty PROVE LogInv'
<1> USE DEF LogInv
<1>1. TypeOK'  BY EmptyLogged, LogAssumption DEF RecoverEmpty, TypeOK
<1>2. OpsInv'  BY DEF RecoverEmpty, OpsInv, InOp, CommitStages, RecoverStages
<1>3. CacheInv'
  BY EmptyLogged DEF RecoverEmpty, CacheInv, OpsInv, RecoverStages
<1>4. StageInv'  BY DEF RecoverEmpty, StageInv
<1> QED  BY <1>1, <1>2, <1>3, <1>4, EmptyLogged DEF RecoverEmpty

(* Recycling an unpinned buffer changes nothing: it holds what the disk    *)
(* holds.  This is where pin() matters.                                    *)
LEMMA RecycleClean ==
  ASSUME LogInv, NEW b \in Blocks, Recycle(b) PROVE cache' = cache
<1> USE DEF LogInv
<1>1. cache[b] = home[b]
  <2>1. CASE stage \in RecoverStages  BY <2>1 DEF OpsInv
  <2>2. CASE stage \notin RecoverStages /\ b \notin Logged(lh)
    BY <2>2 DEF CacheInv, Recycle
  <2>3. CASE stage \notin RecoverStages /\ b \in Logged(lh)
    <3>1. PICK i \in 1 .. Len(lh) : b = lh[i]  BY <2>3 DEF Logged
    <3>2. stage = "empty_head" \/ (stage = "install" /\ i < idx)
      BY <2>3, <3>1 DEF CacheInv, Recycle
    <3>3. CASE stage = "empty_head"
      BY <3>3, InstalledClean DEF Recycle
    <3>4. CASE stage = "install" /\ i < idx
      <4>1. i \in 1 .. (idx - 1)  BY <3>1, <3>4 DEF TypeOK
      <4>2. home[lh[i]] = logblk[i]  BY <3>4, <4>1 DEF StageInv, Installed
      <4>3. logblk[i] = cache[lh[i]]  BY <3>1, <3>4 DEF StageInv, Copied
      <4> QED  BY <3>1, <4>2, <4>3
    <3> QED  BY <3>2, <3>3, <3>4
  <2> QED  BY <2>1, <2>2, <2>3
<1> QED  BY <1>1 DEF Recycle, TypeOK

(* recycle of an unpinned buffer preserves LogInv. *)
LEMMA RecycleInv == ASSUME LogInv, NEW b \in Blocks, Recycle(b) PROVE LogInv'
<1>1. UNCHANGED vars  BY RecycleClean DEF Recycle, vars
<1> QED
  BY <1>1 DEF LogInv, vars, TypeOK, Distinct, OpsInv, InOp, CacheInv, StageInv,
              Copied, Installed

(* kill leaves the log alone. *)
LEMMA KillInv == ASSUME LogInv, NEW p \in Procs, Kill(p) PROVE LogInv'
BY DEF Kill, LogInv, TypeOK, Distinct, OpsInv, InOp, CacheInv, StageInv,
       Copied, Installed

(* A step that changes nothing preserves LogInv. *)
LEMMA StutterInv == ASSUME LogInv, UNCHANGED vars PROVE LogInv'
BY DEF LogInv, vars, TypeOK, Distinct, OpsInv, InOp, CacheInv, StageInv,
       Copied, Installed

(***************************************************************************)
(* LogInv holds in every reachable state of the log, whatever the          *)
(* interleaving of begin_op, write, end_op and commit and wherever the     *)
(* crashes: in particular every stage of commit leaves the disk such that  *)
(* recover() has the complete transaction or none of it.                   *)
(***************************************************************************)
THEOREM LogInvariant == Spec => []LogInv
<1>1. ASSUME LogInv, [Next]_vars PROVE LogInv'
  BY <1>1, BeginOpInv, WriteInv, EndOpInv, FinishCommitInv, WriteLogInv,
     WriteHeadInv, InstallInv, EmptyHeadInv, CrashInv, ReadHeadInv,
     RecoverInstallInv, RecoverEmptyInv, RecycleInv, KillInv, StutterInv DEF Next
<1> QED  BY <1>1, InitInv, PTL DEF Spec

(* The types of the log's state hold for every value of the constants; in  *)
(* particular the header never grows past the log area.                    *)
THEOREM LogTypeCorrect == Spec => []TypeOK
<1>1. LogInv => TypeOK  BY DEF LogInv
<1> QED  BY <1>1, LogInvariant, PTL

-----------------------------------------------------------------------------
(***************************************************************************)
(* Log implements AtomicDisk.                                              *)
(***************************************************************************)

(* The abstract memory of the refinement mapping. *)
Mem == IF stage \in RecoverStages THEN Recovered ELSE cache

(* What recover() would produce, without the CHOOSE of its definition. *)
LEMMA RecoveredValue ==
  ASSUME Distinct(dhead)
  PROVE  /\ \A i \in 1 .. Len(dhead) : dhead[i] \in Blocks => Recovered[dhead[i]] = logblk[i]
         /\ \A b \in Blocks : b \notin Logged(dhead) => Recovered[b] = home[b]
<1>1. ASSUME NEW i \in 1 .. Len(dhead), dhead[i] \in Blocks
      PROVE  Recovered[dhead[i]] = logblk[i]
  <2>1. dhead[i] \in Logged(dhead)  BY DEF Logged
  <2>2. \A j \in 1 .. Len(dhead) : dhead[j] = dhead[i] => j = i
    BY DEF Distinct
  <2>3. (CHOOSE j \in 1 .. Len(dhead) : dhead[j] = dhead[i]) = i
    BY <2>2
  <2> QED  BY <1>1, <2>1, <2>3 DEF Recovered
<1>2. \A b \in Blocks : b \notin Logged(dhead) => Recovered[b] = home[b]
  BY DEF Recovered
<1> QED  BY <1>1, <1>2

(* With an empty header on disk, a reboot finds the home blocks. *)
LEMMA RecoveredHome ==
  ASSUME TypeOK, dhead = <<>> PROVE Recovered = home
BY EmptyLogged DEF TypeOK, Recovered

(* With every logged block installed, too. *)
LEMMA RecoveredInstalled ==
  ASSUME TypeOK, Distinct(dhead), dhead = lh, Installed(Len(lh))
  PROVE  Recovered = home
<1>1. ASSUME NEW b \in Blocks PROVE Recovered[b] = home[b]
  <2>1. CASE b \in Logged(dhead)
    <3>1. PICK i \in 1 .. Len(dhead) : b = dhead[i]  BY <2>1 DEF Logged
    <3> QED  BY <3>1, RecoveredValue DEF Installed
  <2>2. CASE b \notin Logged(dhead)  BY <2>2, RecoveredValue
  <2> QED  BY <2>1, <2>2
<1> QED  BY <1>1 DEF Recovered, TypeOK

(* install_trans does not change what a reboot would find. *)
LEMMA RecoveredInstall ==
  ASSUME TypeOK, dhead = lh, NEW k \in 1 .. Len(lh), UNCHANGED <<dhead, logblk>>,
         home' = [home EXCEPT ![lh[k]] = logblk[k]]
  PROVE  Recovered' = Recovered
<1>1. ASSUME NEW b \in Blocks, b \notin Logged(dhead) PROVE home'[b] = home[b]
  BY <1>1, HeaderType DEF TypeOK
<1> QED  BY <1>1 DEF Recovered

(* The initial states of the log are initial states of the atomic disk. *)
LEMMA InitRefines == ASSUME Init, LogInv PROVE Atomic!AInit
<1>1. Recovered = home  BY RecoveredHome DEF Init, LogInv
<1>2. {p \in Procs : pc[p] = "in"} = {}  BY DEF Init
<1> QED  BY <1>1, <1>2 DEF Init, Atomic!AInit, RecoverStages

(***************************************************************************)
(* Every step of the log is a step of the atomic disk or leaves it alone:  *)
(* write_head is the flush, every other disk write is invisible.           *)
(***************************************************************************)
LEMMA NextRefines ==
  ASSUME LogInv, LogInv', [Next]_vars PROVE [Atomic!ANext]_(Atomic!avars)
<1> USE DEF LogInv
<1> DEFINE Same == Recovered' = Recovered /\ Mem' = Mem /\ InOp' = InOp
                   /\ committing' = committing
<1>0. Same => UNCHANGED Atomic!avars
  BY DEF Atomic!avars, Mem, InOp
<1>1. ASSUME UNCHANGED <<home, logblk, dhead>> PROVE Recovered' = Recovered
  BY <1>1 DEF Recovered
<1>2. ASSUME NEW p \in Procs, BeginOp(p) PROVE [Atomic!ANext]_(Atomic!avars)
  <2>1. Recovered' = Recovered /\ Mem' = Mem  BY <1>1, <1>2 DEF BeginOp, Mem
  <2>2. CASE MustWait
    <3>1. InOp' = InOp  BY <1>2, <2>2 DEF BeginOp, InOp, TypeOK
    <3> QED  BY <1>0, <1>2, <2>1, <3>1 DEF BeginOp
  <2>3. CASE ~MustWait
    <3>1. InOp' = InOp \cup {p} /\ committing' = committing /\ ~committing
      BY <1>2, <2>3 DEF BeginOp, InOp, TypeOK, MustWait
    <3>2. Atomic!ABegin(p)  BY <2>1, <3>1 DEF Atomic!ABegin, Mem, InOp
    <3> QED  BY <3>2 DEF Atomic!ANext
  <2> QED  BY <2>2, <2>3
<1>3. ASSUME NEW p \in Procs, NEW b \in Blocks, NEW d \in Data, Write(p, b, d)
      PROVE  [Atomic!ANext]_(Atomic!avars)
  <2>1. /\ Recovered' = Recovered /\ InOp' = InOp /\ committing' = committing
        /\ p \in InOp
    BY <1>1, <1>3 DEF Write, InOp
  <2>2. Mem' = [Mem EXCEPT ![b] = d]
    <3>1. stage' = stage /\ stage \notin RecoverStages  BY <1>3 DEF Write, Running
    <3> QED  BY <1>3, <3>1 DEF Write, Mem
  <2>3. Atomic!AWrite(p, b, d)  BY <2>1, <2>2 DEF Atomic!AWrite, Mem, InOp
  <2> QED  BY <2>3 DEF Atomic!ANext
<1>4. ASSUME NEW p \in Procs, EndOp(p) PROVE [Atomic!ANext]_(Atomic!avars)
  <2>1. p \in InOp  BY <1>4 DEF EndOp, InOp
  <2>2. IsFiniteSet(InOp)  BY LogAssumption, FS_Subset DEF InOp
  <2>3. /\ Cardinality(InOp) \in Nat /\ Cardinality(InOp) >= 1
        /\ Cardinality(InOp) = 1 <=> InOp \ {p} = {}
    BY <2>1, <2>2, CountOps
  <2>4. stage = "idle" /\ ~committing  BY <2>3 DEF OpsInv, CommitStages
  <2>5. LastOp <=> InOp \ {p} = {}
    BY <1>4, <2>3 DEF EndOp, LastOp, OpsInv
  <2>6. InOp' = InOp \ {p}
    <3>1. CASE LastOp
      BY <1>4, <2>4, <3>1 DEF EndOp, InOp, TypeOK
    <3>2. CASE ~LastOp
      BY <1>4, <2>4, <3>2, WakeAllType DEF EndOp
    <3> QED  BY <3>1, <3>2
  <2>7. committing' = (InOp' = {})
    BY <1>4, <2>4, <2>5, <2>6 DEF EndOp, TypeOK
  <2>8. Recovered' = Recovered /\ Mem' = Mem
    BY <1>1, <1>4, <2>4 DEF EndOp, Mem, RecoverStages
  <2>9. Atomic!AEnd(p)
    BY <2>1, <2>6, <2>7, <2>8 DEF Atomic!AEnd, Mem, InOp
  <2> QED  BY <2>9 DEF Atomic!ANext
<1>5. ASSUME NEW p \in Procs, FinishCommit(p) PROVE [Atomic!ANext]_(Atomic!avars)
  <2>1. Recovered' = Recovered /\ Mem' = Mem
    BY <1>1, <1>5 DEF FinishCommit, Mem, RecoverStages
  <2>2. InOp' = InOp \ {p} /\ p \notin InOp
    BY <1>5, WakeAllType DEF FinishCommit, InOp
  <2>3. Recovered = Mem
    <3>1. dhead = <<>> /\ lh = <<>>  BY <1>5 DEF FinishCommit, StageInv
    <3>2. \A b \in Blocks : cache[b] = home[b]
      BY <1>5, <3>1, EmptyLogged DEF FinishCommit, CacheInv, RecoverStages
    <3>3. cache = home  BY <3>2 DEF TypeOK
    <3> QED  BY <1>5, <3>1, <3>3, RecoveredHome DEF FinishCommit, Mem, RecoverStages
  <2>4. committing /\ committing' = FALSE
    BY <1>5 DEF FinishCommit, OpsInv, CommitStages
  <2>5. Atomic!ADone  BY <2>1, <2>2, <2>3, <2>4 DEF Atomic!ADone, Mem, InOp
  <2> QED  BY <2>5 DEF Atomic!ANext
<1>6. ASSUME WriteLog PROVE [Atomic!ANext]_(Atomic!avars)
  <2>1. dhead = <<>> /\ dhead' = <<>> /\ home' = home
    BY <1>6 DEF WriteLog, Advance, StageInv
  <2>2. Recovered' = home'
    <3>1. TypeOK'  OBVIOUS
    <3> QED  BY <2>1, <3>1, EmptyLogged DEF TypeOK, Recovered
  <2>3. Recovered = home  BY <2>1, RecoveredHome
  <2>4. stage \notin RecoverStages /\ stage' \notin RecoverStages
    BY <1>6 DEF WriteLog, Advance, RecoverStages
  <2> QED  BY <1>0, <1>6, <2>1, <2>2, <2>3, <2>4 DEF WriteLog, Mem, InOp
<1>7. ASSUME WriteHead PROVE [Atomic!ANext]_(Atomic!avars)
  <2>1. Copied(Len(lh)) /\ dhead' = lh /\ UNCHANGED <<home, logblk, cache, lh>> /\ ~panicked
    BY <1>7 DEF WriteHead, Commits, StageInv
  <2>2. Recovered' = cache
    <3>1. Distinct(dhead')  BY <2>1
    <3>2. ASSUME NEW b \in Blocks PROVE Recovered'[b] = cache[b]
      <4>1. CASE b \in Logged(lh)
        <5>1. PICK i \in 1 .. Len(lh) : b = lh[i]  BY <4>1 DEF Logged
        <5>2. logblk[i] = cache[b]  BY <2>1, <5>1 DEF Copied
        <5>3. (CHOOSE j \in 1 .. Len(lh) : lh[j] = b) = i
          BY <5>1 DEF Distinct
        <5> QED  BY <2>1, <4>1, <5>2, <5>3 DEF Recovered
      <4>2. CASE b \notin Logged(lh)
        <5>1. cache[b] = home[b]
          BY <1>7, <2>1, <4>2 DEF CacheInv, WriteHead, RecoverStages
        <5> QED  BY <2>1, <4>2, <5>1 DEF Recovered
      <4> QED  BY <4>1, <4>2
    <3> QED  BY <3>2 DEF Recovered, TypeOK
  <2>3. Mem = cache /\ Mem' = cache
    BY <1>7, <2>1 DEF WriteHead, Mem, RecoverStages
  <2>4. committing  BY <1>7 DEF WriteHead, OpsInv, CommitStages
  <2>5. Atomic!AFlush
    BY <1>7, <2>2, <2>3, <2>4 DEF Atomic!AFlush, WriteHead, Mem, InOp
  <2> QED  BY <2>5 DEF Atomic!ANext
<1>8. ASSUME Install PROVE [Atomic!ANext]_(Atomic!avars)
  <2>1. /\ stage = "install" /\ idx <= Len(lh) /\ Copied(Len(lh)) /\ dhead = lh
        /\ Installed(idx - 1)
    BY <1>8 DEF Install, Advance, StageInv
  <2>2. /\ idx \in 1 .. Len(lh) /\ lh[idx] \in Blocks /\ stage' \notin RecoverStages
    BY <1>8, <2>1, AdvanceType DEF Install, RecoverStages
  <2>3. Recovered' = Recovered
    BY <1>8, <2>1, <2>2, RecoveredInstall DEF Install, InstallBlock
  <2>4. cache' = cache
    <3>1. cache[lh[idx]] = logblk[idx]  BY <2>1, <2>2 DEF Copied
    <3> QED  BY <1>8, <2>2, <3>1 DEF TypeOK, Install, InstallBlock
  <2> QED  BY <1>0, <1>8, <2>1, <2>2, <2>3, <2>4 DEF Install, Mem, InOp, RecoverStages
<1>9. ASSUME EmptyHead PROVE [Atomic!ANext]_(Atomic!avars)
  <2>1. dhead = lh /\ Installed(Len(lh))  BY <1>9 DEF EmptyHead, StageInv
  <2>2. Recovered = home  BY <2>1, RecoveredInstalled
  <2>3. Recovered' = home'
    <3>1. dhead' = <<>> /\ TypeOK'  BY <1>9 DEF EmptyHead
    <3> QED  BY <3>1, EmptyLogged DEF TypeOK, Recovered
  <2> QED  BY <1>0, <1>9, <2>2, <2>3 DEF EmptyHead, Mem, InOp, RecoverStages
<1>10. ASSUME Crash PROVE [Atomic!ANext]_(Atomic!avars)
  <2>1. Recovered' = Recovered /\ Mem' = Recovered /\ InOp' = {} /\ committing' = FALSE
    BY <1>1, <1>10 DEF Crash, Mem, InOp, RecoverStages
  <2>2. Atomic!ACrash  BY <2>1 DEF Atomic!ACrash, Mem, InOp
  <2> QED  BY <2>2 DEF Atomic!ANext
<1>11. ASSUME ReadHead PROVE [Atomic!ANext]_(Atomic!avars)
  <2>1. Recovered' = Recovered /\ Mem = Recovered
    BY <1>1, <1>11 DEF ReadHead, Mem, RecoverStages
  <2>2. CASE Len(dhead) > 0
    BY <1>0, <1>11, <2>1, <2>2 DEF ReadHead, Mem, InOp, RecoverStages
  <2>3. CASE ~(Len(dhead) > 0)
    <3>1. dhead = <<>>  BY <2>3 DEF TypeOK
    <3>2. Recovered = home  BY <3>1, RecoveredHome
    <3>3. cache = home  BY <1>11 DEF ReadHead, OpsInv, RecoverStages
    <3> QED  BY <1>0, <1>11, <2>1, <2>3, <3>2, <3>3 DEF ReadHead, Mem, InOp, RecoverStages
  <2> QED  BY <2>2, <2>3
<1>12. ASSUME RecoverInstall PROVE [Atomic!ANext]_(Atomic!avars)
  <2>1. stage = "recover" /\ idx <= Len(lh) /\ dhead = lh
    BY <1>12 DEF RecoverInstall, Advance, StageInv
  <2>2. idx \in 1 .. Len(lh) /\ stage' \in RecoverStages
    BY <1>12, <2>1, AdvanceType DEF RecoverInstall, RecoverStages
  <2>3. Recovered' = Recovered
    BY <1>12, <2>1, <2>2, RecoveredInstall DEF RecoverInstall, InstallBlock
  <2> QED  BY <1>0, <1>12, <2>1, <2>2, <2>3 DEF RecoverInstall, Mem, InOp, RecoverStages
<1>13. ASSUME RecoverEmpty PROVE [Atomic!ANext]_(Atomic!avars)
  <2>1. dhead = lh /\ Installed(Len(lh))  BY <1>13 DEF RecoverEmpty, StageInv
  <2>2. Recovered = home /\ cache = home
    BY <1>13, <2>1, RecoveredInstalled DEF RecoverEmpty, OpsInv, RecoverStages
  <2>3. Recovered' = home'
    <3>1. dhead' = <<>> /\ TypeOK'  BY <1>13 DEF RecoverEmpty
    <3> QED  BY <3>1, EmptyLogged DEF TypeOK, Recovered
  <2> QED  BY <1>0, <1>13, <2>2, <2>3 DEF RecoverEmpty, Mem, InOp, RecoverStages
<1>14. ASSUME NEW b \in Blocks, Recycle(b) PROVE [Atomic!ANext]_(Atomic!avars)
  BY <1>0, <1>1, <1>14, RecycleClean DEF Recycle, Mem, InOp
<1>15. ASSUME UNCHANGED vars PROVE [Atomic!ANext]_(Atomic!avars)
  BY <1>0, <1>1, <1>15 DEF vars, Mem, InOp
<1>16. ASSUME NEW p \in Procs, Kill(p) PROVE [Atomic!ANext]_(Atomic!avars)
  BY <1>0, <1>1, <1>16 DEF Kill, Mem, InOp
<1> QED
  BY <1>2, <1>3, <1>4, <1>5, <1>6, <1>7, <1>8, <1>9, <1>10, <1>11, <1>12, <1>13,
     <1>14, <1>15, <1>16 DEF Next

(***************************************************************************)
(* The log implements an atomic disk for every number of processes, blocks *)
(* and values and every log size: file-system operations survive a crash   *)
(* as a whole or not at all.                                               *)
(***************************************************************************)
THEOREM LogImplementsAtomicDisk == Spec => ImplementsAtomicDisk
<1>1. Init /\ LogInv => Atomic!AInit  BY InitRefines
<1>2. LogInv /\ LogInv' /\ [Next]_vars => [Atomic!ANext]_(Atomic!avars)  BY NextRefines
<1> QED  BY <1>1, <1>2, LogInvariant, PTL DEF Spec, ImplementsAtomicDisk, Atomic!ASpec

-----------------------------------------------------------------------------
(***************************************************************************)
(* No lost wakeup in begin_op.                                             *)
(***************************************************************************)

(* A longer header or one more operation keeps a waiter waiting. *)
LEMMA MustWaitMonotonic ==
  ASSUME LogInv, MustWait, ~committing, NEW l \in Nat, NEW o \in Nat,
         l >= Len(lh), o >= outstanding
  PROVE  1 + l + (o + 1) * MAXOPBLOCKS > LOGSIZE
<1>1. /\ outstanding \in Nat /\ Len(lh) \in Nat /\ MAXOPBLOCKS \in Nat /\ LOGSIZE \in Nat
      /\ 1 + Len(lh) + (outstanding + 1) * MAXOPBLOCKS > LOGSIZE
  BY LogAssumption DEF LogInv, TypeOK, MustWait
<1>2. \A a, b, m \in Nat : a >= b => a * m >= b * m
  OBVIOUS
<1>3. (o + 1) * MAXOPBLOCKS >= (outstanding + 1) * MAXOPBLOCKS
  BY <1>1, <1>2
<1>4. (o + 1) * MAXOPBLOCKS \in Nat /\ (outstanding + 1) * MAXOPBLOCKS \in Nat
  BY <1>1
<1> QED  BY <1>1, <1>3, <1>4

(* Every step of the log preserves WakeupInv. *)
LEMMA WakeupStep == ASSUME LogInv, LogInv', WakeupInv, [Next]_vars PROVE WakeupInv'
<1> USE DEF LogInv, WakeupInv, NoLostWakeup
<1>0. /\ outstanding \in Nat /\ outstanding' \in Nat
      /\ Len(lh) \in Nat /\ Len(lh') \in Nat
  BY DEF TypeOK
<1>1. ASSUME NEW p \in Procs, BeginOp(p) PROVE WakeupInv'
  <2>1. CASE MustWait
    <3>1. UNCHANGED <<outstanding, lh, committing, stage>>
      BY <1>1, <2>1 DEF BeginOp
    <3>2. MustWait'  BY <2>1, <3>1 DEF MustWait
    <3>3. committing \/ outstanding > 0
      <4>1. SUFFICES ASSUME ~committing, outstanding = 0 PROVE FALSE
        BY <1>0
      <4>2. stage = "idle"
        BY <1>1, <4>1 DEF BeginOp, Running, OpsInv, TypeOK
      <4>3. Len(lh) = 0  BY <4>1, <4>2
      <4> QED  BY <2>1, <4>1, <4>3, LogAssumption DEF MustWait
    <3>4. stuck' = stuck /\ \A q \in Procs : pc'[q] = "sleep" => q = p \/ pc[q] = "sleep"
      BY <1>1 DEF BeginOp, TypeOK
    <3> QED  BY <3>1, <3>2, <3>3, <3>4
  <2>2. CASE ~MustWait
    <3>1. stuck' = stuck /\ \A q \in Procs : pc'[q] = "sleep" => pc[q] = "sleep"
      BY <1>1, <2>2 DEF BeginOp, TypeOK
    <3>2. \A q \in Procs \ stuck : pc[q] # "sleep"
      BY <2>2 DEF MustWait
    <3>3. outstanding' = outstanding + 1
      BY <1>1, <2>2 DEF BeginOp
    <3> QED  BY <1>0, <3>1, <3>2, <3>3
  <2> QED  BY <2>1, <2>2
<1>2. ASSUME NEW p \in Procs, NEW b \in Blocks, NEW d \in Data, Write(p, b, d)
      PROVE  WakeupInv'
  <2>1. outstanding >= 1
    <3>1. p \in InOp /\ IsFiniteSet(InOp)
      BY <1>2, LogAssumption, FS_Subset DEF Write, InOp
    <3>2. Cardinality(InOp) >= 1  BY <3>1, CountOps
    <3> QED  BY <3>2 DEF OpsInv
  <2>2. Len(lh') >= Len(lh)
    BY <1>0, <1>2 DEF Write, Record, TypeOK
  <2>3. UNCHANGED <<outstanding, committing, pc, stuck, stage>>  BY <1>2 DEF Write
  <2>4. ASSUME MustWait, ~committing PROVE MustWait'
    BY <1>0, <2>2, <2>3, <2>4, MustWaitMonotonic DEF MustWait
  <2> QED  BY <1>0, <2>1, <2>3, <2>4
<1>3. ASSUME NEW p \in Procs, EndOp(p) PROVE WakeupInv'
  <2>1. p \in InOp /\ IsFiniteSet(InOp)
    BY <1>3, LogAssumption, FS_Subset DEF EndOp, InOp
  <2>2. Cardinality(InOp) >= 1 /\ Cardinality(InOp) \in Nat  BY <2>1, CountOps
  <2>3. ~committing  BY <2>2 DEF OpsInv, CommitStages
  <2>4. CASE LastOp
    BY <1>3, <2>3, <2>4 DEF EndOp
  <2>5. CASE ~LastOp
    <3>1. stuck' = stuck /\ \A q \in Procs \ stuck : pc'[q] # "sleep"
      BY <1>3, <2>3, <2>5 DEF EndOp, WakeAll
    <3> QED  BY <2>5, <3>1 DEF LastOp
  <2> QED  BY <2>4, <2>5
<1>4. ASSUME NEW p \in Procs, FinishCommit(p) PROVE WakeupInv'
  <2>1. stuck' = stuck /\ \A q \in Procs \ stuck : pc'[q] # "sleep"
    BY <1>4 DEF FinishCommit, WakeAll
  <2>2. lh' = <<>>  BY <1>4 DEF FinishCommit, StageInv
  <2> QED  BY <2>1, <2>2
<1>5. ASSUME WriteLog \/ WriteHead \/ Install \/ EmptyHead PROVE WakeupInv'
  <2>1. committing /\ UNCHANGED committing /\ stage' # "idle"
    BY <1>5 DEF WriteLog, WriteHead, Install, EmptyHead, Advance, OpsInv, CommitStages
  <2> QED  BY <2>1
<1>6. ASSUME Crash PROVE WakeupInv'
  BY <1>6 DEF Crash
<1>7. ASSUME ReadHead \/ RecoverInstall \/ RecoverEmpty PROVE WakeupInv'
  <2>1. /\ stage \in RecoverStages /\ UNCHANGED <<pc, stuck>>
    BY <1>7 DEF ReadHead, RecoverInstall, RecoverEmpty, Advance, RecoverStages
  <2>2. \A q \in Procs \ stuck : pc[q] # "sleep"
    BY <2>1, <1>0 DEF OpsInv, CommitStages, RecoverStages
  <2>3. stage' = "idle" => lh' = <<>>
    <3>1. ReadHead /\ stage' = "idle" => lh' = <<>>  BY DEF ReadHead, TypeOK
    <3> QED  BY <1>7, <3>1 DEF RecoverInstall, RecoverEmpty, Advance
  <2> QED  BY <2>1, <2>2, <2>3
<1>8. ASSUME NEW b \in Blocks, Recycle(b) PROVE WakeupInv'
  BY <1>8 DEF Recycle, MustWait
<1>9. ASSUME UNCHANGED vars PROVE WakeupInv'
  BY <1>9 DEF vars, MustWait
<1>10. ASSUME NEW p \in Procs, Kill(p) PROVE WakeupInv'
  BY <1>10 DEF Kill, MustWait
<1> QED
  BY <1>1, <1>2, <1>3, <1>4, <1>5, <1>6, <1>7, <1>8, <1>9, <1>10 DEF Next

(***************************************************************************)
(* Whoever sleeps in begin_op does so while a commit is running, or while  *)
(* another operation is inside and the log is too full: the end_op that    *)
(* changes either wakes it.                                                *)
(***************************************************************************)
THEOREM LogNoLostWakeup == Spec => []NoLostWakeup
<1>1. Init => WakeupInv
  BY DEF Init, WakeupInv, NoLostWakeup
<1>2. LogInv /\ LogInv' /\ WakeupInv /\ [Next]_vars => WakeupInv'  BY WakeupStep
<1>3. WakeupInv => NoLostWakeup  BY DEF WakeupInv
<1> QED  BY <1>1, <1>2, <1>3, LogInvariant, PTL DEF Spec

-----------------------------------------------------------------------------
(***************************************************************************)
(* The reservation of begin_op.  Each operation inside owns MAXOPBLOCKS    *)
(* numbered places of the log and has used as many of them as it has       *)
(* written blocks.                                                         *)
(***************************************************************************)

(* The places that operations have reserved and not yet used. *)
Reserved == {r \in InOp \X (1 .. MAXOPBLOCKS) : r[2] > Cardinality(wrote[r[1]])}

(* What is logged and what is still reserved fit into the log. *)
ReserveInv ==
    /\ ~panicked
    /\ \A p \in Procs : IsFiniteSet(wrote[p]) /\ Cardinality(wrote[p]) <= OpBlocks
    /\ \A p \in Procs : wrote[p] # {} => pc[p] = "in" /\ wrote[p] \subseteq Logged(lh)
    /\ 1 + Len(lh) + Cardinality(Reserved) <= LOGSIZE

(* Operations write fewer blocks than they reserve, and the log area that  *)
(* mkfs made is as large as the kernel takes it to be.                     *)
Modest == OpBlocks < MAXOPBLOCKS /\ LOGSIZE <= SIZE

(* There are at most outstanding * MAXOPBLOCKS unused places. *)
LEMMA ReservedCount ==
  LogInv => /\ IsFiniteSet(Reserved) /\ Cardinality(Reserved) \in Nat
            /\ Cardinality(Reserved) <= outstanding * MAXOPBLOCKS
<1> SUFFICES ASSUME LogInv
             PROVE  /\ IsFiniteSet(Reserved) /\ Cardinality(Reserved) \in Nat
                    /\ Cardinality(Reserved) <= outstanding * MAXOPBLOCKS
  OBVIOUS
<1>1. MAXOPBLOCKS \in Nat /\ 1 \in Int /\ MAXOPBLOCKS \in Int  BY LogAssumption
<1>2. IsFiniteSet(1 .. MAXOPBLOCKS) /\ Cardinality(1 .. MAXOPBLOCKS) = MAXOPBLOCKS
  <2>1. MAXOPBLOCKS # 0 => MAXOPBLOCKS - 1 + 1 = MAXOPBLOCKS /\ 1 <= MAXOPBLOCKS  BY <1>1
  <2> QED  BY <1>1, <2>1, FS_Interval, LogAssumption
<1>3. IsFiniteSet(InOp) /\ Cardinality(InOp) = outstanding
  BY LogAssumption, FS_Subset DEF InOp, LogInv, OpsInv
<1>4. IsFiniteSet(InOp \X (1 .. MAXOPBLOCKS))
      /\ Cardinality(InOp \X (1 .. MAXOPBLOCKS)) = outstanding * MAXOPBLOCKS
  BY <1>2, <1>3, FS_Product
<1>5. Reserved \subseteq InOp \X (1 .. MAXOPBLOCKS)  BY DEF Reserved
<1> QED  BY <1>4, <1>5, FS_Subset, FS_CardinalityType

(* And after a step.                                                       *)
LEMMA ReservedCountNext ==
  LogInv' => /\ IsFiniteSet(Reserved') /\ Cardinality(Reserved') \in Nat
             /\ Cardinality(Reserved') <= outstanding' * MAXOPBLOCKS
<1> DEFINE Counted == /\ IsFiniteSet(Reserved) /\ Cardinality(Reserved) \in Nat
                      /\ Cardinality(Reserved) <= outstanding * MAXOPBLOCKS
<1>1. LogInv => Counted  BY ReservedCount
<1>2. LogInv' => Counted'
  <2> HIDE DEF Counted
  <2> QED  BY <1>1, PTL
<1> QED  BY <1>2

(* A step that records nothing and lets no operation in keeps the          *)
(* reservation.                                                            *)
LEMMA ReserveKept ==
  ASSUME LogInv, LogInv', ReserveInv, ~panicked', UNCHANGED <<lh, wrote>>, InOp' \subseteq InOp,
         \A p \in Procs : wrote[p] # {} => pc'[p] = "in"
  PROVE  ReserveInv'
<1>1. Reserved' \subseteq Reserved  BY DEF Reserved
<1>2. IsFiniteSet(Reserved) /\ Cardinality(Reserved) \in Nat /\ Cardinality(Reserved') \in Nat
  BY ReservedCount, ReservedCountNext
<1>3. Cardinality(Reserved') <= Cardinality(Reserved)  BY <1>1, <1>2, FS_Subset
<1>4. Len(lh) \in Nat /\ LOGSIZE \in Nat  BY LogAssumption DEF LogInv, TypeOK
<1>5. 1 + Len(lh) + Cardinality(Reserved') <= LOGSIZE  BY <1>2, <1>3, <1>4 DEF ReserveInv
<1> QED  BY <1>5 DEF ReserveInv

(* No operation is inside. *)
Unreserved == ~panicked /\ InOp = {} /\ \A p \in Procs : wrote[p] = {}

(* Without an operation inside, nothing is reserved.                       *)
LEMMA ReserveNone == LogInv /\ Unreserved => ReserveInv
<1> SUFFICES ASSUME LogInv, Unreserved PROVE ReserveInv
  OBVIOUS
<1>1. Reserved = {}  BY DEF Unreserved, Reserved
<1>2. Cardinality(Reserved) = 0 /\ IsFiniteSet({}) /\ Cardinality({}) = 0  BY <1>1, FS_EmptySet
<1>3. Len(lh) \in Nat /\ LOGSIZE \in Nat /\ OpBlocks \in Nat /\ Len(lh) < LOGSIZE
  BY LogAssumption DEF LogInv, TypeOK
<1>4. 1 + Len(lh) + 0 <= LOGSIZE /\ 0 <= OpBlocks  BY <1>3
<1>5. \A p \in Procs : IsFiniteSet(wrote[p]) /\ Cardinality(wrote[p]) <= OpBlocks
  BY <1>2, <1>4 DEF Unreserved
<1> QED  BY <1>2, <1>4, <1>5 DEF ReserveInv, Unreserved

(* And after a step.                                                       *)
LEMMA ReserveNoneNext == LogInv' /\ Unreserved' => ReserveInv'
BY ReserveNone, PTL

(* begin_op admits an operation only with MAXOPBLOCKS free places.         *)
LEMMA BeginOpReserves ==
  ASSUME LogInv, LogInv', ReserveInv, NEW p \in Procs, BeginOp(p) PROVE ReserveInv'
<1>1. /\ ~panicked' /\ pc[p] \in {"out", "woken"} /\ UNCHANGED <<lh, wrote, committing>>
      /\ pc \in [Procs -> {"out", "sleep", "woken", "in", "commit"}]
  BY DEF BeginOp, ReserveInv, LogInv, TypeOK
<1>2. wrote[p] = {}  BY <1>1 DEF ReserveInv
<1>3. CASE MustWait
  <2>1. pc' = [pc EXCEPT ![p] = "sleep"]  BY <1>3 DEF BeginOp
  <2>2. InOp' \subseteq InOp /\ \A q \in Procs : wrote[q] # {} => pc'[q] = "in"
    BY <1>1, <1>2, <2>1 DEF InOp, ReserveInv
  <2> QED  BY <1>1, <2>2, ReserveKept
<1>4. CASE ~MustWait
  <2>1. pc' = [pc EXCEPT ![p] = "in"] /\ outstanding' = outstanding + 1  BY <1>4 DEF BeginOp
  <2>2. \A q \in Procs : wrote[q] # {} => pc'[q] = "in"  BY <1>1, <1>2, <2>1 DEF ReserveInv
  <2>3. 1 + Len(lh) + (outstanding + 1) * MAXOPBLOCKS <= LOGSIZE
    <3>1. ~(1 + Len(lh) + (outstanding + 1) * MAXOPBLOCKS > LOGSIZE)  BY <1>4 DEF MustWait
    <3>2. Len(lh) \in Nat /\ outstanding \in Nat /\ MAXOPBLOCKS \in Nat /\ LOGSIZE \in Nat
      BY LogAssumption DEF LogInv, TypeOK
    <3>3. (outstanding + 1) * MAXOPBLOCKS \in Nat  BY <3>2
    <3> QED  BY <3>1, <3>2, <3>3
  <2>4. Cardinality(Reserved') \in Nat /\ Cardinality(Reserved') <= (outstanding + 1) * MAXOPBLOCKS
    <3>1. Cardinality(Reserved') \in Nat /\ Cardinality(Reserved') <= outstanding' * MAXOPBLOCKS
      BY ReservedCountNext
    <3> QED  BY <2>1, <3>1
  <2>5. 1 + Len(lh) + Cardinality(Reserved') <= LOGSIZE
    <3>1. Len(lh) \in Nat /\ outstanding \in Nat /\ MAXOPBLOCKS \in Nat /\ LOGSIZE \in Nat
      BY LogAssumption DEF LogInv, TypeOK
    <3>2. (outstanding + 1) * MAXOPBLOCKS \in Nat  BY <3>1
    <3> QED  BY <2>3, <2>4, <3>1, <3>2
  <2> QED  BY <1>1, <2>2, <2>5 DEF ReserveInv
<1> QED  BY <1>3, <1>4

(* write finds room, and a recorded block uses up a place of its writer.   *)
LEMMA WriteFits ==
  ASSUME Modest, LogInv, LogInv', ReserveInv,
         NEW p \in Procs, NEW b \in Blocks, NEW d \in Data, Write(p, b, d)
  PROVE  ReserveInv'
<1>1. /\ pc[p] = "in" /\ UNCHANGED <<pc, outstanding>> /\ p \in InOp /\ InOp' = InOp
      /\ b \in wrote[p] \/ Cardinality(wrote[p]) < OpBlocks
  BY DEF Write, InOp
<1> DEFINE n == Cardinality(wrote[p])
<1>2. /\ Len(lh) \in Nat /\ LOGSIZE \in Nat /\ SIZE \in Nat /\ OpBlocks \in Nat /\ MAXOPBLOCKS \in Nat
      /\ OpBlocks < MAXOPBLOCKS /\ LOGSIZE <= SIZE
  BY LogAssumption DEF LogInv, TypeOK, Modest
<1>3. IsFiniteSet(wrote[p]) /\ n \in Nat /\ n <= OpBlocks /\ wrote[p] \subseteq Logged(lh)
  BY FS_CardinalityType DEF ReserveInv
<1>4. IsFiniteSet(Reserved) /\ Cardinality(Reserved) \in Nat /\ Cardinality(Reserved') \in Nat
  BY ReservedCount, ReservedCountNext
<1>5. 1 + Len(lh) + Cardinality(Reserved) <= LOGSIZE /\ ~panicked  BY DEF ReserveInv
<1> HIDE DEF n
<1>6. outstanding >= 1
  <2>1. IsFiniteSet(InOp)  BY LogAssumption, FS_Subset DEF InOp
  <2> QED  BY <1>1, <2>1, CountOps DEF LogInv, OpsInv
<1>7. <<p, MAXOPBLOCKS>> \in Reserved
  <2>1. MAXOPBLOCKS \in 1 .. MAXOPBLOCKS /\ MAXOPBLOCKS > n  BY <1>2, <1>3
  <2> QED  BY <1>1, <2>1 DEF Reserved, n
<1>8. Cardinality(Reserved \ {<<p, MAXOPBLOCKS>>}) = Cardinality(Reserved) - 1
      /\ IsFiniteSet(Reserved \ {<<p, MAXOPBLOCKS>>})
      /\ Cardinality(Reserved \ {<<p, MAXOPBLOCKS>>}) \in Nat
  BY <1>4, <1>7, FS_RemoveElement, FS_CardinalityType
<1>9. Len(lh) + 2 <= LOGSIZE  BY <1>2, <1>4, <1>5, <1>8
<1>10. ~NoRoom  BY <1>2, <1>9 DEF NoRoom
<1>11. ASSUME b \notin Logged(lh)
       PROVE  n + 1 < MAXOPBLOCKS /\ Len(lh) + 2 < LOGSIZE
  <2>1. b \notin wrote[p] /\ n < OpBlocks  BY <1>1, <1>3, <1>11 DEF n
  <2>2. n + 1 < MAXOPBLOCKS /\ n + 1 \in 1 .. MAXOPBLOCKS /\ n + 1 > n /\ n + 1 # MAXOPBLOCKS
    BY <1>2, <1>3, <2>1
  <2>3. <<p, n + 1>> \in Reserved \ {<<p, MAXOPBLOCKS>>}
    BY <1>1, <2>2 DEF Reserved, n
  <2>4. Cardinality(Reserved \ {<<p, MAXOPBLOCKS>>}) # 0  BY <1>8, <2>3, FS_EmptySet
  <2> QED  BY <1>2, <1>4, <1>5, <1>8, <2>2, <2>4
<1>12. b \notin Logged(lh) => ~NoRoomForNew  BY <1>2, <1>11 DEF NoRoomForNew
<1>13. ~panicked' /\ wrote' = [wrote EXCEPT ![p] = @ \cup {b}]
       /\ IF b \in Logged(lh) THEN lh' = lh ELSE lh' = Append(lh, b)
  <2>1. \/ NoRoom \/ outstanding < 1 \/ (b \notin Logged(lh) /\ NoRoomForNew)
        \/ /\ b \in Logged(lh) /\ wrote' = [wrote EXCEPT ![p] = @ \cup {b}]
           /\ lh' = lh /\ panicked' = panicked
        \/ /\ b \notin Logged(lh) /\ wrote' = [wrote EXCEPT ![p] = @ \cup {b}]
           /\ lh' = Append(lh, b) /\ panicked' = panicked
    BY DEF Write, Record
  <2>2. ~(outstanding < 1)
    <3>1. outstanding \in Nat  BY DEF LogInv, TypeOK
    <3> QED  BY <1>6, <3>1
  <2> QED  BY <1>5, <1>10, <1>12, <2>1, <2>2
<1>14. wrote \in [Procs -> SUBSET Blocks] /\ lh \in Seq(Blocks) /\ Distinct(lh)  BY DEF LogInv, TypeOK
<1>15. wrote'[p] = wrote[p] \cup {b} /\ \A q \in Procs \ {p} : wrote'[q] = wrote[q]  BY <1>13, <1>14
<1>16. IsFiniteSet(wrote'[p]) /\ Cardinality(wrote'[p]) = IF b \in wrote[p] THEN n ELSE n + 1
  <2>1. CASE b \in wrote[p]
    <3>1. wrote'[p] = wrote[p]  BY <1>15, <2>1
    <3> QED  BY <1>3, <2>1, <3>1 DEF n
  <2>2. CASE b \notin wrote[p]
    <3>1. IsFiniteSet(wrote[p] \cup {b}) /\ Cardinality(wrote[p] \cup {b}) = n + 1
      BY <1>3, <2>2, FS_AddElement DEF n
    <3> QED  BY <1>15, <2>2, <3>1
  <2> QED  BY <2>1, <2>2
<1>17. Cardinality(wrote'[p]) <= OpBlocks
  <2>1. b \notin wrote[p] => n < OpBlocks  BY <1>1 DEF n
  <2> QED  BY <1>2, <1>3, <1>16, <2>1
<1>18. /\ Logged(lh') = Logged(lh) \cup {b}
       /\ IF b \in Logged(lh) THEN Len(lh') = Len(lh) ELSE Len(lh') = Len(lh) + 1
  <2>1. CASE b \in Logged(lh)
    <3>1. lh' = lh /\ Logged(lh) \cup {b} = Logged(lh)  BY <1>13, <2>1
    <3> QED  BY <2>1, <3>1
  <2>2. CASE b \notin Logged(lh)
    <3>1. lh' = Append(lh, b)  BY <1>13, <2>2
    <3> QED  BY <1>14, <2>2, <3>1, AppendLogged
  <2> QED  BY <2>1, <2>2
<1>19. Reserved' \subseteq Reserved
  <2>1. \A q \in Procs, k \in 1 .. MAXOPBLOCKS : k > Cardinality(wrote'[q]) => k > Cardinality(wrote[q])
    <3>1. ASSUME NEW k \in 1 .. MAXOPBLOCKS, k > Cardinality(wrote'[p]) PROVE k > n
      BY <1>2, <1>3, <1>16, <3>1
    <3> QED  BY <1>15, <3>1 DEF n
  <2>2. InOp \subseteq Procs  BY DEF InOp
  <2> QED  BY <1>1, <2>1, <2>2 DEF Reserved
<1>20. 1 + Len(lh') + Cardinality(Reserved') <= LOGSIZE
  <2>1. CASE b \in Logged(lh)
    <3>1. Cardinality(Reserved') <= Cardinality(Reserved)  BY <1>4, <1>19, FS_Subset
    <3>2. Len(lh') = Len(lh)  BY <1>2, <1>18, <2>1
    <3> QED  BY <1>2, <1>4, <1>5, <3>1, <3>2
  <2>2. CASE b \notin Logged(lh)
    <3>1. b \notin wrote[p] /\ n + 1 < MAXOPBLOCKS  BY <1>3, <1>11, <2>2
    <3>2. Cardinality(wrote'[p]) = n + 1  BY <1>16, <3>1
    <3>3. <<p, n + 1>> \in Reserved /\ <<p, n + 1>> \notin Reserved'
      <4>1. n + 1 \in 1 .. MAXOPBLOCKS /\ n + 1 > n /\ ~(n + 1 > n + 1)  BY <1>2, <1>3, <3>1
      <4> QED  BY <1>1, <3>2, <4>1 DEF Reserved, n
    <3>4. Reserved' \subseteq Reserved \ {<<p, n + 1>>}  BY <1>19, <3>3
    <3>5. IsFiniteSet(Reserved \ {<<p, n + 1>>})
          /\ Cardinality(Reserved \ {<<p, n + 1>>}) = Cardinality(Reserved) - 1
      BY <1>4, <3>3, FS_RemoveElement
    <3>6. Cardinality(Reserved') <= Cardinality(Reserved) - 1  BY <3>4, <3>5, FS_Subset
    <3>7. Len(lh') = Len(lh) + 1  BY <1>18, <2>2
    <3> QED  BY <1>2, <1>4, <1>5, <3>6, <3>7
  <2> QED  BY <2>1, <2>2
<1>21. \A q \in Procs : IsFiniteSet(wrote'[q]) /\ Cardinality(wrote'[q]) <= OpBlocks
  BY <1>15, <1>16, <1>17 DEF ReserveInv
<1>22. \A q \in Procs : wrote'[q] # {} => pc'[q] = "in" /\ wrote'[q] \subseteq Logged(lh')
  BY <1>1, <1>3, <1>15, <1>18 DEF ReserveInv
<1> QED  BY <1>13, <1>20, <1>21, <1>22 DEF ReserveInv

(* Every step keeps the reservation, and none panics.                      *)
LEMMA ReserveStep == ASSUME Modest, LogInv, LogInv', ReserveInv, [Next]_vars PROVE ReserveInv'
<1>1. ASSUME NEW p \in Procs, BeginOp(p) PROVE ReserveInv'  BY <1>1, BeginOpReserves
<1>2. ASSUME NEW p \in Procs, NEW b \in Blocks, NEW d \in Data, Write(p, b, d) PROVE ReserveInv'
  BY <1>2, WriteFits
<1>3. ASSUME NEW p \in Procs, EndOp(p) PROVE ReserveInv'
  <2>1. p \in InOp /\ IsFiniteSet(InOp)
    BY <1>3, LogAssumption, FS_Subset DEF EndOp, InOp
  <2>2. Cardinality(InOp) >= 1 /\ Cardinality(InOp) \in Nat  BY <2>1, CountOps
  <2>3. ~committing  BY <2>2 DEF LogInv, OpsInv, CommitStages
  <2>4. /\ ~panicked' /\ lh' = lh /\ wrote' = [wrote EXCEPT ![p] = {}]
        /\ pc' = [pc EXCEPT ![p] = "commit"] \/ pc' = WakeAll(p, "out")
    BY <1>3, <2>3 DEF EndOp, ReserveInv
  <2>5. wrote'[p] = {} /\ \A q \in Procs \ {p} : wrote'[q] = wrote[q]  BY <2>4 DEF LogInv, TypeOK
  <2>6. InOp' \subseteq InOp \ {p} /\ \A q \in Procs \ {p} : pc[q] = "in" => pc'[q] = "in"
    BY <2>4 DEF InOp, WakeAll, LogInv, TypeOK
  <2>7. Reserved' \subseteq Reserved
    <3>1. \A q \in InOp' : q \in InOp /\ wrote'[q] = wrote[q]  BY <2>5, <2>6 DEF InOp
    <3> QED  BY <3>1 DEF Reserved
  <2>8. IsFiniteSet(Reserved) /\ Cardinality(Reserved) \in Nat /\ Cardinality(Reserved') \in Nat
    BY ReservedCount, ReservedCountNext
  <2>9. Cardinality(Reserved') <= Cardinality(Reserved)  BY <2>7, <2>8, FS_Subset
  <2>10. Len(lh) \in Nat /\ LOGSIZE \in Nat /\ OpBlocks \in Nat  BY LogAssumption DEF LogInv, TypeOK
  <2>11. 1 + Len(lh') + Cardinality(Reserved') <= LOGSIZE
    <3>1. 1 + Len(lh) + Cardinality(Reserved) <= LOGSIZE  BY DEF ReserveInv
    <3>2. 1 + Len(lh) + Cardinality(Reserved') <= LOGSIZE  BY <2>8, <2>9, <2>10, <3>1
    <3> QED  BY <2>4, <3>2
  <2>12. \A q \in Procs : IsFiniteSet(wrote'[q]) /\ Cardinality(wrote'[q]) <= OpBlocks
    <3>1. IsFiniteSet({}) /\ Cardinality({}) <= OpBlocks  BY <2>10, FS_EmptySet
    <3> QED  BY <2>5, <3>1 DEF ReserveInv
  <2> QED  BY <2>4, <2>5, <2>6, <2>11, <2>12 DEF ReserveInv
<1>4. ASSUME NEW p \in Procs, FinishCommit(p) PROVE ReserveInv'
  <2>1. /\ ~panicked' /\ UNCHANGED <<lh, wrote>> /\ pc[p] = "commit" /\ pc' = WakeAll(p, "out")
    BY <1>4 DEF FinishCommit
  <2>2. InOp' \subseteq InOp /\ \A q \in Procs : pc[q] = "in" => pc'[q] = "in"
    BY <2>1 DEF InOp, WakeAll
  <2> QED  BY <2>1, <2>2, ReserveKept DEF ReserveInv
<1>5. ASSUME WriteLog \/ WriteHead \/ Install PROVE ReserveInv'
  <2>1. ~panicked' /\ UNCHANGED <<lh, wrote, pc>>
    BY <1>5 DEF WriteLog, WriteHead, Install, ReserveInv
  <2>2. InOp' = InOp /\ \A q \in Procs : pc[q] = "in" => pc'[q] = "in"  BY <2>1 DEF InOp
  <2> QED  BY <2>1, <2>2, ReserveKept DEF ReserveInv
<1>6. ASSUME EmptyHead \/ ReadHead \/ RecoverInstall \/ RecoverEmpty PROVE ReserveInv'
  <2>1. ~panicked' /\ UNCHANGED <<wrote, pc>> /\ stage # "idle"
    BY <1>6 DEF EmptyHead, ReadHead, RecoverInstall, RecoverEmpty, Advance, ReserveInv
  <2>2. InOp = {}
    <3>1. Cardinality(InOp) = 0  BY <2>1 DEF LogInv, OpsInv
    <3>2. IsFiniteSet(InOp)  BY LogAssumption, FS_Subset DEF InOp
    <3> QED  BY <3>1, <3>2, FS_EmptySet
  <2>3. InOp' = {} /\ \A q \in Procs : wrote'[q] = {}  BY <2>1, <2>2 DEF InOp, ReserveInv
  <2> QED  BY <2>1, <2>3, ReserveNoneNext DEF Unreserved
<1>7. CASE Crash
  <2>1. ~panicked' /\ InOp' = {} /\ \A q \in Procs : wrote'[q] = {}  BY <1>7 DEF Crash, InOp
  <2> QED  BY <2>1, ReserveNoneNext DEF Unreserved
<1>8. ASSUME (\E b \in Blocks : Recycle(b)) \/ (\E p \in Procs : Kill(p)) \/ UNCHANGED vars
      PROVE  ReserveInv'
  <2>1. ~panicked' /\ UNCHANGED <<lh, wrote, pc>>  BY <1>8 DEF Recycle, Kill, vars, ReserveInv
  <2>2. InOp' = InOp /\ \A q \in Procs : pc[q] = "in" => pc'[q] = "in"  BY <2>1 DEF InOp
  <2> QED  BY <2>1, <2>2, ReserveKept DEF ReserveInv
<1> QED
  BY <1>1, <1>2, <1>3, <1>4, <1>5, <1>6, <1>7, <1>8 DEF Next

(***************************************************************************)
(* Neither write nor end_op panics: what begin_op reserves is enough for   *)
(* operations of fewer than MAXOPBLOCKS blocks, however many of them run   *)
(* at the same time and share the log.                                     *)
(***************************************************************************)
THEOREM LogNoPanic == Modest /\ Spec => []NoPanic
<1>1. SUFFICES ASSUME Modest PROVE Spec => []NoPanic
  OBVIOUS
<1>2. LogInv /\ Init => ReserveInv
  <2>1. SUFFICES ASSUME LogInv, Init PROVE ReserveInv
    OBVIOUS
  <2>2. ~panicked /\ InOp = {} /\ \A p \in Procs : wrote[p] = {}  BY <2>1 DEF Init, InOp
  <2> QED  BY <2>1, <2>2, ReserveNone DEF Unreserved
<1>3. LogInv /\ LogInv' /\ ReserveInv /\ [Next]_vars => ReserveInv'  BY <1>1, ReserveStep
<1>4. ReserveInv => NoPanic  BY DEF ReserveInv, NoPanic
<1> QED  BY <1>2, <1>3, <1>4, LogInvariant, PTL DEF Spec
=============================================================================
