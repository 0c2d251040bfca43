-------------------------- MODULE Transfers_proofs --------------------------
(***************************************************************************)
(* Proofs about what is written and transferred, and about conversations,  *)
(* in the behaviours of MCServices: the rotating log, the hub of WebSocket *)
(* connections, downloads, uploads, files in volumes, and the cancelling   *)
(* of transfers; forms, surveys, lists in pages and menus. As in           *)
(* Services_proofs each part has an invariant of its own, under the        *)
(* condition that the behaviour is of that part.                           *)
(***************************************************************************)
EXTENDS Services_proofs, SequenceTheorems

-----------------------------------------------------------------------------
(***************************************************************************)
(* The log.  Of the variables that the parts share it has s1 to s7: files, *)
(* file, currSize, turning, lines, restarts and spoilt.  The lines that    *)
(* are kept are cut into consecutive runs, one for each file, unless a     *)
(* call has failed; what is gone lies behind files that are full, until    *)
(* the program is started anew (CutInFiles and Full in RotateLog.tla).     *)
(***************************************************************************)
\* A run of line numbers: its length, what it begins and ends with, and two that meet.
LEMMA RunIs ==
    ASSUME NEW a \in Nat, NEW b \in Nat, a <= b
    PROVE  /\ LO!Run(a, b) \in Seq(Nat) /\ Len(LO!Run(a, b)) = b - a
           /\ \A k \in 1..(b - a) : LO!Run(a, b)[k] = a + k
           /\ DOMAIN LO!Run(a, b) = 1..(b - a)
<1>1. b - a \in Nat /\ \A k \in 1..(b - a) : a + k \in Nat
  OBVIOUS
<1>2. PICK n \in Nat : n = b - a
  BY <1>1
<1>3. LO!Run(a, b) = [k \in 1..n |-> a + k]
  BY <1>2 DEF LO!Run
<1>4. QED
  BY <1>1, <1>2, <1>3

LEMMA EmptyRun ==
    ASSUME NEW a \in Nat, NEW b \in Nat, a <= b
    PROVE  LO!Run(a, b) = <<>> <=> a = b
<1>1. CASE a = b
  <2>1. Len(LO!Run(a, b)) = 0 /\ LO!Run(a, b) \in Seq(Nat)
    BY <1>1, RunIs
  <2>2. QED
    BY <1>1, <2>1
<1>2. CASE a # b
  <2>1. Len(LO!Run(a, b)) > 0
    BY <1>2, RunIs
  <2>2. QED
    BY <1>2, <2>1
<1>3. QED
  BY <1>1, <1>2

LEMMA LongerRun ==
    ASSUME NEW a \in Nat, NEW b \in Nat, a <= b
    PROVE  Append(LO!Run(a, b), b + 1) = LO!Run(a, b + 1)
<1>1. PICK n \in Nat : n = b - a /\ b = a + n /\ b + 1 = a + (n + 1)
  <2>1. b - a \in Nat /\ b = a + (b - a) /\ b + 1 = a + ((b - a) + 1)
    OBVIOUS
  <2>2. QED
    BY <2>1
<1>2. PICK r, s, t : r = LO!Run(a, b) /\ s = LO!Run(a, b + 1) /\ t = Append(r, b + 1)
  OBVIOUS
<1>3. r \in Seq(Nat) /\ Len(r) = n /\ \A k \in 1..(n) : r[k] = a + k
  <2>1. a <= b /\ a \in Nat /\ b \in Nat /\ b - a = n
    BY <1>1
  <2>2. /\ LO!Run(a, b) \in Seq(Nat) /\ Len(LO!Run(a, b)) = b - a
        /\ \A k \in 1..(b - a) : LO!Run(a, b)[k] = a + k
    BY <2>1, RunIs
  <2>3. r = LO!Run(a, b)
    BY <1>2
  <2>4. QED
    BY <2>1, <2>2, <2>3
<1>4. s \in Seq(Nat) /\ Len(s) = n + 1 /\ \A k \in 1..(n + 1) : s[k] = a + k
  <2>1. a <= b + 1 /\ a \in Nat /\ b + 1 \in Nat /\ b + 1 - a = n + 1
    BY <1>1
  <2>2. /\ LO!Run(a, b + 1) \in Seq(Nat) /\ Len(LO!Run(a, b + 1)) = b + 1 - a
        /\ \A k \in 1..(b + 1 - a) : LO!Run(a, b + 1)[k] = a + k
    BY <2>1, RunIs
  <2>3. s = LO!Run(a, b + 1)
    BY <1>2
  <2>4. QED
    BY <2>1, <2>2, <2>3
<1>5. t \in Seq(Nat) /\ Len(t) = n + 1 /\ t[n + 1] = b + 1 /\ \A k \in 1..n : t[k] = r[k]
  <2>1. b + 1 \in Nat
    OBVIOUS
  <2>2. QED
    BY <1>2, <1>3, <2>1, AppendProperties
<1>6. ASSUME NEW k \in 1..(n + 1)
      PROVE  t[k] = s[k]
  <2>1. CASE k = n + 1
    BY <1>1, <1>4, <1>5, <2>1
  <2>2. CASE k \in 1..n
    BY <1>3, <1>4, <1>5, <2>2
  <2>3. QED
    BY <2>1, <2>2
<1>7. t = s
  BY <1>4, <1>5, <1>6, SeqEqual
<1>8. QED
  BY <1>2, <1>7

LEMMA JoinedRuns ==
    ASSUME NEW a \in Nat, NEW b \in Nat, NEW c \in Nat, a <= b, b <= c
    PROVE  LO!Run(a, b) \o LO!Run(b, c) = LO!Run(a, c)
<1>1. PICK n \in Nat, m \in Nat : b = a + n /\ c = b + m /\ c = a + (n + m)
  <2>1. b - a \in Nat /\ c - b \in Nat /\ b = a + (b - a) /\ c = b + (c - b) /\ c = a + ((b - a) + (c - b))
    OBVIOUS
  <2>2. QED
    BY <2>1
<1>2. PICK r, s, t, u : r = LO!Run(a, b) /\ s = LO!Run(b, c) /\ t = r \o s /\ u = LO!Run(a, c)
  OBVIOUS
<1>3. r \in Seq(Nat) /\ Len(r) = n /\ \A k \in 1..(n) : r[k] = a + k
  <2>1. a <= b /\ a \in Nat /\ b \in Nat /\ b - a = n
    BY <1>1
  <2>2. /\ LO!Run(a, b) \in Seq(Nat) /\ Len(LO!Run(a, b)) = b - a
        /\ \A k \in 1..(b - a) : LO!Run(a, b)[k] = a + k
    BY <2>1, RunIs
  <2>3. r = LO!Run(a, b)
    BY <1>2
  <2>4. QED
    BY <2>1, <2>2, <2>3
<1>4. s \in Seq(Nat) /\ Len(s) = m /\ \A k \in 1..(m) : s[k] = b + k
  <2>1. b <= c /\ b \in Nat /\ c \in Nat /\ c - b = m
    BY <1>1
  <2>2. /\ LO!Run(b, c) \in Seq(Nat) /\ Len(LO!Run(b, c)) = c - b
        /\ \A k \in 1..(c - b) : LO!Run(b, c)[k] = b + k
    BY <2>1, RunIs
  <2>3. s = LO!Run(b, c)
    BY <1>2
  <2>4. QED
    BY <2>1, <2>2, <2>3
<1>5. u \in Seq(Nat) /\ Len(u) = n + m /\ \A k \in 1..(n + m) : u[k] = a + k
  <2>1. a <= c /\ a \in Nat /\ c \in Nat /\ c - a = n + m
    BY <1>1
  <2>2. /\ LO!Run(a, c) \in Seq(Nat) /\ Len(LO!Run(a, c)) = c - a
        /\ \A k \in 1..(c - a) : LO!Run(a, c)[k] = a + k
    BY <2>1, RunIs
  <2>3. u = LO!Run(a, c)
    BY <1>2
  <2>4. QED
    BY <2>1, <2>2, <2>3
<1>6. t \in Seq(Nat) /\ Len(t) = n + m /\ \A k \in 1..(n + m) : t[k] = IF k <= n THEN r[k] ELSE s[k - n]
  <2>1. /\ r \o s \in Seq(Nat) /\ Len(r \o s) = Len(r) + Len(s)
        /\ \A k \in 1..(Len(r) + Len(s)) : (r \o s)[k] = IF k <= Len(r) THEN r[k] ELSE s[k - Len(r)]
    BY <1>3, <1>4, ConcatProperties
  <2>2. Len(r) = n /\ Len(s) = m /\ t = r \o s
    BY <1>2, <1>3, <1>4
  <2>3. QED
    BY <2>1, <2>2
<1>7. ASSUME NEW k \in 1..(n + m)
      PROVE  t[k] = u[k]
  <2>1. CASE k <= n
    BY <1>3, <1>5, <1>6, <2>1
  <2>2. CASE k > n
    <3>1. k - n \in 1..m /\ t[k] = s[k - n] /\ b + (k - n) = a + k
      BY <1>1, <1>6, <2>2
    <3>2. QED
      BY <1>4, <1>5, <3>1
  <2>3. QED
    BY <2>1, <2>2
<1>8. t = u
  BY <1>5, <1>6, <1>7, SeqEqual
<1>9. QED
  BY <1>2, <1>8


\* A line that is written lengthens the run of the log, and fills it or not.
LEMMA LogWrites == ASSUME LO!LogInv, LO!Write PROVE LO!LogInv'
<1>1. /\ s1 \in [LO!Places -> Seq(Nat)] /\ s5 \in Nat /\ s3 \in Nat
      /\ s5' = s5 + 1 /\ s6' = s6 /\ s4 = LO!Still
      /\ Backups \in Nat /\ MaxSize \in Nat /\ 0 \in LO!Places
  BY ServicesAssumption DEF LO!LogInv, LO!LogShapes, LO!Write, LO!Places
<1>2. LO!LogShapes'
  <2>1. s1' \in [LO!Places -> Seq(Nat)]
    <3>1. Append(s1[0], s5 + 1) \in Seq(Nat)
      BY <1>1, AppendProperties
    <3>2. QED
      BY <1>1, <3>1 DEF LO!Write
  <2>2. QED
    BY <1>1, <2>1 DEF LO!LogInv, LO!LogShapes, LO!Write, LO!Still
<1>3. ASSUME ~s7'
      PROVE  \E cuts \in [0..LO!Still -> 0..s5'] : LO!CutInFiles(cuts)' /\ (s6' > 0 \/ LO!Full(cuts)')
  <2>1. PICK cuts \in [0..LO!Still -> 0..s5] : LO!CutInFiles(cuts) /\ (s6 > 0 \/ LO!Full(cuts))
    BY <1>3 DEF LO!LogInv, LO!Write
  <2>2. /\ s2 = "open" /\ s1' = [s1 EXCEPT ![0] = Append(@, s5')] /\ s3' = s3 + 1
        /\ \/ s3' >= MaxSize /\ s4' = Backups /\ s2' = "nil"
           \/ s4' = s4 /\ s2' = s2
    BY <1>1, <1>3, <2>1 DEF LO!CutInFiles, LO!Write
  <2>3. PICK new \in [0..LO!Still -> 0..s5'] : new = [cuts EXCEPT ![0] = s5']
    <3>1. \A i \in 0..LO!Still : cuts[i] \in 0..s5'
      BY <1>1, <2>1
    <3>2. s5' \in 0..s5'
      BY <1>1
    <3>3. [cuts EXCEPT ![0] = s5'] \in [0..LO!Still -> 0..s5']
      BY <2>1, <3>1, <3>2
    <3>4. QED
      BY <3>3
  <2>4. /\ new[0] = s5 + 1 /\ cuts[0] = s5 /\ \A i \in 1..LO!Still : new[i] = cuts[i] /\ cuts[i] \in Nat
    BY <1>1, <2>1, <2>3 DEF LO!CutInFiles, LO!Still
  <2>5. LO!CutInFiles(new)'
    <3>1. ASSUME NEW i \in LO!Places
          PROVE  new[i + 1] <= new[i] /\ s1'[i] = LO!Run(new[i + 1], new[i])
      <4>1. i + 1 \in 1..LO!Still /\ cuts[i + 1] <= cuts[i] /\ s1[i] = LO!Run(cuts[i + 1], cuts[i])
        BY <1>1, <2>1 DEF LO!CutInFiles, LO!Places, LO!Still
      <4>2. CASE i = 0
        <5>1. cuts[1] \in Nat /\ cuts[1] <= s5 /\ s1[0] = LO!Run(cuts[1], s5) /\ new[1] = cuts[1]
          BY <2>4, <4>1, <4>2
        <5>2. s1'[0] = Append(LO!Run(cuts[1], s5), s5 + 1)
          BY <1>1, <2>2, <5>1
        <5>3. s1'[0] = LO!Run(cuts[1], s5 + 1)
          BY <1>1, <5>1, <5>2, LongerRun
        <5>4. QED
          BY <1>1, <2>4, <4>2, <5>1, <5>3
      <4>3. CASE i # 0
        <5>1. i \in 1..LO!Still /\ s1'[i] = s1[i]
          BY <1>1, <2>2, <4>3 DEF LO!Places, LO!Still
        <5>2. QED
          BY <2>4, <4>1, <5>1
      <4>4. QED
        BY <4>2, <4>3
    <3>2. /\ s4' < Backups => new[s4' + 2] = new[s4' + 1]
          /\ s4' = LO!Still => s2' = "open"
      BY <1>1, <2>2 DEF LO!Still
    <3>3. QED
      BY <1>1, <2>4, <3>1, <3>2 DEF LO!CutInFiles, LO!Places
  <2>6. ASSUME s6 = 0
        PROVE  LO!Full(new)'
    <3>1. /\ s3 + cuts[1] = s5
          /\ \A i \in 1..LO!Still : cuts[i] = 0 \/ cuts[i] + MaxSize * (i - 1) <= cuts[1]
      BY <1>1, <2>1, <2>6 DEF LO!Full, LO!Still
    <3>2. 1 \in 1..LO!Still /\ new[1] = cuts[1] /\ cuts[1] \in Nat
      BY <1>1, <2>4 DEF LO!Still
    <3>3. s3' + new[1] = s5'
      BY <1>1, <2>2, <3>1, <3>2
    <3>4. s4' <= Backups => new[1] + MaxSize <= s5'
      BY <1>1, <2>2, <3>2, <3>3 DEF LO!Still
    <3>5. s4' \in {Backups, LO!Still}
      BY <1>1, <2>2
    <3>6. ASSUME NEW i \in 1..LO!Still
          PROVE  new[i] = 0 \/ new[i] + MaxSize * (i - 1) <= IF i <= s4' + 1 THEN new[1] ELSE s5'
      <4>1. i <= s4' + 1
        <5>1. i \in Nat /\ i <= Backups + 1
          BY <1>1 DEF LO!Still
        <5>2. s4' = Backups \/ s4' = Backups + 1
          BY <3>5 DEF LO!Still
        <5>3. QED
          BY <1>1, <5>1, <5>2
      <4>2. QED
        BY <2>4, <3>1, <3>2, <4>1
    <3>7. QED
      <4>1. s4' # LO!Still + 1
        BY <1>1, <3>5 DEF LO!Still
      <4>2. QED
        BY <3>3, <3>4, <3>6, <4>1 DEF LO!Full
  <2>7. s6' > 0 \/ LO!Full(new)'
    BY <1>1, <2>6 DEF LO!LogInv, LO!LogShapes
  <2>8. QED
    BY <2>3, <2>5, <2>7
<1>4. QED
  BY <1>2, <1>3 DEF LO!LogInv


\* A rotation moves one cut after the other.
LEMMA LogTurns == ASSUME LO!LogInv, LO!Turn PROVE LO!LogInv'
<1>1. /\ s1 \in [LO!Places -> Seq(Nat)] /\ s5 \in Nat /\ Backups \in Nat /\ MaxSize \in Nat
      /\ s4 \in Nat /\ s4 <= Backups /\ s4 \in LO!Places
      /\ s4' = (IF s4 = 0 THEN LO!Still + 1 ELSE s4 - 1)
      /\ s2' = s2 /\ s3' = s3 /\ s5' = s5 /\ s6' = s6
  BY ServicesAssumption DEF LO!LogInv, LO!LogShapes, LO!Turn, LO!Places
<1>2. LO!LogShapes'
  <2>1. s1' \in [LO!Places -> Seq(Nat)]
    <3>1. s4 < Backups => s4 + 1 \in LO!Places
      BY <1>1 DEF LO!Places
    <3>2. <<>> \in Seq(Nat) /\ s1[s4] \in Seq(Nat)
      BY <1>1
    <3>3. \/ s1' = s1 \/ s1' = [s1 EXCEPT ![s4] = <<>>]
          \/ s4 < Backups /\ s1' = [s1 EXCEPT ![s4 + 1] = s1[s4], ![s4] = <<>>]
      BY <1>1 DEF LO!Turn, LO!Renamed, LO!Moved
    <3>4. QED
      BY <1>1, <3>1, <3>2, <3>3
  <2>2. s4' \in 0..(LO!Still + 1)
    BY <1>1 DEF LO!Still
  <2>3. QED
    BY <1>1, <2>1, <2>2 DEF LO!LogInv, LO!LogShapes
<1>3. ASSUME ~s7'
      PROVE  \E cuts \in [0..LO!Still -> 0..s5'] : LO!CutInFiles(cuts)' /\ (s6' > 0 \/ LO!Full(cuts)')
  <2>1. PICK cuts \in [0..LO!Still -> 0..s5] : LO!CutInFiles(cuts) /\ (s6 > 0 \/ LO!Full(cuts))
    BY <1>3 DEF LO!LogInv, LO!Turn
  <2>2. /\ cuts[0] = s5 /\ \A i \in 0..LO!Still : cuts[i] \in Nat
        /\ \A i \in LO!Places : i + 1 \in 0..LO!Still /\ i \in 0..LO!Still
        /\ \A i \in LO!Places : cuts[i + 1] <= cuts[i] /\ s1[i] = LO!Run(cuts[i + 1], cuts[i])
        /\ s4 < Backups => cuts[s4 + 2] = cuts[s4 + 1]
    BY <1>1, <2>1 DEF LO!CutInFiles, LO!Places, LO!Still
  <2>3. /\ s1'[s4] = <<>>
        /\ s4 < Backups => s1'[s4 + 1] = s1[s4]
        /\ \A i \in LO!Places : i # s4 /\ (s4 < Backups => i # s4 + 1) => s1'[i] = s1[i]
    <3>1. CASE s4 = Backups
      BY <1>1, <1>3, <3>1 DEF LO!Turn
    <3>2. CASE s4 < Backups
      <4>1. s1' = LO!Renamed(s4, s4 + 1) /\ s4 + 1 \in LO!Places /\ s4 + 1 # s4
        BY <1>1, <1>3, <3>2 DEF LO!Turn, LO!Places
      <4>2. s1[s4 + 1] = <<>>
        <5>1. s4 + 2 = (s4 + 1) + 1
          BY <1>1
        <5>2. s1[s4 + 1] = LO!Run(cuts[s4 + 1], cuts[s4 + 1]) /\ cuts[s4 + 1] \in Nat
          BY <2>2, <3>2, <4>1, <5>1
        <5>3. QED
          BY <5>2, EmptyRun
      <4>3. CASE s1[s4] = <<>>
        BY <1>1, <3>2, <4>1, <4>2, <4>3 DEF LO!Renamed
      <4>4. CASE s1[s4] # <<>>
        BY <1>1, <3>2, <4>1, <4>4 DEF LO!Renamed, LO!Moved
      <4>5. QED
        BY <4>3, <4>4
    <3>3. QED
      BY <1>1, <3>1, <3>2
  <2>4. PICK new \in [0..LO!Still -> 0..s5'] : new = [cuts EXCEPT ![s4 + 1] = cuts[s4]]
    <3>1. cuts[s4] \in 0..s5 /\ [cuts EXCEPT ![s4 + 1] = cuts[s4]] \in [0..LO!Still -> 0..s5]
      BY <1>1, <2>1, <2>2
    <3>2. QED
      BY <1>1, <3>1
  <2>5. /\ new[s4 + 1] = cuts[s4]
        /\ \A i \in 0..LO!Still : i # s4 + 1 => new[i] = cuts[i]
    BY <1>1, <2>1, <2>2, <2>4
  <2>6. LO!CutInFiles(new)'
    <3>1. ASSUME NEW i \in LO!Places
          PROVE  new[i + 1] <= new[i] /\ s1'[i] = LO!Run(new[i + 1], new[i])
      <4>1. i \in Nat /\ i <= Backups /\ i \in 0..LO!Still /\ i + 1 \in 0..LO!Still
        BY <1>1, <2>2 DEF LO!Places
      <4>2. CASE i = s4
        <5>1. new[i] = cuts[s4] /\ new[i + 1] = cuts[s4] /\ cuts[s4] \in Nat
          BY <1>1, <2>2, <2>5, <4>1, <4>2
        <5>2. QED
          BY <2>3, <4>2, <5>1, EmptyRun
      <4>3. CASE i = s4 + 1
        <5>1. s4 < Backups /\ i + 1 = s4 + 2 /\ i + 1 # s4 + 1
          BY <1>1, <4>1, <4>3
        <5>2. new[i] = cuts[s4] /\ new[i + 1] = cuts[s4 + 1]
          BY <2>2, <2>5, <4>1, <4>3, <5>1
        <5>3. QED
          BY <1>1, <2>2, <2>3, <4>3, <5>1, <5>2
      <4>4. CASE i # s4 /\ i # s4 + 1
        <5>1. new[i] = cuts[i] /\ new[i + 1] = cuts[i + 1]
          BY <1>1, <2>5, <4>1, <4>4
        <5>2. QED
          BY <2>2, <2>3, <4>4, <5>1
      <4>5. QED
        BY <4>2, <4>3, <4>4
    <3>2. new[0] = s5'
      BY <1>1, <2>2, <2>5 DEF LO!Still
    <3>3. /\ s4' < Backups => new[s4' + 2] = new[s4' + 1]
          /\ s4' # LO!Still
      <4>1. CASE s4 = 0
        BY <1>1, <4>1 DEF LO!Still
      <4>2. CASE s4 # 0
        <5>1. s4' = s4 - 1 /\ s4' + 2 = s4 + 1 /\ s4' + 1 = s4
          BY <1>1, <4>2
        <5>2. new[s4] = cuts[s4]
          BY <1>1, <2>2, <2>5
        <5>3. QED
          BY <1>1, <2>5, <5>1, <5>2 DEF LO!Still
      <4>3. QED
        BY <4>1, <4>2
    <3>4. QED
      BY <3>1, <3>2, <3>3 DEF LO!CutInFiles, LO!Places
  <2>7. ASSUME s6 = 0
        PROVE  LO!Full(new)'
    <3>1. /\ cuts[1] + MaxSize <= s5
          /\ \A i \in 1..LO!Still :
                cuts[i] = 0 \/ cuts[i] + MaxSize * (i - 1) <= IF i <= s4 + 1 THEN cuts[1] ELSE s5
      BY <1>1, <2>1, <2>7 DEF LO!Full, LO!Still
    <3>2. cuts[1] \in Nat /\ cuts[s4] \in Nat /\ 1 \in 0..LO!Still
      BY <1>1, <2>2 DEF LO!Still, LO!Places
    <3>3. CASE s4 = 0
      <4>1. s4' = LO!Still + 1 /\ new[1] = s5
        BY <1>1, <2>2, <2>5, <3>3
      <4>2. ASSUME NEW i \in 1..LO!Still
            PROVE  new[i] = 0 \/ new[i] + MaxSize * (i - 1) <= s5
        <5>1. CASE i = 1
          <6>1. i - 1 = 0 /\ MaxSize * 0 = 0
            BY <1>1, <5>1
          <6>2. QED
            BY <1>1, <4>1, <5>1, <6>1
        <5>2. CASE i > 1
          <6>1. new[i] = cuts[i] /\ ~(i <= s4 + 1)
            BY <1>1, <2>5, <3>3, <5>2
          <6>2. QED
            BY <3>1, <6>1
        <5>3. QED
          BY <5>1, <5>2
      <4>3. s4' # LO!Still /\ ~(s4' <= Backups)
        BY <1>1, <4>1 DEF LO!Still
      <4>4. QED
        BY <1>1, <4>1, <4>2, <4>3 DEF LO!Full
    <3>4. CASE s4 # 0
      <4>1. /\ s4' = s4 - 1 /\ s4' + 1 = s4 /\ new[1] = cuts[1]
            /\ s4' # LO!Still /\ s4' # LO!Still + 1
        BY <1>1, <2>5, <3>2, <3>4 DEF LO!Still
      <4>2. ASSUME NEW i \in 1..LO!Still
            PROVE  new[i] = 0 \/ new[i] + MaxSize * (i - 1) <= IF i <= s4 THEN cuts[1] ELSE s5
        <5>1. CASE i = s4 + 1
          <6>1. new[i] = cuts[s4] /\ i - 1 = s4 /\ ~(i <= s4)
            BY <1>1, <2>5, <5>1
          <6>2. cuts[s4] = 0 \/ cuts[s4] + MaxSize * (s4 - 1) <= cuts[1]
            <7>1. s4 \in 1..LO!Still /\ s4 <= s4 + 1
              BY <1>1, <3>4 DEF LO!Still
            <7>2. QED
              BY <3>1, <7>1
          <6>3. MaxSize * s4 = MaxSize * (s4 - 1) + MaxSize /\ MaxSize * (s4 - 1) \in Int
            BY <1>1
          <6>4. QED
            BY <1>1, <3>1, <3>2, <6>1, <6>2, <6>3
        <5>2. CASE i # s4 + 1
          <6>1. new[i] = cuts[i] /\ (i <= s4 + 1 <=> i <= s4)
            BY <1>1, <2>5, <5>2
          <6>2. QED
            BY <3>1, <6>1
        <5>3. QED
          BY <5>1, <5>2
      <4>3. QED
        BY <1>1, <3>1, <4>1, <4>2 DEF LO!Full
    <3>5. QED
      BY <3>3, <3>4
  <2>8. s6' > 0 \/ LO!Full(new)'
    BY <1>1, <2>7 DEF LO!LogInv, LO!LogShapes
  <2>9. QED
    BY <2>4, <2>6, <2>8
<1>4. QED
  BY <1>2, <1>3 DEF LO!LogInv


\* The log is opened anew, after a rotation or a restart.
LEMMA LogReopens == ASSUME LO!LogInv, LO!Reopen \/ LO!Restart PROVE LO!LogInv'
<1>1. /\ s1' = s1 /\ s5' = s5 /\ s4' = LO!Still /\ s1 \in [LO!Places -> Seq(Nat)]
      /\ s5 \in Nat /\ Backups \in Nat /\ MaxSize \in Nat /\ 0 \in LO!Places /\ s6 \in Nat
      /\ \/ s7' = TRUE
         \/ s7' = s7 /\ s2' = "open" /\ s3' = Len(s1[0])
      /\ \/ s6' = s6 /\ s4 = LO!Still + 1
         \/ s6' = s6 + 1
  BY ServicesAssumption DEF LO!LogInv, LO!LogShapes, LO!Reopen, LO!Restart, LO!Places
<1>2. LO!LogShapes'
  <2>1. Len(s1[0]) \in Nat
    BY <1>1
  <2>2. s3' \in Nat /\ s2' \in {"open", "nil"}
    BY <2>1 DEF LO!LogInv, LO!LogShapes, LO!Reopen, LO!Restart
  <2>3. LO!Still \in 0..(LO!Still + 1)
    BY <1>1 DEF LO!Still
  <2>4. QED
    BY <1>1, <2>2, <2>3 DEF LO!LogInv, LO!LogShapes, LO!Places, LO!Still
<1>3. ASSUME ~s7'
      PROVE  \E cuts \in [0..LO!Still -> 0..s5'] : LO!CutInFiles(cuts)' /\ (s6' > 0 \/ LO!Full(cuts)')
  <2>1. s7' = s7 /\ s2' = "open" /\ s3' = Len(s1[0])
    BY <1>1, <1>3
  <2>2. PICK cuts \in [0..LO!Still -> 0..s5] : LO!CutInFiles(cuts) /\ (s6 > 0 \/ LO!Full(cuts))
    BY <1>3, <2>1 DEF LO!LogInv
  <2>3. LO!CutInFiles(cuts)'
    <3>1. ~(s4' < Backups)
      BY <1>1 DEF LO!Still
    <3>2. QED
      BY <1>1, <2>1, <2>2, <3>1 DEF LO!CutInFiles, LO!Places
  <2>4. ASSUME s6' = 0
        PROVE  LO!Full(cuts)'
    <3>1. s6 = 0 /\ s4 = LO!Still + 1
      BY <1>1, <2>4
    <3>2. /\ cuts[1] = s5
          /\ \A i \in 1..LO!Still : cuts[i] = 0 \/ cuts[i] + MaxSize * (i - 1) <= cuts[1]
      BY <1>1, <2>2, <3>1 DEF LO!Full, LO!Still
    <3>3. s3' + cuts[1] = s5'
      <4>1. cuts[0] = s5 /\ cuts[0 + 1] <= cuts[0] /\ s1[0] = LO!Run(cuts[0 + 1], cuts[0])
        BY <1>1, <2>2 DEF LO!CutInFiles
      <4>2. s1[0] = LO!Run(s5, s5)
        BY <3>2, <4>1
      <4>3. Len(s1[0]) = 0
        BY <1>1, <4>2, EmptyRun
      <4>4. QED
        BY <1>1, <2>1, <3>2, <4>3
    <3>4. s4' # LO!Still + 1 /\ ~(s4' <= Backups) /\ \A i \in 1..LO!Still : i <= s4' + 1
      BY <1>1 DEF LO!Still
    <3>5. QED
      BY <3>2, <3>3, <3>4 DEF LO!Full, LO!Still
  <2>5. s6' > 0 \/ LO!Full(cuts)'
    <3>1. s6' \in Nat
      BY <1>1
    <3>2. QED
      BY <2>4, <3>1
  <2>6. QED
    BY <1>1, <2>2, <2>3, <2>5 DEF LO!Still
<1>4. QED
  BY <1>2, <1>3 DEF LO!LogInv

\* No step of the log, and none beside it, breaks the invariant.
LEMMA LogStep == ASSUME LO!LogInv, [LO!LogNext]_(LO!logVars) PROVE LO!LogInv'
<1>1. CASE UNCHANGED LO!logVars
  BY <1>1 DEF LO!logVars, LO!LogInv, LO!LogShapes, LO!CutInFiles, LO!Full, LO!Places, LO!Still
<1>2. CASE LO!LogNext
  BY <1>2, LogWrites, LogTurns, LogReopens DEF LO!LogNext
<1>3. QED
  BY <1>1, <1>2

\* Nothing is written at first.
LEMMA LogBegins == ASSUME LO!InitLog PROVE LO!LogInv
<1> DEFINE cuts == [i \in 0..LO!Still |-> 0]
<1>1. LO!LogShapes
  <2>1. <<>> \in Seq(Nat) /\ LO!Still \in 0..(LO!Still + 1)
    BY ServicesAssumption DEF LO!Still
  <2>2. QED
    BY <2>1 DEF LO!InitLog, LO!LogShapes
<1>2. cuts \in [0..LO!Still -> 0..s5] /\ \A i \in 0..LO!Still : cuts[i] = 0
  BY DEF LO!InitLog
<1>3. /\ 0 \in 0..LO!Still /\ 1 \in 0..LO!Still /\ ~(LO!Still < Backups) /\ ~(LO!Still <= Backups)
      /\ LO!Still # LO!Still + 1
      /\ \A i \in LO!Places : i + 1 \in 0..LO!Still /\ i \in 0..LO!Still
      /\ \A i \in 1..LO!Still : i \in 0..LO!Still
  BY ServicesAssumption DEF LO!Places, LO!Still
<1>4. LO!CutInFiles(cuts)
  <2>1. LO!Run(0, 0) = <<>>
    BY EmptyRun
  <2>2. QED
    BY <1>2, <1>3, <2>1 DEF LO!CutInFiles, LO!InitLog
<1>5. LO!Full(cuts)
  <2> HIDE DEF cuts
  <2>1. QED
    BY <1>2, <1>3 DEF LO!Full, LO!InitLog
<1>6. QED
  BY <1>1, <1>2, <1>4, <1>5 DEF LO!LogInv

\* Together, from the oldest on, the files are one run.
LEMMA KeptIsRun ==
    ASSUME LO!LogShapes, NEW cuts \in [0..LO!Still -> 0..s5], LO!CutInFiles(cuts)
    PROVE  LO!Kept = LO!Run(cuts[LO!Still], s5)
<1> DEFINE whole == [i \in LO!Places |-> LO!Run(cuts[i + 1], s5)]
<1>1. /\ Backups \in Nat /\ s5 \in Nat /\ cuts[0] = s5
      /\ \A i \in LO!Places : /\ i \in Nat /\ cuts[i + 1] \in Nat /\ cuts[i] \in Nat /\ cuts[i + 1] <= cuts[i]
                           /\ cuts[i] <= s5 /\ s1[i] = LO!Run(cuts[i + 1], cuts[i])
      /\ \A i \in LO!Places : i # 0 => i - 1 \in LO!Places /\ (i - 1) + 1 = i
  BY ServicesAssumption DEF LO!LogShapes, LO!CutInFiles, LO!Places, LO!Still
<1>2. ASSUME NEW i \in LO!Places
      PROVE  whole[i] = IF i = 0 THEN s1[0] ELSE s1[i] \o whole[i - 1]
  <2>1. CASE i = 0
    <3>1. 0 \in LO!Places /\ cuts[i + 1] = cuts[1] /\ s1[0] = LO!Run(cuts[0 + 1], cuts[0])
      BY <1>1, <2>1
    <3>2. QED
      BY <1>1, <2>1, <3>1
  <2>2. CASE i # 0
    <3>1. whole[i - 1] = LO!Run(cuts[i], s5)
      BY <1>1, <2>2
    <3>2. PICK b \in Nat, c \in Nat : b = cuts[i + 1] /\ c = cuts[i] /\ b <= c /\ c <= s5
      BY <1>1
    <3>3. s1[i] = LO!Run(b, c) /\ whole[i - 1] = LO!Run(c, s5) /\ s5 \in Nat
      BY <1>1, <3>1, <3>2
    <3>4. LO!Run(b, c) \o LO!Run(c, s5) = LO!Run(b, s5)
      BY <1>1, <3>2, JoinedRuns
    <3>5. whole[i] = LO!Run(b, s5)
      BY <3>2
    <3>6. QED
      BY <2>2, <3>3, <3>4, <3>5
  <2>3. QED
    BY <2>1, <2>2
<1>3. whole = [i \in LO!Places |-> IF i = 0 THEN s1[0] ELSE s1[i] \o whole[i - 1]]
  BY <1>2
<1>4. PICK w : w = whole
  OBVIOUS
<1>5. \A i \in LO!Places : w[i] = LO!Run(cuts[i + 1], s5)
  BY <1>4
<1>6. w = [i \in LO!Places |-> IF i = 0 THEN s1[0] ELSE s1[i] \o w[i - 1]]
  BY <1>3, <1>4
<1> HIDE DEF whole
<1>7. LO!KeptFrom = [i \in LO!Places |-> IF i = 0 THEN s1[0] ELSE s1[i] \o LO!KeptFrom[i - 1]]
  BY <1>6, Zenon DEF LO!KeptFrom
<1>8. \A i \in LO!Places : LO!KeptFrom[i] = w[i]
  <2> DEFINE Apart == {i \in LO!Places : LO!KeptFrom[i] # w[i]}
  <2>1. SUFFICES ASSUME Apart # {} PROVE FALSE
    OBVIOUS
  <2>2. Apart \in SUBSET Nat
    BY <1>1
  <2>3. PICK i \in Apart : i = 0 \/ (i - 1 \in Nat /\ i - 1 \notin Apart)
    BY <2>1, <2>2, FirstOfThem
  <2>4. i \in LO!Places /\ LO!KeptFrom[i] # w[i]
    BY <2>3
  <2>5. CASE i = 0
    BY <1>6, <1>7, <2>4, <2>5
  <2>6. CASE i # 0
    <3>1. i - 1 \in LO!Places /\ LO!KeptFrom[i - 1] = w[i - 1]
      BY <1>1, <2>3, <2>4, <2>6
    <3>2. QED
      BY <1>6, <1>7, <2>4, <2>6, <3>1
  <2>7. QED
    BY <2>5, <2>6
<1>9. Backups \in LO!Places /\ Backups + 1 = LO!Still
  BY <1>1 DEF LO!Places, LO!Still
<1>10. QED
  BY <1>5, <1>8, <1>9 DEF LO!Kept

\* What the invariant means.
LEMMA LogHolds == ASSUME LO!LogInv PROVE LO!LogKept
<1>1. SUFFICES ASSUME ~s7 PROVE LO!LogKept
  BY DEF LO!LogKept, LO!LogIsRecent, LO!LogIsFull
<1>2. PICK cuts \in [0..LO!Still -> 0..s5] : LO!CutInFiles(cuts) /\ (s6 > 0 \/ LO!Full(cuts))
  BY <1>1 DEF LO!LogInv
<1>3. LO!Kept = LO!Run(cuts[LO!Still], s5) /\ s5 \in Nat /\ Backups \in Nat /\ MaxSize \in Nat /\ s6 \in Nat
  BY <1>2, KeptIsRun, ServicesAssumption DEF LO!LogInv, LO!LogShapes
<1>4. PICK a \in Nat : a = cuts[LO!Still] /\ a <= s5
  BY <1>2, <1>3 DEF LO!Still
<1>5. /\ Len(LO!Kept) = s5 - a /\ \A k \in 1..(s5 - a) : LO!Kept[k] = a + k
      /\ LO!Kept \in Seq(Nat)
  BY <1>3, <1>4, RunIs
<1>6. LO!LogIsRecent
  <2>1. LO!Consecutive(LO!Kept)
    <3>1. ASSUME NEW i \in 1..(Len(LO!Kept) - 1)
          PROVE  LO!Kept[i + 1] = LO!Kept[i] + 1
      <4>1. i \in 1..(s5 - a) /\ i + 1 \in 1..(s5 - a)
        BY <1>3, <1>4, <1>5
      <4>2. LO!Kept[i] = a + i /\ LO!Kept[i + 1] = a + (i + 1)
        BY <1>5, <4>1
      <4>3. a + (i + 1) = (a + i) + 1
        BY <1>4, <4>1
      <4>4. QED
        BY <4>2, <4>3
    <3>2. QED
      BY <3>1 DEF LO!Consecutive
  <2>2. ASSUME LO!Kept # <<>>
        PROVE  LO!Kept[Len(LO!Kept)] = s5
    <3>1. s5 - a \in 1..(s5 - a) /\ a + (s5 - a) = s5
      <4>1. Len(LO!Kept) # 0 /\ Len(LO!Kept) \in Nat
        BY <1>5, <2>2
      <4>2. QED
        BY <1>3, <1>4, <1>5, <4>1
    <3>2. QED
      BY <1>5, <3>1
  <2>3. QED
    BY <2>1, <2>2 DEF LO!LogIsRecent
<1>7. LO!LogIsFull
  <2>1. SUFFICES ASSUME s6 = 0, s4 = LO!Still
                 PROVE  Len(LO!Kept) >= IF s5 <= MaxSize * Backups THEN s5 ELSE MaxSize * Backups
    BY DEF LO!LogIsFull
  <2>2. a = 0 \/ a + MaxSize * Backups <= s5
    <3>1. /\ s3 + cuts[1] = s5
          /\ \A i \in 1..LO!Still : cuts[i] = 0 \/ cuts[i] + MaxSize * (i - 1) <= cuts[1]
      BY <1>2, <1>3, <2>1 DEF LO!Full, LO!Still
    <3>2. LO!Still \in 1..LO!Still /\ LO!Still - 1 = Backups
      BY <1>3 DEF LO!Still
    <3>3. a = 0 \/ a + MaxSize * Backups <= cuts[1]
      BY <1>4, <3>1, <3>2
    <3>4. cuts[1] \in Nat /\ cuts[1] <= s5
      BY <1>2, <1>3 DEF LO!Still
    <3>5. MaxSize * Backups \in Nat
      BY <1>3
    <3>6. QED
      BY <1>3, <1>4, <3>3, <3>4, <3>5
  <2>3. PICK n \in Nat : n = MaxSize * Backups
    BY <1>3
  <2>4. QED
    BY <1>3, <1>4, <1>5, <2>2, <2>3
<1>8. QED
  BY <1>6, <1>7 DEF LO!LogKept

-----------------------------------------------------------------------------
(***************************************************************************)
(* The hub of WebSocket connections.  Of the variables that the parts      *)
(* share it has s1 to s7: conns, wire, tasks, sends, pings, texts and      *)
(* pending. Who writes a frame holds the mutex of its connection, so a     *)
(* header is at the end of what was written only while its writer is       *)
(* halfway (Locked and FramesSoFar in Hub.tla).                            *)
(***************************************************************************)
\* What a piece says, and that a length comes out as it went in.
LEMMA PiecesSay ==
    ASSUME NEW length \in Nat
    PROVE  /\ HU!Header(length)[1] = "header" /\ HU!Payload(length)[1] # "header"
           /\ HU!Decoded(HU!Header(length)) = length
<1>1. HU!Header(length)[1] = "header" /\ HU!Payload(length)[1] = "payload"
  BY DEF HU!Header, HU!Payload
<1>2. CASE length <= 125
  <2>1. HU!Header(length)[2] = length /\ length # 126 /\ length # 127
    BY <1>2 DEF HU!Header
  <2>2. QED
    BY <1>1, <2>1 DEF HU!Decoded
<1>3. CASE ~(length <= 125) /\ length <= 65535
  <2>1. HU!Header(length)[2] = 126 /\ HU!Header(length)[3] = length
    BY <1>3 DEF HU!Header
  <2>2. length % 65536 = length
    BY <1>3
  <2>3. QED
    BY <1>1, <2>1, <2>2 DEF HU!Decoded
<1>4. CASE ~(length <= 65535)
  <2>1. HU!Header(length)[2] = 127 /\ HU!Header(length)[3] = length
    BY <1>4 DEF HU!Header
  <2>2. QED
    BY <1>1, <2>1 DEF HU!Decoded
<1>5. QED
  BY <1>2, <1>3, <1>4

\* A piece that is no header, a header, and the payload behind it.
LEMMA PieceAdded ==
    ASSUME NEW s \in Seq(HU!Pieces), NEW p \in HU!Pieces, p[1] # "header", HU!WholeTo(s, Len(s))
    PROVE  HU!WholeTo(Append(s, p), Len(Append(s, p)))
<1>1. PICK t : t = Append(s, p)
  OBVIOUS
<1>2. PICK n \in Nat : n = Len(s)
  OBVIOUS
<1>3. Len(t) = n + 1 /\ t[n + 1] = p /\ t # <<>> /\ \A i \in 1..n : t[i] = s[i]
  BY <1>1, <1>2, AppendProperties
<1>4. ASSUME NEW i \in 1..(n + 1), t[i][1] = "header"
      PROVE  i < n + 1 /\ t[i + 1] = HU!Payload(HU!Decoded(t[i]))
  <2>1. i \in 1..n
    BY <1>1, <1>2, <1>3, <1>4
  <2>2. i < n /\ s[i + 1] = HU!Payload(HU!Decoded(s[i])) /\ t[i] = s[i]
    BY <1>1, <1>2, <1>3, <1>4, <2>1 DEF HU!WholeTo
  <2>3. i + 1 \in 1..n
    BY <2>1, <2>2
  <2>4. QED
    BY <1>1, <1>2, <1>3, <2>1, <2>2, <2>3
<1>5. QED
  BY <1>1, <1>2, <1>3, <1>4 DEF HU!WholeTo

LEMMA HeaderAdded ==
    ASSUME NEW s \in Seq(HU!Pieces), NEW length, HU!Header(length) \in HU!Pieces, HU!WholeTo(s, Len(s))
    PROVE  HU!HalfAtEnd(Append(s, HU!Header(length)), length)
<1>1. PICK t : t = Append(s, HU!Header(length))
  OBVIOUS
<1>2. PICK n \in Nat : n = Len(s)
  OBVIOUS
<1>3. Len(t) = n + 1 /\ t[n + 1] = HU!Header(length) /\ t # <<>> /\ \A i \in 1..n : t[i] = s[i]
  BY <1>1, <1>2, AppendProperties
<1>4. HU!WholeTo(t, n)
  <2>1. ASSUME NEW i \in 1..n, t[i][1] = "header"
        PROVE  i < n /\ t[i + 1] = HU!Payload(HU!Decoded(t[i]))
    <3>1. i < n /\ s[i + 1] = HU!Payload(HU!Decoded(s[i])) /\ t[i] = s[i]
      BY <1>1, <1>2, <1>3, <2>1 DEF HU!WholeTo
    <3>2. i + 1 \in 1..n
      BY <3>1
    <3>3. QED
      BY <1>1, <1>2, <1>3, <3>1, <3>2
  <2>2. QED
    BY <2>1 DEF HU!WholeTo
<1>5. Len(t) - 1 = n
  BY <1>1, <1>2, <1>3
<1>6. QED
  BY <1>1, <1>2, <1>3, <1>4, <1>5 DEF HU!HalfAtEnd

LEMMA PayloadAdded ==
    ASSUME NEW s \in Seq(HU!Pieces), NEW length \in Nat, HU!Payload(length) \in HU!Pieces, HU!HalfAtEnd(s, length)
    PROVE  HU!WholeTo(Append(s, HU!Payload(length)), Len(Append(s, HU!Payload(length))))
<1>1. PICK t : t = Append(s, HU!Payload(length))
  OBVIOUS
<1>2. PICK n \in Nat : n = Len(s)
  OBVIOUS
<1>3. Len(t) = n + 1 /\ t[n + 1] = HU!Payload(length) /\ t # <<>> /\ \A i \in 1..n : t[i] = s[i]
  BY <1>1, <1>2, AppendProperties
<1>4. PICK m \in Nat : n = m + 1 /\ HU!WholeTo(s, m) /\ s[m + 1] = HU!Header(length)
  <2>1. n # 0
    BY <1>1, <1>2, <1>3 DEF HU!HalfAtEnd
  <2>2. n - 1 \in Nat /\ n = (n - 1) + 1
    BY <2>1
  <2>3. QED
    BY <1>1, <1>2, <1>3, <2>2 DEF HU!HalfAtEnd
<1>5. ASSUME NEW i \in 1..(n + 1), t[i][1] = "header"
      PROVE  i < n + 1 /\ t[i + 1] = HU!Payload(HU!Decoded(t[i]))
  <2>1. CASE i = n + 1
    BY <1>1, <1>2, <1>3, <1>5, <2>1, PiecesSay
  <2>2. CASE i = n
    <3>1. t[i] = HU!Header(length) /\ t[i + 1] = HU!Payload(length)
      BY <1>1, <1>2, <1>3, <1>4, <2>2
    <3>2. QED
      BY <2>2, <3>1, PiecesSay
  <2>3. CASE i \in 1..m
    <3>1. t[i] = s[i] /\ i < m /\ s[i + 1] = HU!Payload(HU!Decoded(s[i]))
      BY <1>1, <1>2, <1>3, <1>4, <1>5, <2>3 DEF HU!WholeTo
    <3>2. i + 1 \in 1..n
      BY <1>4, <3>1
    <3>3. QED
      BY <1>1, <1>2, <1>3, <1>4, <3>1, <3>2
  <2>4. QED
    BY <1>4, <2>1, <2>2, <2>3
<1>6. QED
  BY <1>1, <1>2, <1>3, <1>5 DEF HU!WholeTo


\* What a connection that is served says of itself.
LEMMA ServedIs ==
    HU!KnownAreServed <=> \A c \in Conns :
        /\ s1[c].stored <=> s1[c].listener \in {"welcomes", "runs"}
        /\ s1[c].listener = "over" => ~s1[c].open /\ (s1[c].stop \/ s1[c].pinger = "ended")
BY DEF HU!KnownAreServed

\* A step of one connection that writes nothing and leaves the lock alone.
LEMMA ConnectionSteps ==
    ASSUME HU!HubInv, NEW c \in Conns, NEW new \in HU!Connections, s1' = [s1 EXCEPT ![c] = new],
           new.mu = s1[c].mu, new.cut = s1[c].cut, s2' = s2, s3' = s3,
           new.stored <=> new.listener \in {"welcomes", "runs"},
           new.listener = "over" => ~new.open /\ (new.stop \/ new.pinger = "ended")
    PROVE  HU!HubInv'
<1>1. s1'[c] = new /\ \A d \in Conns \ {c} : s1'[d] = s1[d]
  BY DEF HU!HubInv, HU!HubShapes
<1>2. HU!HubShapes'
  BY DEF HU!HubInv, HU!HubShapes
<1>3. \A d \in Conns : s1'[d].mu = s1[d].mu /\ s1'[d].cut = s1[d].cut
  BY <1>1
<1>4. HU!Locked'
  BY <1>3 DEF HU!HubInv, HU!Locked, HU!Writing
<1>5. HU!FramesSoFar'
  BY <1>3 DEF HU!HubInv, HU!FramesSoFar, HU!Halfway
<1>6. HU!KnownAreServed'
  BY <1>1 DEF HU!HubInv, HU!KnownAreServed
<1>7. QED
  BY <1>2, <1>4, <1>5, <1>6 DEF HU!HubInv

\* Whole frames are written to a connection that is not locked.
LEMMA ConnectionWrites ==
    ASSUME HU!HubInv, NEW c \in Conns, NEW new \in HU!Connections, s1' = [s1 EXCEPT ![c] = new],
           s1[c].mu = "free", new.mu = "free", new.cut = s1[c].cut, s3' = s3,
           NEW s \in Seq(HU!Pieces), s2' = [s2 EXCEPT ![c] = s],
           HU!WholeTo(s2[c], Len(s2[c])) => HU!WholeTo(s, Len(s)),
           new.stored <=> new.listener \in {"welcomes", "runs"},
           new.listener = "over" => ~new.open /\ (new.stop \/ new.pinger = "ended")
    PROVE  HU!HubInv'
<1>1. /\ s1'[c] = new /\ \A d \in Conns \ {c} : s1'[d] = s1[d] /\ s2'[d] = s2[d]
      /\ s2'[c] = s
  BY DEF HU!HubInv, HU!HubShapes
<1>2. HU!HubShapes'
  BY DEF HU!HubInv, HU!HubShapes
<1>3. \A d \in Conns : s1'[d].mu = s1[d].mu /\ s1'[d].cut = s1[d].cut
  BY <1>1
<1>4. HU!Locked'
  BY <1>3 DEF HU!HubInv, HU!Locked, HU!Writing
<1>5. \A w \in Handlers : ~HU!Halfway(w, c)
  BY ServicesAssumption DEF HU!HubInv, HU!Locked, HU!Halfway, HU!Writing
<1>6. HU!FramesSoFar'
  <2>1. ASSUME NEW d \in Conns, ~s1'[d].cut
        PROVE  /\ \/ \E w \in Handlers : HU!Halfway(w, d)'
                  \/ HU!WholeTo(s2'[d], Len(s2'[d]))
               /\ \A w \in Handlers : HU!Halfway(w, d)' => HU!HalfAtEnd(s2'[d], s3'[w].length)
    <3>1. \A w \in Handlers : HU!Halfway(w, d)' <=> HU!Halfway(w, d)
      BY DEF HU!Halfway
    <3>2. CASE d = c
      BY <1>1, <1>3, <1>5, <2>1, <3>1, <3>2 DEF HU!HubInv, HU!FramesSoFar
    <3>3. CASE d # c
      BY <1>1, <1>3, <2>1, <3>1, <3>3 DEF HU!HubInv, HU!FramesSoFar
    <3>4. QED
      BY <3>2, <3>3
  <2>2. QED
    BY <2>1 DEF HU!FramesSoFar
<1>7. HU!KnownAreServed'
  BY <1>1 DEF HU!HubInv, HU!KnownAreServed
<1>8. QED
  BY <1>2, <1>4, <1>6, <1>7 DEF HU!HubInv

\* A write to a connection that nobody has locked is cut.
LEMMA ConnectionCuts ==
    ASSUME HU!HubInv, NEW c \in Conns, NEW new \in HU!Connections, s1' = [s1 EXCEPT ![c] = new],
           new.mu = s1[c].mu, new.cut, s2' = s2, s3' = s3,
           new.stored <=> new.listener \in {"welcomes", "runs"},
           new.listener = "over" => ~new.open /\ (new.stop \/ new.pinger = "ended")
    PROVE  HU!HubInv'
<1>1. s1'[c] = new /\ \A d \in Conns \ {c} : s1'[d] = s1[d]
  BY DEF HU!HubInv, HU!HubShapes
<1>2. HU!HubShapes'
  BY DEF HU!HubInv, HU!HubShapes
<1>3. \A d \in Conns : s1'[d].mu = s1[d].mu /\ (~s1'[d].cut => ~s1[d].cut)
  BY <1>1
<1>4. HU!Locked'
  BY <1>3 DEF HU!HubInv, HU!Locked, HU!Writing
<1>5. HU!FramesSoFar'
  BY <1>3 DEF HU!HubInv, HU!FramesSoFar, HU!Halfway
<1>6. HU!KnownAreServed'
  BY <1>1 DEF HU!HubInv, HU!KnownAreServed
<1>7. QED
  BY <1>2, <1>4, <1>5, <1>6 DEF HU!HubInv

\* A connection is made.
LEMMA HubConnects == ASSUME HU!HubInv, NEW c \in Conns, HU!Connect(c) PROVE HU!HubInv'
<1>1. PICK new : new = [HU!New EXCEPT !.open = TRUE, !.stored = TRUE, !.listener = "welcomes"]
  OBVIOUS
<1>2. s1[c] = HU!New /\ s1' = [s1 EXCEPT ![c] = new] /\ s2' = s2 /\ s3' = s3
  BY <1>1 DEF HU!Connect, HU!Set
<1>3. /\ new \in HU!Connections /\ new.mu = HU!New.mu /\ new.cut = HU!New.cut /\ new.stored
      /\ new.listener = "welcomes"
  BY <1>1 DEF HU!New, HU!Connections
<1>4. QED
  BY <1>2, <1>3, ConnectionSteps

\* A connection of the table.
LEMMA ConnectionIs ==
    ASSUME HU!HubInv, NEW c \in Conns
    PROVE  /\ s1[c] \in HU!Connections /\ s2[c] \in Seq(HU!Pieces)
           /\ s1[c].stored <=> s1[c].listener \in {"welcomes", "runs"}
           /\ s1[c].listener = "over" => ~s1[c].open /\ (s1[c].stop \/ s1[c].pinger = "ended")
BY DEF HU!HubInv, HU!HubShapes, HU!KnownAreServed

\* The welcome is a whole frame, or it is cut.
LEMMA HubWelcomes == ASSUME HU!HubInv, NEW c \in Conns, HU!Welcome(c) PROVE HU!HubInv'
<1>1. PICK old \in HU!Connections : old = s1[c] /\ (old.stored <=> old.listener \in {"welcomes", "runs"})
  BY ConnectionIs
<1>2. PICK cut \in BOOLEAN :
         /\ HU!Set(c, [s1[c] EXCEPT !.listener = "runs", !.pinger = "runs", !.cut = @ \/ cut])
         /\ s2' = IF cut THEN s2 ELSE [s2 EXCEPT ![c] = @ \o <<HU!Header(126), HU!Payload(126)>>]
  BY DEF HU!Welcome
<1>3. PICK new : new = [old EXCEPT !.listener = "runs", !.pinger = "runs", !.cut = @ \/ cut]
  OBVIOUS
<1>4. /\ old.listener = "welcomes" /\ old.mu = "free" /\ s1' = [s1 EXCEPT ![c] = new] /\ s3' = s3
  BY <1>1, <1>2, <1>3 DEF HU!Welcome, HU!Set
<1>5. PICK s : s = s2[c] \o <<HU!Header(126), HU!Payload(126)>>
  OBVIOUS
<1>6. ~cut => s2' = [s2 EXCEPT ![c] = s]
  BY <1>2, <1>5
<1>7. /\ new \in HU!Connections /\ new.mu = old.mu /\ new.stored = old.stored /\ new.listener = "runs"
      /\ ~cut => new.cut = old.cut
      /\ cut => new.cut
  BY <1>3 DEF HU!Connections
<1>8. HU!Header(126) \in HU!Pieces /\ HU!Payload(126) \in HU!Pieces /\ 126 \in Nat
  BY DEF HU!Pieces, HU!AnyLength
<1>9. PICK h, p : h = HU!Header(126) /\ p = HU!Payload(126)
  OBVIOUS
<1>10. PICK r : r = s2[c]
  OBVIOUS
<1>11. /\ r \in Seq(HU!Pieces) /\ h \in HU!Pieces /\ p \in HU!Pieces
  BY <1>8, <1>9, <1>10, ConnectionIs
<1>12. /\ r \o <<h, p>> = Append(Append(r, h), p) /\ Append(r, h) \in Seq(HU!Pieces)
       /\ Append(Append(r, h), p) \in Seq(HU!Pieces)
  BY <1>11
<1>13. /\ s \in Seq(HU!Pieces) /\ s = Append(Append(r, HU!Header(126)), HU!Payload(126))
       /\ Append(r, HU!Header(126)) \in Seq(HU!Pieces)
  BY <1>5, <1>9, <1>10, <1>12
<1>14. HU!WholeTo(s2[c], Len(s2[c])) => HU!WholeTo(s, Len(s))
  <2>1. ASSUME HU!WholeTo(r, Len(r)) PROVE HU!HalfAtEnd(Append(r, HU!Header(126)), 126)
    BY <1>8, <1>11, <2>1, HeaderAdded
  <2>2. QED
    BY <1>8, <1>10, <1>13, <2>1, PayloadAdded
<1>15. /\ s1[c].mu = "free" /\ new.mu = "free"
       /\ new.stored <=> new.listener \in {"welcomes", "runs"}
       /\ new.listener # "over"
  BY <1>1, <1>7, <1>4
<1>16. CASE cut
  BY <1>2, <1>7, <1>15, <1>16, <1>4, ConnectionCuts
<1>17. CASE ~cut
  BY <1>1, <1>6, <1>7, <1>13, <1>14, <1>15, <1>17, <1>4, ConnectionWrites
<1>18. QED
  BY <1>16, <1>17

\* A ping, or the end of the pings.
LEMMA PingIsPiece ==
    ASSUME NEW p \in {<<"ping">>, <<"pong">>}
    PROVE  p \in HU!Pieces /\ p[1] # "header"
BY DEF HU!Pieces

LEMMA HubPings == ASSUME HU!HubInv, NEW c \in Conns, HU!Ping(c) PROVE HU!HubInv'
<1>1. PICK old \in HU!Connections :
         /\ old = s1[c] /\ (old.stored <=> old.listener \in {"welcomes", "runs"})
         /\ old.listener = "over" => ~old.open /\ (old.stop \/ old.pinger = "ended")
  BY ConnectionIs
<1>2. old.mu = "free" /\ old.pinger = "runs" /\ s3' = s3
  BY <1>1 DEF HU!Ping
<1>3. CASE s2' = [s2 EXCEPT ![c] = Append(@, <<"ping">>)] /\ s1' = s1
  <2>1. PICK s : s = Append(s2[c], <<"ping">>)
    OBVIOUS
  <2>2. s2[c] \in Seq(HU!Pieces) /\ <<"ping">> \in HU!Pieces /\ <<"ping">>[1] # "header"
    BY ConnectionIs, PingIsPiece
  <2>3. s \in Seq(HU!Pieces) /\ (HU!WholeTo(s2[c], Len(s2[c])) => HU!WholeTo(s, Len(s)))
    BY <2>1, <2>2, AppendProperties, PieceAdded
  <2>4. s2' = [s2 EXCEPT ![c] = s] /\ s1' = [s1 EXCEPT ![c] = old]
    BY <1>1, <1>3, <2>1 DEF HU!HubInv, HU!HubShapes
  <2>5. QED
    BY <1>1, <1>2, <2>3, <2>4, ConnectionWrites
<1>4. CASE HU!Set(c, [s1[c] EXCEPT !.open = FALSE, !.pinger = "ended"]) /\ s2' = s2
  <2>1. PICK new : new = [old EXCEPT !.open = FALSE, !.pinger = "ended"]
    OBVIOUS
  <2>2. /\ new \in HU!Connections /\ new.mu = old.mu /\ new.cut = old.cut /\ new.stored = old.stored
        /\ new.listener = old.listener /\ ~new.open /\ new.pinger = "ended"
    BY <2>1 DEF HU!Connections
  <2>3. s1' = [s1 EXCEPT ![c] = new]
    BY <1>1, <1>4, <2>1 DEF HU!Set
  <2>4. QED
    BY <1>1, <1>2, <1>4, <2>2, <2>3, ConnectionSteps
<1>5. QED
  BY <1>3, <1>4 DEF HU!Ping

LEMMA HubPingStops == ASSUME HU!HubInv, NEW c \in Conns, HU!PingStops(c) PROVE HU!HubInv'
<1>1. PICK old \in HU!Connections :
         /\ old = s1[c] /\ (old.stored <=> old.listener \in {"welcomes", "runs"})
         /\ old.listener = "over" => ~old.open /\ (old.stop \/ old.pinger = "ended")
  BY ConnectionIs
<1>2. PICK new : new = [old EXCEPT !.pinger = "ended"]
  OBVIOUS
<1>3. /\ new \in HU!Connections /\ new.mu = old.mu /\ new.cut = old.cut /\ new.stored = old.stored
      /\ new.listener = old.listener /\ new.open = old.open /\ new.pinger = "ended"
  BY <1>2 DEF HU!Connections
<1>4. s1' = [s1 EXCEPT ![c] = new] /\ s2' = s2 /\ s3' = s3
  BY <1>1, <1>2 DEF HU!PingStops, HU!Set
<1>5. QED
  BY <1>1, <1>3, <1>4, ConnectionSteps

\* A ping of the peer is answered; a text is taken.
LEMMA HubReads == ASSUME HU!HubInv, NEW c \in Conns, HU!ReadPing(c) \/ HU!ReadText(c) PROVE HU!HubInv'
<1>1. PICK old \in HU!Connections :
         /\ old = s1[c] /\ (old.stored <=> old.listener \in {"welcomes", "runs"})
         /\ old.listener = "over" => ~old.open /\ (old.stop \/ old.pinger = "ended")
  BY ConnectionIs
<1>2. s1 = [s1 EXCEPT ![c] = old] /\ s3' = s3
  BY <1>1 DEF HU!HubInv, HU!HubShapes, HU!ReadPing, HU!ReadText
<1>3. CASE HU!ReadPing(c) /\ s2' = [s2 EXCEPT ![c] = Append(@, <<"pong">>)] /\ s1' = s1
  <2>1. PICK s : s = Append(s2[c], <<"pong">>)
    OBVIOUS
  <2>2. s2[c] \in Seq(HU!Pieces) /\ <<"pong">> \in HU!Pieces /\ <<"pong">>[1] # "header"
    BY ConnectionIs, PingIsPiece
  <2>3. s \in Seq(HU!Pieces) /\ (HU!WholeTo(s2[c], Len(s2[c])) => HU!WholeTo(s, Len(s)))
    BY <2>1, <2>2, AppendProperties, PieceAdded
  <2>4. s2' = [s2 EXCEPT ![c] = s] /\ old.mu = "free"
    BY <1>1, <1>3, <2>1 DEF HU!ReadPing
  <2>5. QED
    BY <1>1, <1>2, <1>3, <2>3, <2>4, ConnectionWrites
<1>4. CASE HU!ReadPing(c) /\ HU!Set(c, [s1[c] EXCEPT !.cut = TRUE]) /\ s2' = s2
  <2>1. PICK new : new = [old EXCEPT !.cut = TRUE]
    OBVIOUS
  <2>2. /\ new \in HU!Connections /\ new.mu = old.mu /\ new.cut = TRUE /\ new.stored = old.stored
        /\ new.listener = old.listener /\ new.open = old.open /\ new.stop = old.stop /\ new.pinger = old.pinger
    BY <2>1 DEF HU!Connections
  <2>3. s1' = [s1 EXCEPT ![c] = new] /\ old.mu = "free"
    BY <1>1, <1>4, <2>1 DEF HU!Set, HU!ReadPing
  <2>4. QED
    BY <1>1, <1>2, <1>4, <2>2, <2>3, ConnectionCuts
<1>5. CASE HU!ReadText(c)
  <2>1. s2' = s2 /\ s1' = s1
    BY <1>5 DEF HU!ReadText
  <2>2. QED
    BY <1>1, <1>2, <2>1, ConnectionSteps
<1>6. QED
  BY <1>3, <1>4, <1>5 DEF HU!ReadPing

\* The connection is closed, by a handler or when its listener ends.
LEMMA HubCloses == ASSUME HU!HubInv, NEW c \in Conns, HU!Close(c) \/ HU!ListenEnds(c) PROVE HU!HubInv'
<1>1. PICK old \in HU!Connections :
         /\ old = s1[c] /\ (old.stored <=> old.listener \in {"welcomes", "runs"})
         /\ old.listener = "over" => ~old.open /\ (old.stop \/ old.pinger = "ended")
  BY ConnectionIs
<1>2. s2' = s2 /\ s3' = s3
  BY DEF HU!Close, HU!ListenEnds
<1>3. CASE HU!Close(c)
  <2>1. PICK new : new = [old EXCEPT !.open = FALSE]
    OBVIOUS
  <2>2. /\ new \in HU!Connections /\ new.mu = old.mu /\ new.cut = old.cut /\ new.stored = old.stored
        /\ new.listener = old.listener /\ ~new.open /\ new.pinger = old.pinger /\ new.stop = old.stop
    BY <2>1 DEF HU!Connections
  <2>3. s1' = [s1 EXCEPT ![c] = new]
    BY <1>1, <1>3, <2>1 DEF HU!Close, HU!Set
  <2>4. QED
    BY <1>1, <1>2, <2>2, <2>3, ConnectionSteps
<1>4. CASE HU!ListenEnds(c)
  <2>1. PICK new : new = [old EXCEPT !.stored = FALSE, !.stop = TRUE, !.open = FALSE, !.listener = "over"]
    OBVIOUS
  <2>2. /\ new \in HU!Connections /\ new.mu = old.mu /\ new.cut = old.cut /\ ~new.stored
        /\ new.listener = "over" /\ ~new.open /\ new.stop
    BY <2>1 DEF HU!Connections
  <2>3. s1' = [s1 EXCEPT ![c] = new]
    BY <1>1, <1>4, <2>1 DEF HU!ListenEnds, HU!Set
  <2>4. QED
    BY <1>1, <1>2, <2>2, <2>3, ConnectionSteps
<1>5. QED
  BY <1>3, <1>4


\* A writer that begins, or ends, is at no connection.
LEMMA WriterSteps ==
    ASSUME HU!HubInv, NEW w \in Handlers, NEW job \in HU!Jobs, s3' = [s3 EXCEPT ![w] = job],
           s3[w].at \in {"idle", "next"}, job.at \in {"idle", "next"},
           job.at # "idle" => job.length \in Lengths, s1' = s1, s2' = s2
    PROVE  HU!HubInv'
<1>1. s3'[w] = job /\ \A v \in Handlers \ {w} : s3'[v] = s3[v]
  BY DEF HU!HubInv, HU!HubShapes
<1>2. HU!HubShapes'
  BY DEF HU!HubInv, HU!HubShapes
<1>3. HU!Locked'
  BY <1>1 DEF HU!HubInv, HU!Locked, HU!Writing
<1>4. HU!FramesSoFar'
  <2>1. \A v \in Handlers, c \in Conns : HU!Halfway(v, c)' <=> HU!Halfway(v, c)
    BY <1>1 DEF HU!Halfway
  <2>2. \A v \in Handlers, c \in Conns : HU!Halfway(v, c) => s3'[v] = s3[v]
    BY <1>1 DEF HU!Halfway
  <2>3. QED
    BY <2>1, <2>2 DEF HU!HubInv, HU!FramesSoFar
<1>5. QED
  BY <1>2, <1>3, <1>4 DEF HU!HubInv, HU!KnownAreServed

LEMMA HubBegins == ASSUME HU!HubInv, NEW w \in Handlers, HU!Begin(w) PROVE HU!HubInv'
<1>1. PICK length \in Lengths, all \in BOOLEAN :
         s3' = [s3 EXCEPT ![w] = [HU!Idle EXCEPT !.at = "next", !.length = length, !.all = all]]
  BY DEF HU!Begin
<1>2. PICK job : job = [HU!Idle EXCEPT !.at = "next", !.length = length, !.all = all]
  OBVIOUS
<1>3. job \in HU!Jobs /\ job.at = "next" /\ job.length = length
  BY <1>2 DEF HU!Jobs, HU!Idle
<1>4. s3[w].at = "idle" /\ s1' = s1 /\ s2' = s2
  BY DEF HU!Begin, HU!Free
<1>5. QED
  BY <1>1, <1>2, <1>3, <1>4, WriterSteps

LEMMA HubRangeEnds == ASSUME HU!HubInv, NEW w \in Handlers, HU!RangeEnds(w) PROVE HU!HubInv'
<1>1. HU!Idle \in HU!Jobs /\ HU!Idle.at = "idle"
  BY DEF HU!Idle, HU!Jobs
<1>2. s3[w].at = "next" /\ s1' = s1 /\ s2' = s2 /\ s3' = [s3 EXCEPT ![w] = HU!Idle]
  BY DEF HU!RangeEnds
<1>3. QED
  BY <1>1, <1>2, WriterSteps

\* The connection is locked for a frame.
LEMMA HubLocks == ASSUME HU!HubInv, NEW w \in Handlers, HU!Lock(w) PROVE HU!HubInv'
<1>1. PICK c \in Conns :
         /\ s1[c].mu = "free" /\ HU!Set(c, [s1[c] EXCEPT !.mu = w])
         /\ s3' = [s3 EXCEPT ![w].at = "header", ![w].to = c]
  BY DEF HU!Lock
<1>2. s3[w].at = "next" /\ s2' = s2
  BY DEF HU!Lock
<1>3. PICK old \in HU!Connections :
         /\ old = s1[c] /\ (old.stored <=> old.listener \in {"welcomes", "runs"})
         /\ old.listener = "over" => ~old.open /\ (old.stop \/ old.pinger = "ended")
  BY ConnectionIs
<1>4. PICK new : new = [old EXCEPT !.mu = w]
  OBVIOUS
<1>5. /\ new \in HU!Connections /\ new.mu = w /\ new.cut = old.cut /\ new.stored = old.stored
      /\ new.listener = old.listener /\ new.open = old.open /\ new.stop = old.stop /\ new.pinger = old.pinger
  BY <1>4 DEF HU!Connections
<1>6. PICK job \in HU!Jobs : job = s3[w]
  BY DEF HU!HubInv, HU!HubShapes
<1>7. PICK next : next = [job EXCEPT !.at = "header", !.to = c]
  OBVIOUS
<1>8. next \in HU!Jobs /\ next.at = "header" /\ next.to = c /\ next.length = job.length
  BY <1>7 DEF HU!Jobs
<1>9. /\ s1' = [s1 EXCEPT ![c] = new] /\ s1'[c] = new /\ \A d \in Conns \ {c} : s1'[d] = s1[d]
      /\ s3'[w] = next /\ s3' \in [Handlers -> HU!Jobs] /\ \A v \in Handlers \ {w} : s3'[v] = s3[v]
  <2>1. s1' = [s1 EXCEPT ![c] = new]
    BY <1>1, <1>3, <1>4 DEF HU!Set
  <2>2. s3' = [s3 EXCEPT ![w] = next]
    BY <1>1, <1>6, <1>7 DEF HU!HubInv, HU!HubShapes
  <2>3. QED
    BY <1>8, <2>1, <2>2 DEF HU!HubInv, HU!HubShapes
<1>10. HU!HubShapes'
  BY <1>2, <1>5, <1>9 DEF HU!HubInv, HU!HubShapes
<1>11. HU!Locked'
  <2>1. ASSUME NEW v \in Handlers, HU!Writing(v)'
        PROVE  s3'[v].to \in Conns /\ s1'[s3'[v].to].mu = v
    <3>1. CASE v = w
      BY <1>5, <1>8, <1>9, <3>1
    <3>2. CASE v # w
      <4>1. s3'[v] = s3[v] /\ s3[v].to \in Conns /\ s1[s3[v].to].mu = v
        BY <1>9, <2>1, <3>2 DEF HU!HubInv, HU!Locked, HU!Writing
      <4>2. s3[v].to # c
        BY <1>1, <4>1, ServicesAssumption
      <4>3. QED
        BY <1>9, <4>1, <4>2
    <3>3. QED
      BY <3>1, <3>2
  <2>2. \A v \in Handlers : s3'[v].at # "idle" => s3'[v].length \in Lengths
    BY <1>2, <1>6, <1>8, <1>9 DEF HU!HubInv, HU!Locked
  <2>3. QED
    BY <2>1, <2>2 DEF HU!Locked
<1>12. HU!FramesSoFar'
  <2>1. \A d \in Conns : s1'[d].cut = s1[d].cut
    BY <1>3, <1>5, <1>9
  <2>2. \A v \in Handlers, d \in Conns : HU!Halfway(v, d)' <=> HU!Halfway(v, d)
    BY <1>2, <1>8, <1>9 DEF HU!Halfway
  <2>3. \A v \in Handlers, d \in Conns : HU!Halfway(v, d) => s3'[v] = s3[v]
    BY <1>2, <1>9 DEF HU!Halfway
  <2>4. QED
    BY <1>2, <2>1, <2>2, <2>3 DEF HU!HubInv, HU!FramesSoFar
<1>13. HU!KnownAreServed'
  BY <1>3, <1>5, <1>9 DEF HU!HubInv, HU!KnownAreServed
<1>14. QED
  BY <1>10, <1>11, <1>12, <1>13 DEF HU!HubInv

\* The header is written: it stands at the end.
LEMMA HubHeader == ASSUME HU!HubInv, NEW w \in Handlers, HU!WriteHeader(w) PROVE HU!HubInv'
<1>1. PICK job \in HU!Jobs : job = s3[w]
  BY DEF HU!HubInv, HU!HubShapes
<1>2. PICK c \in Conns : c = job.to /\ s1[c].mu = w
  BY <1>1 DEF HU!HubInv, HU!Locked, HU!Writing, HU!WriteHeader
<1>3. /\ job.at = "header" /\ job.length \in Lengths /\ s1' = s1
      /\ s2' = [s2 EXCEPT ![c] = Append(s2[c], HU!Header(job.length))]
      /\ s3' = [s3 EXCEPT ![w].at = "payload"]
  BY <1>1, <1>2 DEF HU!HubInv, HU!Locked, HU!WriteHeader
<1>4. PICK next : next = [job EXCEPT !.at = "payload"]
  OBVIOUS
<1>5. next \in HU!Jobs /\ next.at = "payload" /\ next.to = c /\ next.length = job.length
  BY <1>2, <1>4 DEF HU!Jobs
<1>6. HU!Header(job.length) \in HU!Pieces
  BY <1>3 DEF HU!Pieces, HU!AnyLength
<1>7. PICK s : s = Append(s2[c], HU!Header(job.length))
  OBVIOUS
<1>8. s2[c] \in Seq(HU!Pieces) /\ s \in Seq(HU!Pieces)
  BY <1>6, <1>7, ConnectionIs, AppendProperties
<1>9. /\ s2'[c] = s /\ s2' \in [Conns -> Seq(HU!Pieces)] /\ \A d \in Conns \ {c} : s2'[d] = s2[d]
      /\ s3'[w] = next /\ s3' \in [Handlers -> HU!Jobs] /\ \A v \in Handlers \ {w} : s3'[v] = s3[v]
  <2>1. s3' = [s3 EXCEPT ![w] = next] /\ s2' = [s2 EXCEPT ![c] = s]
    BY <1>1, <1>3, <1>4, <1>7 DEF HU!HubInv, HU!HubShapes
  <2>2. QED
    BY <1>5, <1>8, <2>1 DEF HU!HubInv, HU!HubShapes
<1>10. HU!HubShapes'
  BY <1>3, <1>9 DEF HU!HubInv, HU!HubShapes
<1>11. HU!Locked'
  BY <1>1, <1>2, <1>3, <1>5, <1>9 DEF HU!HubInv, HU!Locked, HU!Writing
<1>12. HU!FramesSoFar'
  <2>1. \A v \in Handlers : HU!Halfway(v, c)' => v = w
    BY <1>2, <1>9 DEF HU!HubInv, HU!Locked, HU!Writing, HU!Halfway
  <2>2. HU!Halfway(w, c)'
    BY <1>5, <1>9 DEF HU!Halfway
  <2>3. ASSUME ~s1[c].cut
        PROVE  HU!HalfAtEnd(s, job.length)
    <3>1. \A v \in Handlers : ~HU!Halfway(v, c)
      BY <1>1, <1>2, <1>3 DEF HU!HubInv, HU!Locked, HU!Writing, HU!Halfway
    <3>2. HU!WholeTo(s2[c], Len(s2[c]))
      BY <2>3, <3>1 DEF HU!HubInv, HU!FramesSoFar
    <3>3. QED
      BY <1>6, <1>7, <1>8, <3>2, HeaderAdded
  <2>4. \A v \in Handlers, d \in Conns \ {c} : HU!Halfway(v, d)' <=> HU!Halfway(v, d)
    BY <1>1, <1>2, <1>5, <1>9 DEF HU!Halfway
  <2>5. \A v \in Handlers, d \in Conns \ {c} : HU!Halfway(v, d) => s3'[v] = s3[v]
    BY <1>1, <1>2, <1>9 DEF HU!Halfway
  <2>6. ASSUME NEW d \in Conns, ~s1'[d].cut
        PROVE  /\ \/ \E v \in Handlers : HU!Halfway(v, d)'
                  \/ HU!WholeTo(s2'[d], Len(s2'[d]))
               /\ \A v \in Handlers : HU!Halfway(v, d)' => HU!HalfAtEnd(s2'[d], s3'[v].length)
    <3>1. CASE d = c
      BY <1>3, <1>5, <1>9, <2>1, <2>2, <2>3, <2>6, <3>1
    <3>2. CASE d # c
      BY <1>3, <1>9, <2>4, <2>5, <2>6, <3>2 DEF HU!HubInv, HU!FramesSoFar
    <3>3. QED
      BY <3>1, <3>2
  <2>7. QED
    BY <2>6 DEF HU!FramesSoFar
<1>13. QED
  BY <1>3, <1>10, <1>11, <1>12 DEF HU!HubInv, HU!KnownAreServed

\* The payload follows, or the write is cut; the connection is free again.
LEMMA HubUnlocks == ASSUME HU!HubInv, NEW w \in Handlers, HU!WritePayload(w) \/ HU!WriteFails(w) PROVE HU!HubInv'
<1>1. PICK job \in HU!Jobs : job = s3[w]
  BY DEF HU!HubInv, HU!HubShapes
<1>2. PICK c \in Conns : c = job.to /\ s1[c].mu = w
  BY <1>1 DEF HU!HubInv, HU!Locked, HU!Writing, HU!WritePayload, HU!WriteFails
<1>3. /\ job.at \in {"header", "payload"} /\ job.length \in Lengths
      /\ s3' = [s3 EXCEPT ![w] = IF job.all THEN [job EXCEPT !.at = "next", !.done = job.done \cup {c}] ELSE HU!Idle]
  <2>1. s3[w].at \in {"header", "payload"} /\ HU!Sent(w)
    BY DEF HU!WritePayload, HU!WriteFails
  <2>2. s3' = [s3 EXCEPT ![w] =
                  IF job.all THEN [job EXCEPT !.at = "next", !.done = job.done \cup {job.to}] ELSE HU!Idle]
    BY <1>1, <2>1, Zenon DEF HU!Sent
  <2>3. job.length \in Lengths
    BY <1>1, <2>1 DEF HU!HubInv, HU!Locked
  <2>4. QED
    BY <1>1, <1>2, <2>1, <2>2, <2>3
<1>4. PICK next : next = IF job.all THEN [job EXCEPT !.at = "next", !.done = job.done \cup {c}] ELSE HU!Idle
  OBVIOUS
<1>5. next \in HU!Jobs /\ next.at \in {"idle", "next"} /\ (next.at # "idle" => next.length = job.length)
  <2>1. CASE job.all
    BY <1>4, <2>1 DEF HU!Jobs
  <2>2. CASE ~job.all
    BY <1>4, <2>2 DEF HU!Jobs, HU!Idle
  <2>3. QED
    BY <2>1, <2>2
<1>6. PICK old \in HU!Connections :
         /\ old = s1[c] /\ (old.stored <=> old.listener \in {"welcomes", "runs"})
         /\ old.listener = "over" => ~old.open /\ (old.stop \/ old.pinger = "ended")
  BY ConnectionIs
<1>7. PICK s \in Seq(HU!Pieces), new \in HU!Connections :
         /\ s1' = [s1 EXCEPT ![c] = new] /\ s2' = [s2 EXCEPT ![c] = s]
         /\ new.mu = "free" /\ new.stored = old.stored /\ new.listener = old.listener /\ new.open = old.open
         /\ new.stop = old.stop /\ new.pinger = old.pinger
         /\ ~new.cut => ~old.cut /\ job.at = "payload" /\ s = Append(s2[c], HU!Payload(job.length))
  <2>1. CASE HU!WritePayload(w)
    <3>1. PICK new : new = [old EXCEPT !.mu = "free"]
      OBVIOUS
    <3>2. /\ new \in HU!Connections /\ new.mu = "free" /\ new.cut = old.cut /\ new.stored = old.stored
          /\ new.listener = old.listener /\ new.open = old.open /\ new.stop = old.stop /\ new.pinger = old.pinger
      BY <3>1 DEF HU!Connections
    <3>3. PICK s : s = Append(s2[c], HU!Payload(job.length))
      OBVIOUS
    <3>4. HU!Payload(job.length) \in HU!Pieces /\ s \in Seq(HU!Pieces)
      <4>1. HU!Payload(job.length) \in HU!Pieces
        BY <1>3 DEF HU!Pieces, HU!AnyLength
      <4>2. QED
        BY <3>3, <4>1, ConnectionIs, AppendProperties
    <3>5. s1' = [s1 EXCEPT ![c] = new] /\ s2' = [s2 EXCEPT ![c] = s] /\ job.at = "payload"
      BY <1>1, <1>2, <1>6, <2>1, <3>1, <3>3 DEF HU!WritePayload, HU!Set, HU!Unlocked
    <3>6. QED
      BY <3>2, <3>3, <3>4, <3>5
  <2>2. CASE HU!WriteFails(w)
    <3>1. PICK free : free = [old EXCEPT !.mu = "free"]
      OBVIOUS
    <3>2. PICK new : new = [free EXCEPT !.cut = TRUE]
      OBVIOUS
    <3>3. free \in HU!Connections /\ free.mu = "free" /\ free.stored = old.stored
          /\ free.listener = old.listener /\ free.open = old.open /\ free.stop = old.stop /\ free.pinger = old.pinger
      BY <3>1 DEF HU!Connections
    <3>4. /\ new \in HU!Connections /\ new.mu = free.mu /\ new.cut = TRUE /\ new.stored = free.stored
          /\ new.listener = free.listener /\ new.open = free.open /\ new.stop = free.stop /\ new.pinger = free.pinger
      BY <3>2, <3>3 DEF HU!Connections
    <3>5. s1' = [s1 EXCEPT ![c] = new] /\ s2' = s2
      BY <1>1, <1>2, <1>6, <2>2, <3>1, <3>2 DEF HU!WriteFails, HU!Set, HU!Unlocked
    <3>6. s2' = [s2 EXCEPT ![c] = s2[c]] /\ s2[c] \in Seq(HU!Pieces)
      BY <3>5 DEF HU!HubInv, HU!HubShapes
    <3>7. QED
      BY <3>3, <3>4, <3>5, <3>6
  <2>3. QED
    BY <2>1, <2>2
<1>8. /\ s1'[c] = new /\ \A d \in Conns \ {c} : s1'[d] = s1[d]
      /\ s2'[c] = s /\ \A d \in Conns \ {c} : s2'[d] = s2[d]
      /\ s3'[w] = next /\ \A v \in Handlers \ {w} : s3'[v] = s3[v]
      /\ HU!HubShapes'
  <2>1. s3' = [s3 EXCEPT ![w] = next]
    BY <1>3, <1>4
  <2>2. QED
    BY <1>5, <1>7, <2>1 DEF HU!HubInv, HU!HubShapes
<1>9. HU!Locked'
  <2>1. ASSUME NEW v \in Handlers, HU!Writing(v)'
        PROVE  s3'[v].to \in Conns /\ s1'[s3'[v].to].mu = v
    <3>1. v # w
      BY <1>5, <1>8, <2>1 DEF HU!Writing
    <3>2. s3'[v] = s3[v] /\ s3[v].to \in Conns /\ s1[s3[v].to].mu = v
      BY <1>8, <2>1, <3>1 DEF HU!HubInv, HU!Locked, HU!Writing
    <3>3. s3[v].to # c
      BY <1>2, <3>1, <3>2
    <3>4. QED
      BY <1>8, <3>2, <3>3
  <2>2. \A v \in Handlers : s3'[v].at # "idle" => s3'[v].length \in Lengths
    BY <1>3, <1>5, <1>8 DEF HU!HubInv, HU!Locked
  <2>3. QED
    BY <2>1, <2>2 DEF HU!Locked
<1>10. HU!FramesSoFar'
  <2>1. \A v \in Handlers : ~HU!Halfway(v, c)'
    BY <1>2, <1>5, <1>8 DEF HU!HubInv, HU!Locked, HU!Writing, HU!Halfway
  <2>2. ASSUME ~new.cut
        PROVE  HU!WholeTo(s, Len(s))
    <3>1. ~old.cut /\ job.at = "payload" /\ s = Append(s2[c], HU!Payload(job.length))
      BY <1>7, <2>2
    <3>2. HU!Halfway(w, c)
      BY <1>1, <1>2, <3>1 DEF HU!Halfway
    <3>3. HU!HalfAtEnd(s2[c], job.length)
      BY <1>1, <1>6, <3>1, <3>2 DEF HU!HubInv, HU!FramesSoFar
    <3>4. job.length \in Nat /\ HU!Payload(job.length) \in HU!Pieces /\ s2[c] \in Seq(HU!Pieces)
      BY <1>3, ServicesAssumption, ConnectionIs DEF HU!Pieces, HU!AnyLength
    <3>5. QED
      BY <3>1, <3>3, <3>4, PayloadAdded
  <2>3. \A v \in Handlers, d \in Conns \ {c} : HU!Halfway(v, d)' <=> HU!Halfway(v, d)
    BY <1>1, <1>2, <1>5, <1>8 DEF HU!Halfway
  <2>4. \A v \in Handlers, d \in Conns \ {c} : HU!Halfway(v, d) => s3'[v] = s3[v]
    BY <1>1, <1>2, <1>8 DEF HU!Halfway
  <2>5. ASSUME NEW d \in Conns, ~s1'[d].cut
        PROVE  /\ \/ \E v \in Handlers : HU!Halfway(v, d)'
                  \/ HU!WholeTo(s2'[d], Len(s2'[d]))
               /\ \A v \in Handlers : HU!Halfway(v, d)' => HU!HalfAtEnd(s2'[d], s3'[v].length)
    <3>1. CASE d = c
      BY <1>8, <2>1, <2>2, <2>5, <3>1
    <3>2. CASE d # c
      BY <1>8, <2>3, <2>4, <2>5, <3>2 DEF HU!HubInv, HU!FramesSoFar
    <3>3. QED
      BY <3>1, <3>2
  <2>6. QED
    BY <2>5 DEF HU!FramesSoFar
<1>11. HU!KnownAreServed'
  BY <1>6, <1>7, <1>8 DEF HU!HubInv, HU!KnownAreServed
<1>12. QED
  BY <1>8, <1>9, <1>10, <1>11 DEF HU!HubInv

\* No step of the hub, and none beside it, breaks the invariant.
LEMMA HubStep == ASSUME HU!HubInv, [HU!HubNext]_(HU!hubVars) PROVE HU!HubInv'
<1>1. CASE UNCHANGED HU!hubVars
  BY <1>1 DEF HU!hubVars, HU!HubInv, HU!HubShapes, HU!Locked, HU!Writing, HU!FramesSoFar, HU!Halfway,
     HU!KnownAreServed
<1>2. CASE HU!HubNext
  BY <1>2, HubConnects, HubWelcomes, HubPings, HubPingStops, HubReads, HubCloses, HubBegins, HubLocks,
     HubHeader, HubUnlocks, HubRangeEnds DEF HU!HubNext
<1>3. QED
  BY <1>1, <1>2

\* No connection is open at first.
LEMMA HubStarts == ASSUME HU!InitHub PROVE HU!HubInv
<1>1. /\ HU!New \in HU!Connections /\ HU!Idle \in HU!Jobs /\ HU!Idle.at = "idle" /\ ~HU!New.stored
      /\ HU!New.listener = "none"
  BY DEF HU!New, HU!Idle, HU!Connections, HU!Jobs
<1>2. HU!HubShapes
  <2>1. <<>> \in Seq(HU!Pieces)
    OBVIOUS
  <2>2. QED
    BY <1>1, <2>1 DEF HU!InitHub, HU!HubShapes
<1>3. \A c \in Conns : s1[c] = HU!New /\ s2[c] = <<>>
  BY DEF HU!InitHub
<1>4. \A w \in Handlers : s3[w] = HU!Idle
  BY DEF HU!InitHub
<1>5. HU!Locked /\ \A w \in Handlers, c \in Conns : ~HU!Halfway(w, c)
  BY <1>1, <1>4 DEF HU!Locked, HU!Writing, HU!Halfway
<1>6. \A c \in Conns : HU!WholeTo(s2[c], Len(s2[c]))
  <2>1. Len(<<>>) = 0
    OBVIOUS
  <2>2. QED
    BY <1>3, <2>1 DEF HU!WholeTo
<1>7. HU!FramesSoFar
  BY <1>5, <1>6 DEF HU!FramesSoFar
<1>8. HU!KnownAreServed
  BY <1>1, <1>3 DEF HU!KnownAreServed
<1>9. QED
  BY <1>2, <1>5, <1>7, <1>8 DEF HU!HubInv

\* What the invariant means.
LEMMA HubHolds == ASSUME HU!HubInv PROVE HU!HubSound
<1>1. ASSUME NEW c \in Conns, ~s1[c].cut, NEW i \in DOMAIN s2[c],
             s2[c][i][1] = "header", i < Len(s2[c])
      PROVE  s2[c][i + 1] = HU!Payload(HU!Decoded(s2[c][i]))
  <2>1. s2[c] \in Seq(HU!Pieces) /\ Len(s2[c]) \in Nat /\ i \in 1..Len(s2[c])
    BY ConnectionIs
  <2>2. i \in 1..(Len(s2[c]) - 1)
    BY <1>1, <2>1
  <2>3. HU!WholeTo(s2[c], Len(s2[c])) \/ HU!WholeTo(s2[c], Len(s2[c]) - 1)
    BY <1>1 DEF HU!HubInv, HU!FramesSoFar, HU!HalfAtEnd
  <2>4. QED
    BY <1>1, <2>1, <2>2, <2>3 DEF HU!WholeTo
<1>2. QED
  BY <1>1 DEF HU!HubInv, HU!HubSound, HU!FramesWhole

\* Behaviours of the log and of the hub are those of the services in which the part is theirs.
LEMMA LogAlone ==
    ASSUME part = "log", [ServicesNext]_servicesVars
    PROVE  [LO!LogNext]_(LO!logVars)
BY DEF ServicesNext, servicesVars, shared, LO!logVars, SessionsMove, WizardsMove, SurveysMove,
       CaptchaMoves, RegistryMoves, DownloadMoves, UploadMoves, HubMoves, LogMoves, BackgroundMoves,
       PagesMove, MenusMove, AnalyticsMoves, VolumesMove, BroadcastMoves, WarningsMove

LEMMA HubAlone ==
    ASSUME part = "hub", [ServicesNext]_servicesVars
    PROVE  [HU!HubNext]_(HU!hubVars)
BY DEF ServicesNext, servicesVars, shared, HU!hubVars, SessionsMove, WizardsMove, SurveysMove,
       CaptchaMoves, RegistryMoves, DownloadMoves, UploadMoves, HubMoves, LogMoves, BackgroundMoves,
       PagesMove, MenusMove, AnalyticsMoves, VolumesMove, BroadcastMoves, WarningsMove

\* Whoever writes to a connection, the frames on it are whole and a peer reads the lengths that were sent,
\* until a deadline has cut one; and the files of the log hold the last lines, in order and without a gap,
\* amid a rotation and after a restart too (socket.go, logger.go).
THEOREM WholeIsWritten == ServicesSpec => []WrittenWhole
<1> DEFINE Inv == (part = "log" => LO!LogInv) /\ (part = "hub" => HU!HubInv)
<1>1. ServicesInit => Inv
  BY LogBegins, HubStarts DEF ServicesInit
<1>2. Inv /\ [ServicesNext]_servicesVars => Inv'
  BY LogAlone, HubAlone, LogStep, HubStep, PartStays
<1>3. Inv => WrittenWhole
  BY LogHolds, HubHolds DEF WrittenWhole
<1>4. QED
  BY <1>1, <1>2, <1>3, PTL DEF ServicesSpec

-----------------------------------------------------------------------------
(***************************************************************************)
(* Downloads.  Of the variables that the parts share they have s1 to s4:   *)
(* path, load, gone and runs.  What is here is a beginning of the file,    *)
(* and the next block is the one behind it (InStep in Downloads.tla).      *)
(***************************************************************************)
\* A beginning of the file is as long as it is, and grows by its next block.
LEMMA BeginningGrows ==
    ASSUME NEW n \in Nat, n <= Size
    PROVE  /\ [i \in 1..n |-> i] \in DO!Beginnings /\ Len([i \in 1..n |-> i]) = n
           /\ n < Size => Append([i \in 1..n |-> i], n + 1) \in DO!Beginnings
<1>1. PICK s : s = [i \in 1..n |-> i]
  OBVIOUS
<1>2. s \in Seq(Nat) /\ Len(s) = n /\ s \in DO!Beginnings /\ \A i \in 1..n : s[i] = i
  BY <1>1, ServicesAssumption DEF DO!Beginnings
<1>3. ASSUME n < Size
      PROVE  Append(s, n + 1) \in DO!Beginnings
  <2>1. n + 1 \in 0..Size /\ n + 1 \in Nat
    BY <1>3, ServicesAssumption
  <2>2. PICK t, u : t = Append(s, n + 1) /\ u = [i \in 1..(n + 1) |-> i]
    OBVIOUS
  <2>3. t \in Seq(Nat) /\ Len(t) = n + 1 /\ \A i \in 1..(n + 1) : t[i] = i
    BY <1>2, <2>1, <2>2, AppendProperties
  <2>4. u \in Seq(Nat) /\ Len(u) = n + 1 /\ \A i \in 1..(n + 1) : u[i] = i
    BY <2>1, <2>2
  <2>5. t = u
    BY <2>3, <2>4, SeqEqual
  <2>6. u \in DO!Beginnings
    BY <2>1, <2>2 DEF DO!Beginnings
  <2>7. QED
    BY <2>2, <2>5, <2>6
<1>4. QED
  BY <1>1, <1>2, <1>3

\* A beginning as long as the file is the file.
LEMMA WholeBeginning ==
    ASSUME NEW s \in DO!Beginnings
    PROVE  Len(s) \in Nat /\ Len(s) <= Size /\ s = [i \in 1..Len(s) |-> i] /\ (Len(s) >= Size => s = DO!Remote)
<1>1. PICK n \in 0..Size : s = [i \in 1..n |-> i]
  BY DEF DO!Beginnings
<1>2. n \in Nat /\ n <= Size
  BY ServicesAssumption
<1>3. Len(s) = n
  BY <1>1, <1>2, BeginningGrows
<1>4. QED
  BY <1>1, <1>2, <1>3, ServicesAssumption DEF DO!Remote

\* What a failure makes of a download in step with its file.
LEMMA FailKeeps ==
    ASSUME NEW left, left \in [at : {"try", "read"}, link : {left.link}, resolved : BOOLEAN, have : Nat,
                               attempts : Nat, total : Nat, next : Nat, sound : BOOLEAN],
           DO!Fail(left), s1' \in Seq(Nat),
           left.sound => s1' \in DO!Beginnings /\ (left.have = Len(s1') \/ left.have = 0)
    PROVE  DO!DownloadInv'
<1>1. CASE left.attempts + 1 = MaxRetries
  <2>1. s2' = [at |-> "error", sound |-> left.sound] /\ left.sound \in BOOLEAN
    BY <1>1 DEF DO!Fail, DO!Outcome
  <2>2. s2' \in DO!Loads' /\ s2'.at = "error"
    BY <2>1 DEF DO!Loads, DO!Outcome
  <2>3. QED
    BY <2>2 DEF DO!DownloadInv, DO!LoadShapes, DO!InStep, DO!Intact
<1>2. CASE left.attempts + 1 # MaxRetries
  <2>1. PICK new : new = [left EXCEPT !.at = "try", !.attempts = left.attempts + 1, !.total = 0, !.next = 0]
    OBVIOUS
  <2>2. /\ new \in [at : {"try", "read"}, link : {new.link}, resolved : BOOLEAN, have : Nat,
                    attempts : Nat, total : Nat, next : Nat, sound : BOOLEAN]
        /\ new.at = "try" /\ new.have = left.have
    <3>1. PICK link : link = left.link
      OBVIOUS
    <3>2. left \in [at : {"try", "read"}, link : {link}, resolved : BOOLEAN, have : Nat,
                    attempts : Nat, total : Nat, next : Nat, sound : BOOLEAN]
      BY <3>1
    <3>3. left.attempts + 1 \in Nat
      BY <3>2
    <3>4. new \in [at : {"try", "read"}, link : {link}, resolved : BOOLEAN, have : Nat,
                   attempts : Nat, total : Nat, next : Nat, sound : BOOLEAN]
      BY <2>1, <3>2, <3>3
    <3>5. new.link = link /\ new.at = "try" /\ new.have = left.have
      BY <2>1, <3>2
    <3>6. QED
      BY <3>4, <3>5
  <2>3. new.sound <=> left.sound
    BY <2>1
  <2>4. s2' = new
    BY <1>2, <2>1 DEF DO!Fail
  <2>5. DO!LoadShapes'
    BY <2>2, <2>4 DEF DO!LoadShapes
  <2>6. DO!InStep'
    BY <2>2, <2>3, <2>4 DEF DO!InStep, DO!Beginnings
  <2>7. DO!Intact'
    BY <2>2, <2>4 DEF DO!Intact
  <2>8. QED
    BY <2>5, <2>6, <2>7 DEF DO!DownloadInv
<1>3. QED
  BY <1>1, <1>2

\* What a step finds in a download that is under way.
LEMMA UnderWay ==
    ASSUME DO!DownloadInv, s2.at \in {"try", "read"}
    PROVE  s2 \in [at : {"try", "read"}, link : {s2.link}, resolved : BOOLEAN, have : Nat,
                     attempts : Nat, total : Nat, next : Nat, sound : BOOLEAN]
<1>1. \A other \in DO!Loads : other.at \notin {"try", "read"}
  BY DEF DO!Loads, DO!Idle, DO!Outcome
<1>2. QED
  BY <1>1 DEF DO!DownloadInv, DO!LoadShapes

\* A download that ends well has brought the file.
LEMMA DownloadFinishes ==
    ASSUME DO!DownloadInv, s2.at \in {"try", "read"}, NEW outcome \in {"ok", "error"}, DO!Finish(outcome),
           UNCHANGED s1, outcome = "ok" /\ s2.sound => s1 = DO!Remote
    PROVE  DO!DownloadInv'
<1>1. s2' = [at |-> outcome, sound |-> s2.sound] /\ s2.sound \in BOOLEAN
  BY UnderWay DEF DO!Finish, DO!Outcome
<1>2. s2' \in DO!Loads /\ s2'.at = outcome /\ (s2'.sound <=> s2.sound)
  BY <1>1 DEF DO!Loads, DO!Outcome
<1>3. DO!LoadShapes'
  BY <1>2 DEF DO!LoadShapes, DO!DownloadInv, DO!Loads, DO!Idle, DO!Outcome
<1>4. DO!InStep' /\ DO!Intact'
  BY <1>2 DEF DO!InStep, DO!Intact, DO!Remote
<1>5. QED
  BY <1>3, <1>4 DEF DO!DownloadInv

\* A download begins, with what is in the file.
LEMMA DownloadStarts == ASSUME DO!DownloadInv, DO!Start PROVE DO!DownloadInv'
<1>1. PICK link \in DOMAIN DO!Links \cup {"file"}, works \in BOOLEAN :
         s2' = [at |-> "try", link |-> IF works THEN DO!Resolved(link) ELSE link, resolved |-> works,
                  have |-> Len(s1), attempts |-> 0, total |-> 0, next |-> 0, sound |-> s1 \in DO!Beginnings]
  BY DEF DO!Start
<1>2. PICK lead : lead = IF works THEN DO!Resolved(link) ELSE link
  OBVIOUS
<1>3. PICK sound \in BOOLEAN : sound <=> s1 \in DO!Beginnings
  OBVIOUS
<1>4. s2' = [at |-> "try", link |-> lead, resolved |-> works, have |-> Len(s1), attempts |-> 0, total |-> 0,
               next |-> 0, sound |-> sound]
  BY <1>1, <1>2, <1>3, Zenon
<1>5. Len(s1) \in Nat /\ s1' = s1
  BY DEF DO!DownloadInv, DO!LoadShapes, DO!Start
<1>6. DO!LoadShapes'
  BY <1>4, <1>5 DEF DO!LoadShapes, DO!DownloadInv
<1>7. DO!InStep' /\ DO!Intact'
  BY <1>3, <1>4, <1>5 DEF DO!InStep, DO!Intact, DO!Beginnings
<1>8. QED
  BY <1>6, <1>7 DEF DO!DownloadInv

\* An attempt fails before anything of the file has come.
LEMMA DownloadRefused == ASSUME DO!DownloadInv, DO!Refused PROVE DO!DownloadInv'
<1>1. s2.at = "try" /\ s1' = s1 /\ s1 \in Seq(Nat)
  BY DEF DO!Refused, DO!Trying, DO!DownloadInv, DO!LoadShapes
<1>2. s2 \in [at : {"try", "read"}, link : {s2.link}, resolved : BOOLEAN, have : Nat,
                attempts : Nat, total : Nat, next : Nat, sound : BOOLEAN]
  BY <1>1, UnderWay
<1>3. s2.sound => s1' \in DO!Beginnings /\ (s2.have = Len(s1') \/ s2.have = 0)
  BY <1>1 DEF DO!DownloadInv, DO!InStep
<1>4. CASE DO!Fail(s2)
  BY <1>1, <1>2, <1>3, <1>4, FailKeeps
<1>5. CASE DO!Fail([s2 EXCEPT !.have = 0])
  <2>1. PICK left : left = [s2 EXCEPT !.have = 0]
    OBVIOUS
  <2>2. /\ left \in [at : {"try", "read"}, link : {left.link}, resolved : BOOLEAN, have : Nat,
                     attempts : Nat, total : Nat, next : Nat, sound : BOOLEAN]
        /\ left.have = 0
    <3>1. PICK link : link = s2.link
      OBVIOUS
    <3>2. s2 \in [at : {"try", "read"}, link : {link}, resolved : BOOLEAN, have : Nat,
                    attempts : Nat, total : Nat, next : Nat, sound : BOOLEAN]
      BY <1>2, <3>1
    <3>3. left \in [at : {"try", "read"}, link : {link}, resolved : BOOLEAN, have : Nat,
                    attempts : Nat, total : Nat, next : Nat, sound : BOOLEAN]
      BY <2>1, <3>2
    <3>4. left.link = link /\ left.have = 0
      BY <2>1, <3>2
    <3>5. QED
      BY <3>3, <3>4
  <2>3. left.sound <=> s2.sound
    BY <1>2, <2>1
  <2>4. DO!Fail(left)
    BY <1>5, <2>1
  <2>5. QED
    BY <1>1, <1>3, <2>2, <2>3, <2>4, FailKeeps
<1>6. CASE \E link : DO!Fail([s2 EXCEPT !.link = link, !.resolved = TRUE])
  <2>1. PICK link : DO!Fail([s2 EXCEPT !.link = link, !.resolved = TRUE])
    BY <1>6
  <2>2. PICK left : left = [s2 EXCEPT !.link = link, !.resolved = TRUE]
    OBVIOUS
  <2>3. /\ left \in [at : {"try", "read"}, link : {left.link}, resolved : BOOLEAN, have : Nat,
                     attempts : Nat, total : Nat, next : Nat, sound : BOOLEAN]
        /\ left.have = s2.have
    <3>1. PICK old : old = s2.link
      OBVIOUS
    <3>2. s2 \in [at : {"try", "read"}, link : {old}, resolved : BOOLEAN, have : Nat,
                    attempts : Nat, total : Nat, next : Nat, sound : BOOLEAN]
      BY <1>2, <3>1
    <3>3. left \in [at : {"try", "read"}, link : {link}, resolved : BOOLEAN, have : Nat,
                    attempts : Nat, total : Nat, next : Nat, sound : BOOLEAN]
      BY <2>2, <3>2
    <3>4. left.link = link /\ left.have = s2.have
      BY <2>2, <3>2
    <3>5. QED
      BY <3>3, <3>4
  <2>4. left.sound <=> s2.sound
    BY <1>2, <2>2
  <2>5. DO!Fail(left)
    BY <2>1, <2>2
  <2>6. QED
    BY <1>1, <1>3, <2>3, <2>4, <2>5, FailKeeps
<1>7. QED
  <2>1. PICK link : link = DO!Resolved(s2.link)
    OBVIOUS
  <2>2. DO!Fail(s2) \/ DO!Fail([s2 EXCEPT !.have = 0]) \/ DO!Fail([s2 EXCEPT !.link = link, !.resolved = TRUE])
    BY <2>1 DEF DO!Refused
  <2>3. QED
    BY <1>4, <1>5, <1>6, <2>2

\* The reply begins: the rest of the file, or the whole of it.
LEMMA DownloadAnswered == ASSUME DO!DownloadInv, DO!Resume \/ DO!Whole PROVE DO!DownloadInv'
<1>1. s2.at = "try" /\ s1 \in Seq(Nat) /\ Size \in Nat
  BY ServicesAssumption DEF DO!Resume, DO!Whole, DO!Asking, DO!Trying, DO!DownloadInv, DO!LoadShapes
<1>2. s2 \in [at : {"try", "read"}, link : {s2.link}, resolved : BOOLEAN, have : Nat,
                attempts : Nat, total : Nat, next : Nat, sound : BOOLEAN]
  BY <1>1, UnderWay
<1>3. PICK link : link = s2.link /\ s2 \in [at : {"try", "read"}, link : {link}, resolved : BOOLEAN, have : Nat,
                                                attempts : Nat, total : Nat, next : Nat, sound : BOOLEAN]
  BY <1>2
<1>4. CASE DO!Resume
  <2>1. PICK total \in {Size, s2.have - 1} :
           s2' = [s2 EXCEPT !.at = "read", !.next = s2.have + 1, !.total = total]
    BY <1>4 DEF DO!Resume
  <2>2. s2.have \in 1..(Size - 1) /\ s1' = s1
    BY <1>4 DEF DO!Resume
  <2>3. s2.have \in Nat /\ s2.have # 0 /\ total \in Nat /\ s2.have + 1 \in Nat
    BY <1>1, <2>1, <2>2
  <2>4. PICK new : new = [s2 EXCEPT !.at = "read", !.next = s2.have + 1, !.total = total]
    OBVIOUS
  <2>5. new \in [at : {"try", "read"}, link : {link}, resolved : BOOLEAN, have : Nat,
                 attempts : Nat, total : Nat, next : Nat, sound : BOOLEAN]
    BY <1>3, <2>3, <2>4
  <2>6. new.at = "read" /\ new.have = s2.have /\ new.next = s2.have + 1 /\ new.link = link
    BY <1>3, <2>4
  <2>7. new.sound <=> s2.sound
    BY <1>3, <2>4
  <2>8. s2' = new
    BY <2>1, <2>4
  <2>9. DO!LoadShapes'
    BY <1>1, <2>2, <2>5, <2>6, <2>8 DEF DO!LoadShapes
  <2>10. DO!InStep' /\ DO!Intact'
    BY <1>1, <2>2, <2>3, <2>6, <2>7, <2>8 DEF DO!DownloadInv, DO!InStep, DO!Intact, DO!Beginnings
  <2>11. QED
    BY <2>9, <2>10 DEF DO!DownloadInv
<1>5. CASE DO!Whole
  <2>1. PICK total \in {Size, 0} : s2' = [s2 EXCEPT !.at = "read", !.next = 1, !.have = 0, !.total = total]
    BY <1>5 DEF DO!Whole
  <2>2. s1' = <<>> /\ total \in Nat
    BY <1>1, <1>5 DEF DO!Whole
  <2>3. PICK new : new = [s2 EXCEPT !.at = "read", !.next = 1, !.have = 0, !.total = total]
    OBVIOUS
  <2>4. new \in [at : {"try", "read"}, link : {link}, resolved : BOOLEAN, have : Nat,
                 attempts : Nat, total : Nat, next : Nat, sound : BOOLEAN]
    BY <1>3, <2>2, <2>3
  <2>5. new.at = "read" /\ new.have = 0 /\ new.next = 1 /\ new.link = link
    BY <1>3, <2>3
  <2>6. s2' = new
    BY <2>1, <2>3
  <2>7. s1' \in DO!Beginnings /\ s1' \in Seq(Nat) /\ Len(s1') = 0
    <3>1. [i \in 1..0 |-> i] = <<>>
      OBVIOUS
    <3>2. 0 \in 0..Size /\ <<>> \in Seq(Nat) /\ Len(<<>>) = 0
      BY <1>1
    <3>3. <<>> \in DO!Beginnings
      BY <3>1, <3>2 DEF DO!Beginnings
    <3>4. QED
      BY <2>2, <3>2, <3>3
  <2>8. DO!LoadShapes'
    BY <2>4, <2>5, <2>6, <2>7 DEF DO!LoadShapes
  <2>9. DO!InStep' /\ DO!Intact'
    BY <2>5, <2>6, <2>7 DEF DO!InStep, DO!Intact, DO!Beginnings
  <2>10. QED
    BY <2>8, <2>9 DEF DO!DownloadInv
<1>6. QED
  BY <1>4, <1>5

\* A block comes.
LEMMA DownloadReads == ASSUME DO!DownloadInv, DO!Read PROVE DO!DownloadInv'
<1>1. s2.at = "read" /\ s1 \in Seq(Nat) /\ Size \in Nat /\ s2.next <= Size /\ s1' = Append(s1, s2.next)
  BY ServicesAssumption DEF DO!Read, DO!DownloadInv, DO!LoadShapes
<1>2. PICK link : link = s2.link /\ s2 \in [at : {"try", "read"}, link : {link}, resolved : BOOLEAN, have : Nat,
                                                attempts : Nat, total : Nat, next : Nat, sound : BOOLEAN]
  BY <1>1, UnderWay
<1>3. PICK new : new = [s2 EXCEPT !.have = s2.have + 1, !.next = s2.next + 1]
  OBVIOUS
<1>4. s2' = new
  BY <1>3 DEF DO!Read
<1>5. s2.next \in Nat /\ s2.have \in Nat /\ s2.next + 1 \in Nat /\ s2.have + 1 \in Nat
  BY <1>2
<1>6. new \in [at : {"try", "read"}, link : {link}, resolved : BOOLEAN, have : Nat,
               attempts : Nat, total : Nat, next : Nat, sound : BOOLEAN]
  BY <1>2, <1>3, <1>5
<1>7. new.at = "read" /\ new.have = s2.have + 1 /\ new.next = s2.next + 1 /\ new.link = link
  BY <1>1, <1>2, <1>3
<1>8. new.sound <=> s2.sound
  BY <1>2, <1>3
<1>9. s1' \in Seq(Nat) /\ Len(s1') = Len(s1) + 1 /\ Len(s1) \in Nat
  BY <1>1, <1>5, AppendProperties
<1>10. ASSUME s2.sound
       PROVE  s1' \in DO!Beginnings /\ s2.have = Len(s1) /\ s2.next = s2.have + 1
  <2>1. s1 \in DO!Beginnings /\ s2.have = Len(s1) /\ s2.next = s2.have + 1
    BY <1>1, <1>10 DEF DO!DownloadInv, DO!InStep
  <2>2. s1 = [i \in 1..Len(s1) |-> i]
    BY <2>1, WholeBeginning
  <2>3. PICK n \in Nat : n = Len(s1) /\ n < Size /\ s2.next = n + 1
    BY <1>1, <1>9, <2>1
  <2>4. Append([i \in 1..n |-> i], n + 1) \in DO!Beginnings
    <3>1. n <= Size /\ n < Size
      BY <1>1, <2>3
    <3>2. QED
      BY <3>1, BeginningGrows
  <2>5. QED
    BY <1>1, <2>1, <2>2, <2>3, <2>4
<1>11. DO!LoadShapes'
  BY <1>4, <1>6, <1>7, <1>9 DEF DO!LoadShapes
<1>12. DO!InStep' /\ DO!Intact'
  BY <1>4, <1>5, <1>7, <1>8, <1>9, <1>10 DEF DO!InStep, DO!Intact, DO!Beginnings
<1>13. QED
  BY <1>11, <1>12 DEF DO!DownloadInv

\* The reply breaks off, with or without a piece of a block.
LEMMA DownloadBreaks == ASSUME DO!DownloadInv, DO!Broken \/ DO!ShortWrite PROVE DO!DownloadInv'
<1>1. s2.at = "read" /\ s1 \in Seq(Nat)
  BY DEF DO!Broken, DO!ShortWrite, DO!DownloadInv, DO!LoadShapes
<1>2. PICK link : link = s2.link /\ s2 \in [at : {"try", "read"}, link : {link}, resolved : BOOLEAN, have : Nat,
                                                attempts : Nat, total : Nat, next : Nat, sound : BOOLEAN]
  BY <1>1, UnderWay
<1>3. CASE DO!Broken
  <2>1. s2.sound => s1' \in DO!Beginnings /\ (s2.have = Len(s1') \/ s2.have = 0)
    BY <1>1, <1>3 DEF DO!DownloadInv, DO!InStep, DO!Broken
  <2>2. DO!Fail(s2) /\ s1' \in Seq(Nat)
    BY <1>1, <1>3 DEF DO!Broken
  <2>3. QED
    BY <1>2, <2>1, <2>2, FailKeeps
<1>4. CASE DO!ShortWrite
  <2>1. PICK left : left = [s2 EXCEPT !.sound = FALSE]
    OBVIOUS
  <2>2. left \in [at : {"try", "read"}, link : {link}, resolved : BOOLEAN, have : Nat,
                  attempts : Nat, total : Nat, next : Nat, sound : BOOLEAN]
    BY <1>2, <2>1
  <2>3. ~left.sound /\ left.link = link
    BY <1>2, <2>1
  <2>4. DO!Fail(left)
    BY <1>4, <2>1 DEF DO!ShortWrite
  <2>5. s1' \in Seq(Nat)
    BY <1>1, <1>4, AppendProperties DEF DO!ShortWrite
  <2>6. left \in [at : {"try", "read"}, link : {left.link}, resolved : BOOLEAN, have : Nat,
                  attempts : Nat, total : Nat, next : Nat, sound : BOOLEAN]
    BY <2>2, <2>3
  <2>7. QED
    BY <2>3, <2>4, <2>5, <2>6, FailKeeps
<1>5. QED
  BY <1>3, <1>4

\* The reply ends.
LEMMA DownloadEnds == ASSUME DO!DownloadInv, DO!End PROVE DO!DownloadInv'
<1>1. s2.at = "read" /\ s1 \in Seq(Nat) /\ s1' = s1 /\ s2.next > Size /\ Size \in Nat
  BY ServicesAssumption DEF DO!End, DO!DownloadInv, DO!LoadShapes
<1>2. s2 \in [at : {"try", "read"}, link : {s2.link}, resolved : BOOLEAN, have : Nat,
                attempts : Nat, total : Nat, next : Nat, sound : BOOLEAN]
  BY <1>1, UnderWay
<1>3. ASSUME s2.sound
      PROVE  s1 \in DO!Beginnings /\ s2.have = Len(s1) /\ s1 = DO!Remote
  <2>1. s1 \in DO!Beginnings /\ s2.have = Len(s1) /\ s2.next = s2.have + 1
    BY <1>1, <1>3 DEF DO!DownloadInv, DO!InStep
  <2>2. s2.have \in Nat
    BY <1>2
  <2>3. Len(s1) >= Size
    BY <1>1, <2>1, <2>2
  <2>4. QED
    BY <2>1, <2>3, WholeBeginning
<1>4. CASE DO!Fail(s2)
  BY <1>1, <1>2, <1>3, <1>4, FailKeeps
<1>5. CASE DO!Finish("ok")
  BY <1>1, <1>3, <1>5, DownloadFinishes
<1>6. QED
  BY <1>4, <1>5 DEF DO!End

\* A reply of unknown length ends early.
LEMMA DownloadEndsEarly == ASSUME DO!DownloadInv, DO!EndsEarly PROVE DO!DownloadInv'
<1>1. s2' = [at |-> "ok", sound |-> FALSE] /\ s1' = s1
  BY DEF DO!EndsEarly, DO!Outcome
<1>2. DO!LoadShapes'
  <2>1. PICK sound \in BOOLEAN : sound = FALSE
    OBVIOUS
  <2>2. s2' = [at |-> "ok", sound |-> sound]
    BY <1>1, <2>1, Zenon
  <2>3. s2' \in DO!Loads
    BY <2>2 DEF DO!Loads, DO!Outcome
  <2>4. s1' \in Seq(Nat)
    BY <1>1 DEF DO!DownloadInv, DO!LoadShapes
  <2>5. QED
    BY <2>3, <2>4 DEF DO!LoadShapes
<1>3. DO!InStep' /\ DO!Intact'
  BY <1>1 DEF DO!InStep, DO!Intact
<1>4. QED
  BY <1>2, <1>3 DEF DO!DownloadInv

\* No step of the downloads, and none beside them, breaks the invariant.
LEMMA DownloadStep == ASSUME DO!DownloadInv, [DO!DownloadsNext]_(DO!downloadVars) PROVE DO!DownloadInv'
<1>1. CASE UNCHANGED DO!downloadVars
  BY <1>1 DEF DO!downloadVars, DO!DownloadInv, DO!LoadShapes, DO!Loads, DO!InStep, DO!Intact, DO!Beginnings,
     DO!Remote, DO!Idle, DO!Outcome
<1>2. CASE DO!Cancel
  BY <1>2 DEF DO!Cancel, DO!DownloadInv, DO!LoadShapes, DO!Loads, DO!InStep, DO!Intact, DO!Beginnings, DO!Remote,
     DO!Idle, DO!Outcome
<1>3. CASE DO!Return
  <2>1. s2' = DO!Idle /\ s1' = s1
    BY <1>3 DEF DO!Return
  <2>2. QED
    BY <2>1 DEF DO!DownloadInv, DO!LoadShapes, DO!Loads, DO!InStep, DO!Intact, DO!Idle
<1>4. CASE DO!Cancelled
  BY <1>4, DownloadFinishes DEF DO!Cancelled
<1>5. CASE DO!NothingBehind
  <2>1. s2.at = "try" /\ s2.have >= Size /\ s1' = s1 /\ DO!Finish("ok")
    BY <1>5 DEF DO!NothingBehind, DO!Asking, DO!Trying
  <2>2. s2.have \in Nat /\ Size \in Nat
    BY <2>1, UnderWay, ServicesAssumption
  <2>3. ASSUME s2.sound
        PROVE  s1 = DO!Remote
    <3>1. s1 \in DO!Beginnings /\ (s2.have = Len(s1) \/ s2.have = 0)
      BY <2>1, <2>3 DEF DO!DownloadInv, DO!InStep
    <3>2. Len(s1) \in Nat /\ Len(s1) >= Size
      BY <2>1, <2>2, <3>1, WholeBeginning
    <3>3. QED
      BY <3>1, <3>2, WholeBeginning
  <2>4. QED
    BY <2>1, <2>3, DownloadFinishes
<1>6. QED
  BY <1>1, <1>2, <1>3, <1>4, <1>5, DownloadStarts, DownloadRefused, DownloadAnswered, DownloadReads,
     DownloadBreaks, DownloadEnds, DownloadEndsEarly DEF DO!DownloadsNext

\* No download is under way at first.
LEMMA DownloadBegins == ASSUME DO!InitDownloads PROVE DO!DownloadInv
<1>1. DO!Remote \in Seq(Nat) /\ 0 \in Nat
  BY ServicesAssumption DEF DO!Remote
<1>2. Append(DO!Remote, 0) \in Seq(Nat)
  BY <1>1, AppendProperties
<1>3. s1 \in Seq(Nat)
  <2>1. <<>> \in Seq(Nat) /\ <<1>> \in Seq(Nat) /\ <<0>> \in Seq(Nat)
    OBVIOUS
  <2>2. QED
    BY <1>1, <1>2, <2>1 DEF DO!InitDownloads
<1>4. QED
  BY <1>3 DEF DO!InitDownloads, DO!DownloadInv, DO!LoadShapes, DO!Loads, DO!InStep, DO!Intact, DO!Idle

-----------------------------------------------------------------------------
(***************************************************************************)
(* Uploads.  Of the variables that the parts share they have s1 to s7:     *)
(* file, cached, up, posts, writers, uploads and versions.  In the first   *)
(* attempt nothing has been read before (ReadAnew in Uploads.tla).         *)
(***************************************************************************)
\* What an upload under way is.
LEMMA UploadUnderWay ==
    ASSUME UP!UploadInv
    PROVE  /\ s3.at = "try" => s3 \in UP!Uploading
           /\ s3.at = "ok" => s3 \in [at : {"ok"}, whole : BOOLEAN, stale : BOOLEAN, version : Nat]
BY DEF UP!UploadInv, UP!UploadShapes, UP!Uploading

\* A post is the last one.
LEMMA PostIsLast ==
    ASSUME s4 \in Seq([version : Nat, from : Nat, answered : BOOLEAN]),
           NEW version \in Nat, NEW from \in Nat, NEW answered \in BOOLEAN,
           s4' = Append(s4, UP!Post(version, from, answered))
    PROVE  /\ s4' \in Seq([version : Nat, from : Nat, answered : BOOLEAN])
           /\ s4' # <<>> /\ s4'[Len(s4')] = UP!Post(version, from, answered)
<1>1. PICK p : p = UP!Post(version, from, answered)
  OBVIOUS
<1>2. p \in [version : Nat, from : Nat, answered : BOOLEAN]
  BY <1>1 DEF UP!Post
<1>3. PICK s : s = Append(s4, p)
  OBVIOUS
<1>4. s \in Seq([version : Nat, from : Nat, answered : BOOLEAN]) /\ Len(s) = Len(s4) + 1 /\ s[Len(s)] = p
  BY <1>2, <1>3, AppendProperties
<1>5. s # <<>>
  <2>1. Len(s4) \in Nat /\ Len(s4) + 1 # 0 /\ Len(<<>>) = 0
    OBVIOUS
  <2>2. QED
    BY <1>4, <2>1
<1>6. QED
  BY <1>1, <1>3, <1>4, <1>5

\* An upload begins.
LEMMA UploadBegins == ASSUME UP!UploadInv, UP!Open \/ UP!Stream PROVE UP!UploadInv'
<1>1. PICK version \in Nat, seeks \in BOOLEAN, named \in BOOLEAN : UP!Multipart(version, seeks, named)
  <2>1. s1 \in Nat /\ MaxVersions + 1 \in Nat
    BY ServicesAssumption DEF UP!UploadInv, UP!UploadShapes
  <2>2. CASE UP!Open
    BY <2>1, <2>2 DEF UP!Open
  <2>3. CASE UP!Stream
    BY <2>1, <2>3 DEF UP!Stream
  <2>4. QED
    BY <2>2, <2>3
<1>2. PICK progress \in BOOLEAN :
         s3' = [at |-> "try", version |-> version, seeks |-> seeks, named |-> named, progress |-> progress,
                read |-> 0, attempts |-> 0]
  BY <1>1 DEF UP!Multipart
<1>3. s3' \in UP!Uploading /\ s3'.at = "try" /\ s3'.read = 0
  BY <1>2 DEF UP!Uploading
<1>4. UNCHANGED <<s1, s2, s4, s7>>
  BY <1>1 DEF UP!Multipart
<1>5. QED
  BY <1>3, <1>4 DEF UP!UploadInv, UP!UploadShapes, UP!ReadAnew, UP!UploadedWhole, UP!Uploading

\* An id is sent instead.
LEMMA UploadSendsId == ASSUME UP!UploadInv, UP!SendId PROVE UP!UploadInv'
<1>1. UNCHANGED <<s1, s2, s7>> /\ UP!UploadShapes /\ s1 \in Nat /\ s2 \in Nat
  BY DEF UP!SendId, UP!UploadInv, UP!UploadShapes
<1>2. CASE s3' = [at |-> "error"] /\ UNCHANGED s4
  BY <1>1, <1>2 DEF UP!UploadInv, UP!UploadShapes, UP!ReadAnew, UP!UploadedWhole
<1>3. CASE /\ s4' = Append(s4, UP!Post(s2, 1, TRUE))
           /\ s3' = [at |-> "ok", whole |-> TRUE, stale |-> s2 # s1, version |-> s1]
  <2>1. PICK stale \in BOOLEAN : stale <=> s2 # s1
    OBVIOUS
  <2>2. s3' = [at |-> "ok", whole |-> TRUE, stale |-> stale, version |-> s1]
    BY <1>3, <2>1, Zenon
  <2>3. /\ s3' \in [at : {"ok"}, whole : BOOLEAN, stale : BOOLEAN, version : Nat]
        /\ s3'.at = "ok" /\ (s3'.stale <=> stale) /\ s3'.version = s1
    BY <1>1, <2>2
  <2>4. /\ s4' \in Seq([version : Nat, from : Nat, answered : BOOLEAN])
        /\ s4' # <<>> /\ s4'[Len(s4')] = UP!Post(s2, 1, TRUE)
    <3>1. s4 \in Seq([version : Nat, from : Nat, answered : BOOLEAN]) /\ 1 \in Nat /\ TRUE \in BOOLEAN
      BY <1>1 DEF UP!UploadShapes
    <3>2. QED
      BY <1>1, <1>3, <3>1, PostIsLast
  <2>5. UP!UploadShapes'
    BY <1>1, <2>3, <2>4 DEF UP!UploadShapes, UP!Uploading
  <2>6. UP!ReadAnew'
    BY <2>3 DEF UP!ReadAnew
  <2>7. UP!UploadedWhole'
    BY <2>1, <2>3, <2>4 DEF UP!UploadedWhole, UP!Post
  <2>8. QED
    BY <2>4, <2>5, <2>6, <2>7 DEF UP!UploadInv
<1>4. QED
  BY <1>2, <1>3 DEF UP!SendId

\* An attempt fails, and another follows or none.
LEMMA UploadAgain ==
    ASSUME UP!UploadInv, s3.at = "try", NEW last \in Nat, UP!Again(last),
           s4' \in Seq([version : Nat, from : Nat, answered : BOOLEAN])
    PROVE  UP!UploadInv'
<1>1. s3 \in UP!Uploading /\ s1' = s1 /\ s2' = s2 /\ s7' = s7
  BY UploadUnderWay DEF UP!Again
<1>2. CASE s3' = [at |-> "error"]
  BY <1>1, <1>2 DEF UP!UploadInv, UP!UploadShapes, UP!ReadAnew, UP!UploadedWhole
<1>3. CASE s3' = [s3 EXCEPT !.attempts = s3.attempts + 1, !.read = last]
  <2>1. PICK new : new = [s3 EXCEPT !.attempts = s3.attempts + 1, !.read = last]
    OBVIOUS
  <2>2. s3.attempts \in Nat /\ s3.attempts + 1 \in Nat /\ s3.attempts + 1 # 0
    BY <1>1 DEF UP!Uploading
  <2>3. new \in UP!Uploading /\ new.at = "try" /\ new.attempts = s3.attempts + 1
    BY <1>1, <2>1, <2>2 DEF UP!Uploading
  <2>4. s3' = new
    BY <1>3, <2>1
  <2>5. QED
    BY <1>1, <2>2, <2>3, <2>4 DEF UP!UploadInv, UP!UploadShapes, UP!ReadAnew, UP!UploadedWhole, UP!Uploading
<1>4. QED
  BY <1>2, <1>3 DEF UP!Again

\* An attempt fails, whether or not the server took the file.
LEMMA UploadFails == ASSUME UP!UploadInv, UP!Failed \/ UP!Lost PROVE UP!UploadInv'
<1>1. s3.at = "try" /\ s3 \in UP!Uploading /\ s4 \in Seq([version : Nat, from : Nat, answered : BOOLEAN])
  BY UploadUnderWay DEF UP!Failed, UP!Lost, UP!UploadInv, UP!UploadShapes
<1>2. UP!First \in Nat /\ UP!First # 0 /\ Size \in Nat
  BY <1>1, ServicesAssumption DEF UP!First, UP!Uploading
<1>3. CASE UP!Failed
  <2>1. PICK last \in (UP!First - 1)..Size : UP!Again(last)
    BY <1>3 DEF UP!Failed
  <2>2. last \in Nat
    BY <1>2
  <2>3. QED
    BY <1>1, <1>3, <2>1, <2>2, UploadAgain DEF UP!Failed
<1>4. CASE UP!Lost
  <2>1. s3.version \in Nat /\ FALSE \in BOOLEAN
    BY <1>1 DEF UP!Uploading
  <2>2. s4' \in Seq([version : Nat, from : Nat, answered : BOOLEAN])
    BY <1>1, <1>2, <1>4, <2>1, PostIsLast DEF UP!Lost
  <2>3. QED
    BY <1>1, <1>2, <1>4, <2>2, UploadAgain DEF UP!Lost
<1>5. QED
  BY <1>3, <1>4

\* The file is posted.
LEMMA UploadPosts == ASSUME UP!UploadInv, UP!Posted PROVE UP!UploadInv'
<1>1. /\ s3.at = "try" /\ s3 \in UP!Uploading /\ s1' = s1 /\ s7' = s7
      /\ UP!UploadShapes /\ (s2' = s2 \/ s2' = s3.version)
  BY UploadUnderWay DEF UP!Posted, UP!UploadInv
<1>2. PICK version \in Nat, seeks \in BOOLEAN : version = s3.version /\ (seeks <=> s3.seeks)
  BY <1>1 DEF UP!Uploading
<1>3. UP!First \in Nat /\ TRUE \in BOOLEAN
  BY <1>1 DEF UP!First, UP!Uploading
<1>4. PICK whole \in BOOLEAN : whole <=> s3.seeks \/ s3.attempts = 0
  OBVIOUS
<1>5. whole => UP!First = 1
  <2>1. s3.attempts = 0 => s3.read = 0
    BY <1>1 DEF UP!UploadInv, UP!ReadAnew
  <2>2. QED
    BY <1>4, <2>1 DEF UP!First
<1>6. s3' = [at |-> "ok", whole |-> whole, stale |-> FALSE, version |-> version]
  <2>1. s3' = [at |-> "ok", whole |-> s3.seeks \/ s3.attempts = 0, stale |-> FALSE, version |-> s3.version]
    BY DEF UP!Posted
  <2>2. QED
    BY <1>2, <1>4, <2>1, Zenon
<1>7. /\ s3' \in [at : {"ok"}, whole : BOOLEAN, stale : BOOLEAN, version : Nat]
      /\ s3'.at = "ok" /\ (s3'.whole <=> whole) /\ s3'.version = version
  BY <1>6
<1>8. /\ s4' \in Seq([version : Nat, from : Nat, answered : BOOLEAN])
      /\ s4' # <<>> /\ s4'[Len(s4')] = UP!Post(version, UP!First, TRUE)
  <2>1. s4' = Append(s4, UP!Post(version, UP!First, TRUE))
    BY <1>2 DEF UP!Posted
  <2>2. s4 \in Seq([version : Nat, from : Nat, answered : BOOLEAN])
    BY <1>1 DEF UP!UploadShapes
  <2>3. QED
    BY <1>3, <2>1, <2>2, PostIsLast
<1>9. UP!UploadShapes'
  BY <1>1, <1>2, <1>7, <1>8 DEF UP!UploadShapes, UP!Uploading
<1>10. UP!ReadAnew' /\ UP!UploadedWhole'
  BY <1>5, <1>7, <1>8 DEF UP!ReadAnew, UP!UploadedWhole, UP!Post
<1>11. QED
  BY <1>7, <1>8, <1>9, <1>10 DEF UP!UploadInv

\* No step of the uploads, and none beside them, breaks the invariant.
LEMMA UploadStep == ASSUME UP!UploadInv, [UP!UploadsNext]_(UP!uploadVars) PROVE UP!UploadInv'
<1>1. CASE UNCHANGED UP!uploadVars
  BY <1>1 DEF UP!uploadVars, UP!UploadInv, UP!UploadShapes, UP!Uploading, UP!ReadAnew, UP!UploadedWhole, UP!Post
<1>2. CASE UP!Change
  <2>1. s7' \in Nat /\ s1' \in Nat /\ s2' = s2 /\ s3' = s3 /\ s4' = s4
    BY <1>2 DEF UP!Change, UP!UploadInv, UP!UploadShapes
  <2>2. QED
    BY <2>1 DEF UP!UploadInv, UP!UploadShapes, UP!Uploading, UP!ReadAnew, UP!UploadedWhole, UP!Post
<1>3. CASE UP!Refused \/ UP!Return
  <2>1. /\ UNCHANGED <<s1, s2, s4, s7>> /\ s3' \in {[at |-> "error"], UP!Idle}
    BY <1>3 DEF UP!Refused, UP!Return
  <2>2. s3'.at \in {"idle", "error"}
    BY <2>1 DEF UP!Idle
  <2>3. QED
    BY <2>1, <2>2 DEF UP!UploadInv, UP!UploadShapes, UP!Uploading, UP!ReadAnew, UP!UploadedWhole
<1>4. QED
  BY <1>1, <1>2, <1>3, UploadBegins, UploadSendsId, UploadFails, UploadPosts DEF UP!UploadsNext

\* Nothing is uploaded at first.
LEMMA UploadStarts == ASSUME UP!InitUploads PROVE UP!UploadInv
<1>1. <<>> \in Seq([version : Nat, from : Nat, answered : BOOLEAN])
  OBVIOUS
<1>2. QED
  BY <1>1 DEF UP!InitUploads, UP!UploadInv, UP!UploadShapes, UP!ReadAnew, UP!UploadedWhole, UP!Idle

-----------------------------------------------------------------------------
(***************************************************************************)
(* The registry through which transfers are cancelled.  Of the variables   *)
(* that the parts share it has s1 to s7: queued, running, registry,        *)
(* cancels, runs, cancelled and meant.  A job is in one place, who runs    *)
(* knows its place in the list, what is due and still runs has been        *)
(* cancelled or is in the rest of the list, and what is in such a rest was *)
(* meant (OncePlaced, Listed, DueOrDone, OnlyMeant in CancelRegistry.tla). *)
(***************************************************************************)
\* The counts of the instanced module are those of the standard one.
LEMMA RegistryCounts == ASSUME NEW S PROVE CR!Cardinality(S) = Cardinality(S)
BY DEF CR!Cardinality, Cardinality

\* Who is in the list, and what a job has to be.
LEMMA RegistryWho ==
    ASSUME CR!RegistryInv
    PROVE  /\ s2 \in [Handlers -> [at : {"idle", "taken", "runs", "ended"}, job : Nat, index : Nat]]
           /\ \A j \in CR!Running : j \in 1..s5 /\ j # 0
           /\ \A w \in Handlers : s2[w].at = "runs" => s2[w].job \in CR!Running
           /\ s5 \in Nat
<1>1. s2 \in [Handlers -> [at : {"idle", "taken", "runs", "ended"}, job : Nat, index : Nat]] /\ s5 \in Nat
  BY DEF CR!RegistryInv, CR!RegistryShapes
<1>2. ASSUME NEW j \in CR!Running
      PROVE  j \in 1..s5 /\ j # 0
  <2>1. PICK w \in Handlers : s2[w].at = "runs" /\ j = s2[w].job
    BY DEF CR!Running
  <2>2. s2[w].job \in 1..s5
    BY <2>1 DEF CR!RegistryInv, CR!OncePlaced
  <2>3. QED
    BY <1>1, <2>1, <2>2
<1>3. QED
  BY <1>1, <1>2 DEF CR!Running

\* Who was meant does not change where nothing is cancelled and no list is taken.
LEMMA MeantStays ==
    ASSUME CR!RegistryInv, UNCHANGED <<s4, s6, s7>>
    PROVE  CR!OnlyMeant'
BY DEF CR!RegistryInv, CR!OnlyMeant

\* A job is handed over.
LEMMA RegistryEnqueues == ASSUME CR!RegistryInv, CR!Enqueue PROVE CR!RegistryInv'
<1>1. /\ s1 \in Seq(Nat) /\ s5 \in Nat /\ s5' = s5 + 1 /\ s1' = Append(s1, s5 + 1)
      /\ UNCHANGED <<s2, s3, s4, s6, s7>>
  BY DEF CR!Enqueue, CR!RegistryInv, CR!RegistryShapes
<1>2. PICK n \in Nat : n = Len(s1)
  BY <1>1
<1>3. /\ s1' \in Seq(Nat) /\ Len(s1') = n + 1 /\ s1'[n + 1] = s5 + 1
      /\ \A i \in 1..n : s1'[i] = s1[i]
  BY <1>1, <1>2, AppendProperties
<1>4. DOMAIN s1 = 1..n /\ DOMAIN s1' = 1..(n + 1) /\ \A i \in 1..(n + 1) : i \in 1..n \/ i = n + 1
  BY <1>1, <1>2, <1>3
<1>5. CR!RegistryShapes'
  BY <1>1, <1>3 DEF CR!RegistryInv, CR!RegistryShapes
<1>6. \A i \in 1..n : s1[i] \in 1..s5
  BY <1>4 DEF CR!RegistryInv, CR!OncePlaced
<1>7. \A k \in 1..s5 : k \in 1..(s5 + 1) /\ k # s5 + 1
  BY <1>1
<1>8. CR!OncePlaced'
  <2>1. \A i \in DOMAIN s1' : s1'[i] \in 1..s5'
    BY <1>1, <1>3, <1>4, <1>6, <1>7
  <2>2. ASSUME NEW i \in DOMAIN s1', NEW j \in DOMAIN s1', s1'[i] = s1'[j]
        PROVE  i = j
    <3>1. i \in 1..n /\ j \in 1..n => s1[i] = s1[j]
      BY <1>3, <2>2
    <3>2. i \in 1..n /\ j \in 1..n => i = j
      BY <1>4, <3>1 DEF CR!RegistryInv, CR!OncePlaced
    <3>3. i \in 1..n <=> j \in 1..n
      BY <1>3, <1>4, <1>6, <1>7, <2>2
    <3>4. QED
      BY <1>4, <3>2, <3>3
  <2>3. ASSUME NEW w \in Handlers, s2'[w].at # "idle"
        PROVE  /\ s2'[w].job \in 1..s5'
               /\ \A i \in DOMAIN s1' : s1'[i] # s2'[w].job
               /\ \A v \in Handlers : s2'[v].at # "idle" /\ s2'[v].job = s2'[w].job => v = w
    <3>1. /\ s2[w].job \in 1..s5
          /\ \A i \in 1..n : s1[i] # s2[w].job
          /\ \A v \in Handlers : s2[v].at # "idle" /\ s2[v].job = s2[w].job => v = w
      BY <1>1, <1>4, <2>3 DEF CR!RegistryInv, CR!OncePlaced
    <3>2. QED
      BY <1>1, <1>3, <1>4, <1>7, <3>1
  <2>4. QED
    BY <2>1, <2>2, <2>3 DEF CR!OncePlaced
<1>9. CR!Listed'
  BY <1>1 DEF CR!RegistryInv, CR!Listed
<1>10. CR!DueOrDone'
  <2>1. CR!Running' = CR!Running
    BY <1>1 DEF CR!Running
  <2>2. \A j \in CR!Early' : j \in CR!Early \/ j = s5 + 1
    <3>1. ASSUME NEW j \in {s1'[i] : i \in DOMAIN s1'}
          PROVE  j \in {s1[i] : i \in DOMAIN s1} \/ j = s5 + 1
      BY <1>3, <1>4
    <3>2. QED
      BY <1>1, <3>1 DEF CR!Early
  <2>3. ASSUME NEW c \in Cancellers, s4'[c].at = "walk"
        PROVE  s4'[c].due \subseteq (1..s5') \ CR!Early'
    <3>1. s4[c].due \subseteq (1..s5) \ CR!Early
      BY <1>1, <2>3 DEF CR!RegistryInv, CR!DueOrDone
    <3>2. QED
      BY <1>1, <1>7, <2>2, <3>1
  <2>4. QED
    BY <1>1, <2>1, <2>3 DEF CR!RegistryInv, CR!DueOrDone
<1>11. QED
  BY <1>1, <1>5, <1>8, <1>9, <1>10, MeantStays DEF CR!RegistryInv

\* A worker takes the next job.
LEMMA RegistryTakes == ASSUME CR!RegistryInv, NEW w \in Handlers, CR!Take(w) PROVE CR!RegistryInv'
<1>1. /\ s1 \in Seq(Nat) /\ s1 # <<>> /\ s5 \in Nat /\ s2[w].at = "idle"
      /\ s1' = Tail(s1)
      /\ s2' = [s2 EXCEPT ![w] = [at |-> "taken", job |-> Head(s1), index |-> 0]]
      /\ UNCHANGED <<s3, s4, s5, s6, s7>>
  BY DEF CR!Take, CR!Idle, CR!RegistryInv, CR!RegistryShapes
<1>2. PICK n \in Nat : n + 1 = Len(s1)
  <2>1. Len(s1) \in Nat /\ Len(s1) # 0
    BY <1>1
  <2>2. QED
    BY <2>1
<1>3. /\ s1' \in Seq(Nat) /\ Len(s1') = n /\ Head(s1) = s1[1] /\ s1[1] \in Nat
      /\ \A i \in 1..n : s1'[i] = s1[i + 1]
  BY <1>1, <1>2, HeadTailProperties
<1>4. /\ DOMAIN s1 = 1..(n + 1) /\ DOMAIN s1' = 1..n /\ 1 \in DOMAIN s1
      /\ \A i \in 1..n : i + 1 \in DOMAIN s1 /\ i + 1 # 1
  BY <1>1, <1>2, <1>3
<1>5. /\ \A i \in DOMAIN s1 : s1[i] \in 1..s5
      /\ \A i, j \in DOMAIN s1 : s1[i] = s1[j] => i = j
      /\ \A v \in Handlers : s2[v].at # "idle" =>
            /\ s2[v].job \in 1..s5
            /\ \A i \in DOMAIN s1 : s1[i] # s2[v].job
            /\ \A u \in Handlers : s2[u].at # "idle" /\ s2[u].job = s2[v].job => u = v
  BY DEF CR!RegistryInv, CR!OncePlaced
<1>6. s2 \in [Handlers -> [at : {"idle", "taken", "runs", "ended"}, job : Nat, index : Nat]]
  BY RegistryWho
<1>7. /\ s2'[w].at = "taken" /\ s2'[w].job = s1[1]
      /\ \A v \in Handlers : v # w => s2'[v] = s2[v]
  BY <1>1, <1>3, <1>6
<1>8. CR!RegistryShapes'
  <2>1. [at |-> "taken", job |-> Head(s1), index |-> 0]
           \in [at : {"idle", "taken", "runs", "ended"}, job : Nat, index : Nat]
    BY <1>3
  <2>2. s2' \in [Handlers -> [at : {"idle", "taken", "runs", "ended"}, job : Nat, index : Nat]]
    BY <1>1, <1>6, <2>1
  <2>3. QED
    BY <1>1, <1>3, <2>2 DEF CR!RegistryInv, CR!RegistryShapes
<1>9. CR!OncePlaced'
  <2>1. \A i \in DOMAIN s1' : s1'[i] \in 1..s5' /\ s1'[i] # s1[1]
    <3>1. ASSUME NEW i \in 1..n
          PROVE  s1'[i] \in 1..s5' /\ s1'[i] # s1[1]
      <4>1. s1'[i] = s1[i + 1] /\ i + 1 \in DOMAIN s1 /\ i + 1 # 1 /\ 1 \in DOMAIN s1
        BY <1>3, <1>4
      <4>2. s1[i + 1] \in 1..s5 /\ s1[i + 1] # s1[1]
        BY <1>5, <4>1, Zenon
      <4>3. QED
        BY <1>1, <4>1, <4>2
    <3>2. QED
      BY <1>4, <3>1
  <2>2. ASSUME NEW i \in DOMAIN s1', NEW j \in DOMAIN s1', s1'[i] = s1'[j]
        PROVE  i = j
    <3>1. i + 1 = j + 1
      <4>1. s1[i + 1] = s1[j + 1] /\ i + 1 \in DOMAIN s1 /\ j + 1 \in DOMAIN s1
        BY <1>3, <1>4, <2>2
      <4>2. QED
        BY <1>5, <4>1, Zenon
    <3>2. QED
      BY <1>4, <3>1
  <2>3. ASSUME NEW v \in Handlers, s2'[v].at # "idle"
        PROVE  /\ s2'[v].job \in 1..s5'
               /\ \A i \in DOMAIN s1' : s1'[i] # s2'[v].job
               /\ \A u \in Handlers : s2'[u].at # "idle" /\ s2'[u].job = s2'[v].job => u = v
    <3>1. CASE v = w
      BY <1>1, <1>4, <1>5, <1>7, <2>1, <3>1
    <3>2. CASE v # w
      BY <1>1, <1>3, <1>4, <1>5, <1>7, <2>3, <3>2
    <3>3. QED
      BY <3>1, <3>2
  <2>4. QED
    BY <2>1, <2>2, <2>3 DEF CR!OncePlaced
<1>10. \A v \in Handlers : s2'[v].at = "runs" <=> s2[v].at = "runs"
  BY <1>1, <1>7
<1>11. \A v \in Handlers : s2[v].at = "runs" => s2'[v] = s2[v]
  BY <1>1, <1>7
<1>12. CR!Listed'
  BY <1>1, <1>10, <1>11 DEF CR!RegistryInv, CR!Listed
<1>13. CR!DueOrDone'
  <2>1. CR!Running' = CR!Running
    BY <1>10, <1>11 DEF CR!Running
  <2>2. CR!Early' \subseteq CR!Early
    <3>1. {s1'[i] : i \in DOMAIN s1'} \subseteq {s1[i] : i \in DOMAIN s1}
      BY <1>3, <1>4
    <3>2. s1[1] \in {s1[i] : i \in DOMAIN s1}
      BY <1>4
    <3>3. ASSUME NEW v \in Handlers, s2'[v].at = "taken"
          PROVE  s2'[v].job \in CR!Early
      <4>1. CASE v = w
        BY <1>7, <3>2, <4>1 DEF CR!Early
      <4>2. CASE v # w
        BY <1>7, <3>3, <4>2 DEF CR!Early
      <4>3. QED
        BY <4>1, <4>2
    <3>4. QED
      BY <3>1, <3>3 DEF CR!Early
  <2>3. QED
    BY <1>1, <2>1, <2>2 DEF CR!RegistryInv, CR!DueOrDone
<1>14. QED
  BY <1>1, <1>8, <1>9, <1>12, <1>13, MeantStays DEF CR!RegistryInv

\* It registers the job at the end of the list.
LEMMA RegistryAdds == ASSUME CR!RegistryInv, NEW w \in Handlers, CR!Add(w) PROVE CR!RegistryInv'
<1>1. /\ s3 \in Seq(Nat) /\ s2[w].at = "taken" /\ s3' = Append(s3, s2[w].job)
      /\ UNCHANGED <<s1, s4, s5, s6, s7>>
      /\ s2 \in [Handlers -> [at : {"idle", "taken", "runs", "ended"}, job : Nat, index : Nat]]
  BY DEF CR!Add, CR!RegistryInv, CR!RegistryShapes
<1>2. PICK n \in Nat : n = Len(s3)
  BY <1>1
<1>3. /\ s3' \in Seq(Nat) /\ Len(s3') = n + 1 /\ s3'[n + 1] = s2[w].job
      /\ \A i \in 1..n : s3'[i] = s3[i]
  <2>1. s2[w].job \in Nat
    BY <1>1
  <2>2. QED
    BY <1>1, <1>2, <2>1, AppendProperties
<1>4. /\ DOMAIN s3 = 1..n /\ DOMAIN s3' = 1..(n + 1) /\ n + 1 \notin 1..n
      /\ \A i \in 1..(n + 1) : i \in 1..n \/ i = n + 1
  BY <1>1, <1>2, <1>3
<1>5. PICK old \in [at : {"idle", "taken", "runs", "ended"}, job : Nat, index : Nat] : old = s2[w]
  BY <1>1
<1>6. PICK new : new = [old EXCEPT !.at = "runs", !.index = n + 1]
  OBVIOUS
<1>7. /\ new \in [at : {"idle", "taken", "runs", "ended"}, job : Nat, index : Nat]
      /\ new.at = "runs" /\ new.index = n + 1 /\ new.job = s2[w].job
  <2>1. n + 1 \in Nat
    BY <1>2
  <2>2. new \in [at : {"idle", "taken", "runs", "ended"}, job : Nat, index : Nat]
    BY <1>6, <2>1
  <2>3. new.at = "runs" /\ new.index = n + 1 /\ new.job = old.job
    BY <1>6
  <2>4. QED
    BY <1>5, <2>2, <2>3
<1>8. s2' = [s2 EXCEPT ![w] = new]
  <2>1. s2' = [s2 EXCEPT ![w].at = "runs", ![w].index = n + 1]
    BY <1>3 DEF CR!Add
  <2>2. QED
    BY <1>1, <1>5, <1>6, <2>1
<1>9. /\ s2' \in [Handlers -> [at : {"idle", "taken", "runs", "ended"}, job : Nat, index : Nat]]
      /\ s2'[w] = new /\ \A v \in Handlers : v # w => s2'[v] = s2[v]
  BY <1>1, <1>7, <1>8
<1>10. \A v \in Handlers : s2'[v].job = s2[v].job /\ (s2'[v].at = "idle" <=> s2[v].at = "idle")
  BY <1>1, <1>7, <1>9
<1>11. CR!RegistryShapes'
  BY <1>1, <1>3, <1>9 DEF CR!RegistryInv, CR!RegistryShapes
<1>12. CR!OncePlaced'
  BY <1>1, <1>10 DEF CR!RegistryInv, CR!OncePlaced
<1>13. s2[w].job \in 1..s5 /\ s2[w].job # 0
  BY <1>1, RegistryWho DEF CR!RegistryInv, CR!OncePlaced
<1>14. CR!Listed'
  <2>1. ASSUME NEW v \in Handlers, s2'[v].at = "runs"
        PROVE  s2'[v].index \in DOMAIN s3' /\ s3'[s2'[v].index] = s2'[v].job
    <3>1. CASE v = w
      <4>1. n + 1 \in DOMAIN s3'
        BY <1>4
      <4>2. QED
        BY <1>3, <1>7, <1>9, <3>1, <4>1
    <3>2. CASE v # w
      <4>1. s2[v].index \in 1..n /\ s3[s2[v].index] = s2[v].job
        BY <1>4, <1>9, <2>1, <3>2 DEF CR!RegistryInv, CR!Listed
      <4>2. QED
        BY <1>3, <1>4, <1>9, <3>2, <4>1
    <3>3. QED
      BY <3>1, <3>2
  <2>2. ASSUME NEW i \in DOMAIN s3', s3'[i] # 0
        PROVE  \E v \in Handlers : s2'[v].at = "runs" /\ s2'[v].index = i /\ s2'[v].job = s3'[i]
    <3>1. CASE i = n + 1
      BY <1>3, <1>7, <1>9, <3>1
    <3>2. CASE i \in 1..n
      <4>1. s3'[i] = s3[i] /\ i \in DOMAIN s3
        BY <1>3, <1>4, <3>2
      <4>2. PICK v \in Handlers : s2[v].at = "runs" /\ s2[v].index = i /\ s2[v].job = s3[i]
        BY <2>2, <4>1 DEF CR!RegistryInv, CR!Listed
      <4>3. v # w
        BY <1>1, <4>2
      <4>4. QED
        BY <1>9, <4>1, <4>2, <4>3
    <3>3. QED
      BY <1>4, <3>1, <3>2
  <2>3. \E i \in DOMAIN s3' : s3'[i] # 0
    <3>1. n + 1 \in DOMAIN s3' /\ s3'[n + 1] # 0
      BY <1>3, <1>4, <1>13
    <3>2. QED
      BY <3>1
  <2>4. QED
    BY <2>1, <2>2, <2>3 DEF CR!Listed
<1>15. CR!DueOrDone'
  <2>1. \A j \in CR!Running' : j \in CR!Running \/ j = s2[w].job
    BY <1>7, <1>9 DEF CR!Running
  <2>2. CR!Early' \subseteq CR!Early /\ s2[w].job \in CR!Early
    <3>1. \A v \in Handlers : s2'[v].at = "taken" => s2[v].at = "taken" /\ s2'[v].job = s2[v].job
      BY <1>7, <1>9, <1>10
    <3>2. QED
      BY <1>1, <3>1 DEF CR!Early
  <2>3. ASSUME NEW c \in Cancellers, s4'[c].at = "walk"
        PROVE  /\ s4'[c].due \subseteq (1..s5') \ CR!Early'
               /\ \A job \in s4'[c].due \cap CR!Running' :
                     job \in s6' \/ \E i \in DOMAIN s4'[c].list : s4'[c].list[i] = job
    <3>1. /\ s4[c].due \subseteq (1..s5) \ CR!Early
          /\ \A job \in s4[c].due \cap CR!Running :
                job \in s6 \/ \E i \in DOMAIN s4[c].list : s4[c].list[i] = job
      BY <1>1, <2>3 DEF CR!RegistryInv, CR!DueOrDone
    <3>2. s4[c].due \cap CR!Running' \subseteq s4[c].due \cap CR!Running
      BY <2>1, <2>2, <3>1
    <3>3. QED
      BY <1>1, <2>2, <3>1, <3>2
  <2>4. QED
    BY <1>1, <2>3 DEF CR!RegistryInv, CR!DueOrDone
<1>16. QED
  BY <1>1, <1>11, <1>12, <1>14, <1>15, MeantStays DEF CR!RegistryInv

\* The transfer ends, and its entry becomes nil.
LEMMA RegistryEnds == ASSUME CR!RegistryInv, NEW w \in Handlers, CR!Ends(w) PROVE CR!RegistryInv'
<1>1. /\ s3 \in Seq(Nat) /\ s2[w].at = "runs" /\ s3' = CR!Without(s2[w].index)
      /\ UNCHANGED <<s1, s4, s5, s6, s7>>
      /\ s2 \in [Handlers -> [at : {"idle", "taken", "runs", "ended"}, job : Nat, index : Nat]]
  BY DEF CR!Ends, CR!RegistryInv, CR!RegistryShapes
<1>2. PICK here \in Nat : here = s2[w].index
  BY <1>1
<1>3. here \in DOMAIN s3 /\ s3[here] = s2[w].job
  BY <1>1, <1>2 DEF CR!RegistryInv, CR!Listed
<1>4. PICK list : list = [i \in DOMAIN s3 |-> IF i = here THEN 0 ELSE s3[i]]
  OBVIOUS
<1>5. /\ list \in Seq(Nat) /\ DOMAIN list = DOMAIN s3
      /\ \A i \in DOMAIN s3 : list[i] = IF i = here THEN 0 ELSE s3[i]
  <2>1. PICK n \in Nat : n = Len(s3) /\ DOMAIN s3 = 1..n
    BY <1>1
  <2>2. \A i \in 1..n : (IF i = here THEN 0 ELSE s3[i]) \in Nat
    BY <1>1, <2>1
  <2>3. QED
    BY <1>4, <2>1, <2>2
<1>6. s3' = IF \A i \in DOMAIN list : list[i] = 0 THEN <<>> ELSE list
  BY <1>1, <1>2, <1>4 DEF CR!Without
<1>7. PICK old \in [at : {"idle", "taken", "runs", "ended"}, job : Nat, index : Nat] : old = s2[w]
  BY <1>1
<1>8. PICK new : new = [old EXCEPT !.at = "ended"]
  OBVIOUS
<1>9. /\ new \in [at : {"idle", "taken", "runs", "ended"}, job : Nat, index : Nat] /\ new.at = "ended"
      /\ new.job = old.job
  BY <1>7, <1>8
<1>10. s2' = [s2 EXCEPT ![w] = new]
  BY <1>1, <1>7, <1>8 DEF CR!Ends
<1>11. /\ s2' \in [Handlers -> [at : {"idle", "taken", "runs", "ended"}, job : Nat, index : Nat]]
       /\ s2'[w] = new /\ \A v \in Handlers : v # w => s2'[v] = s2[v]
  BY <1>1, <1>9, <1>10
<1>12. \A v \in Handlers : /\ s2'[v].job = s2[v].job /\ (s2'[v].at = "idle" <=> s2[v].at = "idle")
                          /\ (s2'[v].at = "taken" <=> s2[v].at = "taken")
  BY <1>1, <1>7, <1>9, <1>11
<1>13. s3' \in Seq(Nat)
  <2>1. <<>> \in Seq(Nat)
    OBVIOUS
  <2>2. QED
    BY <1>5, <1>6, <2>1
<1>14. CR!RegistryShapes'
  BY <1>1, <1>11, <1>13 DEF CR!RegistryInv, CR!RegistryShapes
<1>15. CR!OncePlaced'
  BY <1>1, <1>12 DEF CR!RegistryInv, CR!OncePlaced
<1>16. CR!Listed'
  <2>1. ASSUME NEW v \in Handlers, s2'[v].at = "runs"
        PROVE  v # w /\ s2'[v] = s2[v] /\ s2[v].index \in DOMAIN s3 /\ s2[v].index # here
               /\ list[s2[v].index] = s2[v].job /\ s2[v].job # 0
    <3>1. v # w /\ s2'[v] = s2[v] /\ s2[v].at = "runs"
      BY <1>9, <1>11, <2>1
    <3>2. s2[v].index \in DOMAIN s3 /\ s3[s2[v].index] = s2[v].job
      BY <3>1 DEF CR!RegistryInv, CR!Listed
    <3>3. s2[v].job # s2[w].job
      BY <1>1, <3>1 DEF CR!RegistryInv, CR!OncePlaced
    <3>4. s2[v].index # here
      BY <1>3, <3>2, <3>3
    <3>5. s2[v].job # 0
      BY <3>1, RegistryWho
    <3>6. QED
      BY <1>5, <3>1, <3>2, <3>4, <3>5
  <2>2. CASE \A i \in DOMAIN list : list[i] = 0
    <3>1. s3' = <<>> /\ DOMAIN s3' = {}
      BY <1>6, <2>2
    <3>2. \A v \in Handlers : s2'[v].at # "runs"
      BY <1>5, <2>1, <2>2
    <3>3. QED
      BY <3>1, <3>2 DEF CR!Listed
  <2>3. CASE ~(\A i \in DOMAIN list : list[i] = 0)
    <3>1. s3' = list
      BY <1>6, <2>3
    <3>2. ASSUME NEW i \in DOMAIN s3', s3'[i] # 0
          PROVE  \E v \in Handlers : s2'[v].at = "runs" /\ s2'[v].index = i /\ s2'[v].job = s3'[i]
      <4>1. i \in DOMAIN s3 /\ i # here /\ s3'[i] = s3[i]
        BY <1>5, <3>1, <3>2
      <4>2. PICK v \in Handlers : s2[v].at = "runs" /\ s2[v].index = i /\ s2[v].job = s3[i]
        BY <3>2, <4>1 DEF CR!RegistryInv, CR!Listed
      <4>3. v # w
        BY <1>2, <4>1, <4>2
      <4>4. QED
        BY <1>11, <4>1, <4>2, <4>3
    <3>3. \A v \in Handlers : s2'[v].at = "runs" =>
             s2'[v].index \in DOMAIN s3' /\ s3'[s2'[v].index] = s2'[v].job
      BY <1>5, <2>1, <3>1
    <3>4. \E i \in DOMAIN s3' : s3'[i] # 0
      BY <2>3, <3>1
    <3>5. QED
      BY <3>2, <3>3, <3>4 DEF CR!Listed
  <2>4. QED
    BY <2>2, <2>3
<1>17. CR!DueOrDone'
  <2>1. CR!Running' \subseteq CR!Running
    <3>1. \A v \in Handlers : s2'[v].at = "runs" => s2[v].at = "runs"
      BY <1>1, <1>9, <1>11
    <3>2. QED
      BY <1>12, <3>1 DEF CR!Running
  <2>2. CR!Early' = CR!Early
    BY <1>1, <1>12 DEF CR!Early
  <2>3. QED
    BY <1>1, <2>1, <2>2 DEF CR!RegistryInv, CR!DueOrDone
<1>18. QED
  BY <1>1, <1>14, <1>15, <1>16, <1>17, MeantStays DEF CR!RegistryInv

\* The result goes to who waits for it.
LEMMA RegistryAnswers == ASSUME CR!RegistryInv, NEW w \in Handlers, CR!Answer(w) PROVE CR!RegistryInv'
<1>1. /\ s2[w].at = "ended" /\ s2' = [s2 EXCEPT ![w] = CR!Idle]
      /\ UNCHANGED <<s1, s3, s4, s5, s6, s7>>
      /\ s2 \in [Handlers -> [at : {"idle", "taken", "runs", "ended"}, job : Nat, index : Nat]]
  BY DEF CR!Answer, CR!RegistryInv, CR!RegistryShapes
<1>2. CR!Idle \in [at : {"idle", "taken", "runs", "ended"}, job : Nat, index : Nat] /\ CR!Idle.at = "idle"
  BY DEF CR!Idle
<1>3. /\ s2' \in [Handlers -> [at : {"idle", "taken", "runs", "ended"}, job : Nat, index : Nat]]
      /\ s2'[w] = CR!Idle /\ \A v \in Handlers : v # w => s2'[v] = s2[v]
  BY <1>1, <1>2
<1>4. /\ \A v \in Handlers : s2'[v].at # "idle" => s2'[v] = s2[v]
      /\ \A v \in Handlers : s2[v].at \in {"runs", "taken"} => s2'[v] = s2[v]
  BY <1>1, <1>2, <1>3
<1>5. CR!RegistryShapes'
  BY <1>1, <1>3 DEF CR!RegistryInv, CR!RegistryShapes
<1>6. CR!OncePlaced'
  BY <1>1, <1>4 DEF CR!RegistryInv, CR!OncePlaced
<1>7. CR!Listed'
  BY <1>1, <1>4 DEF CR!RegistryInv, CR!Listed
<1>8. CR!DueOrDone'
  <2>1. CR!Running' = CR!Running
    BY <1>4 DEF CR!Running
  <2>2. CR!Early' = CR!Early
    BY <1>1, <1>4 DEF CR!Early
  <2>3. QED
    BY <1>1, <2>1, <2>2 DEF CR!RegistryInv, CR!DueOrDone
<1>9. QED
  BY <1>1, <1>5, <1>6, <1>7, <1>8, MeantStays DEF CR!RegistryInv

\* cancelAll takes the list.
LEMMA RegistryIsRead == ASSUME CR!RegistryInv, NEW c \in Cancellers, CR!CancelRead(c) PROVE CR!RegistryInv'
<1>1. /\ s4' = [s4 EXCEPT ![c] = [at |-> "walk", list |-> s3, due |-> CR!Running]]
      /\ UNCHANGED <<s1, s2, s3, s5, s6>> /\ s7' = s7 \cup CR!Running
      /\ s3 \in Seq(Nat) /\ s5 \in Nat
      /\ s4 \in [Cancellers -> [at : {"rest", "walk"}, list : Seq(Nat), due : SUBSET Nat]]
  BY DEF CR!CancelRead, CR!RegistryInv, CR!RegistryShapes
<1>2. CR!Running \subseteq 1..s5 /\ CR!Running \subseteq Nat
  BY <1>1, RegistryWho
<1>3. PICK new : new = [at |-> "walk", list |-> s3, due |-> CR!Running]
  OBVIOUS
<1>4. /\ new \in [at : {"rest", "walk"}, list : Seq(Nat), due : SUBSET Nat]
      /\ new.at = "walk" /\ new.list = s3 /\ new.due = CR!Running
  BY <1>1, <1>2, <1>3
<1>5. /\ s4' \in [Cancellers -> [at : {"rest", "walk"}, list : Seq(Nat), due : SUBSET Nat]]
      /\ s4'[c] = new /\ \A d \in Cancellers : d # c => s4'[d] = s4[d]
  BY <1>1, <1>3, <1>4
<1>6. CR!RegistryShapes'
  BY <1>1, <1>5 DEF CR!RegistryInv, CR!RegistryShapes
<1>7. CR!OncePlaced' /\ CR!Listed'
  BY <1>1 DEF CR!RegistryInv, CR!OncePlaced, CR!Listed
<1>8. CR!Running' = CR!Running /\ CR!Early' = CR!Early
  BY <1>1 DEF CR!Running, CR!Early
<1>9. CR!Running \cap CR!Early = {}
  <2>1. ASSUME NEW job \in CR!Running, job \in CR!Early
        PROVE  FALSE
    <3>1. PICK w \in Handlers : s2[w].at = "runs" /\ s2[w].job = job
      BY DEF CR!Running
    <3>2. /\ \A i \in DOMAIN s1 : s1[i] # job
          /\ \A v \in Handlers : s2[v].at # "idle" /\ s2[v].job = job => v = w
      BY <3>1 DEF CR!RegistryInv, CR!OncePlaced
    <3>3. QED
      BY <2>1, <3>1, <3>2 DEF CR!Early
  <2>2. QED
    BY <2>1
<1>10. \A job \in CR!Running : \E i \in DOMAIN s3 : s3[i] = job
  BY DEF CR!RegistryInv, CR!Listed, CR!Running
<1>11. CR!DueOrDone'
  <2>1. ASSUME NEW d \in Cancellers
        PROVE  /\ s4'[d].at = "rest" => s4'[d].list = <<>>
               /\ s4'[d].at = "walk" =>
                     /\ s4'[d].due \subseteq (1..s5') \ CR!Early'
                     /\ \A job \in s4'[d].due \cap CR!Running' :
                           job \in s6' \/ \E i \in DOMAIN s4'[d].list : s4'[d].list[i] = job
    <3>1. CASE d = c
      BY <1>1, <1>2, <1>4, <1>5, <1>8, <1>9, <1>10, <3>1
    <3>2. CASE d # c
      BY <1>1, <1>5, <1>8, <3>2 DEF CR!RegistryInv, CR!DueOrDone
    <3>3. QED
      BY <3>1, <3>2
  <2>2. QED
    BY <2>1 DEF CR!DueOrDone
<1>12. CR!OnlyMeant'
  <2>1. s6' \subseteq s7'
    BY <1>1 DEF CR!RegistryInv, CR!OnlyMeant
  <2>2. \A i \in DOMAIN s3 : s3[i] # 0 => s3[i] \in CR!Running
    BY DEF CR!RegistryInv, CR!Listed, CR!Running
  <2>3. ASSUME NEW d \in Cancellers, NEW i \in DOMAIN s4'[d].list, s4'[d].list[i] # 0
        PROVE  s4'[d].list[i] \in s7'
    <3>1. CASE d = c
      BY <1>1, <1>4, <1>5, <2>2, <2>3, <3>1
    <3>2. CASE d # c
      BY <1>1, <1>5, <2>3, <3>2 DEF CR!RegistryInv, CR!OnlyMeant
    <3>3. QED
      BY <3>1, <3>2
  <2>4. QED
    BY <2>1, <2>3 DEF CR!OnlyMeant
<1>13. QED
  BY <1>6, <1>7, <1>11, <1>12 DEF CR!RegistryInv

\* It comes to the next entry, which a transfer that has ended may have made nil.
LEMMA RegistryWalks == ASSUME CR!RegistryInv, NEW c \in Cancellers, CR!CancelNext(c) PROVE CR!RegistryInv'
<1>1. /\ s4[c].list # <<>> /\ s4' = [s4 EXCEPT ![c].list = Tail(s4[c].list)]
      /\ UNCHANGED <<s1, s2, s3, s5, s7>>
      /\ s4 \in [Cancellers -> [at : {"rest", "walk"}, list : Seq(Nat), due : SUBSET Nat]]
  BY DEF CR!CancelNext, CR!RegistryInv, CR!RegistryShapes
<1>2. PICK old \in [at : {"rest", "walk"}, list : Seq(Nat), due : SUBSET Nat] : old = s4[c]
  BY <1>1
<1>3. PICK list \in Seq(Nat) : list = old.list
  BY <1>2
<1>4. PICK rest : rest = Tail(list)
  OBVIOUS
<1>5. PICK n \in Nat : n + 1 = Len(list)
  <2>1. Len(list) \in Nat /\ Len(list) # 0
    BY <1>1, <1>2, <1>3
  <2>2. QED
    BY <2>1
<1>6. /\ rest \in Seq(Nat) /\ Len(rest) = n /\ Head(list) = list[1]
      /\ \A i \in 1..n : rest[i] = list[i + 1]
  <2>1. list # <<>>
    BY <1>1, <1>2, <1>3
  <2>2. QED
    BY <1>4, <1>5, <2>1, HeadTailProperties
<1>7. /\ DOMAIN rest = 1..n /\ DOMAIN list = 1..(n + 1)
      /\ \A i \in 1..(n + 1) : i = 1 \/ (i - 1 \in 1..n /\ (i - 1) + 1 = i)
  BY <1>5, <1>6
<1>8. PICK new : new = [old EXCEPT !.list = rest]
  OBVIOUS
<1>9. /\ new \in [at : {"rest", "walk"}, list : Seq(Nat), due : SUBSET Nat]
      /\ new.at = old.at /\ new.list = rest /\ new.due = old.due
  BY <1>6, <1>8
<1>10. s4' = [s4 EXCEPT ![c] = new]
  BY <1>1, <1>2, <1>3, <1>4, <1>8
<1>11. /\ s4' \in [Cancellers -> [at : {"rest", "walk"}, list : Seq(Nat), due : SUBSET Nat]]
       /\ s4'[c] = new /\ \A d \in Cancellers : d # c => s4'[d] = s4[d]
  BY <1>1, <1>9, <1>10
<1>12. s6 \subseteq s6' /\ (list[1] \in CR!Running => list[1] \in s6')
  <2>1. PICK entry \in {Head(list), 0} : /\ entry = 0 => Head(list) \notin CR!Running
                                         /\ s6' = s6 \cup ({entry} \ {0})
    BY <1>2, <1>3 DEF CR!CancelNext
  <2>2. \A job \in CR!Running : job # 0
    BY RegistryWho
  <2>3. QED
    BY <1>6, <2>1, <2>2
<1>13. CR!RegistryShapes'
  BY <1>1, <1>11 DEF CR!RegistryInv, CR!RegistryShapes
<1>14. CR!OncePlaced' /\ CR!Listed'
  BY <1>1 DEF CR!RegistryInv, CR!OncePlaced, CR!Listed
<1>15. CR!Running' = CR!Running /\ CR!Early' = CR!Early
  BY <1>1 DEF CR!Running, CR!Early
<1>16. CR!DueOrDone'
  <2>1. old.at = "walk"
    BY <1>1, <1>2 DEF CR!RegistryInv, CR!DueOrDone
  <2>2. /\ old.due \subseteq (1..s5) \ CR!Early
        /\ \A job \in old.due \cap CR!Running : job \in s6 \/ \E i \in DOMAIN list : list[i] = job
    BY <1>2, <1>3, <2>1 DEF CR!RegistryInv, CR!DueOrDone
  <2>3. ASSUME NEW job \in old.due \cap CR!Running
        PROVE  job \in s6' \/ \E i \in DOMAIN rest : rest[i] = job
    <3>1. CASE job \in s6
      BY <1>12, <3>1
    <3>2. CASE job \notin s6
      <4>1. PICK i \in DOMAIN list : list[i] = job
        BY <2>2, <3>2
      <4>2. CASE i = 1
        BY <1>12, <4>1, <4>2
      <4>3. CASE i # 1
        <5>1. i - 1 \in DOMAIN rest /\ rest[i - 1] = list[(i - 1) + 1] /\ (i - 1) + 1 = i
          BY <1>6, <1>7, <4>1, <4>3
        <5>2. QED
          BY <4>1, <5>1
      <4>4. QED
        BY <4>2, <4>3
    <3>3. QED
      BY <3>1, <3>2
  <2>4. ASSUME NEW d \in Cancellers
        PROVE  /\ s4'[d].at = "rest" => s4'[d].list = <<>>
               /\ s4'[d].at = "walk" =>
                     /\ s4'[d].due \subseteq (1..s5') \ CR!Early'
                     /\ \A job \in s4'[d].due \cap CR!Running' :
                           job \in s6' \/ \E i \in DOMAIN s4'[d].list : s4'[d].list[i] = job
    <3>1. CASE d = c
      <4>1. s4'[d] = new /\ new.at = "walk" /\ new.due = old.due /\ new.list = rest
        BY <1>9, <1>11, <2>1, <3>1
      <4>2. old.due \subseteq (1..s5') \ CR!Early'
        BY <1>1, <1>15, <2>2
      <4>3. \A job \in old.due \cap CR!Running' : job \in s6' \/ \E i \in DOMAIN rest : rest[i] = job
        BY <1>15, <2>3
      <4>4. QED
        BY <4>1, <4>2, <4>3
    <3>2. CASE d # c
      BY <1>1, <1>11, <1>12, <1>15, <3>2 DEF CR!RegistryInv, CR!DueOrDone
    <3>3. QED
      BY <3>1, <3>2
  <2>5. QED
    BY <2>4 DEF CR!DueOrDone
<1>17. CR!OnlyMeant'
  <2>1. \A i \in DOMAIN list : list[i] # 0 => list[i] \in s7
    BY <1>2, <1>3 DEF CR!RegistryInv, CR!OnlyMeant
  <2>2. s6' \subseteq s7'
    <3>1. PICK entry \in {Head(list), 0} : s6' = s6 \cup ({entry} \ {0})
      BY <1>2, <1>3 DEF CR!CancelNext
    <3>2. list[1] # 0 => list[1] \in s7
      BY <1>7, <2>1
    <3>3. QED
      BY <1>1, <1>6, <3>1, <3>2 DEF CR!RegistryInv, CR!OnlyMeant
  <2>3. ASSUME NEW d \in Cancellers, NEW i \in DOMAIN s4'[d].list, s4'[d].list[i] # 0
        PROVE  s4'[d].list[i] \in s7'
    <3>1. CASE d = c
      <4>1. i \in 1..n /\ s4'[d].list[i] = list[i + 1] /\ i + 1 \in DOMAIN list
        BY <1>6, <1>7, <1>9, <1>11, <2>3, <3>1
      <4>2. QED
        BY <1>1, <2>1, <2>3, <4>1
    <3>2. CASE d # c
      BY <1>1, <1>11, <2>3, <3>2 DEF CR!RegistryInv, CR!OnlyMeant
    <3>3. QED
      BY <3>1, <3>2
  <2>4. QED
    BY <2>2, <2>3 DEF CR!OnlyMeant
<1>18. QED
  BY <1>13, <1>14, <1>16, <1>17 DEF CR!RegistryInv

\* cancelAll returns.
LEMMA RegistryReturns == ASSUME CR!RegistryInv, NEW c \in Cancellers, CR!CancelReturn(c) PROVE CR!RegistryInv'
<1>1. /\ s4' = [s4 EXCEPT ![c] = CR!Resting]
      /\ UNCHANGED <<s1, s2, s3, s5, s6, s7>>
      /\ s4 \in [Cancellers -> [at : {"rest", "walk"}, list : Seq(Nat), due : SUBSET Nat]]
  BY DEF CR!CancelReturn, CR!RegistryInv, CR!RegistryShapes
<1>2. /\ CR!Resting \in [at : {"rest", "walk"}, list : Seq(Nat), due : SUBSET Nat]
      /\ CR!Resting.at = "rest" /\ CR!Resting.list = <<>>
  <2>1. <<>> \in Seq(Nat)
    OBVIOUS
  <2>2. QED
    BY <2>1 DEF CR!Resting
<1>3. /\ s4' \in [Cancellers -> [at : {"rest", "walk"}, list : Seq(Nat), due : SUBSET Nat]]
      /\ s4'[c] = CR!Resting /\ \A d \in Cancellers : d # c => s4'[d] = s4[d]
  BY <1>1, <1>2
<1>4. CR!RegistryShapes'
  BY <1>1, <1>3 DEF CR!RegistryInv, CR!RegistryShapes
<1>5. CR!OncePlaced' /\ CR!Listed'
  BY <1>1 DEF CR!RegistryInv, CR!OncePlaced, CR!Listed
<1>6. CR!DueOrDone'
  <2>1. CR!Running' = CR!Running /\ CR!Early' = CR!Early
    BY <1>1 DEF CR!Running, CR!Early
  <2>2. QED
    BY <1>1, <1>2, <1>3, <2>1 DEF CR!RegistryInv, CR!DueOrDone
<1>7. CR!OnlyMeant'
  <2>1. ASSUME NEW d \in Cancellers, NEW i \in DOMAIN s4'[d].list
        PROVE  d # c
    <3>1. DOMAIN <<>> = {}
      OBVIOUS
    <3>2. QED
      BY <1>2, <1>3, <2>1, <3>1
  <2>2. QED
    BY <1>1, <1>3, <2>1 DEF CR!RegistryInv, CR!OnlyMeant
<1>8. QED
  BY <1>4, <1>5, <1>6, <1>7 DEF CR!RegistryInv

\* No step of the registry, and none beside it, breaks the invariant.
LEMMA RegistryStep == ASSUME CR!RegistryInv, [CR!RegistryNext]_(CR!registryVars) PROVE CR!RegistryInv'
<1>1. CASE UNCHANGED CR!registryVars
  <2>1. UNCHANGED <<s1, s2, s3, s4, s5, s6, s7>>
    BY <1>1 DEF CR!registryVars
  <2>2. CR!RegistryShapes' /\ CR!OncePlaced' /\ CR!Listed'
    BY <2>1 DEF CR!RegistryInv, CR!RegistryShapes, CR!OncePlaced, CR!Listed
  <2>3. CR!Running' = CR!Running /\ CR!Early' = CR!Early
    BY <2>1 DEF CR!Running, CR!Early
  <2>4. CR!DueOrDone'
    BY <2>1, <2>3 DEF CR!RegistryInv, CR!DueOrDone
  <2>5. QED
    BY <2>1, <2>2, <2>4, MeantStays DEF CR!RegistryInv
<1>2. CASE CR!RegistryNext
  BY <1>2, RegistryEnqueues, RegistryTakes, RegistryAdds, RegistryEnds, RegistryAnswers, RegistryIsRead,
     RegistryWalks, RegistryReturns DEF CR!RegistryNext
<1>3. QED
  BY <1>1, <1>2

\* Nothing is registered at first.
LEMMA RegistryBegins == ASSUME CR!InitRegistry PROVE CR!RegistryInv
<1>1. <<>> \in Seq(Nat) /\ DOMAIN <<>> = {}
  OBVIOUS
<1>2. CR!RegistryShapes
  BY <1>1 DEF CR!InitRegistry, CR!RegistryShapes, CR!Idle, CR!Resting
<1>3. /\ \A w \in Handlers : s2[w].at = "idle"
      /\ \A c \in Cancellers : s4[c].at = "rest" /\ s4[c].list = <<>>
      /\ DOMAIN s1 = {} /\ s3 = <<>> /\ DOMAIN s3 = {}
  BY <1>1 DEF CR!InitRegistry, CR!Idle, CR!Resting
<1>4. QED
  BY <1>1, <1>2, <1>3 DEF CR!InitRegistry, CR!RegistryInv, CR!OncePlaced, CR!Listed, CR!DueOrDone, CR!OnlyMeant

\* What the invariant means.
LEMMA RegistryHolds == ASSUME CR!RegistryInv PROVE CR!CancelReaches /\ CR!RegistryExact
<1>1. CR!CancelReaches
  <2>1. ASSUME NEW c \in Cancellers, s4[c].at = "walk", s4[c].list = <<>>
        PROVE  s4[c].due \cap CR!Running \subseteq s6
    <3>1. DOMAIN s4[c].list = {}
      BY <2>1
    <3>2. QED
      BY <2>1, <3>1 DEF CR!RegistryInv, CR!DueOrDone
  <2>2. QED
    BY <2>1 DEF CR!CancelReaches, CR!RegistryInv, CR!OnlyMeant
<1>2. ASSUME NEW job \in CR!Running
      PROVE  CR!Cardinality({i \in DOMAIN s3 : s3[i] = job}) = 1
  <2>1. PICK w \in Handlers : s2[w].at = "runs" /\ s2[w].job = job
    BY DEF CR!Running
  <2>2. s2[w].index \in DOMAIN s3 /\ s3[s2[w].index] = job /\ job # 0
    BY <2>1, RegistryWho DEF CR!RegistryInv, CR!Listed
  <2>3. ASSUME NEW i \in DOMAIN s3, s3[i] = job
        PROVE  i = s2[w].index
    <3>1. PICK v \in Handlers : s2[v].at = "runs" /\ s2[v].index = i /\ s2[v].job = job
      BY <2>2, <2>3 DEF CR!RegistryInv, CR!Listed
    <3>2. v = w
      BY <2>1, <3>1 DEF CR!RegistryInv, CR!OncePlaced
    <3>3. QED
      BY <3>1, <3>2
  <2>4. {i \in DOMAIN s3 : s3[i] = job} = {s2[w].index}
    BY <2>2, <2>3
  <2>5. QED
    BY <2>4, FS_Singleton, RegistryCounts
<1>3. {s3[i] : i \in DOMAIN s3} \ {0} = CR!Running
  <2>1. ASSUME NEW i \in DOMAIN s3, s3[i] # 0
        PROVE  s3[i] \in CR!Running
    BY <2>1, RegistryWho DEF CR!RegistryInv, CR!Listed
  <2>2. ASSUME NEW job \in CR!Running
        PROVE  job # 0 /\ \E i \in DOMAIN s3 : s3[i] = job
    BY RegistryWho DEF CR!Running, CR!RegistryInv, CR!Listed
  <2>3. QED
    BY <2>1, <2>2
<1>4. CR!Running = {} => s3 = <<>>
  BY <1>3 DEF CR!RegistryInv, CR!Listed
<1>5. QED
  BY <1>1, <1>2, <1>3, <1>4 DEF CR!RegistryExact

-----------------------------------------------------------------------------
(***************************************************************************)
(* Files in volumes.  Of the variables that the parts share they have s1   *)
(* to s8: original, archive, parts, send, volumes, faults, posted and cut. *)
(* The archive is cut into parts from its beginning on, and unless an      *)
(* error that is ignored has cut something, what was posted are the parts  *)
(* before the next one (CutSoFar and PartsSoFar in Volumes.tla).           *)
(***************************************************************************)
\* The largest archive.
LEMMA MostIs == VO!Most \in Sizes /\ VO!Most \in Nat /\ Sizes \subseteq 0..VO!Most
<1>1. PICK most : most = CHOOSE m \in Sizes : \A k \in Sizes : k <= m
  OBVIOUS
<1>2. most \in Sizes /\ (\A k \in Sizes : k <= most) /\ Sizes \subseteq Nat
  BY <1>1, ServicesAssumption
<1>3. VO!Most = most
  BY <1>1, Zenon DEF VO!Most
<1>4. QED
  BY <1>2, <1>3

\* There is room for the name of every part.
LEMMA RoomForPart ==
    ASSUME NEW size \in 0..VO!Most, NEW n \in Nat, n * Limit < size
    PROVE  n + 1 \in VO!Places
<1>1. PICK most \in Nat : most = VO!Most /\ size <= most
  BY MostIs
<1>2. size \in Nat /\ Limit \in Nat /\ Limit > 0 /\ VO!Places = 1..(most \div Limit + 1)
  BY <1>1, ServicesAssumption DEF VO!Places
<1>3. PICK q \in Nat : q = most \div Limit /\ most < (q + 1) * Limit
  BY <1>2
<1>4. ~(q < n)
  <2>1. SUFFICES ASSUME q < n PROVE FALSE
    OBVIOUS
  <2>2. PICK d \in Nat : n = (q + 1) + d
    <3>1. n - (q + 1) \in Nat /\ n = (q + 1) + (n - (q + 1))
      BY <1>3, <2>1
    <3>2. QED
      BY <3>1
  <2>3. n * Limit = (q + 1) * Limit + d * Limit /\ d * Limit \in Nat /\ (q + 1) * Limit \in Nat
    BY <1>2, <1>3, <2>2
  <2>4. QED
    BY <1>1, <1>2, <1>3, <2>3
<1>5. QED
  BY <1>2, <1>3, <1>4

\* Where part k begins and how long it is.
LEMMA ChunkIs ==
    ASSUME NEW size \in Nat, NEW k \in Nat, k # 0, (k - 1) * Limit < size, s5 \in Nat
    PROVE  \E m, e \in Nat :
              /\ m = (k - 1) * Limit /\ m + e = VO!Least(k * Limit, size) /\ e \in 1..Limit /\ m < size
              /\ k * Limit = m + Limit
              /\ VO!Chunk(size, k) = [i \in 1..e |-> <<s5, m + i>>]
              /\ VO!Chunk(size, k) \in Seq(Nat \X Nat) /\ Len(VO!Chunk(size, k)) = e
<1>1. Limit \in Nat /\ Limit > 0
  BY ServicesAssumption
<1>2. PICK j \in Nat : k = j + 1 /\ k - 1 = j
  <2>1. k - 1 \in Nat /\ k = (k - 1) + 1
    OBVIOUS
  <2>2. QED
    BY <2>1
<1>3. PICK m \in Nat : m = j * Limit /\ (k - 1) * Limit = m /\ k * Limit = m + Limit
  <2>1. (j + 1) * Limit = j * Limit + Limit /\ j * Limit \in Nat
    BY <1>1
  <2>2. QED
    BY <1>2, <2>1
<1>4. PICK l \in Nat : l = VO!Least(k * Limit, size) /\ m < l /\ l <= m + Limit
  BY <1>1, <1>3 DEF VO!Least
<1>5. PICK e \in Nat : e = l - m /\ m + e = l /\ e \in 1..Limit
  <2>1. l - m \in Nat /\ m + (l - m) = l /\ l - m \in 1..Limit
    BY <1>1, <1>4
  <2>2. QED
    BY <2>1
<1>6. VO!Chunk(size, k) = [i \in 1..e |-> <<s5, m + i>>]
  BY <1>3, <1>4, <1>5 DEF VO!Chunk
<1>7. [i \in 1..e |-> <<s5, m + i>>] \in Seq(Nat \X Nat) /\ Len([i \in 1..e |-> <<s5, m + i>>]) = e
  <2>1. \A i \in 1..e : <<s5, m + i>> \in Nat \X Nat
    BY <1>5
  <2>2. QED
    BY <2>1
<1>8. QED
  BY <1>3, <1>4, <1>5, <1>6, <1>7

\* Where the cuts are after n parts.
LEMMA CutAfter ==
    ASSUME NEW size \in Nat, NEW n \in Nat, VO!Within(size, n)
    PROVE  /\ VO!Within(size, n + 1) <=> n * Limit < size
           /\ n * Limit < size => VO!Least(n * Limit, size) = n * Limit
           /\ ~(n * Limit < size) => VO!Least(n * Limit, size) = size /\ size <= n * Limit
           /\ VO!Least(n * Limit, size) \in Nat /\ n * Limit \in Nat
           /\ \A m \in Nat : m <= n => VO!Within(size, m)
<1>1. Limit \in Nat /\ Limit > 0 /\ n * Limit \in Nat /\ (n + 1) - 1 = n /\ n + 1 # 0
  BY ServicesAssumption
<1>2. VO!Within(size, n + 1) <=> n * Limit < size
  BY <1>1 DEF VO!Within
<1>3. ASSUME NEW m \in Nat, m <= n
      PROVE  VO!Within(size, m)
  <2>1. CASE m = 0
    BY <2>1 DEF VO!Within
  <2>2. CASE m # 0
    <3>1. PICK i \in Nat, d \in Nat : m - 1 = i /\ n - 1 = i + d
      <4>1. m - 1 \in Nat /\ n - m \in Nat /\ n - 1 = (m - 1) + (n - m)
        BY <1>3, <2>2
      <4>2. QED
        BY <4>1
    <3>2. (i + d) * Limit = i * Limit + d * Limit /\ d * Limit \in Nat /\ i * Limit \in Nat
      BY <1>1
    <3>3. (n - 1) * Limit < size
      BY <1>3, <2>2 DEF VO!Within
    <3>4. QED
      BY <3>1, <3>2, <3>3 DEF VO!Within
  <2>3. QED
    BY <2>1, <2>2
<1>4. QED
  BY <1>1, <1>2, <1>3 DEF VO!Least

\* What is cut off next is the next part.
LEMMA PieceIsChunk ==
    ASSUME s5 \in Nat, NEW size \in Nat, NEW n \in Nat, n * Limit < size,
           s2 = VO!Bytes(s5, size), s4.offset = n * Limit
    PROVE  VO!Piece = VO!Chunk(size, n + 1) /\ VO!Least(s4.offset + Limit, Len(s2)) = VO!Least((n + 1) * Limit, size)
<1>1. PICK m, e \in Nat :
         /\ m = n * Limit /\ m + e = VO!Least((n + 1) * Limit, size) /\ e \in 1..Limit /\ m < size
                          /\ (n + 1) * Limit = m + Limit
                          /\ VO!Chunk(size, n + 1) = [i \in 1..e |-> <<s5, m + i>>]
  <2>1. PICK k \in Nat : k = n + 1 /\ k - 1 = n /\ k # 0
    <3>1. n + 1 \in Nat /\ (n + 1) - 1 = n /\ n + 1 # 0
      OBVIOUS
    <3>2. QED
      BY <3>1
  <2>2. (k - 1) * Limit < size
    BY <2>1
  <2>3. PICK m, e \in Nat :
           /\ m = (k - 1) * Limit /\ m + e = VO!Least(k * Limit, size) /\ e \in 1..Limit /\ m < size
                            /\ k * Limit = m + Limit /\ VO!Chunk(size, k) = [i \in 1..e |-> <<s5, m + i>>]
                            /\ VO!Chunk(size, k) \in Seq(Nat \X Nat) /\ Len(VO!Chunk(size, k)) = e
    BY <2>1, <2>2, ChunkIs, Zenon
  <2>4. QED
    BY <2>1, <2>3
<1>2. PICK s : s = VO!Bytes(s5, size)
  OBVIOUS
<1>3. s \in Seq(Nat \X Nat) /\ Len(s) = size /\ \A i \in 1..size : s[i] = <<s5, i>>
  BY <1>2 DEF VO!Bytes
<1>4. Limit \in Nat /\ m + e <= size
  BY <1>1, ServicesAssumption DEF VO!Least
<1>5. VO!Piece = SubSeq(s, m + 1, m + e)
  <2>1. Len(s2) = size
    BY <1>2, <1>3
  <2>2. QED
    BY <1>1, <1>2, <2>1 DEF VO!Piece
<1>6. SubSeq(s, m + 1, m + e) = [i \in 1..e |-> s[m + i]]
  <2>1. (m + e) - (m + 1) + 1 = e
    BY <1>1
  <2>2. \A i \in 1..e : m + 1 + i - 1 = m + i
    BY <1>1
  <2>3. m + 1 \in Int /\ m + e \in Int /\ m + 1 <= m + e /\ \A i \in (m + 1)..(m + e) : s[i] \in Nat \X Nat
    <3>1. m + 1 \in Int /\ m + e \in Int /\ m + 1 <= m + e
      BY <1>1
    <3>2. \A i \in (m + 1)..(m + e) : i \in 1..size
      BY <1>1, <1>4
    <3>3. \A i \in 1..size : s[i] \in Nat \X Nat
      BY <1>3
    <3>4. QED
      BY <3>1, <3>2, <3>3
  <2>4. /\ SubSeq(s, m + 1, m + e) \in Seq(Nat \X Nat)
        /\ Len(SubSeq(s, m + 1, m + e)) = IF m + 1 <= m + e THEN (m + e) - (m + 1) + 1 ELSE 0
        /\ \A i \in 1..((m + e) - (m + 1) + 1) : SubSeq(s, m + 1, m + e)[i] = s[m + 1 + i - 1]
    BY <2>3, SubSeqProperties
  <2>5. PICK t : t = SubSeq(s, m + 1, m + e)
    OBVIOUS
  <2>6. t \in Seq(Nat \X Nat) /\ Len(t) = e /\ \A i \in 1..e : t[i] = s[m + i]
    BY <2>1, <2>2, <2>3, <2>4, <2>5
  <2>7. t = [i \in 1..e |-> s[m + i]]
    BY <2>6
  <2>8. QED
    BY <2>5, <2>7
<1>7. \A i \in 1..e : s[m + i] = <<s5, m + i>>
  <2>1. \A i \in 1..e : m + i \in 1..size
    BY <1>4
  <2>2. QED
    BY <1>3, <2>1, Zenon
<1>8. Len(s2) = size
  BY <1>2, <1>3
<1>9. QED
  BY <1>1, <1>5, <1>6, <1>7, <1>8

\* Put together, the first parts are the beginning of the archive.
LEMMA JoinedIs ==
    ASSUME NEW pieces, NEW f, f = [n \in 0..Len(pieces) |-> IF n = 0 THEN <<>> ELSE f[n - 1] \o pieces[n]],
           Len(pieces) \in Nat
    PROVE  VO!Joined(pieces) = f[Len(pieces)]
<1>1. PICK g : g = CHOOSE h : h = [n \in 0..Len(pieces) |-> IF n = 0 THEN <<>> ELSE h[n - 1] \o pieces[n]]
  OBVIOUS
<1>2. g = [n \in 0..Len(pieces) |-> IF n = 0 THEN <<>> ELSE g[n - 1] \o pieces[n]]
  BY <1>1, Zenon
<1>3. VO!Joined(pieces) = g[Len(pieces)]
  BY <1>1 DEF VO!Joined
<1>4. \A n \in 0..Len(pieces) : g[n] = f[n]
  <2> DEFINE Apart == {n \in 0..Len(pieces) : g[n] # f[n]}
  <2>1. SUFFICES ASSUME Apart # {} PROVE FALSE
    OBVIOUS
  <2>2. PICK n \in Apart : n = 0 \/ (n - 1 \in Nat /\ n - 1 \notin Apart)
    <3>1. Apart \in SUBSET Nat
      OBVIOUS
    <3>2. QED
      BY <2>1, <3>1, FirstOfThem
  <2>3. n \in 0..Len(pieces) /\ g[n] # f[n]
    OBVIOUS
  <2>4. CASE n = 0
    BY <1>2, <2>3, <2>4
  <2>5. CASE n # 0
    <3>1. n - 1 \in 0..Len(pieces) /\ g[n - 1] = f[n - 1]
      BY <2>2, <2>3, <2>5
    <3>2. QED
      BY <1>2, <2>3, <2>5, <3>1
  <2>6. QED
    BY <2>4, <2>5
<1>5. QED
  BY <1>3, <1>4

\* The first parts together: none is left out, and none is there twice.
LEMMA JoinedChunks ==
    ASSUME s5 \in Nat, NEW size \in Nat, NEW n \in Nat, VO!Within(size, n)
    PROVE  VO!Joined(VO!Chunks(size, n)) = VO!Bytes(s5, VO!Least(n * Limit, size)) /\ Len(VO!Chunks(size, n)) = n
<1> DEFINE upTo == [k \in 0..n |-> VO!Bytes(s5, VO!Least(k * Limit, size))]
<1>1. PICK pieces : pieces = VO!Chunks(size, n)
  OBVIOUS
<1>2. Len(pieces) = n /\ \A k \in 1..n : pieces[k] = VO!Chunk(size, k)
  BY <1>1 DEF VO!Chunks
<1>3. ASSUME NEW k \in 0..n
      PROVE  upTo[k] = IF k = 0 THEN <<>> ELSE upTo[k - 1] \o pieces[k]
  <2>1. CASE k = 0
    <3>1. 0 * Limit = 0 /\ VO!Least(0, size) = 0
      BY ServicesAssumption DEF VO!Least
    <3>2. VO!Bytes(s5, 0) = <<>>
      BY DEF VO!Bytes
    <3>3. QED
      BY <2>1, <3>1, <3>2
  <2>2. CASE k # 0
    <3>1. k \in Nat /\ k <= n /\ k - 1 \in 0..n /\ k \in 1..n
      BY <2>2
    <3>2. VO!Within(size, k)
      BY <3>1, CutAfter
    <3>3. (k - 1) * Limit < size
      BY <2>2, <3>2 DEF VO!Within
    <3>4. PICK m, e \in Nat :
             /\ m = (k - 1) * Limit /\ m + e = VO!Least(k * Limit, size) /\ e \in 1..Limit /\ m < size
                              /\ k * Limit = m + Limit
                              /\ VO!Chunk(size, k) = [i \in 1..e |-> <<s5, m + i>>]
                              /\ VO!Chunk(size, k) \in Seq(Nat \X Nat) /\ Len(VO!Chunk(size, k)) = e
      BY <2>2, <3>1, <3>3, ChunkIs, Zenon
    <3>5. VO!Least((k - 1) * Limit, size) = m
      BY <3>4 DEF VO!Least
    <3>6. PICK r, s, t : r = VO!Bytes(s5, m) /\ s = VO!Chunk(size, k) /\ t = r \o s
      OBVIOUS
    <3>7. r \in Seq(Nat \X Nat) /\ Len(r) = m /\ \A i \in 1..m : r[i] = <<s5, i>>
      BY <3>6 DEF VO!Bytes
    <3>8. s \in Seq(Nat \X Nat) /\ Len(s) = e /\ \A i \in 1..e : s[i] = <<s5, m + i>>
      BY <3>4, <3>6
    <3>9. /\ t \in Seq(Nat \X Nat) /\ Len(t) = m + e
          /\ \A i \in 1..(m + e) : t[i] = IF i <= m THEN r[i] ELSE s[i - m]
      <4>1. r \in Seq(Nat \X Nat) /\ s \in Seq(Nat \X Nat)
        BY <3>7, <3>8
      <4>2. /\ r \o s \in Seq(Nat \X Nat) /\ Len(r \o s) = Len(r) + Len(s)
            /\ \A i \in 1..(Len(r) + Len(s)) : (r \o s)[i] = IF i <= Len(r) THEN r[i] ELSE s[i - Len(r)]
        BY <4>1, ConcatProperties
      <4>3. QED
        <5>1. Len(r) = m /\ Len(s) = e /\ t = r \o s
          BY <3>6, <3>7, <3>8
        <5>2. QED
          BY <4>2, <5>1
    <3>10. ASSUME NEW i \in 1..(m + e)
           PROVE  t[i] = <<s5, i>>
      <4>1. CASE i <= m
        <5>1. i \in 1..m
          BY <4>1
        <5>2. t[i] = r[i]
          BY <3>9, <4>1
        <5>3. QED
          BY <3>7, <5>1, <5>2
      <4>2. CASE ~(i <= m)
        <5>1. i - m \in 1..e /\ m + (i - m) = i
          BY <4>2
        <5>2. t[i] = s[i - m]
          BY <3>9, <4>2
        <5>3. s[i - m] = <<s5, m + (i - m)>>
          BY <3>8, <5>1
        <5>4. QED
          BY <5>1, <5>2, <5>3
      <4>3. QED
        BY <4>1, <4>2
    <3>11. t = VO!Bytes(s5, m + e)
      <4>1. PICK l \in Nat : l = m + e
        BY <3>4
      <4>2. t = [i \in 1..l |-> t[i]]
        <5>1. t \in Seq(Nat \X Nat) /\ Len(t) = l
          BY <3>9, <4>1
        <5>2. QED
          BY <5>1
      <4>3. t = [i \in 1..l |-> <<s5, i>>]
        BY <3>10, <4>1, <4>2
      <4>4. QED
        BY <4>1, <4>3 DEF VO!Bytes
    <3>12. upTo[k - 1] = r /\ upTo[k] = VO!Bytes(s5, m + e)
      BY <3>1, <3>4, <3>5, <3>6
    <3>13. pieces[k] = s
      BY <1>2, <3>1, <3>6
    <3>14. QED
      BY <2>2, <3>6, <3>11, <3>12, <3>13
  <2>3. QED
    BY <2>1, <2>2
<1>4. PICK f : f = upTo
  OBVIOUS
<1>5. f = [k \in 0..n |-> IF k = 0 THEN <<>> ELSE f[k - 1] \o pieces[k]]
  BY <1>3, <1>4
<1>6. f[n] = VO!Bytes(s5, VO!Least(n * Limit, size))
  BY <1>4
<1> HIDE DEF upTo
<1>7. VO!Joined(pieces) = f[Len(pieces)]
  BY <1>2, <1>5, JoinedIs
<1>8. QED
  BY <1>1, <1>2, <1>6, <1>7

\* What is posted before anything is cut: nothing.
LEMMA NothingPosted == ASSUME NEW size PROVE VO!Chunks(size, 0) = <<>> /\ VO!Within(size, 0)
BY DEF VO!Chunks, VO!Within

\* One part more is posted.
LEMMA ChunkAdded ==
    ASSUME s5 \in Nat, NEW size \in Nat, NEW n \in Nat, VO!Within(size, n + 1)
    PROVE  Append(VO!Chunks(size, n), VO!Chunk(size, n + 1)) = VO!Chunks(size, n + 1)
<1>1. PICK r, s, p : r = VO!Chunks(size, n) /\ s = VO!Chunks(size, n + 1) /\ p = VO!Chunk(size, n + 1)
  OBVIOUS
<1>2. DEFINE All == {VO!Chunk(size, k) : k \in 1..(n + 1)}
<1>3. r \in Seq(All) /\ Len(r) = n /\ \A k \in 1..n : r[k] = VO!Chunk(size, k)
  BY <1>1 DEF VO!Chunks
<1>4. s \in Seq(All) /\ Len(s) = n + 1 /\ \A k \in 1..(n + 1) : s[k] = VO!Chunk(size, k)
  BY <1>1 DEF VO!Chunks
<1>5. p \in All
  BY <1>1
<1>6. PICK t : t = Append(r, p)
  OBVIOUS
<1>7. t \in Seq(All) /\ Len(t) = n + 1 /\ t[n + 1] = p /\ \A k \in 1..n : t[k] = r[k]
  BY <1>3, <1>5, <1>6, AppendProperties
<1>8. \A k \in 1..(n + 1) : t[k] = s[k]
  BY <1>1, <1>3, <1>4, <1>7
<1>9. t = s
  BY <1>4, <1>7, <1>8, SeqEqual
<1>10. QED
  BY <1>1, <1>6, <1>9

\* What a send is.
LEMMA SendIs ==
    ASSUME VO!VolumesInv
    PROVE  /\ s4 \in VO!Sends /\ s5 \in Nat /\ Limit \in Nat /\ s4.size \in Nat
           /\ s4.at # "rest" => s5 > 0 /\ s5 - 1 \in Nat /\ s4.size \in 0..VO!Most
           /\ 0..VO!Most \subseteq Nat
BY MostIs, ServicesAssumption DEF VO!VolumesInv, VO!VolumeShapes, VO!Sends

\* A send ends before all is posted.
LEMMA SendIsCut ==
    ASSUME VO!VolumesInv, s4.at \in {"zip", "split", "post"}, s4' = VO!Resting, s1' \in BOOLEAN,
           UNCHANGED <<s5, s7, s8>>, s3' \in [VO!Places -> Seq(Nat \X Nat)],
           \A k \in VO!Places : VO!Until(s5, k)'
    PROVE  VO!VolumesInv'
<1>1. s4' \in VO!Sends /\ s4'.at = "rest"
  BY DEF VO!Resting, VO!Sends
<1>2. VO!VolumeShapes'
  BY <1>1, SendIs DEF VO!VolumesInv, VO!VolumeShapes, VO!Places, VO!Most
<1>3. VO!CutSoFar'
  BY <1>1 DEF VO!CutSoFar
<1>4. ASSUME ~s8
      PROVE  VO!Exact'
  <2>1. PICK size \in 0..VO!Most, n \in Nat, m \in Nat :
           /\ size = s4.size /\ n = s4.names /\ m = s4.next - 1 /\ m <= n
           /\ VO!Within(size, n) /\ s7 = VO!Chunks(size, m)
    <3>1. s4.size \in 0..VO!Most /\ s4.names \in Nat /\ s4.next \in Nat
      BY SendIs DEF VO!Sends
    <3>2. s4.next \in 1..(s4.names + 1) /\ s7 = VO!Chunks(s4.size, s4.next - 1)
      BY <1>4 DEF VO!VolumesInv, VO!PartsSoFar, VO!Exact
    <3>3. s4.next - 1 \in Nat /\ s4.next - 1 <= s4.names
      BY <3>1, <3>2
    <3>4. VO!Within(s4.size, s4.names)
      <4>1. CASE s4.at = "zip"
        <5>1. s4.names = 0
          BY <4>1 DEF VO!VolumesInv, VO!CutSoFar
        <5>2. QED
          BY <5>1 DEF VO!Within
      <4>2. CASE s4.at # "zip"
        BY <4>2 DEF VO!VolumesInv, VO!CutSoFar
      <4>3. QED
        BY <4>1, <4>2
    <3>5. QED
      BY <3>1, <3>2, <3>3, <3>4
  <2>2. size \in Nat /\ VO!Within(size, m)
    BY <2>1, SendIs, CutAfter
  <2>3. Len(s7) = m
    BY <2>1, <2>2, SendIs, JoinedChunks
  <2>4. VO!Within(size, Len(s7))' /\ (s7 = VO!Chunks(size, Len(s7)))'
    BY <2>1, <2>2, <2>3 DEF VO!Within, VO!Chunks, VO!Chunk
  <2>5. size \in 0..VO!Most'
    BY DEF VO!Most
  <2>6. QED
    BY <1>1, <2>4, <2>5 DEF VO!Exact
<1>5. \A k \in VO!Places' : VO!Until(s5, k)'
  BY DEF VO!Places, VO!Most
<1>6. VO!PartsSoFar'
  BY <1>1, <1>4, <1>5 DEF VO!PartsSoFar
<1>7. QED
  BY <1>2, <1>3, <1>6 DEF VO!VolumesInv

\* A send begins: the parts that lie there are of others.
LEMMA SendStarts ==
    ASSUME VO!VolumesInv, NEW size \in Sizes, NEW cleanup \in BOOLEAN, VO!Start(size, cleanup)
    PROVE  VO!VolumesInv'
<1>1. /\ s5' = s5 + 1 /\ s7' = <<>> /\ UNCHANGED <<s1, s2, s3, s6>>
      /\ s4' = [VO!Resting EXCEPT !.at = "zip", !.size = size, !.cleanup = cleanup]
  BY DEF VO!Start
<1>2. /\ s4' \in VO!Sends /\ s4'.at = "zip" /\ s4'.size = size /\ s4'.names = 0 /\ s4'.offset = 0
      /\ s4'.next = 1
  BY <1>1, SendIs, MostIs DEF VO!Resting, VO!Sends
<1>3. s5' \in Nat /\ s5' > 0 /\ s5' - 1 = s5 /\ s5 \in Nat
  BY <1>1, SendIs
<1>8. s8' = FALSE
  BY DEF VO!Start
<1>4. VO!VolumeShapes'
  BY <1>1, <1>2, <1>3, <1>8, MostIs DEF VO!VolumesInv, VO!VolumeShapes, VO!Places, VO!Most
<1>5. VO!CutSoFar'
  BY <1>2 DEF VO!CutSoFar
<1>6. VO!PartsSoFar'
  <2>1. ASSUME NEW k \in VO!Places
        PROVE  VO!Until(s5, k)' /\ VO!Until(s5 - 1, k)'
    <3>1. \A b \in DOMAIN s3[k] : s3[k][b][1] <= s5
      BY DEF VO!VolumesInv, VO!PartsSoFar, VO!Until
    <3>2. \A b \in DOMAIN s3[k] : s3[k][b][1] \in Nat
      BY DEF VO!VolumesInv, VO!VolumeShapes
    <3>3. \A b \in DOMAIN s3[k] : s3[k][b][1] <= s5'
      BY <1>1, <1>3, <3>1, <3>2
    <3>4. QED
      BY <1>1, <1>3, <3>1, <3>3 DEF VO!Until
  <2>2. s7' = VO!Chunks(s4.size, s4.next - 1)'
    BY <1>1, <1>2 DEF VO!Chunks
  <2>3. \A k \in VO!Places' : k \notin s4'.next..s4'.names
    BY <1>2 DEF VO!Places, VO!Most
  <2>4. s4'.next \in 1..(s4'.names + 1)
    BY <1>2
  <2>5. \A k \in VO!Places' : VO!Until(s5, k)' /\ VO!Until(s5 - 1, k)'
    BY <2>1 DEF VO!Places, VO!Most
  <2>6. VO!Exact'
    BY <1>2, <2>2, <2>3, <2>5 DEF VO!Exact
  <2>7. QED
    BY <1>2, <2>4, <2>5, <2>6 DEF VO!PartsSoFar
<1>7. QED
  BY <1>4, <1>5, <1>6 DEF VO!VolumesInv

\* Where an archive of some size has been written, whole or not, the send goes on with its parts.
LEMMA SendGoesOn ==
    ASSUME VO!VolumesInv, s4.at = "zip", NEW size \in 0..VO!Most, s2' = VO!Bytes(s5, size),
           s4' = [s4 EXCEPT !.at = "split", !.size = size], UNCHANGED <<s1, s3, s5, s7>>,
           s8' = TRUE \/ (s8' = s8 /\ size = s4.size)
    PROVE  VO!VolumesInv'
<1>1. PICK old \in VO!Sends : old = s4
  BY SendIs
<1>2. PICK new : new = [old EXCEPT !.at = "split", !.size = size]
  OBVIOUS
<1>3. size \in Nat /\ s5 \in Nat /\ s5 > 0 /\ Limit \in Nat /\ s8' \in BOOLEAN
  BY SendIs DEF VO!VolumesInv, VO!VolumeShapes
<1>4. /\ new \in VO!Sends /\ new.at = "split" /\ new.size = size /\ new.names = old.names
      /\ new.offset = old.offset /\ new.next = old.next
  BY <1>2, <1>3 DEF VO!Sends
<1>5. s4' = new
  BY <1>1, <1>2
<1>6. s4.names = 0 /\ s4.offset = 0 /\ s4.next = 1
  BY DEF VO!VolumesInv, VO!CutSoFar, VO!PartsSoFar
<1>7. VO!VolumeShapes'
  BY <1>3, <1>4, <1>5 DEF VO!VolumesInv, VO!VolumeShapes, VO!Places, VO!Most
<1>8. VO!CutSoFar'
  <2>1. 0 * Limit = 0 /\ VO!Least(0, size) = 0
    BY <1>3 DEF VO!Least
  <2>2. VO!Within(s4.size, s4.names)' /\ (s4.offset = VO!Least(s4.names * Limit, s4.size))'
    BY <1>1, <1>4, <1>5, <1>6, <2>1 DEF VO!Within, VO!Least
  <2>3. (s2 = VO!Bytes(s5, s4.size))'
    BY <1>4, <1>5 DEF VO!Bytes
  <2>4. QED
    BY <1>4, <1>5, <2>2, <2>3 DEF VO!CutSoFar
<1>9. VO!PartsSoFar'
  <2>1. ASSUME ~s8'
        PROVE  VO!Exact'
    <3>1. ~s8 /\ size = s4.size
      BY <2>1
    <3>2. s7 = VO!Chunks(size, 0) /\ \A k \in VO!Places : VO!Until(s5 - 1, k)
      <4>1. 1 - 1 = 0 /\ \A k : k \notin 1..0
        OBVIOUS
      <4>2. QED
        BY <1>6, <3>1, <4>1 DEF VO!VolumesInv, VO!PartsSoFar, VO!Exact
    <3>3. (s7 = VO!Chunks(size, 0))' /\ \A k \in VO!Places' : VO!Until(s5 - 1, k)'
      BY <3>2 DEF VO!Chunks, VO!Chunk, VO!Until, VO!Places, VO!Most
    <3>4. s4'.at = "split" /\ s4'.size = size /\ s4'.names = 0 /\ s4'.next = 1 /\ 1 - 1 = 0 /\ \A k : k \notin 1..0
      BY <1>1, <1>4, <1>5, <1>6
    <3>5. QED
      BY <3>3, <3>4 DEF VO!Exact
  <2>2. \A k \in VO!Places' : VO!Until(s5, k)'
    BY DEF VO!VolumesInv, VO!PartsSoFar, VO!Until, VO!Places, VO!Most
  <2>3. s4'.at = "split" /\ s4'.next = 1 /\ s4'.next \in 1..(s4'.names + 1)
    BY <1>1, <1>4, <1>5, <1>6
  <2>4. QED
    BY <2>1, <2>2, <2>3 DEF VO!PartsSoFar
<1>10. QED
  BY <1>7, <1>8, <1>9 DEF VO!VolumesInv

\* The archive is written, in part perhaps, or is not.
LEMMA SendCompresses == ASSUME VO!VolumesInv, VO!Compress PROVE VO!VolumesInv'
<1>1. s4.at = "zip" /\ UNCHANGED <<s3, s5, s7>> /\ s4 \in VO!Sends /\ s5 \in Nat /\ s4.size \in 0..VO!Most
  BY SendIs DEF VO!Compress
<1>2. CASE VO!Ends /\ UNCHANGED s8
  <2>1. s3' \in [VO!Places -> Seq(Nat \X Nat)] /\ \A k \in VO!Places : VO!Until(s5, k)'
    BY <1>1 DEF VO!VolumesInv, VO!VolumeShapes, VO!PartsSoFar, VO!Until
  <2>2. s4' = VO!Resting /\ s1' \in BOOLEAN
    BY <1>2 DEF VO!Ends, VO!VolumesInv, VO!VolumeShapes
  <2>3. QED
    BY <1>1, <1>2, <2>1, <2>2, SendIsCut
<1>3. CASE s2' = VO!Bytes(s5, s4.size) /\ s4' = [s4 EXCEPT !.at = "split"] /\ UNCHANGED <<s1, s8>>
  <2>1. s4' = [s4 EXCEPT !.at = "split", !.size = s4.size]
    BY <1>1, <1>3 DEF VO!Sends
  <2>2. QED
    BY <1>1, <1>3, <2>1, SendGoesOn
<1>4. CASE \E n \in 0..s4.size - 1 :
              /\ s2' = VO!Bytes(s5, n) /\ s4' = [s4 EXCEPT !.at = "split", !.size = n]
              /\ s8' = TRUE /\ UNCHANGED s1
  <2>1. PICK n \in 0..s4.size - 1 : /\ s2' = VO!Bytes(s5, n) /\ s4' = [s4 EXCEPT !.at = "split", !.size = n]
                                    /\ s8' = TRUE /\ UNCHANGED s1
    BY <1>4
  <2>2. n \in 0..VO!Most
    BY <1>1, MostIs
  <2>3. QED
    BY <1>1, <2>1, <2>2, SendGoesOn
<1>5. QED
  BY <1>2, <1>3, <1>4 DEF VO!Compress

\* The bytes of a part are those of its send.
LEMMA ChunkBytes ==
    ASSUME s5 \in Nat, NEW size \in Nat, NEW k \in Nat, k # 0, (k - 1) * Limit < size
    PROVE  /\ VO!Chunk(size, k) \in Seq(Nat \X Nat)
           /\ \A b \in DOMAIN VO!Chunk(size, k) : VO!Chunk(size, k)[b][1] = s5
<1>1. PICK m, e \in Nat :
         /\ m = (k - 1) * Limit /\ m + e = VO!Least(k * Limit, size) /\ e \in 1..Limit /\ m < size
                          /\ k * Limit = m + Limit
                          /\ VO!Chunk(size, k) = [i \in 1..e |-> <<s5, m + i>>]
                          /\ VO!Chunk(size, k) \in Seq(Nat \X Nat) /\ Len(VO!Chunk(size, k)) = e
  BY ChunkIs, Zenon
<1>2. QED
  BY <1>1

\* A part is cut off, and the next one follows.
LEMMA SendCuts ==
    ASSUME VO!VolumesInv, s4.at = "split", s4.offset < Len(s2),
           s3' = [s3 EXCEPT ![s4.names + 1] = VO!Piece],
           s4' = [s4 EXCEPT !.offset = VO!Least(s4.offset + Limit, Len(s2)), !.names = s4.names + 1],
           UNCHANGED <<s1, s2, s5, s7, s8>>
    PROVE  VO!VolumesInv'
<1>1. PICK old \in VO!Sends : old = s4
  BY SendIs
<1>2. PICK size \in Nat, n \in Nat, offset \in Nat : size = old.size /\ n = old.names /\ offset = old.offset
  BY DEF VO!Sends
<1>3. /\ s5 \in Nat /\ s5 > 0 /\ s5 - 1 \in Nat /\ size \in 0..VO!Most /\ Limit \in Nat
      /\ VO!Within(size, n) /\ offset = VO!Least(n * Limit, size) /\ s2 = VO!Bytes(s5, size)
      /\ old.next = 1
      /\ ~s8 => /\ s7 = VO!Chunks(size, 0)
                /\ \A k \in VO!Places : IF k \in 1..n THEN s3[k] = VO!Chunk(size, k) ELSE VO!Until(s5 - 1, k)
      /\ \A k \in VO!Places : VO!Until(s5, k)
  <2>1. s4.next = 1 /\ s4.next - 1 = 0
    BY DEF VO!VolumesInv, VO!PartsSoFar
  <2>2. QED
    BY <1>1, <1>2, <2>1, SendIs DEF VO!VolumesInv, VO!CutSoFar, VO!PartsSoFar, VO!Exact
<1>4. Len(s2) = size
  BY <1>3 DEF VO!Bytes
<1>5. n * Limit < size /\ offset = n * Limit /\ VO!Within(size, n + 1) /\ n + 1 \in VO!Places
  <2>1. VO!Least(n * Limit, size) < size
    BY <1>1, <1>2, <1>3, <1>4
  <2>2. n * Limit < size
    BY <1>3, <2>1, CutAfter
  <2>3. QED
    BY <1>3, <2>2, CutAfter, RoomForPart
<1>6. VO!Piece = VO!Chunk(size, n + 1) /\ VO!Least(s4.offset + Limit, Len(s2)) = VO!Least((n + 1) * Limit, size)
  BY <1>1, <1>2, <1>3, <1>5, PieceIsChunk
<1>7. /\ VO!Chunk(size, n + 1) \in Seq(Nat \X Nat)
      /\ \A b \in DOMAIN VO!Chunk(size, n + 1) : VO!Chunk(size, n + 1)[b][1] = s5
  <2>1. PICK k \in Nat : k = n + 1 /\ k # 0 /\ k - 1 = n
    <3>1. n + 1 \in Nat /\ n + 1 # 0 /\ (n + 1) - 1 = n
      OBVIOUS
    <3>2. QED
      BY <3>1
  <2>2. (k - 1) * Limit < size
    BY <1>5, <2>1
  <2>3. QED
    BY <1>3, <2>1, <2>2, ChunkBytes
<1>8. VO!Least((n + 1) * Limit, size) \in Nat /\ n + 1 \in Nat
  <2>1. n + 1 \in Nat
    OBVIOUS
  <2>2. QED
    BY <1>5, <2>1, CutAfter
<1>9. PICK new : new = [old EXCEPT !.offset = VO!Least((n + 1) * Limit, size), !.names = n + 1]
  OBVIOUS
<1>10. /\ new \in VO!Sends /\ new.at = "split" /\ new.size = size /\ new.names = n + 1 /\ new.next = 1
       /\ new.offset = VO!Least((n + 1) * Limit, size)
  BY <1>1, <1>2, <1>3, <1>8, <1>9 DEF VO!Sends
<1>11. s4' = new
  BY <1>1, <1>2, <1>6, <1>9
<1>12. /\ s3' \in [VO!Places -> Seq(Nat \X Nat)] /\ s3'[n + 1] = VO!Chunk(size, n + 1)
       /\ \A k \in VO!Places : k # n + 1 => s3'[k] = s3[k]
  <2>1. s3' = [s3 EXCEPT ![n + 1] = VO!Chunk(size, n + 1)]
    BY <1>1, <1>2, <1>6
  <2>2. s3 \in [VO!Places -> Seq(Nat \X Nat)]
    BY DEF VO!VolumesInv, VO!VolumeShapes
  <2>3. QED
    BY <1>5, <1>7, <2>1, <2>2
<1>13. VO!VolumeShapes'
  BY <1>3, <1>10, <1>11, <1>12 DEF VO!VolumesInv, VO!VolumeShapes, VO!Places, VO!Most
<1>14. VO!CutSoFar'
  <2>1. VO!Within(size, n + 1)' /\ (s2 = VO!Bytes(s5, size))'
    BY <1>3, <1>5 DEF VO!Within, VO!Bytes
  <2>2. QED
    BY <1>10, <1>11, <2>1 DEF VO!CutSoFar, VO!Least, VO!Within, VO!Bytes
<1>15. VO!PartsSoFar'
  <2>1. ~s8 => (s7 = VO!Chunks(size, 0))'
    BY <1>3 DEF VO!Chunks
  <2>2. 1 \in 1..((n + 1) + 1) /\ 1 - 1 = 0
    OBVIOUS
  <2>3. ASSUME NEW k \in VO!Places
        PROVE  /\ ~s8 => IF k \in 1..(n + 1) THEN s3'[k] = VO!Chunk(size, k)
                         ELSE \A b \in DOMAIN s3'[k] : s3'[k][b][1] <= s5 - 1
               /\ \A b \in DOMAIN s3'[k] : s3'[k][b][1] <= s5
    <3>1. CASE k = n + 1
      <4>1. k \in 1..(n + 1)
        BY <3>1
      <4>2. s3'[k] = VO!Chunk(size, k) /\ \A b \in DOMAIN VO!Chunk(size, k) : VO!Chunk(size, k)[b][1] = s5
        BY <1>7, <1>12, <3>1
      <4>3. s5 <= s5
        BY <1>3
      <4>4. QED
        BY <4>1, <4>2, <4>3
    <3>2. CASE k # n + 1
      <4>1. k \in 1..(n + 1) <=> k \in 1..n
        BY <3>2 DEF VO!Places
      <4>2. QED
        BY <1>3, <1>12, <3>2, <4>1 DEF VO!Until
    <3>3. QED
      BY <3>1, <3>2
  <2>4. \A k \in VO!Places' : VO!Until(s5, k)'
    BY <2>3 DEF VO!Places, VO!Most, VO!Until
  <2>5. ~s8 => \A k \in VO!Places' : IF k \in 1..(n + 1) THEN s3'[k] = VO!Chunk(size, k)' ELSE VO!Until(s5 - 1, k)'
    BY <2>3 DEF VO!Places, VO!Most, VO!Until, VO!Chunk
  <2>6. ASSUME ~s8
        PROVE  VO!Exact'
    BY <1>10, <1>11, <2>1, <2>2, <2>5, <2>6 DEF VO!Exact, VO!Chunks, VO!Chunk
  <2>7. QED
    BY <1>10, <1>11, <2>2, <2>4, <2>6 DEF VO!PartsSoFar
<1>16. QED
  BY <1>13, <1>14, <1>15 DEF VO!VolumesInv

\* A piece of the part stays.
LEMMA PartIsTorn ==
    ASSUME VO!VolumesInv, s4.at = "split", s4.offset < Len(s2), NEW m \in 0..(Len(VO!Piece) - 1),
           s3' = [s3 EXCEPT ![s4.names + 1] = SubSeq(VO!Piece, 1, m)], UNCHANGED s5
    PROVE  s3' \in [VO!Places -> Seq(Nat \X Nat)] /\ \A j \in VO!Places : VO!Until(s5, j)'
<1>1. PICK size \in Nat, n \in Nat : size = s4.size /\ n = s4.names
  BY SendIs DEF VO!Sends
<1>2. /\ s5 \in Nat /\ Limit \in Nat /\ VO!Within(size, n) /\ s4.offset = VO!Least(n * Limit, size)
      /\ s2 = VO!Bytes(s5, size)
  BY <1>1, SendIs DEF VO!VolumesInv, VO!CutSoFar
<1>3. Len(s2) = size
  BY <1>2 DEF VO!Bytes
<1>4. n * Limit < size /\ s4.offset = n * Limit
  <2>1. VO!Least(n * Limit, size) < size
    BY <1>1, <1>2, <1>3
  <2>2. n * Limit < size
    BY <1>2, <2>1, CutAfter
  <2>3. QED
    BY <1>2, <2>2, CutAfter
<1>5. PICK k \in Nat : k = n + 1 /\ k # 0 /\ k - 1 = n
  <2>1. n + 1 \in Nat /\ n + 1 # 0 /\ (n + 1) - 1 = n
    OBVIOUS
  <2>2. QED
    BY <2>1
<1>6. PICK p : p = VO!Piece
  OBVIOUS
<1>7. p \in Seq(Nat \X Nat) /\ \A b \in DOMAIN p : p[b][1] = s5
  <2>1. p = VO!Chunk(size, k)
    BY <1>2, <1>4, <1>5, <1>6, PieceIsChunk
  <2>2. (k - 1) * Limit < size
    BY <1>4, <1>5
  <2>3. QED
    BY <1>2, <1>5, <2>1, <2>2, ChunkBytes
<1>8. PICK t : t = SubSeq(p, 1, m)
  OBVIOUS
<1>9. t \in Seq(Nat \X Nat) /\ \A b \in DOMAIN t : t[b][1] = s5
  <2>1. Len(p) \in Nat /\ m \in Nat /\ m <= Len(p) /\ DOMAIN p = 1..Len(p)
    BY <1>6, <1>7
  <2>2. \A i \in 1..m : p[i] \in Nat \X Nat
    BY <1>7, <2>1
  <2>3. 1 \in Int /\ m \in Int /\ m - 1 + 1 = m
    BY <2>1
  <2>4. /\ SubSeq(p, 1, m) \in Seq(Nat \X Nat) /\ Len(SubSeq(p, 1, m)) = IF 1 <= m THEN m - 1 + 1 ELSE 0
        /\ \A i \in 1..(m - 1 + 1) : SubSeq(p, 1, m)[i] = p[1 + i - 1]
    BY <2>2, <2>3, SubSeqProperties
  <2>5. t \in Seq(Nat \X Nat) /\ Len(t) = m /\ DOMAIN t = 1..m
    BY <1>8, <2>1, <2>3, <2>4
  <2>6. \A i \in 1..m : 1 + i - 1 = i /\ i \in DOMAIN p
    BY <2>1
  <2>7. QED
    BY <1>7, <1>8, <2>3, <2>4, <2>5, <2>6
<1>10. s3' = [s3 EXCEPT ![n + 1] = t]
  BY <1>1, <1>6, <1>8
<1>11. s3' \in [VO!Places -> Seq(Nat \X Nat)]
  BY <1>9, <1>10 DEF VO!VolumesInv, VO!VolumeShapes
<1>12. ASSUME NEW j \in VO!Places
       PROVE  VO!Until(s5, j)'
  <2>1. \A b \in DOMAIN s3[j] : s3[j][b][1] <= s5
    BY DEF VO!VolumesInv, VO!PartsSoFar, VO!Until
  <2>2. s3'[j] = IF j = n + 1 THEN t ELSE s3[j]
    BY <1>10 DEF VO!VolumesInv, VO!VolumeShapes
  <2>3. \A b \in DOMAIN s3'[j] : s3'[j][b][1] <= s5
    <3>1. s5 <= s5
      BY <1>2
    <3>2. CASE j = n + 1
      BY <1>9, <2>2, <3>1, <3>2
    <3>3. CASE j # n + 1
      BY <2>1, <2>2, <3>3
    <3>4. QED
      BY <3>2, <3>3
  <2>4. QED
    BY <2>3 DEF VO!Until
<1>13. QED
  BY <1>11, <1>12

\* The disk is full, and the send is over.
LEMMA SendIsTorn ==
    ASSUME VO!VolumesInv, s4.at = "split", s4.offset < Len(s2), NEW m \in 0..(Len(VO!Piece) - 1),
           s3' = [s3 EXCEPT ![s4.names + 1] = SubSeq(VO!Piece, 1, m)], VO!Ends,
           UNCHANGED <<s5, s7, s8>>
    PROVE  VO!VolumesInv'
<1>1. s4' = VO!Resting /\ s1' \in BOOLEAN
  BY DEF VO!Ends, VO!VolumesInv, VO!VolumeShapes
<1>2. QED
  BY <1>1, PartIsTorn, SendIsCut

\* Nobody looks, and the next part follows.
LEMMA SendIsCutShort ==
    ASSUME VO!VolumesInv, s4.at = "split", s4.offset < Len(s2), NEW m \in 0..(Len(VO!Piece) - 1),
           s3' = [s3 EXCEPT ![s4.names + 1] = SubSeq(VO!Piece, 1, m)],
           s4' = [s4 EXCEPT !.offset = VO!Least(s4.offset + Limit, Len(s2)), !.names = s4.names + 1],
           s8' = TRUE, UNCHANGED <<s1, s2, s5, s7>>
    PROVE  VO!VolumesInv'
<1>1. PICK old \in VO!Sends : old = s4
  BY SendIs
<1>2. PICK size \in Nat, n \in Nat, offset \in Nat : size = old.size /\ n = old.names /\ offset = old.offset
  BY DEF VO!Sends
<1>3. /\ s5 \in Nat /\ s5 > 0 /\ size \in 0..VO!Most /\ Limit \in Nat
      /\ VO!Within(size, n) /\ offset = VO!Least(n * Limit, size) /\ s2 = VO!Bytes(s5, size)
      /\ old.next = 1
  BY <1>1, <1>2, SendIs DEF VO!VolumesInv, VO!CutSoFar, VO!PartsSoFar
<1>4. Len(s2) = size
  BY <1>3 DEF VO!Bytes
<1>5. n * Limit < size /\ offset = n * Limit /\ VO!Within(size, n + 1)
  <2>1. VO!Least(n * Limit, size) < size
    BY <1>1, <1>2, <1>3, <1>4
  <2>2. n * Limit < size
    BY <1>3, <2>1, CutAfter
  <2>3. QED
    BY <1>3, <2>2, CutAfter
<1>6. VO!Least(s4.offset + Limit, Len(s2)) = VO!Least((n + 1) * Limit, size)
  BY <1>1, <1>2, <1>3, <1>5, PieceIsChunk
<1>7. VO!Least((n + 1) * Limit, size) \in Nat /\ n + 1 \in Nat
  <2>1. n + 1 \in Nat
    OBVIOUS
  <2>2. QED
    BY <1>5, <2>1, CutAfter
<1>8. PICK new : new = [old EXCEPT !.offset = VO!Least((n + 1) * Limit, size), !.names = n + 1]
  OBVIOUS
<1>9. /\ new \in VO!Sends /\ new.at = "split" /\ new.size = size /\ new.names = n + 1 /\ new.next = 1
      /\ new.offset = VO!Least((n + 1) * Limit, size)
  BY <1>1, <1>2, <1>3, <1>7, <1>8 DEF VO!Sends
<1>10. s4' = new
  BY <1>1, <1>2, <1>6, <1>8
<1>11. s3' \in [VO!Places -> Seq(Nat \X Nat)] /\ \A j \in VO!Places : VO!Until(s5, j)'
  BY PartIsTorn
<1>12. VO!VolumeShapes'
  BY <1>3, <1>9, <1>10, <1>11 DEF VO!VolumesInv, VO!VolumeShapes, VO!Places, VO!Most
<1>13. VO!CutSoFar'
  <2>1. VO!Within(size, n + 1)' /\ (s2 = VO!Bytes(s5, size))'
    BY <1>3, <1>5 DEF VO!Within, VO!Bytes
  <2>2. QED
    BY <1>9, <1>10, <2>1 DEF VO!CutSoFar, VO!Least, VO!Within, VO!Bytes
<1>14. VO!PartsSoFar'
  <2>1. 1 \in 1..((n + 1) + 1)
    OBVIOUS
  <2>2. \A j \in VO!Places' : VO!Until(s5, j)'
    BY <1>11 DEF VO!Places, VO!Most
  <2>3. QED
    BY <1>9, <1>10, <2>1, <2>2 DEF VO!PartsSoFar
<1>15. QED
  BY <1>12, <1>13, <1>14 DEF VO!VolumesInv

\* All parts are cut, and the archive goes.
LEMMA SendIsSplit ==
    ASSUME VO!VolumesInv, s4.at = "split", ~(s4.offset < Len(s2)), s4' = [s4 EXCEPT !.at = "post"],
           UNCHANGED <<s1, s3, s5, s7, s8>>
    PROVE  VO!VolumesInv'
<1>1. PICK old \in VO!Sends : old = s4
  BY SendIs
<1>2. PICK new : new = [old EXCEPT !.at = "post"]
  OBVIOUS
<1>3. /\ new \in VO!Sends /\ new.at = "post" /\ new.size = old.size /\ new.names = old.names
      /\ new.offset = old.offset
      /\ new.next = old.next /\ s4' = new
  BY <1>1, <1>2 DEF VO!Sends
<1>4. /\ old.size \in Nat /\ old.names \in Nat /\ old.offset \in Nat /\ s5 > 0
      /\ VO!Within(old.size, old.names) /\ old.offset = VO!Least(old.names * Limit, old.size)
      /\ s2 = VO!Bytes(s5, old.size) /\ Limit \in Nat
  BY <1>1, SendIs DEF VO!VolumesInv, VO!CutSoFar, VO!Sends
<1>5. old.offset = old.size
  <2>1. Len(s2) = old.size
    BY <1>4 DEF VO!Bytes
  <2>2. ~(old.offset < old.size)
    BY <1>1, <2>1
  <2>3. PICK cut \in Nat : cut = old.names * Limit
    BY <1>4
  <2>4. QED
    BY <1>4, <2>2, <2>3 DEF VO!Least
<1>6. VO!VolumeShapes'
  BY <1>1, <1>3, SendIs DEF VO!VolumesInv, VO!VolumeShapes, VO!Places, VO!Most
<1>7. VO!CutSoFar'
  BY <1>3, <1>4, <1>5 DEF VO!CutSoFar, VO!Within, VO!Least
<1>8. VO!PartsSoFar'
  <2>1. ASSUME ~s8
        PROVE  VO!Exact'
    BY <1>1, <1>3, <2>1 DEF VO!VolumesInv, VO!PartsSoFar, VO!Exact, VO!Chunks, VO!Chunk, VO!Until, VO!Places, VO!Most
  <2>2. QED
    BY <1>1, <1>3, <2>1 DEF VO!VolumesInv, VO!PartsSoFar, VO!Until, VO!Places, VO!Most
<1>9. QED
  BY <1>6, <1>7, <1>8 DEF VO!VolumesInv

\* The archive is cut, step by step.
LEMMA SendSplits == ASSUME VO!VolumesInv, VO!Split PROVE VO!VolumesInv'
<1>1. CASE s4.offset < Len(s2)
  <2>1. UNCHANGED <<s5, s7>> /\ s4.at = "split"
    BY DEF VO!Split
  <2>2. CASE /\ s3' = [s3 EXCEPT ![s4.names + 1] = VO!Piece]
             /\ s4' = [s4 EXCEPT !.offset = VO!Least(s4.offset + Limit, Len(s2)), !.names = s4.names + 1]
             /\ UNCHANGED <<s1, s2, s8>>
    BY <1>1, <2>1, <2>2, SendCuts
  <2>3. CASE \E m \in 0..(Len(VO!Piece) - 1) :
                /\ s3' = [s3 EXCEPT ![s4.names + 1] = SubSeq(VO!Piece, 1, m)]
                /\ VO!Ends /\ UNCHANGED s8
    BY <1>1, <2>1, <2>3, SendIsTorn
  <2>4. CASE \E m \in 0..(Len(VO!Piece) - 1) :
                /\ s3' = [s3 EXCEPT ![s4.names + 1] = SubSeq(VO!Piece, 1, m)]
                /\ s4' = [s4 EXCEPT !.offset = VO!Least(s4.offset + Limit, Len(s2)), !.names = s4.names + 1]
                /\ s8' = TRUE /\ UNCHANGED <<s1, s2>>
    BY <1>1, <2>1, <2>4, SendIsCutShort
  <2>5. QED
    BY <1>1, <2>2, <2>3, <2>4 DEF VO!Split
<1>2. CASE ~(s4.offset < Len(s2))
  BY <1>2, SendIsSplit DEF VO!Split
<1>3. QED
  BY <1>1, <1>2

\* A part is posted or is not, and is gone.
LEMMA SendPosts == ASSUME VO!VolumesInv, VO!Post PROVE VO!VolumesInv'
<1>1. PICK old \in VO!Sends : old = s4
  BY SendIs
<1>2. PICK size \in Nat, n \in Nat, m \in Nat : size = old.size /\ n = old.names /\ m + 1 = old.next
  <2>1. old.next \in Nat /\ old.next # 0
    BY <1>1 DEF VO!VolumesInv, VO!PartsSoFar, VO!Post, VO!Sends
  <2>2. old.next - 1 \in Nat /\ (old.next - 1) + 1 = old.next
    BY <2>1
  <2>3. QED
    BY <2>2 DEF VO!Sends
<1>3. /\ s5 \in Nat /\ s5 > 0 /\ s5 - 1 \in Nat /\ size \in 0..VO!Most /\ old.at = "post" /\ m + 1 <= n
      /\ VO!Within(size, n) /\ old.offset = VO!Least(n * Limit, size) /\ old.offset = size
      /\ ~s8 => /\ s7 = VO!Chunks(size, (m + 1) - 1)
                /\ \A k \in VO!Places : IF k \in (m + 1)..n THEN s3[k] = VO!Chunk(size, k) ELSE VO!Until(s5 - 1, k)
      /\ s8' = s8
      /\ \A k \in VO!Places : VO!Until(s5, k)
      /\ s3 \in [VO!Places -> Seq(Nat \X Nat)]
  BY <1>1, <1>2, SendIs DEF VO!VolumesInv, VO!VolumeShapes, VO!CutSoFar, VO!PartsSoFar, VO!Exact, VO!Post
<1>4. (~s8 => s7 = VO!Chunks(size, m)) /\ VO!Within(size, m + 1) /\ m + 1 \in VO!Places /\ m + 1 \in (m + 1)..n
  <2>1. (m + 1) - 1 = m /\ m + 1 \in Nat /\ m + 1 \in (m + 1)..n
    BY <1>3
  <2>2. VO!Within(size, m + 1)
    BY <1>3, <2>1, CutAfter
  <2>3. m * Limit < size
    BY <2>1, <2>2 DEF VO!Within
  <2>4. QED
    BY <1>3, <2>1, <2>2, <2>3, RoomForPart
<1>5. s3' = [s3 EXCEPT ![m + 1] = VO!None]
  BY <1>1, <1>2 DEF VO!Post
<1>6. VO!None \in Seq(Nat \X Nat) /\ \A b \in DOMAIN VO!None : VO!None[b][1] = 0
  BY DEF VO!None
<1>7. /\ s3' \in [VO!Places -> Seq(Nat \X Nat)] /\ s3'[m + 1] = VO!None
      /\ \A k \in VO!Places : k # m + 1 => s3'[k] = s3[k]
  BY <1>3, <1>4, <1>5, <1>6
<1>8. ASSUME NEW k \in VO!Places
      PROVE  /\ ~s8 => IF k \in (m + 2)..n THEN s3'[k] = VO!Chunk(size, k)
                       ELSE \A b \in DOMAIN s3'[k] : s3'[k][b][1] <= s5 - 1
             /\ \A b \in DOMAIN s3'[k] : s3'[k][b][1] <= s5
  <2>1. CASE k = m + 1
    <3>1. k \notin (m + 2)..n /\ 0 <= s5 - 1 /\ 0 <= s5
      BY <1>3, <2>1
    <3>2. QED
      BY <1>6, <1>7, <2>1, <3>1
  <2>2. CASE k # m + 1
    <3>1. k \in (m + 2)..n <=> k \in (m + 1)..n
      BY <2>2 DEF VO!Places
    <3>2. QED
      BY <1>3, <1>7, <2>2, <3>1 DEF VO!Until
  <2>3. QED
    BY <2>1, <2>2
<1>9. \A k \in VO!Places : VO!Until(s5, k)'
  BY <1>8 DEF VO!Until, VO!Post
<1>10. CASE VO!Ends /\ UNCHANGED s7
  <2>1. s4' = VO!Resting /\ s1' \in BOOLEAN /\ s4.at = "post" /\ UNCHANGED <<s5, s7, s8>>
    BY <1>3, <1>10 DEF VO!Ends, VO!Post, VO!VolumesInv, VO!VolumeShapes
  <2>2. QED
    BY <1>7, <1>9, <2>1, SendIsCut
<1>11. CASE /\ s7' = Append(s7, s3[s4.next]) /\ s4' = [s4 EXCEPT !.next = s4.next + 1]
            /\ UNCHANGED s1
  <2>1. ~s8 => s7' = VO!Chunks(size, m + 1)
    <3>1. ~s8 => s7' = Append(VO!Chunks(size, m), VO!Chunk(size, m + 1))
      BY <1>1, <1>2, <1>3, <1>4, <1>11
    <3>2. QED
      BY <1>3, <1>4, <3>1, ChunkAdded
  <2>2. PICK new : new = [old EXCEPT !.next = m + 2]
    OBVIOUS
  <2>3. /\ new \in VO!Sends /\ new.at = "post" /\ new.size = size /\ new.names = n /\ new.offset = old.offset
        /\ new.next = m + 2
    <3>1. m + 2 \in Nat
      OBVIOUS
    <3>2. QED
      BY <1>2, <1>3, <2>2, <3>1 DEF VO!Sends
  <2>4. s4' = new
    <3>1. (m + 1) + 1 = m + 2
      OBVIOUS
    <3>2. QED
      BY <1>1, <1>2, <1>11, <2>2, <3>1
  <2>5. UNCHANGED <<s5, s2>>
    BY DEF VO!Post
  <2>6. VO!VolumeShapes'
    BY <1>3, <1>7, <1>11, <2>3, <2>4, <2>5 DEF VO!VolumesInv, VO!VolumeShapes, VO!Places, VO!Most
  <2>7. VO!CutSoFar'
    BY <1>3, <2>3, <2>4 DEF VO!CutSoFar, VO!Within, VO!Least
  <2>8. VO!PartsSoFar'
    <3>1. ~s8 => (s7 = VO!Chunks(size, m + 1))'
      BY <2>1, <2>5 DEF VO!Chunks, VO!Chunk
    <3>2. m + 2 \in 1..(n + 1) /\ (m + 2) - 1 = m + 1
      BY <1>3
    <3>3. ~s8 => \A k \in VO!Places' : IF k \in (m + 2)..n THEN s3'[k] = VO!Chunk(size, k)' ELSE VO!Until(s5 - 1, k)'
      BY <1>8, <2>5 DEF VO!Until, VO!Chunk, VO!Places, VO!Most
    <3>4. \A k \in VO!Places' : VO!Until(s5, k)'
      BY <1>9 DEF VO!Places, VO!Most
    <3>5. ASSUME ~s8
          PROVE  VO!Exact'
      BY <2>3, <2>4, <3>1, <3>2, <3>3, <3>5 DEF VO!Exact, VO!Chunks, VO!Chunk
    <3>6. QED
      BY <1>3, <2>3, <2>4, <3>2, <3>4, <3>5 DEF VO!PartsSoFar
  <2>9. QED
    BY <2>6, <2>7, <2>8 DEF VO!VolumesInv
<1>12. QED
  BY <1>10, <1>11 DEF VO!Post

\* The send returns, and all of the archive has been posted.
LEMMA SendReturns == ASSUME VO!VolumesInv, VO!Return PROVE VO!VolumesInv'
<1>1. PICK old \in VO!Sends : old = s4
  BY SendIs
<1>2. PICK size \in Nat, n \in Nat, next \in Nat : size = old.size /\ n = old.names /\ next = old.next
  BY DEF VO!Sends
<1>3. /\ s5 \in Nat /\ s5 > 0 /\ s5 - 1 \in Nat /\ size \in 0..VO!Most /\ next > n /\ next \in 1..(n + 1)
      /\ VO!Within(size, n) /\ VO!Least(n * Limit, size) = size
      /\ ~s8 => /\ s7 = VO!Chunks(size, next - 1)
                /\ \A k \in VO!Places : k \notin next..n => VO!Until(s5 - 1, k)
      /\ \A k \in VO!Places : VO!Until(s5, k)
      /\ s3 \in [VO!Places -> Seq(Nat \X Nat)] /\ s1 \in BOOLEAN
      /\ s4' = [VO!Resting EXCEPT !.at = "sent", !.size = size] /\ s1' \in BOOLEAN
      /\ UNCHANGED <<s3, s5, s7, s8>> /\ s8 \in BOOLEAN
  BY <1>1, <1>2, SendIs DEF VO!VolumesInv, VO!VolumeShapes, VO!CutSoFar, VO!PartsSoFar, VO!Exact, VO!Return
<1>4. s4' \in VO!Sends /\ s4'.at = "sent" /\ s4'.size = size
  BY <1>2, <1>3 DEF VO!Sends, VO!Resting
<1>5. next - 1 = n /\ \A k \in VO!Places : k \notin next..n
  BY <1>2, <1>3 DEF VO!Places
<1>6. ~s8 => Len(s7) = n /\ s7 = VO!Chunks(size, n)
  BY <1>2, <1>3, <1>5, JoinedChunks
<1>7. size <= n * Limit
  BY <1>2, <1>3, CutAfter
<1>8. VO!VolumeShapes'
  BY <1>3, <1>4 DEF VO!VolumeShapes, VO!Places, VO!Most
<1>9. VO!CutSoFar'
  BY <1>4 DEF VO!CutSoFar
<1>10. \A k : VO!Until(s5, k)' = VO!Until(s5, k) /\ VO!Until(s5 - 1, k)' = VO!Until(s5 - 1, k)
  BY <1>3 DEF VO!Until
<1>11. VO!Chunks(size, n)' = VO!Chunks(size, n)
  BY <1>3 DEF VO!Chunks, VO!Chunk
<1>12. VO!PartsSoFar'
  <2>1. ASSUME ~s8
        PROVE  VO!Exact'
    BY <1>3, <1>4, <1>5, <1>6, <1>7, <1>10, <1>11, <2>1 DEF VO!Exact, VO!Within, VO!Places, VO!Most
  <2>2. \A k \in VO!Places' : VO!Until(s5, k)'
    BY <1>3, <1>10 DEF VO!Until, VO!Places, VO!Most
  <2>3. QED
    BY <1>3, <1>4, <2>1, <2>2 DEF VO!PartsSoFar
<1>13. QED
  BY <1>8, <1>9, <1>12 DEF VO!VolumesInv

\* The process dies, or the caller goes on.
LEMMA SendIsOver == ASSUME VO!VolumesInv, VO!Die \/ VO!Again PROVE VO!VolumesInv'
<1>1. CASE VO!Die
  <2>1. /\ s4.at \in {"zip", "split", "post"} /\ s4' = VO!Resting
        /\ UNCHANGED <<s1, s2, s3, s5, s7, s8>>
    BY <1>1 DEF VO!Die
  <2>2. /\ s3' \in [VO!Places -> Seq(Nat \X Nat)] /\ s1' \in BOOLEAN
        /\ \A k \in VO!Places : VO!Until(s5, k)'
    BY <2>1 DEF VO!VolumesInv, VO!VolumeShapes, VO!PartsSoFar, VO!Until
  <2>3. QED
    BY <2>1, <2>2, SendIsCut
<1>2. CASE VO!Again
  <2>1. /\ s4.at \in {"rest", "sent"} /\ s4' = VO!Resting /\ s1' = TRUE
        /\ UNCHANGED <<s2, s3, s5, s7, s8>>
    BY <1>2 DEF VO!Again
  <2>2. s4' \in VO!Sends /\ s4'.at = "rest"
    BY <2>1 DEF VO!Resting, VO!Sends
  <2>3. VO!VolumeShapes' /\ VO!CutSoFar'
    BY <2>1, <2>2 DEF VO!VolumesInv, VO!VolumeShapes, VO!CutSoFar, VO!Places, VO!Most
  <2>4. ASSUME ~s8
        PROVE  VO!Exact'
    <3>1. PICK size \in 0..VO!Most : VO!Within(size, Len(s7)) /\ s7 = VO!Chunks(size, Len(s7))
      BY <2>1, <2>4, SendIs DEF VO!VolumesInv, VO!PartsSoFar, VO!Exact
    <3>2. size \in 0..VO!Most' /\ VO!Within(size, Len(s7))' /\ (s7 = VO!Chunks(size, Len(s7)))'
      BY <2>1, <3>1 DEF VO!Within, VO!Chunks, VO!Chunk, VO!Most
    <3>3. QED
      BY <2>2, <3>2 DEF VO!Exact
  <2>5. \A k \in VO!Places' : VO!Until(s5, k)'
    BY <2>1 DEF VO!VolumesInv, VO!PartsSoFar, VO!Until, VO!Places, VO!Most
  <2>6. VO!PartsSoFar'
    BY <2>1, <2>2, <2>4, <2>5 DEF VO!PartsSoFar
  <2>7. QED
    BY <2>3, <2>6 DEF VO!VolumesInv
<1>3. QED
  BY <1>1, <1>2

\* No step of the volumes, and none beside them, breaks the invariant.
LEMMA VolumesStep == ASSUME VO!VolumesInv, [VO!VolumesNext]_(VO!volumeVars) PROVE VO!VolumesInv'
<1>1. CASE UNCHANGED VO!volumeVars
  <2>1. UNCHANGED <<s1, s2, s3, s4, s5, s6, s7, s8>>
    BY <1>1 DEF VO!volumeVars
  <2>2. VO!VolumeShapes'
    BY <2>1 DEF VO!VolumesInv, VO!VolumeShapes, VO!Places, VO!Most
  <2>3. VO!CutSoFar'
    BY <2>1 DEF VO!VolumesInv, VO!CutSoFar, VO!Within, VO!Bytes
  <2>4. \A size, n : VO!Chunks(size, n)' = VO!Chunks(size, n) /\ VO!Within(size, n)' = VO!Within(size, n)
    BY <2>1 DEF VO!Chunks, VO!Chunk, VO!Within
  <2>5. \A size, k : VO!Chunk(size, k)' = VO!Chunk(size, k) /\ VO!Until(s5, k)' = VO!Until(s5, k)
    BY <2>1 DEF VO!Chunk, VO!Until
  <2>6. \A k : VO!Until(s5 - 1, k)' = VO!Until(s5 - 1, k)
    BY <2>1 DEF VO!Until
  <2>7. VO!PartsSoFar'
    BY <2>1, <2>4, <2>5, <2>6 DEF VO!VolumesInv, VO!PartsSoFar, VO!Exact, VO!Places, VO!Most
  <2>8. QED
    BY <2>2, <2>3, <2>7 DEF VO!VolumesInv
<1>2. CASE VO!VolumesNext
  BY <1>2, SendStarts, SendCompresses, SendSplits, SendPosts, SendReturns, SendIsOver DEF VO!VolumesNext
<1>3. QED
  BY <1>1, <1>2

\* Nothing is sent at first.
LEMMA VolumesBegin == ASSUME VO!InitVolumes PROVE VO!VolumesInv
<1>1. s4 \in VO!Sends /\ s4.at = "rest" /\ s5 = 0 /\ s7 = <<>> /\ Len(s7) = 0
  BY DEF VO!InitVolumes, VO!Resting, VO!Sends
<1>2. VO!None \in Seq(Nat \X Nat) /\ \A b \in DOMAIN VO!None : VO!None[b][1] = 0
  BY DEF VO!None
<1>3. s3 \in [VO!Places -> Seq(Nat \X Nat)] /\ \A k \in VO!Places : s3[k] = VO!None
  BY <1>2 DEF VO!InitVolumes
<1>4. PICK size \in 0..VO!Most : size \in Nat
  BY MostIs
<1>5. VO!Within(size, Len(s7)) /\ s7 = VO!Chunks(size, Len(s7))
  BY <1>1, NothingPosted
<1>6. \A k \in VO!Places : VO!Until(s5, k)
  BY <1>1, <1>2, <1>3 DEF VO!Until
<1>7. s1 \in BOOLEAN /\ s8 \in BOOLEAN
  BY DEF VO!InitVolumes
<1>8. QED
  BY <1>1, <1>3, <1>5, <1>6, <1>7 DEF VO!VolumesInv, VO!VolumeShapes, VO!CutSoFar, VO!PartsSoFar, VO!Exact

\* What the invariant means.
LEMMA VolumesHold == ASSUME VO!VolumesInv PROVE VO!PostedWhole
<1>0. SUFFICES ASSUME ~s8
               PROVE  /\ \A i \in 1..Len(s7) : Len(s7[i]) \in 1..Limit
                      /\ \A i \in 1..Len(VO!Joined(s7)) : VO!Joined(s7)[i] = <<s5, i>>
                      /\ s4.at = "sent" =>
                            /\ Len(VO!Joined(s7)) = s4.size
                            /\ \A k \in VO!Places : s3[k] # VO!None => \A b \in DOMAIN s3[k] : s3[k][b][1] # s5
  BY DEF VO!PostedWhole
<1>1. PICK size \in 0..VO!Most, n \in Nat : /\ VO!Within(size, n) /\ s7 = VO!Chunks(size, n)
                                            /\ s4.at = "sent" => size = s4.size /\ size <= n * Limit
  <2>1. CASE s4.at \in {"rest", "sent"}
    <3>1. PICK size \in 0..VO!Most : /\ VO!Within(size, Len(s7)) /\ s7 = VO!Chunks(size, Len(s7))
                                     /\ s4.at = "sent" => size = s4.size /\ size <= Len(s7) * Limit
      BY <1>0, <2>1, SendIs DEF VO!VolumesInv, VO!PartsSoFar, VO!Exact
    <3>2. Len(s7) \in Nat
      BY <3>1 DEF VO!Within
    <3>3. QED
      BY <3>1, <3>2
  <2>2. CASE s4.at \in {"zip", "split", "post"}
    <3>1. PICK size \in 0..VO!Most, n \in Nat, m \in Nat : /\ size = s4.size /\ n = s4.names /\ m = s4.next - 1
                                                           /\ m <= n /\ VO!Within(size, n) /\ s7 = VO!Chunks(size, m)
      <4>1. /\ s4.size \in 0..VO!Most /\ s4.names \in Nat /\ s4.next \in 1..(s4.names + 1)
            /\ s7 = VO!Chunks(s4.size, s4.next - 1)
        BY <1>0, <2>2, SendIs DEF VO!VolumesInv, VO!PartsSoFar, VO!Exact, VO!Sends
      <4>2. s4.next - 1 \in Nat /\ s4.next - 1 <= s4.names
        BY <4>1
      <4>3. VO!Within(s4.size, s4.names)
        BY <2>2 DEF VO!VolumesInv, VO!CutSoFar, VO!Within
      <4>4. QED
        BY <4>1, <4>2, <4>3
    <3>2. VO!Within(size, m)
      BY <3>1, SendIs, CutAfter
    <3>3. QED
      BY <2>2, <3>1, <3>2
  <2>3. QED
    BY <2>1, <2>2, SendIs DEF VO!Sends
<1>2. size \in Nat /\ s5 \in Nat /\ Limit \in Nat
  BY SendIs
<1>3. VO!Joined(s7) = VO!Bytes(s5, VO!Least(n * Limit, size)) /\ Len(s7) = n
  <2>1. s5 \in Nat /\ size \in Nat /\ n \in Nat /\ VO!Within(size, n) /\ s7 = VO!Chunks(size, n)
    BY <1>1, <1>2
  <2>2. VO!Joined(VO!Chunks(size, n)) = VO!Bytes(s5, VO!Least(n * Limit, size)) /\ Len(VO!Chunks(size, n)) = n
    BY <2>1, JoinedChunks
  <2>3. QED
    BY <2>1, <2>2
<1>4. PICK l \in Nat : l = VO!Least(n * Limit, size) /\ (size <= n * Limit => l = size)
  <2>1. n * Limit \in Nat
    BY <1>2
  <2>2. QED
    BY <1>2, <2>1 DEF VO!Least
<1>5. Len(VO!Joined(s7)) = l /\ \A i \in 1..l : VO!Joined(s7)[i] = <<s5, i>>
  BY <1>3, <1>4 DEF VO!Bytes
<1>6. ASSUME NEW i \in 1..Len(s7)
      PROVE  Len(s7[i]) \in 1..Limit
  <2>1. i \in Nat /\ i # 0 /\ i <= n /\ s7[i] = VO!Chunk(size, i)
    <3>1. i \in 1..n
      BY <1>3
    <3>2. s7 = [k \in 1..n |-> VO!Chunk(size, k)]
      BY <1>1 DEF VO!Chunks
    <3>3. QED
      BY <3>1, <3>2
  <2>2. VO!Within(size, i)
    <3>1. size \in Nat /\ n \in Nat /\ VO!Within(size, n)
      BY <1>1, <1>2
    <3>2. QED
      BY <2>1, <3>1, CutAfter
  <2>3. (i - 1) * Limit < size
    BY <2>1, <2>2 DEF VO!Within
  <2>4. PICK m, e \in Nat :
           /\ m = (i - 1) * Limit /\ m + e = VO!Least(i * Limit, size) /\ e \in 1..Limit /\ m < size
                            /\ i * Limit = m + Limit
                            /\ VO!Chunk(size, i) = [j \in 1..e |-> <<s5, m + j>>]
                            /\ VO!Chunk(size, i) \in Seq(Nat \X Nat) /\ Len(VO!Chunk(size, i)) = e
    BY <1>2, <2>1, <2>3, ChunkIs, Zenon
  <2>5. QED
    BY <2>1, <2>4
<1>7. ASSUME s4.at = "sent"
      PROVE  /\ Len(VO!Joined(s7)) = s4.size
             /\ \A k \in VO!Places : s3[k] # VO!None => \A b \in DOMAIN s3[k] : s3[k][b][1] # s5
  <2>1. Len(VO!Joined(s7)) = s4.size
    <3>1. size = s4.size /\ size <= n * Limit
      BY <1>1, <1>7
    <3>2. QED
      BY <1>4, <1>5, <3>1
  <2>2. ASSUME NEW k \in VO!Places, NEW b \in DOMAIN s3[k]
        PROVE  s3[k][b][1] # s5
    <3>1. s3[k][b][1] <= s5 - 1
      BY <1>0, <1>7 DEF VO!VolumesInv, VO!PartsSoFar, VO!Exact, VO!Until
    <3>2. s3[k][b][1] \in Nat
      BY DEF VO!VolumesInv, VO!VolumeShapes
    <3>3. QED
      BY <1>2, <3>1, <3>2
  <2>3. QED
    BY <2>1, <2>2
<1>8. QED
  BY <1>5, <1>6, <1>7

\* Behaviours of the transfers are those of the services in which the part is theirs.
LEMMA TransfersAlone ==
    ASSUME [ServicesNext]_servicesVars
    PROVE  /\ part = "download" => [DO!DownloadsNext]_(DO!downloadVars)
           /\ part = "upload" => [UP!UploadsNext]_(UP!uploadVars)
           /\ part = "volumes" => [VO!VolumesNext]_(VO!volumeVars)
           /\ part = "registry" => [CR!RegistryNext]_(CR!registryVars)
BY DEF ServicesNext, servicesVars, shared, DO!downloadVars, UP!uploadVars, VO!volumeVars, CR!registryVars,
       SessionsMove, WizardsMove, SurveysMove, CaptchaMoves, RegistryMoves, DownloadMoves, UploadMoves,
       HubMoves, LogMoves, BackgroundMoves, PagesMove, MenusMove, AnalyticsMoves, VolumesMove,
       BroadcastMoves, WarningsMove

\* However transfers break off, are retried, resumed or cancelled: a download that succeeds has left the
\* remote file, an upload has posted the whole of its file, a file sent in volumes has been posted part by
\* part and whole, unless an error that the code ignores has cut one of them short; and cancelling a chat
\* reaches every transfer that ran when it was called, and none that did not run when somebody called it
\* (transfer.go, send.go).
THEOREM TransfersAreKept == ServicesSpec => []TransfersKept
<1> DEFINE Inv == /\ part = "download" => DO!DownloadInv
                  /\ part = "upload" => UP!UploadInv
                  /\ part = "volumes" => VO!VolumesInv
                  /\ part = "registry" => CR!RegistryInv
<1>1. ServicesInit => Inv
  BY DownloadBegins, UploadStarts, VolumesBegin, RegistryBegins DEF ServicesInit
<1>2. Inv /\ [ServicesNext]_servicesVars => Inv'
  BY TransfersAlone, DownloadStep, UploadStep, VolumesStep, RegistryStep, PartStays
<1>3. Inv => TransfersKept
  BY VolumesHold, RegistryHolds DEF TransfersKept, DO!DownloadInv, UP!UploadInv
<1>4. QED
  BY <1>1, <1>2, <1>3, PTL DEF ServicesSpec

-----------------------------------------------------------------------------
(***************************************************************************)
(* Forms. Of the variables that the parts share Wizards has s1 to s13:     *)
(* names, pointer, answers, workers, wizards, texts, wrong, persian, late, *)
(* timers, forms, given and overlap. As long as handlers have not          *)
(* overlapped, a worker that is at a question of a wizard has valid        *)
(* answers to the questions before, and the session still has them; so     *)
(* does a wizard to which the pointer of the session leads (Reached and    *)
(* AtQuestion in Wizards.tla).                                             *)
(***************************************************************************)
\* The counts of the instanced module are those of the standard one.
LEMMA WZCounts == ASSUME NEW S PROVE WZ!Cardinality(S) = Cardinality(S) /\ (WZ!IsFiniteSet(S) <=> IsFiniteSet(S))
BY DEF WZ!Cardinality, Cardinality, WZ!IsFiniteSet, IsFiniteSet

\* What a worker of a wizard is.
LEMMA WizardWorkers ==
    ASSUME WZ!WizardInv
    PROVE  /\ s4 \in [Handlers -> [at : {"idle", "ask", "point", "other", "run", "clear", "handle"},
                                        wizard : 0..s5, step : 0..(Fields + 1), name : Nat, text : Nat]]
           /\ \A u \in Handlers : s4[u].at = "idle" <=> s4[u] = WZ!Idle
           /\ \A u \in Handlers : s4[u].at \notin {"idle", "other"} =>
                 s4[u].wizard \in 1..s5 /\ s4[u].step \in 1..(Fields + 1)
           /\ \A u \in Handlers : s4[u].at \in {"point", "run", "clear", "handle"} => s4[u].step \in WZ!Prompts
           /\ \A u \in Handlers : s4[u].at \in {"run", "clear", "handle"} => s4[u].text \in 1..s6
           /\ s1 \in [DOMAIN s1 -> [wizard : 1..s5, step : WZ!Prompts]] /\ DOMAIN s1 \subseteq Nat \ {0}
           /\ s3 \in [WZ!Prompts -> Nat] /\ s5 \in Nat /\ s6 \in Nat /\ WZ!IsFiniteSet(s9)
           /\ s12 \in Seq(Seq(Nat)) /\ Len(s12) = s5
           /\ \A w \in 1..s5 : \A q \in DOMAIN s12[w] : s12[w][q] <= s6
           /\ s7 \subseteq 1..s6 /\ \A f \in s11 : f.wizard \in 1..s5
           /\ WZ!Idle.at = "idle"
<1>1. \A u \in Handlers : s4[u].at \notin {"idle", "other"} =>
         s4[u].wizard \in 1..s5 /\ s4[u].step \in 1..(Fields + 1)
  BY ConversationAssumption DEF WZ!WizardInv, WZ!WizardShapes
<1>2. QED
  BY <1>1 DEF WZ!WizardInv, WZ!WizardShapes, WZ!Idle

\* As long as none overlapped, a worker that is not idle is the only one.
LEMMA WizardLone ==
    ASSUME WZ!WizardInv, ~s13, NEW u \in Handlers, s4[u].at # "idle"
    PROVE  /\ \A v \in Handlers : v # u => s4[v] = WZ!Idle
           /\ s4[u].at # "other" => WZ!AtQuestion(s4[u])
<1>1. s4[u] # WZ!Idle
  BY DEF WZ!Idle
<1>2. QED
  BY <1>1 DEF WZ!WizardInv

\* What a step of a worker has to leave behind.
LEMMA WizardLeaves ==
    ASSUME NEW u \in Handlers, WZ!WizardShapes', WZ!FormsWhole',
           ~s13' => /\ \A v \in Handlers : v # u => s4'[v] = WZ!Idle
                    /\ s4'[u].at \notin {"idle", "other"} => WZ!AtQuestion(s4[u])'
                    /\ (s2 \in DOMAIN s1 => WZ!Reached(s1[s2].wizard, s1[s2].step))'
    PROVE  WZ!WizardInv'
<1>1. \A v \in Handlers : s4'[v] = WZ!Idle => s4'[v].at = "idle"
  BY DEF WZ!Idle
<1>2. QED
  BY <1>1 DEF WZ!WizardInv

\* Who has reached a question still has while answers, wrong messages and forms stay.
LEMMA ReachedStays ==
    ASSUME UNCHANGED <<s3, s7, s11, s12>>
    PROVE  \A w, step : WZ!Reached(w, step)' = WZ!Reached(w, step)
BY DEF WZ!Reached

LEMMA FormsStay ==
    ASSUME WZ!WizardInv, UNCHANGED <<s7, s11, s12>>, s8 \subseteq s8', s13 => s13'
    PROVE  WZ!FormsWhole'
BY DEF WZ!WizardInv, WZ!FormsWhole

\* A wizard is opened.
LEMMA WizardOpens == ASSUME WZ!WizardInv, NEW u \in Handlers, WZ!Open(u) PROVE WZ!WizardInv'
<1>1. PICK k, n : k = s5 + 1 /\ n = [WZ!Idle EXCEPT !.at = "ask", !.wizard = k, !.step = 1]
  OBVIOUS
<1>2. /\ s5' = k /\ s4[u] = WZ!Idle /\ s4' = [s4 EXCEPT ![u] = n] /\ s12' = Append(s12, <<>>)
      /\ s13' = (s13 \/ \E v \in Handlers \ {u} : s4[v] # WZ!Idle)
      /\ UNCHANGED <<s1, s2, s3, s6, s7, s8, s9, s10, s11>>
  BY <1>1, WizardWorkers DEF WZ!Open, WZ!Step, WZ!Overlaps
<1>3. k \in Nat /\ k # 0 /\ k = s5 + 1 /\ s5 \in Nat /\ 0..s5 \subseteq 0..k /\ 1..s5 \subseteq 1..k
  BY <1>1, WizardWorkers
<1>4. n.at = "ask" /\ n.wizard = k /\ n.step = 1
  BY <1>1 DEF WZ!Idle
<1>5. n \in [at : {"idle", "ask", "point", "other", "run", "clear", "handle"}, wizard : 0..k,
             step : 0..(Fields + 1), name : Nat, text : Nat]
  <2>1. k \in 0..k /\ 0 \in 0..k /\ 1 \in 0..(Fields + 1) /\ 0 \in 0..(Fields + 1)
    BY <1>3, ConversationAssumption
  <2>2. WZ!Idle \in [at : {"idle", "ask", "point", "other", "run", "clear", "handle"}, wizard : 0..k,
                  step : 0..(Fields + 1), name : Nat, text : Nat]
    BY <2>1 DEF WZ!Idle
  <2>3. QED
    BY <1>1, <2>1, <2>2
<1>6. s4'[u] = n /\ \A v \in Handlers : v # u => s4'[v] = s4[v]
  BY <1>2, WizardWorkers
<1>7. /\ s12' \in Seq(Seq(Nat)) /\ Len(s12') = k /\ s12'[k] = <<>>
      /\ \A w \in 1..s5 : s12'[w] = s12[w]
  <2>1. s12 \in Seq(Seq(Nat)) /\ Len(s12) = s5 /\ <<>> \in Seq(Nat)
    BY WizardWorkers
  <2>2. QED
    BY <1>2, <1>3, <2>1, AppendProperties
<1>8. \A w \in 1..k : w \in 1..s5 \/ w = k
  BY <1>3
<1>9. WZ!WizardShapes'
  <2>1. \A v \in Handlers : s4'[v].at = "idle" => s4'[v] = WZ!Idle
    BY <1>4, <1>6, WizardWorkers
  <2>2. \A v \in Handlers : s4'[v].at \notin {"idle", "other"} => s4'[v].wizard # 0 /\ s4'[v].step # 0
    <3>1. \A v \in Handlers :
             s4[v].at \notin {"idle", "other"} => s4[v].wizard # 0 /\ s4[v].step # 0
      BY DEF WZ!WizardInv, WZ!WizardShapes
    <3>2. n.wizard # 0 /\ n.step # 0
      BY <1>3, <1>4
    <3>3. QED
      BY <1>6, <3>1, <3>2
  <2>3. \A v \in Handlers : s4'[v].at \in {"point", "run", "clear", "handle"} => s4'[v].step \in WZ!Prompts
    BY <1>4, <1>6, WizardWorkers
  <2>9. \A v \in Handlers : s4'[v].at \in {"run", "clear", "handle"} => s4'[v].text \in 1..s6
    BY <1>4, <1>6, WizardWorkers
  <2>4. s4' \in [Handlers -> [at : {"idle", "ask", "point", "other", "run", "clear", "handle"}, wizard : 0..k,
                                   step : 0..(Fields + 1), name : Nat, text : Nat]]
    <3>1. \A v \in Handlers :
             s4[v] \in [at : {"idle", "ask", "point", "other", "run", "clear", "handle"}, wizard : 0..k,
                             step : 0..(Fields + 1), name : Nat, text : Nat]
      BY <1>3, WizardWorkers
    <3>2. QED
      BY <1>2, <1>5, <3>1, WizardWorkers
  <2>5. s1' \in [DOMAIN s1' -> [wizard : 1..k, step : WZ!Prompts]]
    <3>1. \A m \in DOMAIN s1 : s1[m] \in [wizard : 1..k, step : WZ!Prompts]
      BY <1>3, WizardWorkers
    <3>2. QED
      BY <1>2, <3>1, WizardWorkers
  <2>6. \A w \in 1..k : \A q \in DOMAIN s12'[w] : s12'[w][q] <= s6
    <3>1. \A w \in 1..s5 : \A q \in DOMAIN s12'[w] : s12'[w][q] <= s6
      BY <1>7, WizardWorkers
    <3>2. \A q \in DOMAIN s12'[k] : FALSE
      BY <1>7
    <3>3. QED
      BY <1>8, <3>1, <3>2
  <2>7. \A f \in s11 : f.wizard \in 1..k
    BY <1>3, WizardWorkers
  <2>8. QED
    BY <1>2, <1>3, <1>7, <2>1, <2>2, <2>3, <2>4, <2>5, <2>6, <2>7, <2>9, WizardWorkers DEF WZ!WizardShapes, WZ!Prompts
<1>10. \A f \in s11 : s12'[f.wizard] = s12[f.wizard]
  BY <1>7, WizardWorkers
<1>11. WZ!FormsWhole'
  <2>1. CASE s13'
    BY <2>1 DEF WZ!FormsWhole
  <2>2. CASE ~s13'
    <3>1. ~s13 /\ s11' = s11 /\ s8' = s8 /\ s7' = s7
      BY <1>2, <2>2
    <3>2. WZ!FormsWhole
      BY DEF WZ!WizardInv
    <3>3. /\ \A f \in s11, q \in WZ!Prompts :
                s12'[f.wizard][q] \in s8 \/ (f.got[q] = s12'[f.wizard][q] /\ s12'[f.wizard][q] \notin s7)
          /\ \A f \in s11 : Len(s12'[f.wizard]) = Fields
          /\ \A f, g \in s11 : f.wizard = g.wizard => f = g
      BY <1>10, <3>1, <3>2 DEF WZ!FormsWhole
    <3>4. QED
      BY <3>1, <3>3 DEF WZ!FormsWhole, WZ!Prompts
  <2>3. QED
    BY <2>1, <2>2
<1>12. ASSUME ~s13'
       PROVE  /\ \A v \in Handlers : v # u => s4'[v] = WZ!Idle
              /\ WZ!AtQuestion(n)'
              /\ (s2 \in DOMAIN s1 => WZ!Reached(s1[s2].wizard, s1[s2].step))'
  <2>1. ~s13 /\ \A v \in Handlers : v # u => s4'[v] = WZ!Idle
    BY <1>2, <1>6, <1>12
  <2>2. \A f \in s11 : f.wizard # k
    BY <1>3, WizardWorkers
  <2>3. WZ!Reached(k, 1)'
    <3>1. Len(s12'[k]) = 1 - 1 /\ 1..(1 - 1) = {}
      BY <1>7
    <3>2. QED
      BY <1>2, <2>2, <3>1 DEF WZ!Reached
  <2>4. ASSUME s2 \in DOMAIN s1
        PROVE  WZ!Reached(s1[s2].wizard, s1[s2].step)' /\ s1[s2].wizard # k
    <3>1. s1[s2].wizard \in 1..s5
      BY <2>4, WizardWorkers
    <3>2. WZ!Reached(s1[s2].wizard, s1[s2].step)
      BY <2>1, <2>4 DEF WZ!WizardInv
    <3>3. QED
      BY <1>2, <1>3, <1>7, <3>1, <3>2 DEF WZ!Reached
  <2>5. WZ!AtQuestion(n)'
    BY <1>2, <1>4, <2>3, <2>4 DEF WZ!AtQuestion
  <2>6. QED
    BY <1>2, <2>1, <2>4, <2>5
<1>13. QED
  BY <1>6, <1>9, <1>11, <1>12, WizardLeaves

\* There is a name that is not in use.
LEMMA FreshName ==
    ASSUME NEW old, WZ!IsFiniteSet(old)
    PROVE  (CHOOSE n \in 1..(WZ!Cardinality(old) + 1) : ~n \in old) \in {n \in Nat \ {0} : n \notin old}
<1>1. PICK k \in Nat : k = WZ!Cardinality(old)
  BY FS_CardinalityType, WZCounts
<1>2. \E n \in 1..(k + 1) : n \notin old
  <2>1. ASSUME 1..(k + 1) \subseteq old
        PROVE  FALSE
    <3>1. WZ!Cardinality(1..(k + 1)) <= k
      BY <1>1, <2>1, FS_Subset, WZCounts
    <3>2. 1 \in Int /\ k + 1 \in Int /\ k + 1 >= 1 /\ (k + 1) - 1 + 1 = k + 1
      BY <1>1
    <3>3. WZ!Cardinality(1..(k + 1)) = k + 1
      BY <1>1, <3>2, FS_Interval, WZCounts
    <3>4. QED
      BY <1>1, <3>1, <3>3
  <2>2. QED
    BY <2>1
<1>3. PICK m : m = CHOOSE n \in 1..(k + 1) : ~n \in old
  OBVIOUS
<1>4. m \in 1..(k + 1) /\ m \notin old
  BY <1>2, <1>3
<1>5. m \in Nat \ {0}
  BY <1>4
<1>6. QED
  BY <1>1, <1>3, <1>4, <1>5

\* A question is asked.
LEMMA WizardAsks == ASSUME WZ!WizardInv, NEW u \in Handlers, WZ!Ask(u) PROVE WZ!WizardInv'
<1>1. PICK old, w : old = s9 \cup {s2} \cup {s4[v].name : v \in Handlers} /\ w = s4[u]
  OBVIOUS
<1>2. PICK new \in Nat : /\ new = (CHOOSE n \in 1..(WZ!Cardinality(old) + 1) : ~n \in old)
                         /\ new # 0 /\ new # s2
  <2>1. WZ!IsFiniteSet(old)
    <3>1. WZ!IsFiniteSet({s4[v].name : v \in Handlers})
      <4>1. PICK f, T : f = [v \in Handlers |-> s4[v].name] /\ T = {s4[v].name : v \in Handlers}
        OBVIOUS
      <4>2. f \in Surjection(Handlers, T)
        BY <4>1 DEF Surjection
      <4>3. QED
        BY <4>1, <4>2, ServicesAssumption, FS_Surjection, WZCounts
    <3>2. WZ!IsFiniteSet({s2}) /\ WZ!IsFiniteSet(s9)
      BY FS_Singleton, WZCounts, WizardWorkers
    <3>3. WZ!IsFiniteSet(s9 \cup {s2})
      BY <3>2, FS_Union, WZCounts
    <3>4. QED
      BY <1>1, <3>1, <3>3, FS_Union, WZCounts
  <2>2. PICK k : k = CHOOSE n \in 1..(WZ!Cardinality(old) + 1) : ~n \in old
    OBVIOUS
  <2>3. k \in {n \in Nat \ {0} : n \notin old}
    BY <2>1, <2>2, FreshName, Zenon
  <2>4. QED
    BY <1>1, <2>2, <2>3
<1>3. PICK m, n, r : /\ m = [w EXCEPT !.at = "point"] /\ n = [m EXCEPT !.name = new]
                     /\ r = [wizard |-> w.wizard, step |-> w.step]
  OBVIOUS
<1>4. /\ w.at = "ask" /\ w.step <= Fields /\ s4' = [s4 EXCEPT ![u] = n]
      /\ s1' = [k \in DOMAIN s1 \cup {new} |-> IF k = new THEN r ELSE s1[k]]
      /\ s9' = s9 \cup {new}
      /\ UNCHANGED <<s2, s3, s5, s6, s7, s8, s10, s11, s12, s13>>
  BY <1>1, <1>2, <1>3 DEF WZ!Ask, WZ!Step, WZ!Going
<1>5. /\ w \in [at : {"idle", "ask", "point", "other", "run", "clear", "handle"}, wizard : 0..s5,
                step : 0..(Fields + 1), name : Nat, text : Nat]
      /\ w.wizard \in 1..s5 /\ w.step \in 1..(Fields + 1)
  BY <1>1, <1>4, WizardWorkers
<1>6. w.step \in WZ!Prompts /\ w.wizard # 0 /\ w.step # 0
  <2>1. Fields \in Nat
    BY ConversationAssumption
  <2>2. w.step \in 1..Fields
    BY <1>4, <1>5, <2>1
  <2>3. s5 \in Nat
    BY WizardWorkers
  <2>4. w.wizard # 0 /\ w.step # 0
    BY <1>5, <2>1, <2>3
  <2>5. QED
    BY <2>2, <2>4 DEF WZ!Prompts
<1>7. /\ n \in [at : {"idle", "ask", "point", "other", "run", "clear", "handle"}, wizard : 0..s5,
                step : 0..(Fields + 1), name : Nat, text : Nat]
      /\ n.at = "point" /\ n.wizard = w.wizard /\ n.step = w.step /\ n.name = new
  BY <1>3, <1>5
<1>8. r \in [wizard : 1..s5, step : WZ!Prompts] /\ r.wizard = w.wizard /\ r.step = w.step
  BY <1>3, <1>5, <1>6
<1>9. s4'[u] = n /\ \A v \in Handlers : v # u => s4'[v] = s4[v]
  BY <1>4, WizardWorkers
<1>10. /\ DOMAIN s1' = DOMAIN s1 \cup {new} /\ s1'[new] = r
       /\ \A k \in DOMAIN s1 : k # new => s1'[k] = s1[k]
  BY <1>4
<1>11. WZ!WizardShapes'
  <2>1. \A v \in Handlers : s4'[v].at = "idle" => s4'[v] = WZ!Idle
    BY <1>7, <1>9, WizardWorkers
  <2>2. \A v \in Handlers : s4'[v].at \notin {"idle", "other"} => s4'[v].wizard # 0 /\ s4'[v].step # 0
    <3>1. \A v \in Handlers :
             s4[v].at \notin {"idle", "other"} => s4[v].wizard # 0 /\ s4[v].step # 0
      BY DEF WZ!WizardInv, WZ!WizardShapes
    <3>2. QED
      BY <1>6, <1>7, <1>9, <3>1
  <2>3. \A v \in Handlers : s4'[v].at \in {"point", "run", "clear", "handle"} => s4'[v].step \in WZ!Prompts
    BY <1>6, <1>7, <1>9, WizardWorkers
  <2>7. \A v \in Handlers : s4'[v].at \in {"run", "clear", "handle"} => s4'[v].text \in 1..s6
    BY <1>7, <1>9, WizardWorkers
  <2>4. s1' \in [DOMAIN s1' -> [wizard : 1..s5, step : WZ!Prompts]] /\ DOMAIN s1' \subseteq Nat \ {0}
    BY <1>2, <1>4, <1>8, <1>10, WizardWorkers
  <2>5. WZ!IsFiniteSet(s9')
    BY <1>4, WizardWorkers, FS_AddElement, WZCounts
  <2>6. QED
    BY <1>4, <1>7, <2>1, <2>2, <2>3, <2>4, <2>5, <2>7, WizardWorkers DEF WZ!WizardShapes, WZ!Prompts
<1>12. WZ!FormsWhole'
  BY <1>4, FormsStay
<1>13. ASSUME ~s13
       PROVE  /\ \A v \in Handlers : v # u => s4'[v] = WZ!Idle
              /\ WZ!AtQuestion(n)'
              /\ (s2 \in DOMAIN s1 => WZ!Reached(s1[s2].wizard, s1[s2].step))'
  <2>1. WZ!AtQuestion(w) /\ \A v \in Handlers : v # u => s4[v] = WZ!Idle
    BY <1>1, <1>4, <1>13, WizardLone
  <2>2. \A v, step : WZ!Reached(v, step)' = WZ!Reached(v, step)
    BY <1>4, ReachedStays
  <2>3. /\ s2' \in DOMAIN s1' => s2 \in DOMAIN s1 /\ s1'[s2'] = s1[s2]
        /\ s1'[new] = [wizard |-> n.wizard, step |-> n.step]
    BY <1>2, <1>3, <1>4, <1>7, <1>10
  <2>4. WZ!Reached(w.wizard, w.step) /\ (s2 \in DOMAIN s1 => s1[s2].wizard # w.wizard)
    BY <1>4, <2>1 DEF WZ!AtQuestion
  <2>5. WZ!AtQuestion(n)'
    BY <1>4, <1>7, <2>2, <2>3, <2>4 DEF WZ!AtQuestion
  <2>6. (s2 \in DOMAIN s1 => WZ!Reached(s1[s2].wizard, s1[s2].step))'
    BY <1>4, <1>13, <2>2, <2>3 DEF WZ!WizardInv
  <2>7. QED
    BY <1>9, <2>1, <2>5, <2>6
<1>14. QED
  BY <1>4, <1>9, <1>11, <1>12, <1>13, WizardLeaves

\* A worker that steps back to idle, or from one place to the next, leaves the shapes as they are.
LEMMA WorkerGoes ==
    ASSUME WZ!WizardInv, NEW u \in Handlers, NEW n, s4' = [s4 EXCEPT ![u] = n],
           \/ n = WZ!Idle
           \/ /\ n \in [at : {"ask", "run", "clear", "handle", "other"}, wizard : 0..s5,
                        step : 0..(Fields + 1), name : Nat, text : Nat]
              /\ n.at # "other" => n.wizard # 0 /\ n.step # 0
              /\ n.at \in {"run", "clear", "handle"} => n.step \in WZ!Prompts /\ n.text \in 1..s6',
           s1' \in [DOMAIN s1' -> [wizard : 1..s5, step : WZ!Prompts]], DOMAIN s1' \subseteq DOMAIN s1,
           s6' \in {s6, s6 + 1}, s7' \subseteq 1..s6', UNCHANGED <<s3, s5, s9, s12>>,
           \A f \in s11' : f.wizard \in 1..s5
    PROVE  /\ WZ!WizardShapes'
           /\ s4'[u] = n /\ \A v \in Handlers : v # u => s4'[v] = s4[v]
<1>1. s4'[u] = n /\ \A v \in Handlers : v # u => s4'[v] = s4[v]
  BY WizardWorkers
<1>2. n.at = "idle" => n = WZ!Idle
  OBVIOUS
<1>3. n.at \notin {"idle", "other"} => n.wizard # 0 /\ n.step # 0
  BY WizardWorkers
<1>4. n.at \in {"point", "run", "clear", "handle"} => n.step \in WZ!Prompts
  BY WizardWorkers
<1>5. \A v \in Handlers : s4'[v].at = "idle" => s4'[v] = WZ!Idle
  BY <1>1, <1>2, WizardWorkers
<1>6. \A v \in Handlers : s4'[v].at \notin {"idle", "other"} => s4'[v].wizard # 0 /\ s4'[v].step # 0
  <2>1. \A v \in Handlers : s4[v].at \notin {"idle", "other"} => s4[v].wizard # 0 /\ s4[v].step # 0
    BY DEF WZ!WizardInv, WZ!WizardShapes
  <2>2. QED
    BY <1>1, <1>3, <2>1
<1>7. \A v \in Handlers : s4'[v].at \in {"point", "run", "clear", "handle"} => s4'[v].step \in WZ!Prompts
  BY <1>1, <1>4, WizardWorkers
<1>8. s4' \in [Handlers -> [at : {"idle", "ask", "point", "other", "run", "clear", "handle"}, wizard : 0..s5,
                                 step : 0..(Fields + 1), name : Nat, text : Nat]]
  <2>1. n \in [at : {"idle", "ask", "point", "other", "run", "clear", "handle"}, wizard : 0..s5,
               step : 0..(Fields + 1), name : Nat, text : Nat]
    <3>1. 0 \in 0..s5 /\ 0 \in 0..(Fields + 1)
      BY ConversationAssumption, WizardWorkers
    <3>2. QED
      BY <3>1 DEF WZ!Idle
  <2>2. QED
    BY <2>1, WizardWorkers
<1>9. s6' \in Nat /\ \A w \in 1..s5 : \A q \in DOMAIN s12[w] : s12[w][q] <= s6'
  <2>1. \A w \in 1..s5 : \A q \in DOMAIN s12[w] : s12[w][q] \in Nat /\ s12[w][q] <= s6
    BY WizardWorkers
  <2>2. QED
    BY <2>1, WizardWorkers
<1>10. \A v \in Handlers : s4'[v].at \in {"run", "clear", "handle"} => s4'[v].text \in 1..s6'
  <2>1. 1..s6 \subseteq 1..s6'
    BY WizardWorkers
  <2>2. n.at \in {"run", "clear", "handle"} => n.text \in 1..s6'
    BY WizardWorkers
  <2>3. QED
    BY <1>1, <2>1, <2>2, WizardWorkers
<1>11. QED
  BY <1>1, <1>5, <1>6, <1>7, <1>8, <1>9, <1>10, WizardWorkers DEF WZ!WizardShapes, WZ!Prompts

\* The session points at the question.
LEMMA WizardPoints == ASSUME WZ!WizardInv, NEW u \in Handlers, WZ!Point(u) PROVE WZ!WizardInv'
<1>1. PICK w : w = s4[u]
  OBVIOUS
<1>2. /\ w.at = "point" /\ s4' = [s4 EXCEPT ![u] = WZ!Idle] /\ s2' = w.name
      /\ UNCHANGED <<s1, s3, s5, s6, s7, s8, s9, s10, s11, s12, s13>>
  BY <1>1 DEF WZ!Point, WZ!Step
<1>3. WZ!WizardShapes' /\ s4'[u] = WZ!Idle /\ \A v \in Handlers : v # u => s4'[v] = s4[v]
  <2>1. s6' \in {s6, s6 + 1} /\ s7' \subseteq 1..s6'
    BY <1>2, WizardWorkers
  <2>2. QED
    BY <1>2, <2>1, WorkerGoes, WizardWorkers
<1>4. WZ!FormsWhole'
  BY <1>2, FormsStay
<1>5. ASSUME ~s13
      PROVE  /\ \A v \in Handlers : v # u => s4'[v] = WZ!Idle
             /\ (s2 \in DOMAIN s1 => WZ!Reached(s1[s2].wizard, s1[s2].step))'
  <2>1. WZ!AtQuestion(w) /\ \A v \in Handlers : v # u => s4[v] = WZ!Idle
    BY <1>1, <1>2, <1>5, WizardLone
  <2>2. \A v, step : WZ!Reached(v, step)' = WZ!Reached(v, step)
    BY <1>2, ReachedStays
  <2>3. /\ WZ!Reached(w.wizard, w.step)
        /\ (w.name \in DOMAIN s1 => s1[w.name] = [wizard |-> w.wizard, step |-> w.step])
    BY <1>2, <2>1 DEF WZ!AtQuestion
  <2>4. QED
    BY <1>2, <1>3, <2>1, <2>2, <2>3
<1>6. QED
  BY <1>2, <1>3, <1>4, <1>5, WizardLeaves DEF WZ!Idle

\* A form is complete: it has what it was answered.
LEMMA WizardCompletes == ASSUME WZ!WizardInv, NEW u \in Handlers, WZ!Complete(u) PROVE WZ!WizardInv'
<1>1. PICK w, f : /\ w = s4[u]
                  /\ f = [wizard |-> w.wizard, got |-> [q \in WZ!Prompts |-> IF s3[q] \in s8 THEN 0 ELSE s3[q]]]
  OBVIOUS
<1>2. /\ w.at = "ask" /\ w.step > Fields /\ s4' = [s4 EXCEPT ![u] = WZ!Idle] /\ s11' = s11 \cup {f}
      /\ UNCHANGED <<s1, s2, s3, s5, s6, s7, s8, s9, s10, s12, s13>>
  BY <1>1 DEF WZ!Complete, WZ!Step
<1>3. /\ w.wizard \in 1..s5 /\ w.step \in 1..(Fields + 1) /\ f.wizard = w.wizard
      /\ \A q \in WZ!Prompts : f.got[q] = IF s3[q] \in s8 THEN 0 ELSE s3[q]
  BY <1>1, <1>2, WizardWorkers
<1>4. WZ!WizardShapes' /\ s4'[u] = WZ!Idle /\ \A v \in Handlers : v # u => s4'[v] = s4[v]
  <2>1. s6' \in {s6, s6 + 1} /\ s7' \subseteq 1..s6'
    BY <1>2, WizardWorkers
  <2>2. \A g \in s11' : g.wizard \in 1..s5
    BY <1>2, <1>3, WizardWorkers
  <2>3. QED
    BY <1>2, <2>1, <2>2, WorkerGoes, WizardWorkers
<1>5. ASSUME ~s13
      PROVE  /\ \A v \in Handlers : v # u => s4'[v] = WZ!Idle
             /\ WZ!Reached(w.wizard, w.step) /\ w.step = Fields + 1
             /\ s2 \in DOMAIN s1 => s1[s2].wizard # w.wizard
  <2>1. WZ!AtQuestion(w) /\ \A v \in Handlers : v # u => s4[v] = WZ!Idle
    BY <1>1, <1>2, <1>5, WizardLone
  <2>2. w.step = Fields + 1
    BY <1>2, <1>3, ConversationAssumption
  <2>3. QED
    BY <1>2, <1>4, <2>1, <2>2 DEF WZ!AtQuestion
<1>6. ASSUME ~s13
      PROVE  WZ!FormsWhole'
  <2>1. WZ!FormsWhole /\ \A g \in s11 : g.wizard # w.wizard
    BY <1>5, <1>6 DEF WZ!WizardInv, WZ!Reached
  <2>2. Len(s12[w.wizard]) = Fields /\ \A q \in WZ!Prompts : s12[w.wizard][q] = s3[q] /\ s12[w.wizard][q] \notin s7
    <3>1. PICK k : k = w.step - 1
      OBVIOUS
    <3>2. k = Fields
      BY <1>5, <1>6, <3>1, ConversationAssumption
    <3>3. Len(s12[w.wizard]) = k /\ \A q \in 1..k : s12[w.wizard][q] = s3[q] /\ s12[w.wizard][q] \notin s7
      BY <1>5, <1>6, <3>1 DEF WZ!Reached
    <3>4. QED
      BY <3>2, <3>3 DEF WZ!Prompts
  <2>3. ASSUME NEW g \in s11', NEW q \in WZ!Prompts
        PROVE  s12[g.wizard][q] \in s8 \/ (g.got[q] = s12[g.wizard][q] /\ s12[g.wizard][q] \notin s7)
    BY <1>2, <1>3, <1>6, <2>1, <2>2, <2>3 DEF WZ!FormsWhole
  <2>4. \A g \in s11' : Len(s12[g.wizard]) = Fields
    BY <1>2, <1>3, <1>6, <2>1, <2>2 DEF WZ!FormsWhole
  <2>5. \A g, h \in s11' : g.wizard = h.wizard => g = h
    BY <1>2, <1>3, <1>6, <2>1 DEF WZ!FormsWhole
  <2>6. QED
    BY <1>2, <2>3, <2>4, <2>5 DEF WZ!FormsWhole, WZ!Prompts
<1>7. ASSUME ~s13, s2 \in DOMAIN s1
      PROVE  WZ!Reached(s1[s2].wizard, s1[s2].step)'
  BY <1>2, <1>3, <1>5, <1>7 DEF WZ!WizardInv, WZ!Reached
<1>8. WZ!FormsWhole'
  BY <1>2, <1>6 DEF WZ!FormsWhole
<1>9. QED
  BY <1>2, <1>4, <1>5, <1>7, <1>8, WizardLeaves DEF WZ!Idle

\* A message of the chat: the question it answers is looked up.
LEMMA WizardLooks == ASSUME WZ!WizardInv, NEW u \in Handlers, WZ!Look(u) PROVE WZ!WizardInv'
<1>1. PICK t, n : /\ t = s6 + 1
                  /\ n = IF s2 \in DOMAIN s1
                         THEN [at |-> "run", wizard |-> s1[s2].wizard, step |-> s1[s2].step,
                               name |-> s2, text |-> t]
                         ELSE [WZ!Idle EXCEPT !.at = "other"]
  OBVIOUS
<1>2. /\ s6' = t /\ s4[u] = WZ!Idle /\ s4' = [s4 EXCEPT ![u] = n]
      /\ s13' = (s13 \/ \E v \in Handlers \ {u} : s4[v] # WZ!Idle)
      /\ UNCHANGED <<s1, s2, s3, s5, s7, s8, s9, s10, s11, s12>>
  BY <1>1, WizardWorkers DEF WZ!Look, WZ!Step, WZ!Overlaps
<1>3. t \in Nat /\ t = s6 + 1 /\ s6 \in Nat /\ 1..s6 \subseteq 1..t /\ t \notin 1..s6
  BY <1>1, WizardWorkers
<1>4. /\ n \in [at : {"ask", "run", "clear", "handle", "other"}, wizard : 0..s5,
                step : 0..(Fields + 1), name : Nat, text : Nat]
      /\ n.at # "other" => n.wizard # 0 /\ n.step # 0
      /\ n.at \in {"run", "clear", "handle"} => n.step \in WZ!Prompts
      /\ n.at \in {"run", "other"}
      /\ n.at = "run" => /\ s2 \in DOMAIN s1 /\ n.wizard = s1[s2].wizard
                         /\ n.step = s1[s2].step /\ n.name = s2 /\ n.text = t
  <2>1. CASE s2 \in DOMAIN s1
    <3>1. /\ s1[s2].wizard \in 1..s5 /\ s1[s2].step \in WZ!Prompts /\ s2 \in Nat
      BY <2>1, WizardWorkers
    <3>2. /\ s1[s2].wizard \in 0..s5 /\ s1[s2].wizard # 0
          /\ s1[s2].step \in 0..(Fields + 1) /\ s1[s2].step # 0
      <4>1. PICK a \in Nat, b \in Nat : a = s5 /\ b = Fields
        BY ConversationAssumption, WizardWorkers
      <4>2. \A i \in 1..a : i \in 0..a /\ i # 0
        BY <4>1
      <4>3. \A i \in 1..b : i \in 0..(b + 1) /\ i # 0
        BY <4>1
      <4>4. QED
        BY <3>1, <4>1, <4>2, <4>3 DEF WZ!Prompts
    <3>3. n = [at |-> "run", wizard |-> s1[s2].wizard, step |-> s1[s2].step, name |-> s2, text |-> t]
      BY <1>1, <2>1
    <3>4. QED
      BY <1>3, <2>1, <3>1, <3>2, <3>3
  <2>2. CASE s2 \notin DOMAIN s1
    <3>1. 0 \in 0..s5 /\ 0 \in 0..(Fields + 1)
      BY ConversationAssumption, WizardWorkers
    <3>2. n = [WZ!Idle EXCEPT !.at = "other"]
      BY <1>1, <2>2
    <3>3. n \in [at : {"other"}, wizard : 0..s5, step : 0..(Fields + 1), name : Nat, text : Nat]
      BY <3>1, <3>2 DEF WZ!Idle
    <3>4. QED
      BY <3>3
  <2>3. QED
    BY <2>1, <2>2
<1>5. WZ!WizardShapes' /\ s4'[u] = n /\ \A v \in Handlers : v # u => s4'[v] = s4[v]
  <2>1. s6' \in {s6, s6 + 1} /\ s7' \subseteq 1..s6'
    BY <1>2, <1>3, WizardWorkers
  <2>2. n.at \in {"run", "clear", "handle"} => n.step \in WZ!Prompts /\ n.text \in 1..s6'
    BY <1>2, <1>3, <1>4
  <2>3. QED
    BY <1>2, <1>4, <2>1, <2>2, WorkerGoes, WizardWorkers
<1>6. WZ!FormsWhole'
  BY <1>2, FormsStay
<1>7. ASSUME ~s13'
      PROVE  /\ \A v \in Handlers : v # u => s4'[v] = WZ!Idle
             /\ n.at # "other" => WZ!AtQuestion(n)'
             /\ (s2 \in DOMAIN s1 => WZ!Reached(s1[s2].wizard, s1[s2].step))'
  <2>1. ~s13 /\ \A v \in Handlers : v # u => s4'[v] = WZ!Idle
    BY <1>2, <1>5, <1>7
  <2>2. \A v, step : WZ!Reached(v, step)' = WZ!Reached(v, step)
    BY <1>2, ReachedStays
  <2>3. s2 \in DOMAIN s1 => WZ!Reached(s1[s2].wizard, s1[s2].step)
    BY <2>1 DEF WZ!WizardInv
  <2>4. \A v \in 1..s5 : \A q \in DOMAIN s12[v] : s12[v][q] < t
    <3>1. \A v \in 1..s5 : \A q \in DOMAIN s12[v] : s12[v][q] \in Nat /\ s12[v][q] <= s6
      BY WizardWorkers
    <3>2. QED
      BY <1>3, <3>1
  <2>5. t \notin s7
    BY <1>3, WizardWorkers
  <2>6. n.at = "run" => WZ!AtQuestion(n)'
    BY <1>2, <1>4, <2>2, <2>3, <2>4, <2>5 DEF WZ!AtQuestion
  <2>7. QED
    BY <1>2, <1>4, <2>1, <2>2, <2>3, <2>6
<1>8. QED
  BY <1>4, <1>5, <1>6, <1>7, WizardLeaves

\* Another handler had it.
LEMMA WizardOthers == ASSUME WZ!WizardInv, NEW u \in Handlers, WZ!Other(u) PROVE WZ!WizardInv'
<1>1. /\ s4[u].at = "other" /\ s4' = [s4 EXCEPT ![u] = WZ!Idle]
      /\ UNCHANGED <<s1, s2, s3, s5, s6, s7, s8, s9, s10, s11, s12, s13>>
  BY DEF WZ!Other, WZ!Step
<1>2. WZ!WizardShapes' /\ s4'[u] = WZ!Idle /\ \A v \in Handlers : v # u => s4'[v] = s4[v]
  <2>1. s6' \in {s6, s6 + 1} /\ s7' \subseteq 1..s6'
    BY <1>1, WizardWorkers
  <2>2. QED
    BY <1>1, <2>1, WorkerGoes, WizardWorkers
<1>3. WZ!FormsWhole'
  BY <1>1, FormsStay
<1>4. ASSUME ~s13
      PROVE  /\ \A v \in Handlers : v # u => s4'[v] = WZ!Idle
             /\ (s2 \in DOMAIN s1 => WZ!Reached(s1[s2].wizard, s1[s2].step))'
  <2>1. \A v \in Handlers : v # u => s4[v] = WZ!Idle
    BY <1>1, <1>4, WizardLone
  <2>2. \A v, step : WZ!Reached(v, step)' = WZ!Reached(v, step)
    BY <1>1, ReachedStays
  <2>3. QED
    BY <1>1, <1>2, <1>4, <2>1, <2>2 DEF WZ!WizardInv
<1>5. QED
  BY <1>1, <1>2, <1>3, <1>4, WizardLeaves DEF WZ!Idle

\* An answer is right, or the question is asked again.
LEMMA WizardRuns == ASSUME WZ!WizardInv, NEW u \in Handlers, WZ!Run(u) PROVE WZ!WizardInv'
<1>1. PICK w, n : w = s4[u] /\ n \in {[w EXCEPT !.at = "clear"], [w EXCEPT !.at = "ask"]}
                  /\ s4' = [s4 EXCEPT ![u] = n]
                  /\ (n.at = "clear" => s7' = s7) /\ s7' \in {s7, s7 \cup {w.text}}
  <2>1. PICK w, a, b : w = s4[u] /\ a = [w EXCEPT !.at = "clear"] /\ b = [w EXCEPT !.at = "ask"]
    OBVIOUS
  <2>2. w.at = "run" => b.at = "ask"
    BY <2>1, WizardWorkers
  <2>3. w.at = "run"
    BY <2>1 DEF WZ!Run, WZ!Step
  <2>4. \/ s4' = [s4 EXCEPT ![u] = a] /\ s7' = s7
        \/ s4' = [s4 EXCEPT ![u] = b] /\ s7' = s7 \cup {w.text}
    BY <2>1 DEF WZ!Run, WZ!Step, WZ!Going
  <2>5. QED
    BY <2>1, <2>2, <2>3, <2>4
<1>2. /\ w.at = "run" /\ s8 \subseteq s8' /\ s1' = [k \in DOMAIN s1 \ {w.name} |-> s1[k]]
      /\ UNCHANGED <<s2, s3, s5, s6, s9, s10, s11, s12, s13>>
  BY <1>1 DEF WZ!Run, WZ!Step, WZ!Without
<1>3. /\ w \in [at : {"run"}, wizard : 0..s5, step : 0..(Fields + 1), name : Nat, text : Nat]
      /\ w.wizard \in 1..s5 /\ w.wizard # 0 /\ w.step # 0 /\ w.step \in WZ!Prompts
  <2>1. /\ w.wizard \in 1..s5 /\ w.step \in 1..(Fields + 1) /\ w.step \in WZ!Prompts
        /\ w \in [at : {"idle", "ask", "point", "other", "run", "clear", "handle"}, wizard : 0..s5,
                  step : 0..(Fields + 1), name : Nat, text : Nat]
    BY <1>1, <1>2, WizardWorkers
  <2>2. w.wizard # 0 /\ w.step # 0
    <3>1. s5 \in Nat /\ Fields \in Nat
      BY ConversationAssumption, WizardWorkers
    <3>2. \A i, m : m \in Nat /\ i \in 1..m => i # 0
      OBVIOUS
    <3>3. Fields + 1 \in Nat
      BY <3>1
    <3>4. QED
      BY <2>1, <3>1, <3>2, <3>3, Zenon
  <2>3. QED
    BY <1>2, <2>1, <2>2
<1>4. /\ n \in [at : {"ask", "clear"}, wizard : 0..s5, step : 0..(Fields + 1), name : Nat, text : Nat]
      /\ n.wizard = w.wizard /\ n.step = w.step /\ n.name = w.name /\ n.text = w.text
  BY <1>1, <1>3
<1>5. ASSUME ~s13
      PROVE  /\ WZ!Reached(w.wizard, w.step) /\ w.text = s6 /\ s6 \notin s7 /\ s2 \in {0, w.name}
             /\ \A v \in 1..s5 : \A q \in DOMAIN s12[v] : s12[v][q] < s6
             /\ \A v \in Handlers : v # u => s4[v] = WZ!Idle
  <2>1. WZ!AtQuestion(w) /\ \A v \in Handlers : v # u => s4[v] = WZ!Idle
    BY <1>1, <1>2, <1>5, WizardLone
  <2>2. QED
    BY <1>2, <2>1 DEF WZ!AtQuestion
<1>6. ASSUME ~s13
      PROVE  \A v \in 1..s5 : \A q \in DOMAIN s12[v] : s12[v][q] \notin s7 => s12[v][q] \notin s7'
  <2>1. ASSUME NEW v \in 1..s5, NEW q \in DOMAIN s12[v]
        PROVE  s12[v][q] # s6
    <3>1. s12[v][q] < s6
      BY <1>5, <1>6
    <3>2. s12[v][q] \in Nat /\ s6 \in Nat
      BY WizardWorkers
    <3>3. QED
      BY <3>1, <3>2
  <2>2. QED
    BY <1>1, <1>5, <1>6, <2>1
<1>7. DOMAIN s1' = DOMAIN s1 \ {w.name} /\ \A k \in DOMAIN s1' : s1'[k] = s1[k]
  BY <1>2
<1>8. WZ!WizardShapes' /\ s4'[u] = n /\ \A v \in Handlers : v # u => s4'[v] = s4[v]
  <2>1. s6' \in {s6, s6 + 1} /\ w.text \in 1..s6' /\ s7' \subseteq 1..s6'
    BY <1>1, <1>2, WizardWorkers
  <2>2. s1' \in [DOMAIN s1' -> [wizard : 1..s5, step : WZ!Prompts]] /\ DOMAIN s1' \subseteq DOMAIN s1
    BY <1>2, <1>7, WizardWorkers
  <2>3. /\ n \in [at : {"ask", "run", "clear", "handle", "other"}, wizard : 0..s5,
                  step : 0..(Fields + 1), name : Nat, text : Nat]
        /\ n.at # "other" => n.wizard # 0 /\ n.step # 0
        /\ n.at \in {"run", "clear", "handle"} => n.step \in WZ!Prompts /\ n.text \in 1..s6'
    BY <1>3, <1>4, <2>1
  <2>4. \A f \in s11' : f.wizard \in 1..s5
    BY <1>2, WizardWorkers
  <2>5. QED
    BY <1>1, <1>2, <2>1, <2>2, <2>3, <2>4, WorkerGoes
<1>9. ASSUME ~s13
      PROVE  WZ!FormsWhole'
  <2>1. WZ!FormsWhole
    BY DEF WZ!WizardInv
  <2>2. ASSUME NEW f \in s11, NEW q \in WZ!Prompts
        PROVE  s12[f.wizard][q] \in s8' \/ (f.got[q] = s12[f.wizard][q] /\ s12[f.wizard][q] \notin s7')
    <3>1. Len(s12[f.wizard]) = Fields /\ f.wizard \in 1..s5
      BY <1>9, <2>1, WizardWorkers DEF WZ!FormsWhole
    <3>2. q \in DOMAIN s12[f.wizard]
      BY <3>1, WizardWorkers DEF WZ!Prompts
    <3>3. s12[f.wizard][q] \in s8 \/ (f.got[q] = s12[f.wizard][q] /\ s12[f.wizard][q] \notin s7)
      BY <1>9, <2>1 DEF WZ!FormsWhole
    <3>4. QED
      BY <1>2, <1>6, <1>9, <3>1, <3>2, <3>3
  <2>3. \A f \in s11 : Len(s12[f.wizard]) = Fields
    BY <1>9, <2>1 DEF WZ!FormsWhole
  <2>4. \A f, g \in s11 : f.wizard = g.wizard => f = g
    BY <1>9, <2>1 DEF WZ!FormsWhole
  <2>5. QED
    BY <1>2, <2>2, <2>3, <2>4 DEF WZ!FormsWhole, WZ!Prompts
<1>10. ASSUME ~s13
       PROVE  /\ \A v \in Handlers : v # u => s4'[v] = WZ!Idle
              /\ WZ!AtQuestion(n)'
              /\ s2' \notin DOMAIN s1'
  <2>1. s2' \notin DOMAIN s1'
    BY <1>2, <1>5, <1>7, <1>10, WizardWorkers
  <2>2. WZ!Reached(w.wizard, w.step)'
    <3>1. WZ!Reached(w.wizard, w.step)
      BY <1>5, <1>10
    <3>2. PICK k \in Nat : k = w.step - 1
      BY <1>3, ConversationAssumption DEF WZ!Prompts
    <3>3. \A q \in 1..k : q \in DOMAIN s12[w.wizard]
      BY <1>3, <3>1, <3>2, WizardWorkers DEF WZ!Reached
    <3>4. \A q \in 1..k : s12[w.wizard][q] = s3[q] /\ s12[w.wizard][q] \notin s7'
      BY <1>3, <1>6, <1>10, <3>1, <3>2, <3>3 DEF WZ!Reached
    <3>5. QED
      BY <1>2, <3>1, <3>2, <3>4 DEF WZ!Reached
  <2>3. n.at \in {"ask", "clear"} /\ (n.at = "clear" => s7' = s7)
    BY <1>1, <1>4
  <2>4. WZ!AtQuestion(n)'
    BY <1>2, <1>4, <1>5, <1>10, <2>1, <2>2, <2>3 DEF WZ!AtQuestion
  <2>5. QED
    BY <1>5, <1>8, <1>10, <2>1, <2>4
<1>11. WZ!FormsWhole'
  BY <1>2, <1>9 DEF WZ!FormsWhole
<1>12. QED
  BY <1>2, <1>8, <1>10, <1>11, WizardLeaves

\* The session forgets the question.
LEMMA WizardClears == ASSUME WZ!WizardInv, NEW u \in Handlers, WZ!Clear(u) PROVE WZ!WizardInv'
<1>1. PICK w, n : w = s4[u] /\ n = [w EXCEPT !.at = "handle"]
  OBVIOUS
<1>2. /\ w.at = "clear" /\ s4' = [s4 EXCEPT ![u] = n] /\ s2' = 0
      /\ UNCHANGED <<s1, s3, s5, s6, s7, s8, s9, s10, s11, s12, s13>>
  BY <1>1 DEF WZ!Clear, WZ!Step, WZ!Going
<1>3. /\ w \in [at : {"clear"}, wizard : 0..s5, step : 0..(Fields + 1), name : Nat, text : Nat]
      /\ w.wizard # 0 /\ w.step # 0 /\ w.step \in WZ!Prompts /\ w.text \in 1..s6
  <2>1. /\ w.wizard \in 1..s5 /\ w.step \in 1..(Fields + 1) /\ w.step \in WZ!Prompts /\ w.text \in 1..s6
        /\ w \in [at : {"idle", "ask", "point", "other", "run", "clear", "handle"}, wizard : 0..s5,
                  step : 0..(Fields + 1), name : Nat, text : Nat]
    BY <1>1, <1>2, WizardWorkers
  <2>2. w.wizard # 0 /\ w.step # 0
    <3>1. s5 \in Nat /\ Fields \in Nat
      BY ConversationAssumption, WizardWorkers
    <3>2. QED
      BY <2>1, <3>1
  <2>3. QED
    BY <1>2, <2>1, <2>2
<1>4. /\ n \in [at : {"handle"}, wizard : 0..s5, step : 0..(Fields + 1), name : Nat, text : Nat]
      /\ n.at = "handle" /\ n.wizard = w.wizard /\ n.step = w.step /\ n.text = w.text
  BY <1>1, <1>3
<1>5. WZ!WizardShapes' /\ s4'[u] = n /\ \A v \in Handlers : v # u => s4'[v] = s4[v]
  <2>1. s6' \in {s6, s6 + 1} /\ s7' \subseteq 1..s6'
    BY <1>2, WizardWorkers
  <2>2. /\ n \in [at : {"ask", "run", "clear", "handle", "other"}, wizard : 0..s5,
                  step : 0..(Fields + 1), name : Nat, text : Nat]
        /\ n.at # "other" => n.wizard # 0 /\ n.step # 0
        /\ n.at \in {"run", "clear", "handle"} => n.step \in WZ!Prompts /\ n.text \in 1..s6'
    BY <1>2, <1>3, <1>4
  <2>3. QED
    BY <1>2, <2>1, <2>2, WorkerGoes, WizardWorkers
<1>6. WZ!FormsWhole'
  BY <1>2, FormsStay
<1>7. ASSUME ~s13
      PROVE  WZ!AtQuestion(n)' /\ \A v \in Handlers : v # u => s4'[v] = WZ!Idle
  <2>1. WZ!AtQuestion(w) /\ \A v \in Handlers : v # u => s4[v] = WZ!Idle
    BY <1>1, <1>2, <1>7, WizardLone
  <2>2. \A v, step : WZ!Reached(v, step)' = WZ!Reached(v, step)
    BY <1>2, ReachedStays
  <2>3. s2' \notin DOMAIN s1'
    BY <1>2, WizardWorkers
  <2>4. WZ!AtQuestion(n)'
    BY <1>2, <1>4, <2>1, <2>2, <2>3 DEF WZ!AtQuestion
  <2>5. QED
    BY <1>5, <2>1, <2>4
<1>8. s2' \notin DOMAIN s1'
  BY <1>2, WizardWorkers
<1>9. QED
  BY <1>2, <1>5, <1>6, <1>7, <1>8, WizardLeaves


\* The answer is stored, and the next question follows.
LEMMA WizardHandles == ASSUME WZ!WizardInv, NEW u \in Handlers, WZ!Handle(u) PROVE WZ!WizardInv'
<1>1. PICK w, n, s, m : /\ w = s4[u] /\ s = w.step + 1
                        /\ m = [w EXCEPT !.at = "ask"] /\ n = [m EXCEPT !.step = s]
  OBVIOUS
<1>2. /\ w.at = "handle" /\ s4' = [s4 EXCEPT ![u] = n]
      /\ s3' = [s3 EXCEPT ![w.step] = w.text]
      /\ s12' = [s12 EXCEPT ![w.wizard] = Append(s12[w.wizard], w.text)]
      /\ UNCHANGED <<s1, s2, s5, s6, s7, s8, s9, s10, s11, s13>>
  <2>1. w.at = "handle" /\ s4' = [s4 EXCEPT ![u] = [w EXCEPT !.at = "ask", !.step = w.step + 1]]
    BY <1>1 DEF WZ!Handle, WZ!Step
  <2>2. w \in [at : {"idle", "ask", "point", "other", "run", "clear", "handle"}, wizard : 0..s5,
               step : 0..(Fields + 1), name : Nat, text : Nat]
    BY <1>1, WizardWorkers
  <2>3. [w EXCEPT !.at = "ask", !.step = w.step + 1] = n
    BY <1>1, <2>2
  <2>4. QED
    BY <1>1, <2>1, <2>3 DEF WZ!Handle
<1>3. /\ w \in [at : {"handle"}, wizard : 0..s5, step : 0..(Fields + 1), name : Nat, text : Nat]
      /\ w.wizard \in 1..s5 /\ w.step \in WZ!Prompts /\ w.text \in 1..s6
  <2>1. /\ w.wizard \in 1..s5 /\ w.step \in WZ!Prompts /\ w.text \in 1..s6
        /\ w \in [at : {"idle", "ask", "point", "other", "run", "clear", "handle"}, wizard : 0..s5,
                  step : 0..(Fields + 1), name : Nat, text : Nat]
    BY <1>1, <1>2, WizardWorkers
  <2>2. QED
    BY <1>2, <2>1
<1>4. /\ s \in 1..(Fields + 1) /\ s # 0 /\ w.step \in Nat /\ s - 1 = w.step /\ w.wizard # 0
      /\ w.text \in Nat /\ w.text <= s6 /\ 1..w.step \subseteq WZ!Prompts
      /\ \A q \in 1..w.step : q # w.step => q \in 1..(w.step - 1)
  <2>1. Fields \in Nat /\ w.step \in 1..Fields
    BY <1>3, ConversationAssumption DEF WZ!Prompts
  <2>2. s \in 1..(Fields + 1) /\ s # 0 /\ w.step \in Nat /\ s - 1 = w.step
    BY <1>1, <2>1
  <2>3. w.wizard # 0 /\ w.text \in Nat /\ w.text <= s6
    BY <1>3, WizardWorkers
  <2>4. 1..w.step \subseteq 1..Fields /\ \A q \in 1..w.step : q # w.step => q \in 1..(w.step - 1)
    BY <2>1
  <2>5. QED
    BY <2>2, <2>3, <2>4 DEF WZ!Prompts
<1>5. /\ n \in [at : {"idle", "ask", "point", "other", "run", "clear", "handle"}, wizard : 0..s5,
                step : 0..(Fields + 1), name : Nat, text : Nat]
      /\ n.at = "ask" /\ n.wizard = w.wizard /\ n.step = s
  <2>1. /\ m \in [at : {"ask"}, wizard : 0..s5, step : 0..(Fields + 1), name : Nat, text : Nat]
        /\ m.wizard = w.wizard
    BY <1>1, <1>3
  <2>2. s \in 0..(Fields + 1)
    BY <1>4
  <2>3. QED
    BY <1>1, <2>1, <2>2
<1>6. s4'[u] = n /\ \A v \in Handlers : v # u => s4'[v] = s4[v]
  BY <1>2, WizardWorkers
<1>7. PICK g : g = s12[w.wizard]
  OBVIOUS
<1>8. /\ g \in Seq(Nat) /\ Append(g, w.text) \in Seq(Nat) /\ Len(Append(g, w.text)) = Len(g) + 1
      /\ \A q \in 1..Len(g) : Append(g, w.text)[q] = g[q]
      /\ Append(g, w.text)[Len(g) + 1] = w.text
      /\ Len(g) \in Nat /\ DOMAIN g = 1..Len(g)
  <2>1. g \in Seq(Nat)
    BY <1>3, <1>7, WizardWorkers
  <2>2. QED
    BY <1>4, <2>1, AppendProperties
<1>9. /\ s12' \in Seq(Seq(Nat)) /\ Len(s12') = s5
      /\ s12'[w.wizard] = Append(g, w.text)
      /\ \A v \in 1..s5 : v # w.wizard => s12'[v] = s12[v]
  <2>1. s12 \in Seq(Seq(Nat)) /\ Len(s12) = s5 /\ DOMAIN s12 = 1..s5
    BY WizardWorkers
  <2>2. QED
    BY <1>2, <1>3, <1>7, <1>8, <2>1
<1>10. /\ s3' \in [WZ!Prompts -> Nat] /\ s3'[w.step] = w.text
       /\ \A q \in WZ!Prompts : q # w.step => s3'[q] = s3[q]
  BY <1>2, <1>3, <1>4, WizardWorkers
<1>11. WZ!WizardShapes'
  <2>1. \A v \in Handlers : s4'[v].at = "idle" => s4'[v] = WZ!Idle
    BY <1>5, <1>6, WizardWorkers
  <2>2. \A v \in Handlers : s4'[v].at \notin {"idle", "other"} => s4'[v].wizard # 0 /\ s4'[v].step # 0
    <3>1. \A v \in Handlers :
             s4[v].at \notin {"idle", "other"} => s4[v].wizard # 0 /\ s4[v].step # 0
      BY DEF WZ!WizardInv, WZ!WizardShapes
    <3>2. QED
      BY <1>4, <1>5, <1>6, <3>1
  <2>3. \A v \in Handlers : s4'[v].at \in {"point", "run", "clear", "handle"} => s4'[v].step \in WZ!Prompts
    BY <1>5, <1>6, WizardWorkers
  <2>4. \A v \in Handlers : s4'[v].at \in {"run", "clear", "handle"} => s4'[v].text \in 1..s6
    BY <1>5, <1>6, WizardWorkers
  <2>5. s4' \in [Handlers -> [at : {"idle", "ask", "point", "other", "run", "clear", "handle"}, wizard : 0..s5,
                                   step : 0..(Fields + 1), name : Nat, text : Nat]]
    BY <1>2, <1>5, WizardWorkers
  <2>6. \A v \in 1..s5 : \A q \in DOMAIN s12'[v] : s12'[v][q] <= s6
    <3>1. \A q \in DOMAIN Append(g, w.text) : Append(g, w.text)[q] <= s6
      <4>1. \A q \in 1..Len(g) : g[q] <= s6
        BY <1>3, <1>7, <1>8, WizardWorkers
      <4>2. \A q \in DOMAIN Append(g, w.text) : q \in 1..Len(g) \/ q = Len(g) + 1
        BY <1>8
      <4>3. QED
        BY <1>4, <1>8, <4>1, <4>2
    <3>2. QED
      BY <1>9, <3>1, WizardWorkers
  <2>7. UNCHANGED <<s1, s5, s6, s7, s9, s11>>
    BY <1>2
  <2>8. s12' \in Seq(Seq(Nat)) /\ Len(s12') = s5 /\ s3' \in [WZ!Prompts -> Nat]
    BY <1>9, <1>10
  <2>9. QED
    BY <2>1, <2>2, <2>3, <2>4, <2>5, <2>6, <2>7, <2>8, WizardWorkers DEF WZ!WizardShapes, WZ!Prompts
<1>12. ASSUME ~s13
       PROVE  /\ WZ!Reached(w.wizard, w.step) /\ w.text = s6 /\ s6 \notin s7 /\ s2 \notin DOMAIN s1
              /\ \A v \in Handlers : v # u => s4[v] = WZ!Idle
  <2>1. WZ!AtQuestion(w) /\ \A v \in Handlers : v # u => s4[v] = WZ!Idle
    BY <1>1, <1>2, <1>12, WizardLone
  <2>2. QED
    BY <1>2, <2>1 DEF WZ!AtQuestion
<1>13. WZ!FormsWhole'
  <2>1. CASE s13
    BY <1>2, <2>1 DEF WZ!FormsWhole
  <2>2. CASE ~s13
    <3>1. WZ!FormsWhole /\ WZ!Reached(w.wizard, w.step)
      BY <1>12, <2>2 DEF WZ!WizardInv
    <3>2. \A f \in s11 : s12'[f.wizard] = s12[f.wizard]
      <4>1. \A f \in s11 : f.wizard # w.wizard /\ f.wizard \in 1..s5
        BY <3>1, WizardWorkers DEF WZ!Reached
      <4>2. QED
        BY <1>9, <4>1
    <3>3. /\ \A f \in s11, q \in WZ!Prompts :
                s12'[f.wizard][q] \in s8 \/ (f.got[q] = s12'[f.wizard][q] /\ s12'[f.wizard][q] \notin s7)
          /\ \A f \in s11 : Len(s12'[f.wizard]) = Fields
          /\ \A f, g2 \in s11 : f.wizard = g2.wizard => f = g2
      BY <2>2, <3>1, <3>2 DEF WZ!FormsWhole
    <3>4. s11' = s11 /\ s8' = s8 /\ s7' = s7
      BY <1>2
    <3>5. QED
      BY <3>3, <3>4 DEF WZ!FormsWhole, WZ!Prompts
  <2>3. QED
    BY <2>1, <2>2
<1>14. ASSUME ~s13
       PROVE  WZ!AtQuestion(n)' /\ \A v \in Handlers : v # u => s4'[v] = WZ!Idle
  <2>1. Len(g) = w.step - 1 /\ Len(g) + 1 = w.step
    BY <1>4, <1>7, <1>8, <1>12, <1>14 DEF WZ!Reached
  <2>2. ASSUME NEW q \in 1..w.step
        PROVE  s12'[w.wizard][q] = s3'[q] /\ s12'[w.wizard][q] \notin s7
    <3>1. CASE q = w.step
      BY <1>8, <1>9, <1>10, <1>12, <1>14, <2>1, <3>1
    <3>2. CASE q # w.step
      <4>1. q \in 1..(w.step - 1) /\ q \in WZ!Prompts
        BY <1>4, <2>2, <3>2
      <4>2. g[q] = s3[q] /\ g[q] \notin s7
        BY <1>7, <1>12, <1>14, <4>1 DEF WZ!Reached
      <4>3. s12'[w.wizard][q] = g[q]
        BY <1>8, <1>9, <2>1, <4>1
      <4>4. QED
        BY <1>10, <3>2, <4>1, <4>2, <4>3
    <3>3. QED
      BY <3>1, <3>2
  <2>3. Len(s12'[w.wizard]) = w.step /\ \A f \in s11 : f.wizard # w.wizard
    BY <1>8, <1>9, <1>12, <1>14, <2>1 DEF WZ!Reached
  <2>4. WZ!Reached(w.wizard, s)'
    <3>1. UNCHANGED <<s7, s11>> /\ s - 1 = w.step
      BY <1>2, <1>4
    <3>2. QED
      BY <2>2, <2>3, <3>1 DEF WZ!Reached
  <2>5. WZ!AtQuestion(n)'
    BY <1>2, <1>5, <1>12, <1>14, <2>4 DEF WZ!AtQuestion
  <2>6. QED
    BY <1>6, <1>12, <1>14, <2>5
<1>15. QED
  BY <1>2, <1>6, <1>11, <1>12, <1>13, <1>14, WizardLeaves

\* A timer fires.
LEMMA WizardTimer == ASSUME WZ!WizardInv, NEW name \in s9, WZ!Timer(name) PROVE WZ!WizardInv'
<1>1. /\ s9' = s9 \ {name} /\ s10' = s10 + 1
      /\ UNCHANGED <<s3, s4, s5, s6, s7, s8, s11, s12, s13>>
  BY DEF WZ!Timer
<1>2. /\ DOMAIN s1' \subseteq DOMAIN s1 /\ \A k \in DOMAIN s1' : s1'[k] = s1[k]
      /\ s1' = [k \in DOMAIN s1' |-> s1'[k]]
      /\ s2' \in {s2, 0}
  <2>1. CASE UNCHANGED <<s1, s2>>
    BY <2>1, WizardWorkers
  <2>2. CASE s1' = WZ!Without(name) /\ s2' \in {s2, IF s2 = name THEN 0 ELSE s2}
    BY <2>2 DEF WZ!Without
  <2>3. QED
    BY <2>1, <2>2 DEF WZ!Timer
<1>3. 0 \notin DOMAIN s1 /\ (s2' \in DOMAIN s1' => s2' = s2 /\ s2 \in DOMAIN s1)
  BY <1>2, WizardWorkers
<1>4. WZ!WizardShapes'
  <2>1. s1' \in [DOMAIN s1' -> [wizard : 1..s5, step : WZ!Prompts]] /\ DOMAIN s1' \subseteq Nat \ {0}
    BY <1>2, WizardWorkers
  <2>2. WZ!IsFiniteSet(s9')
    BY <1>1, WizardWorkers, FS_RemoveElement, WZCounts
  <2>3. QED
    BY <1>1, <2>1, <2>2 DEF WZ!WizardInv, WZ!WizardShapes, WZ!Prompts
<1>5. WZ!FormsWhole'
  BY <1>1, FormsStay
<1>6. \A w, step : WZ!Reached(w, step)' = WZ!Reached(w, step)
  BY <1>1, ReachedStays
<1>7. ASSUME ~s13, NEW u \in Handlers, s4[u].at \notin {"idle", "other"}
      PROVE  WZ!AtQuestion(s4[u])'
  <2>1. WZ!AtQuestion(s4[u])
    BY <1>7 DEF WZ!WizardInv
  <2>2. PICK w : w = s4[u] /\ s4'[u] = w
    BY <1>1
  <2>3. WZ!AtQuestion(w)'
    BY <1>1, <1>2, <1>3, <1>6, <2>1, <2>2 DEF WZ!AtQuestion
  <2>4. QED
    BY <2>2, <2>3
<1>8. QED
  BY <1>1, <1>2, <1>3, <1>4, <1>5, <1>6, <1>7 DEF WZ!WizardInv

LEMMA WizardStep == ASSUME WZ!WizardInv, [WZ!WizardsNext]_(WZ!wizardVars) PROVE WZ!WizardInv'
<1>1. CASE WZ!WizardsNext
  BY <1>1, WizardOpens, WizardAsks, WizardPoints, WizardCompletes, WizardLooks, WizardOthers, WizardRuns,
     WizardClears, WizardHandles, WizardTimer DEF WZ!WizardsNext
<1>2. CASE UNCHANGED WZ!wizardVars
  <2>1. UNCHANGED <<s1, s2, s3, s4, s5, s6, s7, s8, s9, s10, s11, s12, s13>>
    BY <1>2 DEF WZ!wizardVars
  <2>2. WZ!WizardShapes'
    BY <2>1 DEF WZ!WizardInv, WZ!WizardShapes, WZ!Prompts
  <2>3. WZ!FormsWhole'
    BY <2>1, FormsStay
  <2>4. \A w, step : WZ!Reached(w, step)' = WZ!Reached(w, step)
    BY <2>1, ReachedStays
  <2>5. \A w : WZ!AtQuestion(w)' = WZ!AtQuestion(w)
    BY <2>1, <2>4 DEF WZ!AtQuestion
  <2>6. QED
    BY <2>1, <2>2, <2>3, <2>4, <2>5 DEF WZ!WizardInv
<1>3. QED
  BY <1>1, <1>2

LEMMA WizardBegins == ASSUME WZ!InitWizards PROVE WZ!WizardInv
<1>1. /\ s1 = [n \in {} |-> WZ!Idle] /\ s2 = 0 /\ s3 = [q \in WZ!Prompts |-> 0]
      /\ s4 = [u \in Handlers |-> WZ!Idle] /\ s5 = 0 /\ s6 = 0 /\ s7 = {} /\ s9 = {}
      /\ s11 = {} /\ s12 = <<>>
  BY DEF WZ!InitWizards
<1>2. WZ!Idle \in [at : {"idle", "ask", "point", "other", "run", "clear", "handle"}, wizard : 0..s5,
                step : 0..(Fields + 1), name : Nat, text : Nat] /\ WZ!Idle.at = "idle"
  <2>1. 0 \in 0..s5 /\ 0 \in 0..(Fields + 1)
    BY <1>1, ConversationAssumption
  <2>2. QED
    BY <2>1 DEF WZ!Idle
<1>3. s4 \in [Handlers -> [at : {"idle", "ask", "point", "other", "run", "clear", "handle"}, wizard : 0..s5,
                                step : 0..(Fields + 1), name : Nat, text : Nat]]
  BY <1>1, <1>2
<1>4. WZ!IsFiniteSet(s9)
  BY <1>1, FS_EmptySet, WZCounts
<1>5. s12 \in Seq(Seq(Nat)) /\ Len(s12) = s5 /\ 1..s5 = {}
  BY <1>1
<1>6. s1 \in [DOMAIN s1 -> [wizard : 1..s5, step : WZ!Prompts]] /\ DOMAIN s1 = {}
  BY <1>1
<1>7. WZ!WizardShapes
  BY <1>1, <1>2, <1>3, <1>4, <1>5, <1>6 DEF WZ!WizardShapes
<1>8. WZ!FormsWhole
  BY <1>1 DEF WZ!FormsWhole
<1>9. QED
  BY <1>1, <1>2, <1>6, <1>7, <1>8 DEF WZ!WizardInv

-----------------------------------------------------------------------------
(***************************************************************************)
(* Surveys. They have s1 to s9: callbacks, shown, answers, workers,        *)
(* surveys, clicks, late, completed and doubted. As long as nothing is     *)
(* doubted, one token goes through a survey: it is with a worker, or it is *)
(* the handler that is registered for the next answer, and what has been   *)
(* answered up to it is in order (Carries and Waits in Surveys.tla).       *)
(***************************************************************************)
\* What a worker of a survey is.
LEMMA SurveyWorkers ==
    ASSUME SU!SurveyInv, NEW u \in Handlers
    PROVE  /\ s4 \in [Handlers -> {SU!Idle} \cup [at : {"ask", "register", "run", "read"}, survey : Nat,
                                                  question : Nat \ {0}, answers : Seq(Nat)]]
           /\ s4[u].at = "idle" <=> s4[u] = SU!Idle
           /\ s4[u].at # "idle" =>
                 s4[u] \in [at : {"ask", "register", "run", "read"}, survey : Nat,
                                 question : Nat \ {0}, answers : Seq(Nat)]
           /\ s1 \in [SU!All -> Nat] /\ s5 \in Nat
BY DEF SU!SurveyInv, SU!SurveyShapes, SU!Idle

\* As long as nothing is doubted, a worker that is not idle is the only one.
LEMMA SurveyLone ==
    ASSUME SU!SurveyInv, ~s9, NEW u \in Handlers, s4[u].at # "idle"
    PROVE  /\ \A v \in Handlers : v # u => s4[v] = SU!Idle
           /\ SU!Carries(s4[u])
           /\ \A c \in s8 : c.survey # s5
<1>1. s4[u] # SU!Idle
  BY DEF SU!Idle
<1>2. QED
  BY <1>1 DEF SU!SurveyInv

\* A survey begins.
LEMMA SurveyOpens == ASSUME SU!SurveyInv, NEW u \in Handlers, SU!Open(u) PROVE SU!SurveyInv'
<1>1. PICK w : w = [at |-> "ask", survey |-> s5 + 1, question |-> 1, answers |-> <<>>]
  OBVIOUS
<1>2. /\ s5 \in Nat /\ s5' = s5 + 1 /\ s4[u] = SU!Idle
      /\ s4' = [s4 EXCEPT ![u] = w]
      /\ s9' = (s9 \/ SU!Overlap(u) \/ s1 # [q \in SU!All |-> 0] \/ s2 # {})
      /\ UNCHANGED <<s1, s2, s3, s6, s7, s8>>
  BY <1>1, SurveyWorkers DEF SU!Open, SU!Step
<1>3. w \in [at : {"ask", "register", "run", "read"}, survey : Nat, question : Nat \ {0}, answers : Seq(Nat)]
  <2>1. s5 + 1 \in Nat /\ 1 \in Nat \ {0} /\ <<>> \in Seq(Nat)
    BY <1>2
  <2>2. QED
    BY <1>1, <2>1
<1>4. SU!SurveyShapes'
  BY <1>2, <1>3 DEF SU!SurveyInv, SU!SurveyShapes
<1>5. SU!AnswersInOrder'
  <2>1. CASE s9'
    BY <2>1 DEF SU!AnswersInOrder
  <2>2. CASE ~s9'
    BY <1>2, <2>2 DEF SU!SurveyInv, SU!AnswersInOrder
  <2>3. QED
    BY <2>1, <2>2
<1>6. ASSUME ~s9'
      PROVE  /\ \A v \in Handlers \ {u} : s4'[v] = SU!Idle
             /\ s4'[u] = w
             /\ \A q \in SU!All : s1[q] = 0
             /\ \A c \in s8 : c.survey <= s5' /\ c.survey # s5'
  <2>1. ~s9 /\ ~SU!Overlap(u) /\ s1 = [q \in SU!All |-> 0]
    BY <1>2, <1>6
  <2>2. \A c \in s8 : c.survey \in Nat /\ c.survey <= s5
    BY <2>1 DEF SU!SurveyInv, SU!SurveyShapes
  <2>3. \A c \in s8 : c.survey <= s5 + 1 /\ c.survey # s5 + 1
    BY <1>2, <2>2
  <2>4. \A v \in Handlers \ {u} : s4'[v] = s4[v]
    BY <1>2
  <2>5. s4'[u] = w
    BY <1>2 DEF SU!SurveyInv, SU!SurveyShapes
  <2>6. QED
    BY <1>2, <2>1, <2>3, <2>4, <2>5 DEF SU!Overlap
<1>7. ASSUME ~s9'
      PROVE  SU!Carries(w)'
  <2>1. w.survey = s5 + 1 /\ w.question = 1 /\ w.at = "ask" /\ w.answers = <<>>
    BY <1>1
  <2>2. 1 - 1 = 0 /\ SU!Answered(0) = <<>> /\ 1 <= Questions + 1
    BY ConversationAssumption DEF SU!Answered
  <2>3. QED
    BY <1>2, <1>6, <1>7, <2>1, <2>2 DEF SU!Carries, SU!Answered
<1>8. QED
  BY <1>2, <1>4, <1>5, <1>6, <1>7 DEF SU!SurveyInv

\* What holds of the completed surveys stays, when none is added.
LEMMA SurveyKeeps ==
    ASSUME SU!SurveyInv, s8' = s8, s9 => s9', s5' = s5
    PROVE  /\ SU!AnswersInOrder' /\ \A c \in s8' : c.survey \in Nat
           /\ ~s9' => \A c \in s8' : c.survey <= s5'
BY DEF SU!SurveyInv, SU!SurveyShapes, SU!AnswersInOrder

\* A question is asked, and its handler registered.
LEMMA SurveyAsks == ASSUME SU!SurveyInv, NEW u \in Handlers, SU!Ask(u) PROVE SU!SurveyInv'
<1>1. PICK w, n : w = s4[u] /\ n = [w EXCEPT !.at = "register"]
  OBVIOUS
<1>2. /\ w.at = "ask" /\ w.question <= Questions /\ s4' = [s4 EXCEPT ![u] = n]
      /\ s3' = w.answers
      /\ UNCHANGED <<s1, s5, s6, s8, s9>>
  BY <1>1 DEF SU!Ask, SU!Step, SU!Going
<1>3. w \in [at : {"ask", "register", "run", "read"}, survey : Nat, question : Nat \ {0}, answers : Seq(Nat)]
  BY <1>1, <1>2, SurveyWorkers
<1>4. /\ n \in [at : {"ask", "register", "run", "read"}, survey : Nat, question : Nat \ {0}, answers : Seq(Nat)]
      /\ n.at = "register" /\ n.survey = w.survey /\ n.question = w.question
  BY <1>1, <1>3
<1>5. SU!SurveyShapes'
  BY <1>2, <1>3, <1>4 DEF SU!SurveyInv, SU!SurveyShapes
<1>6. s4'[u] = n /\ \A v \in Handlers : v # u => s4'[v] = s4[v]
  BY <1>2 DEF SU!SurveyInv, SU!SurveyShapes
<1>7. ASSUME ~s9
      PROVE  /\ SU!Carries(w) /\ \A v \in Handlers : v # u => s4[v] = SU!Idle
             /\ \A c \in s8 : c.survey # s5
  BY <1>1, <1>2, <1>7, SurveyLone
<1>8. ASSUME ~s9
      PROVE  SU!Carries(n)' /\ \A q \in SU!All : s1[q] = 0
  BY <1>2, <1>4, <1>7, <1>8 DEF SU!Carries
<1>9. QED
  BY <1>2, <1>5, <1>6, <1>7, <1>8, SurveyKeeps DEF SU!SurveyInv

LEMMA SurveyRegisters == ASSUME SU!SurveyInv, NEW u \in Handlers, SU!Register(u) PROVE SU!SurveyInv'
<1>1. PICK w : w = s4[u]
  OBVIOUS
<1>2. /\ w.at = "register" /\ s4' = [s4 EXCEPT ![u] = SU!Idle]
      /\ s1' = [s1 EXCEPT ![w.question] = w.survey]
      /\ UNCHANGED <<s2, s3, s5, s6, s7, s8, s9>>
  BY <1>1 DEF SU!Register, SU!Step
<1>3. /\ w \in [at : {"ask", "register", "run", "read"}, survey : Nat, question : Nat \ {0}, answers : Seq(Nat)]
      /\ s1 \in [SU!All -> Nat]
  BY <1>1, <1>2, SurveyWorkers
<1>4. s1' \in [SU!All -> Nat]
  BY <1>2, <1>3
<1>5. SU!SurveyShapes'
  BY <1>2, <1>4 DEF SU!SurveyInv, SU!SurveyShapes
<1>6. s4'[u] = SU!Idle /\ \A v \in Handlers : v # u => s4'[v] = s4[v]
  BY <1>2 DEF SU!SurveyInv, SU!SurveyShapes
<1>7. ASSUME ~s9
      PROVE  /\ SU!Carries(w) /\ \A v \in Handlers : v # u => s4[v] = SU!Idle
             /\ \A c \in s8 : c.survey # s5
  BY <1>1, <1>2, <1>7, SurveyLone
<1>8. ASSUME ~s9
      PROVE  /\ \A q \in SU!All : s1'[q] # 0 => q = w.question
             /\ s1'[w.question] = s5 /\ s3 = SU!Answered(w.question - 1)
  <2>1. w.question \in SU!All /\ w.survey = s5 /\ s3 = SU!Answered(w.question - 1)
    BY <1>2, <1>3, <1>7, <1>8, ConversationAssumption DEF SU!Carries, SU!All
  <2>2. \A q \in SU!All : s1[q] = 0
    BY <1>2, <1>7, <1>8 DEF SU!Carries
  <2>3. QED
    BY <1>2, <1>3, <2>1, <2>2
<1>9. ASSUME ~s9, NEW q \in SU!All, s1'[q] # 0
      PROVE  SU!Waits(q)'
  BY <1>2, <1>8, <1>9 DEF SU!Waits, SU!Answered
<1>10. ASSUME ~s9
       PROVE  \A v \in Handlers : s4'[v] = SU!Idle
  BY <1>6, <1>7, <1>10
<1>11. QED
  BY <1>2, <1>5, <1>7, <1>9, <1>10, SurveyKeeps DEF SU!SurveyInv

\* After the last question the survey is over.
LEMMA SurveyCompletes == ASSUME SU!SurveyInv, NEW u \in Handlers, SU!Complete(u) PROVE SU!SurveyInv'
<1>1. PICK w, c : w = s4[u] /\ c = [survey |-> w.survey, answers |-> w.answers]
  OBVIOUS
<1>2. /\ w.at = "ask" /\ w.question > Questions /\ s4' = [s4 EXCEPT ![u] = SU!Idle]
      /\ s8' = s8 \cup {c}
      /\ UNCHANGED <<s1, s3, s5, s6, s7, s9>>
  BY <1>1 DEF SU!Complete, SU!Step
<1>3. w \in [at : {"ask", "register", "run", "read"}, survey : Nat, question : Nat \ {0}, answers : Seq(Nat)]
  BY <1>1, <1>2, SurveyWorkers
<1>4. c.survey = w.survey /\ c.answers = w.answers
  BY <1>1
<1>5. s4'[u] = SU!Idle /\ \A v \in Handlers : v # u => s4'[v] = s4[v]
  BY <1>2 DEF SU!SurveyInv, SU!SurveyShapes
<1>6. ASSUME ~s9
      PROVE  /\ SU!Carries(w) /\ \A v \in Handlers : v # u => s4[v] = SU!Idle
             /\ \A d \in s8 : d.survey # s5
  BY <1>1, <1>2, <1>6, SurveyLone
<1>7. ASSUME ~s9
      PROVE  w.survey = s5 /\ w.answers = [q \in SU!All |-> q] /\ \A q \in SU!All : s1[q] = 0
  <2>1. w.question = Questions + 1 /\ w.question - 1 = Questions /\ w.answers = SU!Answered(w.question - 1)
    <3>1. Questions \in Nat /\ w.question \in Nat /\ w.question > Questions
      BY <1>2, <1>3, ConversationAssumption
    <3>2. SU!Carries(w) /\ w.at = "ask"
      BY <1>2, <1>6, <1>7
    <3>3. w.question <= Questions + 1 /\ w.answers = SU!Answered(w.question - 1)
      BY <3>2 DEF SU!Carries
    <3>4. QED
      BY <3>1, <3>3
  <2>2. w.answers = SU!Answered(Questions)
    BY <2>1
  <2>3. w.survey = s5 /\ \A q \in SU!All : s1[q] = 0
    BY <1>2, <1>6, <1>7 DEF SU!Carries
  <2>4. QED
    BY <2>2, <2>3 DEF SU!Answered, SU!All
<1>8. SU!SurveyShapes'
  BY <1>2, <1>3, <1>4 DEF SU!SurveyInv, SU!SurveyShapes
<1>9. SU!AnswersInOrder'
  BY <1>2, <1>4, <1>6, <1>7 DEF SU!SurveyInv, SU!AnswersInOrder
<1>10. ASSUME ~s9
       PROVE  \A d \in s8' : d.survey <= s5'
  <2>1. s5 \in Nat /\ s5 <= s5
    BY DEF SU!SurveyInv, SU!SurveyShapes
  <2>2. \A d \in s8 : d.survey <= s5
    BY <1>10 DEF SU!SurveyInv
  <2>3. QED
    BY <1>2, <1>4, <1>7, <1>10, <2>1, <2>2
<1>11. ASSUME ~s9
       PROVE  \A v \in Handlers : s4'[v] = SU!Idle
  BY <1>5, <1>6, <1>11
<1>12. QED
  BY <1>2, <1>7, <1>8, <1>9, <1>10, <1>11 DEF SU!SurveyInv

\* A button is clicked: only the last question has a handler.
LEMMA SurveyLooks == ASSUME SU!SurveyInv, NEW u \in Handlers, NEW q \in SU!All, SU!Look(u, q) PROVE SU!SurveyInv'
<1>1. PICK n : n = IF s1[q] = 0 THEN SU!Idle
                   ELSE [at |-> "run", survey |-> s1[q], question |-> q, answers |-> <<>>]
  OBVIOUS
<1>2. /\ s4[u].at = "idle" /\ s4' = [s4 EXCEPT ![u] = n] /\ s9' = (s9 \/ SU!Overlap(u))
      /\ UNCHANGED <<s1, s2, s3, s5, s7, s8>>
  BY <1>1 DEF SU!Look, SU!Step
<1>3. s4[u] = SU!Idle /\ s1 \in [SU!All -> Nat] /\ s5 \in Nat
  BY <1>2, SurveyWorkers
<1>4. s1[q] # 0 =>
         /\ n \in [at : {"ask", "register", "run", "read"}, survey : Nat, question : Nat \ {0}, answers : Seq(Nat)]
         /\ n.at = "run" /\ n.survey = s1[q] /\ n.question = q
  <2>1. <<>> \in Seq(Nat) /\ q \in Nat \ {0} /\ s1[q] \in Nat
    BY <1>3, ConversationAssumption DEF SU!All
  <2>2. QED
    BY <1>1, <2>1
<1>5. SU!SurveyShapes'
  BY <1>1, <1>2, <1>4 DEF SU!SurveyInv, SU!SurveyShapes
<1>6. s4'[u] = n /\ \A v \in Handlers : v # u => s4'[v] = s4[v]
  BY <1>2 DEF SU!SurveyInv, SU!SurveyShapes
<1>7. ASSUME ~s9'
      PROVE  /\ \A v \in Handlers : v # u => s4'[v] = SU!Idle
             /\ n # SU!Idle => s1[q] # 0
  BY <1>1, <1>2, <1>6, <1>7 DEF SU!Overlap
<1>8. ASSUME ~s9', n # SU!Idle
      PROVE  SU!Carries(n)' /\ \A c \in s8 : c.survey # s5
  <2>1. SU!Waits(q) /\ n.at = "run" /\ n.survey = s1[q] /\ n.question = q
    BY <1>2, <1>4, <1>7, <1>8 DEF SU!SurveyInv
  <2>2. q <= Questions + 1 /\ q <= Questions
    BY ConversationAssumption DEF SU!All
  <2>3. \A c \in s8 : c.survey # s5
    BY <1>2, <1>7, <1>8 DEF SU!SurveyInv
  <2>4. QED
    BY <1>2, <2>1, <2>2, <2>3 DEF SU!Carries, SU!Waits, SU!Answered
<1>9. ASSUME ~s9', NEW p \in SU!All, s1'[p] # 0
      PROVE  SU!Waits(p)'
  BY <1>2, <1>9 DEF SU!SurveyInv, SU!Waits, SU!Answered
<1>10. ASSUME ~s9', NEW c \in s8', c.survey = s5'
       PROVE  (\A v \in Handlers : s4'[v] = SU!Idle) /\ (\A p \in SU!All : s1'[p] = 0)
  BY <1>2, <1>6, <1>7, <1>8, <1>10 DEF SU!SurveyInv
<1>11. QED
  BY <1>2, <1>5, <1>6, <1>7, <1>8, <1>9, <1>10, SurveyKeeps DEF SU!SurveyInv

\* A handler takes itself out and adds its answer.
LEMMA SurveyRuns == ASSUME SU!SurveyInv, NEW u \in Handlers, SU!Run(u) PROVE SU!SurveyInv'
<1>1. PICK w, n : w = s4[u] /\ n = [w EXCEPT !.at = "read"]
  OBVIOUS
<1>2. /\ w.at = "run" /\ s4' = [s4 EXCEPT ![u] = n]
      /\ s1' = [s1 EXCEPT ![w.question] = 0]
      /\ UNCHANGED <<s2, s3, s5, s6, s7, s8, s9>>
  BY <1>1 DEF SU!Run, SU!Step, SU!Going
<1>3. /\ w \in [at : {"ask", "register", "run", "read"}, survey : Nat, question : Nat \ {0}, answers : Seq(Nat)]
      /\ s1 \in [SU!All -> Nat]
  BY <1>1, <1>2, SurveyWorkers
<1>4. /\ n \in [at : {"ask", "register", "run", "read"}, survey : Nat, question : Nat \ {0}, answers : Seq(Nat)]
      /\ n.at = "read" /\ n.survey = w.survey /\ n.question = w.question
  BY <1>1, <1>3
<1>5. s1' \in [SU!All -> Nat]
  BY <1>2, <1>3
<1>6. SU!SurveyShapes'
  BY <1>2, <1>4, <1>5 DEF SU!SurveyInv, SU!SurveyShapes
<1>7. s4'[u] = n /\ \A v \in Handlers : v # u => s4'[v] = s4[v]
  BY <1>2 DEF SU!SurveyInv, SU!SurveyShapes
<1>8. ASSUME ~s9
      PROVE  /\ SU!Carries(w) /\ \A v \in Handlers : v # u => s4[v] = SU!Idle
             /\ \A c \in s8 : c.survey # s5
  BY <1>1, <1>2, <1>8, SurveyLone
<1>9. ASSUME ~s9
      PROVE  \A q \in SU!All : s1'[q] = 0
  BY <1>2, <1>3, <1>8, <1>9 DEF SU!Carries
<1>10. ASSUME ~s9
       PROVE  SU!Carries(n)'
  BY <1>2, <1>4, <1>8, <1>9, <1>10 DEF SU!Carries, SU!Answered
<1>11. QED
  BY <1>2, <1>6, <1>7, <1>8, <1>9, <1>10, SurveyKeeps DEF SU!SurveyInv

LEMMA SurveyReads == ASSUME SU!SurveyInv, NEW u \in Handlers, SU!Read(u) PROVE SU!SurveyInv'
<1>1. PICK w, n : /\ w = s4[u]
                  /\ n = [w EXCEPT !.at = "ask", !.question = @ + 1, !.answers = Append(s3, w.question)]
  OBVIOUS
<1>2. /\ w.at = "read" /\ s4' = [s4 EXCEPT ![u] = n]
      /\ UNCHANGED <<s1, s2, s3, s5, s6, s7, s8, s9>>
  BY <1>1 DEF SU!Read, SU!Step
<1>3. w \in [at : {"ask", "register", "run", "read"}, survey : Nat, question : Nat \ {0}, answers : Seq(Nat)]
  BY <1>1, <1>2, SurveyWorkers
<1>4. n.at = "ask" /\ n.survey = w.survey /\ n.question = w.question + 1 /\ n.answers = Append(s3, w.question)
  BY <1>1, <1>3
<1>5. ASSUME ~s9
      PROVE  n.answers = SU!Answered(w.question) /\ SU!Carries(n)'
  <2>1. SU!Carries(w) /\ (\A q \in SU!All : s1[q] = 0) /\ s3 = SU!Answered(w.question - 1)
    BY <1>1, <1>2, <1>5, SurveyLone DEF SU!Carries
  <2>2. PICK k \in Nat : k = w.question - 1 /\ w.question = k + 1
    BY <1>3
  <2>3. Append(SU!Answered(k), k + 1) = SU!Answered(k + 1)
    <3>1. SU!Answered(k) \in Seq(Nat) /\ SU!Answered(k + 1) \in Seq(Nat) /\ k + 1 \in Nat
      BY DEF SU!Answered
    <3>2. Len(SU!Answered(k)) = k /\ Len(SU!Answered(k + 1)) = k + 1
      BY DEF SU!Answered
    <3>3. PICK s \in Seq(Nat), t \in Seq(Nat) : s = Append(SU!Answered(k), k + 1) /\ t = SU!Answered(k + 1)
      BY <3>1, AppendProperties
    <3>4. Len(s) = Len(t) /\ \A i \in 1..Len(s) : s[i] = t[i]
      BY <3>1, <3>2, <3>3, AppendProperties DEF SU!Answered
    <3>5. s = t
      BY <3>4, SeqEqual
    <3>6. QED
      BY <3>3, <3>5
  <2>4. n.answers = SU!Answered(w.question)
    BY <1>4, <2>1, <2>2, <2>3
  <2>5. n.question - 1 = w.question /\ n.question <= Questions + 1
    BY <1>2, <1>3, <1>4, <2>1, ConversationAssumption DEF SU!Carries
  <2>6. SU!Carries(n)'
    BY <1>2, <1>4, <2>1, <2>4, <2>5 DEF SU!Carries, SU!Answered
  <2>7. QED
    BY <2>4, <2>6
<1>6. n \in [at : {"ask", "register", "run", "read"}, survey : Nat, question : Nat \ {0}, answers : Seq(Nat)]
  <2>1. Append(s3, w.question) \in Seq(Nat) /\ w.question + 1 \in Nat \ {0}
    BY <1>3, AppendProperties DEF SU!SurveyInv, SU!SurveyShapes
  <2>2. QED
    BY <1>1, <1>3, <2>1
<1>7. SU!SurveyShapes'
  BY <1>2, <1>6 DEF SU!SurveyInv, SU!SurveyShapes
<1>8. s4'[u] = n /\ \A v \in Handlers : v # u => s4'[v] = s4[v]
  BY <1>2 DEF SU!SurveyInv, SU!SurveyShapes
<1>9. ASSUME ~s9
      PROVE  /\ \A v \in Handlers : v # u => s4[v] = SU!Idle
             /\ \A c \in s8 : c.survey # s5
             /\ \A q \in SU!All : s1[q] = 0
  BY <1>1, <1>2, <1>9, SurveyLone DEF SU!Carries
<1>10. QED
  BY <1>2, <1>5, <1>7, <1>8, <1>9, SurveyKeeps DEF SU!SurveyInv

\* A timer takes out a handler, if anything.
LEMMA SurveyTimer == ASSUME SU!SurveyInv, NEW q \in SU!All, SU!Timer(q) PROVE SU!SurveyInv'
<1>1. /\ UNCHANGED <<s2, s3, s4, s5, s6, s8, s9>>
      /\ s1' \in [SU!All -> Nat]
      /\ \A p \in SU!All : s1'[p] # 0 => s1'[p] = s1[p]
  BY DEF SU!Timer, SU!SurveyInv, SU!SurveyShapes
<1>2. SU!SurveyShapes'
  BY <1>1 DEF SU!SurveyInv, SU!SurveyShapes
<1>3. ASSUME ~s9, NEW u \in Handlers, s4[u] # SU!Idle
      PROVE  SU!Carries(s4[u])'
  BY <1>1, <1>3 DEF SU!SurveyInv, SU!Carries, SU!Answered
<1>4. ASSUME ~s9, NEW p \in SU!All, s1'[p] # 0
      PROVE  SU!Waits(p)'
  BY <1>1, <1>4 DEF SU!SurveyInv, SU!Waits, SU!Answered
<1>5. ASSUME ~s9, NEW c \in s8, c.survey = s5
      PROVE  (\A u \in Handlers : s4[u] = SU!Idle) /\ (\A p \in SU!All : s1'[p] = 0)
  BY <1>1, <1>5 DEF SU!SurveyInv
<1>6. QED
  BY <1>1, <1>2, <1>3, <1>4, <1>5, SurveyKeeps DEF SU!SurveyInv

\* Every step keeps the invariant.
LEMMA SurveyStep == ASSUME SU!SurveyInv, [SU!SurveysNext]_(SU!surveyVars) PROVE SU!SurveyInv'
<1>1. CASE UNCHANGED SU!surveyVars
  BY <1>1 DEF SU!surveyVars, SU!SurveyInv, SU!SurveyShapes, SU!Carries, SU!Waits, SU!Answered, SU!AnswersInOrder
<1>2. CASE SU!SurveysNext
  BY <1>2, SurveyOpens, SurveyAsks, SurveyRegisters, SurveyCompletes, SurveyLooks, SurveyRuns, SurveyReads,
     SurveyTimer DEF SU!SurveysNext
<1>3. QED
  BY <1>1, <1>2

\* Nothing is asked at first.
LEMMA SurveyBegins == ASSUME SU!InitSurveys PROVE SU!SurveyInv
<1>1. s1 \in [SU!All -> Nat] /\ s4 \in [Handlers -> {SU!Idle}] /\ s3 \in Seq(Nat)
  BY DEF SU!InitSurveys
<1>2. (\A u \in Handlers : s4[u] = SU!Idle) /\ (\A q \in SU!All : s1[q] = 0)
  BY DEF SU!InitSurveys
<1>3. SU!SurveyShapes
  BY <1>1 DEF SU!InitSurveys, SU!SurveyShapes
<1>4. QED
  BY <1>2, <1>3 DEF SU!InitSurveys, SU!SurveyInv, SU!AnswersInOrder

-----------------------------------------------------------------------------
(***************************************************************************)
(* Lists in pages. They have s1 to s8: builder, shown, kept, workers,      *)
(* presses, losses, picked and parted. A worker that is sure of its page   *)
(* is the only one, and when it comes to edit the message that page is the *)
(* one kept (SureOfPage in Pagination.tla).                                *)
(***************************************************************************)
\* A list has a first page.
LEMMA PagesAreSome == PA!Pages \in Nat \ {0}
<1>1. CASE Items = 0
  BY <1>1 DEF PA!Pages
<1>2. CASE Items # 0
  <2>1. PICK n, d \in Nat \ {0} : n = Items + PerPage - 1 /\ d = PerPage /\ n >= d
    BY <1>2, ConversationAssumption
  <2>2. n \div d \in Nat \ {0}
    <3>1. n = d * (n \div d) + (n % d) /\ n \div d \in Int /\ n % d \in 0..(d - 1)
      BY Z3
    <3>2. PICK q, r : q = n \div d /\ r = n % d
      OBVIOUS
    <3>3. q \in Int /\ r \in Int /\ n = d * q + r /\ r < d
      BY <2>1, <3>1, <3>2
    <3>4. ASSUME q <= 0
          PROVE  FALSE
      <4>1. PICK m \in Nat : m = 0 - q
        BY <3>3, <3>4
      <4>2. d * m \in Nat
        BY <2>1
      <4>3. d * q = 0 - d * m
        BY <2>1, <3>3, <4>1
      <4>4. QED
        BY <2>1, <3>3, <4>2, <4>3
    <3>5. QED
      BY <3>2, <3>3, <3>4
  <2>3. QED
    BY <1>2, <2>1, <2>2 DEF PA!Pages
<1>3. QED
  BY <1>1, <1>2

\* The page that a button leads to is one of the list.
LEMMA TurnsInside ==
    ASSUME NEW page \in 0..PA!Pages - 1, NEW button
    PROVE  PA!Turned(page, button) \in {PA!None} \cup (0..PA!Pages - 1)
BY PagesAreSome DEF PA!Turned

\* What a worker of a list is.
LEMMA PageWorkers ==
    ASSUME PA!PagesInv
    PROVE  /\ s4 \in [Handlers -> {PA!Idle} \cup [at : {"keep", "edit"}, page : 0..PA!Pages - 1, sure : BOOLEAN]]
           /\ \A u \in Handlers : s4[u] # PA!Idle =>
                 s4[u] \in [at : {"keep", "edit"}, page : 0..PA!Pages - 1, sure : BOOLEAN]
           /\ PA!Idle.at = "idle"
           /\ PA!Current \in 0..PA!Pages - 1
<1>1. PA!Current \in 0..PA!Pages - 1
  <2>1. s3 = PA!None \/ s3 \in 0..PA!Pages - 1
    BY DEF PA!PagesInv, PA!PageShapes
  <2>2. 0 \in 0..PA!Pages - 1
    BY PagesAreSome
  <2>3. QED
    BY <2>1, <2>2 DEF PA!Current
<1>2. QED
  BY <1>1 DEF PA!PagesInv, PA!PageShapes, PA!Idle

\* After a press or a loss nobody is sure of its page.
LEMMA NoneIsSure ==
    ASSUME PA!PagesInv
    PROVE  /\ PA!Unsure \in [Handlers ->
                             {PA!Idle} \cup [at : {"keep", "edit"}, page : 0..PA!Pages - 1, sure : BOOLEAN]]
           /\ \A u \in Handlers : PA!Unsure[u] = PA!Idle <=> s4[u] = PA!Idle
           /\ \A u \in Handlers : PA!Unsure[u] # PA!Idle => ~PA!Unsure[u].sure
<1>1. ASSUME NEW u \in Handlers
      PROVE  /\ PA!Unsure[u] \in {PA!Idle} \cup [at : {"keep", "edit"}, page : 0..PA!Pages - 1, sure : BOOLEAN]
             /\ PA!Unsure[u] = PA!Idle <=> s4[u] = PA!Idle
             /\ PA!Unsure[u] # PA!Idle => ~PA!Unsure[u].sure
  <2>1. CASE s4[u] = PA!Idle
    BY <2>1 DEF PA!Unsure
  <2>2. CASE s4[u] # PA!Idle
    <3>1. PICK w, n : w = s4[u] /\ n = [w EXCEPT !.sure = FALSE]
      OBVIOUS
    <3>2. w \in [at : {"keep", "edit"}, page : 0..PA!Pages - 1, sure : BOOLEAN]
      BY <2>2, <3>1, PageWorkers
    <3>3. n \in [at : {"keep", "edit"}, page : 0..PA!Pages - 1, sure : BOOLEAN] /\ ~n.sure /\ n.at = w.at
      BY <3>1, <3>2
    <3>4. n # PA!Idle
      BY <3>3 DEF PA!Idle
    <3>5. PA!Unsure[u] = n
      BY <2>2, <3>1 DEF PA!Unsure
    <3>6. QED
      BY <2>2, <3>3, <3>4, <3>5
  <2>3. QED
    BY <2>1, <2>2
<1>2. QED
  BY <1>1 DEF PA!Unsure

\* A button that turns the page is pressed.
LEMMA PagePresses ==
    ASSUME PA!PagesInv, NEW u \in Handlers, NEW button \in {"prev", "next"}, PA!Press(u, button) PROVE PA!PagesInv'
<1>1. PICK page, n : /\ page = PA!Turned(PA!Current, button)
                     /\ n = IF page = PA!None THEN PA!Idle
                                                ELSE [at |-> "keep", page |-> page, sure |-> ~PA!Overlap(u)]
  OBVIOUS
<1>2. /\ s4[u] = PA!Idle /\ s4' = [PA!Unsure EXCEPT ![u] = n] /\ s8' = (s8 \/ PA!Overlap(u))
      /\ UNCHANGED <<s1, s2, s3, s6, s7>>
  BY <1>1 DEF PA!Press
<1>3. n = PA!Idle \/ (n \in [at : {"keep", "edit"}, page : 0..PA!Pages - 1, sure : BOOLEAN] /\ n.at = "keep"
                   /\ (n.sure <=> ~PA!Overlap(u)))
  <2>1. PA!Overlap(u) \in BOOLEAN
    BY DEF PA!Overlap
  <2>2. page = PA!None \/ page \in 0..PA!Pages - 1
    BY <1>1, PageWorkers, TurnsInside
  <2>3. QED
    BY <1>1, <2>1, <2>2
<1>4. PA!PageShapes'
  BY <1>2, <1>3, NoneIsSure DEF PA!PagesInv, PA!PageShapes, PA!Pages
<1>5. /\ s4'[u] = n
      /\ \A v \in Handlers : v # u =>
            /\ s4'[v] = PA!Idle <=> s4[v] = PA!Idle
            /\ s4'[v] # PA!Idle => ~s4'[v].sure
  BY <1>2, NoneIsSure
<1>6. PA!SureOfPage'
  BY <1>3, <1>5 DEF PA!SureOfPage, PA!Overlap
<1>7. ASSUME ~s8', \A v \in Handlers : s4'[v] = PA!Idle
      PROVE  PA!Current' = s2'
  <2>1. \A v \in Handlers : s4[v] = PA!Idle
    BY <1>2, <1>5, <1>7
  <2>2. PA!Current' = PA!Current
    BY <1>2 DEF PA!Current
  <2>3. QED
    BY <1>2, <1>7, <2>1, <2>2 DEF PA!PagesInv, PA!ItemsAsShown
<1>8. s2' \in (0..PA!Pages - 1)' /\ \A p \in s7' : p.sure => p.item = p.page * PerPage + p.place - 1
  BY <1>2 DEF PA!PagesInv, PA!ItemsAsShown, PA!Pages
<1>9. QED
  BY <1>4, <1>6, <1>7, <1>8 DEF PA!PagesInv, PA!ItemsAsShown

\* The page is kept.
LEMMA PageIsKept == ASSUME PA!PagesInv, NEW u \in Handlers, PA!Keep(u) PROVE PA!PagesInv'
<1>1. PICK w, n : w = s4[u] /\ n = [w EXCEPT !.at = "edit"]
  OBVIOUS
<1>2. /\ w.at = "keep" /\ s3' = w.page /\ s4' = [s4 EXCEPT ![u] = n]
      /\ UNCHANGED <<s1, s2, s5, s6, s7, s8>>
  BY <1>1, PageWorkers DEF PA!Keep
<1>3. w # PA!Idle /\ w \in [at : {"keep", "edit"}, page : 0..PA!Pages - 1, sure : BOOLEAN]
  BY <1>1, <1>2, PageWorkers
<1>4. /\ n \in [at : {"keep", "edit"}, page : 0..PA!Pages - 1, sure : BOOLEAN]
      /\ n.at = "edit" /\ n.page = w.page /\ n.sure = w.sure
  BY <1>1, <1>3
<1>5. PA!PageShapes'
  BY <1>2, <1>3, <1>4, PageWorkers DEF PA!PageShapes, PA!Pages
<1>6. s4'[u] = n /\ n # PA!Idle /\ \A v \in Handlers : v # u => s4'[v] = s4[v]
  BY <1>2, <1>4, PageWorkers
<1>7. \A v \in Handlers : v # u => s4[v] = PA!Idle \/ ~s4[v].sure
  BY <1>1, <1>3 DEF PA!PagesInv, PA!SureOfPage
<1>8. w.sure => \A v \in Handlers : v # u => s4[v] = PA!Idle
  BY <1>1, <1>3 DEF PA!PagesInv, PA!SureOfPage
<1>9. PA!SureOfPage'
  BY <1>2, <1>4, <1>6, <1>7, <1>8 DEF PA!SureOfPage
<1>10. s2' \in (0..PA!Pages - 1)' /\ \A p \in s7' : p.sure => p.item = p.page * PerPage + p.place - 1
  BY <1>2 DEF PA!PagesInv, PA!ItemsAsShown, PA!Pages
<1>11. QED
  BY <1>5, <1>6, <1>9, <1>10 DEF PA!PagesInv, PA!ItemsAsShown

\* The message is edited.
LEMMA PageIsEdited == ASSUME PA!PagesInv, NEW u \in Handlers, PA!Edit(u) PROVE PA!PagesInv'
<1>1. PICK w : w = s4[u]
  OBVIOUS
<1>2. /\ w.at = "edit" /\ s4' = [s4 EXCEPT ![u] = PA!Idle]
      /\ \/ s2' = w.page /\ s8' = ~w.sure
         \/ s2' = s2 /\ s8' = TRUE
      /\ UNCHANGED <<s1, s3, s5, s6, s7>>
  BY <1>1 DEF PA!Edit
<1>3. w # PA!Idle /\ w \in [at : {"keep", "edit"}, page : 0..PA!Pages - 1, sure : BOOLEAN]
  BY <1>1, <1>2, PageWorkers
<1>4. PA!PageShapes'
  BY <1>2, PageWorkers DEF PA!PagesInv, PA!PageShapes, PA!Pages
<1>5. s4'[u] = PA!Idle /\ \A v \in Handlers : v # u => s4'[v] = s4[v]
  BY <1>2, PageWorkers
<1>6. PA!SureOfPage'
  BY <1>2, <1>5 DEF PA!PagesInv, PA!SureOfPage
<1>7. ASSUME ~s8'
      PROVE  PA!Current' = s2'
  <2>1. w.sure /\ s2' = w.page
    BY <1>2, <1>7
  <2>2. s3' = w.page
    BY <1>1, <1>2, <1>3, <2>1 DEF PA!PagesInv, PA!SureOfPage
  <2>3. w.page # PA!None
    BY <1>3, PagesAreSome DEF PA!None
  <2>4. QED
    BY <2>1, <2>2, <2>3 DEF PA!Current
<1>8. s2' \in (0..PA!Pages - 1)' /\ \A p \in s7' : p.sure => p.item = p.page * PerPage + p.place - 1
  BY <1>2, <1>3 DEF PA!PagesInv, PA!ItemsAsShown, PA!Pages
<1>9. QED
  BY <1>4, <1>6, <1>7, <1>8 DEF PA!PagesInv, PA!ItemsAsShown

\* An item is picked.
LEMMA PagePicks ==
    ASSUME PA!PagesInv, NEW u \in Handlers, NEW place \in 1..PerPage, PA!Pick(u, place) PROVE PA!PagesInv'
<1>1. PICK sure, item, p : /\ sure = (~s8 /\ ~PA!Overlap(u)) /\ item = PA!Current * PerPage + (place - 1)
                           /\ p = [item |-> item, page |-> s2, place |-> place, sure |-> sure]
  OBVIOUS
<1>2. /\ s4[u] = PA!Idle /\ s7' \in {s7, s7 \cup {p}}
      /\ UNCHANGED <<s1, s2, s3, s4, s6, s8>>
  BY <1>1 DEF PA!Pick
<1>3. p.item = item /\ p.page = s2 /\ p.place = place /\ p.sure = sure
  BY <1>1
<1>4. ASSUME p.sure
      PROVE  p.item = p.page * PerPage + p.place - 1
  <2>1. ~s8 /\ \A v \in Handlers : s4[v] = PA!Idle
    BY <1>1, <1>2, <1>3, <1>4 DEF PA!Overlap
  <2>2. PA!Current = s2
    BY <2>1 DEF PA!PagesInv, PA!ItemsAsShown
  <2>3. PICK m \in Int, d \in Int : m = s2 /\ d = PerPage /\ m * d \in Int
    BY PagesAreSome, ConversationAssumption DEF PA!PagesInv, PA!ItemsAsShown
  <2>4. PICK k \in Int : k = s2 * PerPage
    BY <2>3
  <2>5. k + (place - 1) = k + place - 1
    BY <2>4, ConversationAssumption
  <2>6. QED
    BY <1>1, <1>3, <2>2, <2>4, <2>5
<1>5. \A q \in s7' : q.sure => q.item = q.page * PerPage + q.place - 1
  BY <1>2, <1>4 DEF PA!PagesInv, PA!ItemsAsShown
<1>6. QED
  BY <1>2, <1>5 DEF PA!PagesInv, PA!PageShapes, PA!SureOfPage, PA!ItemsAsShown, PA!Pages, PA!Current

\* What is kept is lost.
LEMMA PageIsLost == ASSUME PA!PagesInv, PA!Lose PROVE PA!PagesInv'
<1>1. s3' = PA!None /\ s4' = PA!Unsure /\ s8' = TRUE /\ UNCHANGED <<s1, s2, s5, s7>>
  BY DEF PA!Lose
<1>2. PA!PageShapes'
  BY <1>1, NoneIsSure DEF PA!PageShapes, PA!Pages
<1>3. PA!SureOfPage'
  BY <1>1, NoneIsSure DEF PA!SureOfPage
<1>4. QED
  BY <1>1, <1>2, <1>3 DEF PA!PagesInv, PA!ItemsAsShown, PA!Pages

\* Every step keeps the invariant.
LEMMA PageStep == ASSUME PA!PagesInv, [PA!PaginationNext]_(PA!pageVars) PROVE PA!PagesInv'
<1>1. CASE UNCHANGED PA!pageVars
  BY <1>1 DEF PA!pageVars, PA!PagesInv, PA!PageShapes, PA!SureOfPage, PA!ItemsAsShown, PA!Pages, PA!Current
<1>2. CASE PA!PaginationNext
  BY <1>2, PagePresses, PageIsKept, PageIsEdited, PagePicks, PageIsLost DEF PA!PaginationNext
<1>3. QED
  BY <1>1, <1>2

\* The message is sent with one of the pages.
LEMMA PageBegins == ASSUME PA!InitPagination PROVE PA!PagesInv
<1>1. /\ s2 \in 0..PA!Pages - 1 /\ s3 = PA!None /\ s7 = {} /\ s8 = (s2 # 0)
      /\ s4 \in [Handlers -> {PA!Idle}] /\ \A u \in Handlers : s4[u] = PA!Idle
  BY DEF PA!InitPagination
<1>2. PA!Current = 0
  BY <1>1 DEF PA!Current
<1>3. QED
  BY <1>1, <1>2 DEF PA!PagesInv, PA!PageShapes, PA!SureOfPage, PA!ItemsAsShown

-----------------------------------------------------------------------------
(***************************************************************************)
(* Menus. They have s1 to s10: current, ids, messages, deleting, workers,  *)
(* moves, sent, field, wanted and apart. As long as menu and messages are  *)
(* not apart, a worker that is not idle owes the rest of what it has       *)
(* begun, and without one the chat is settled: one message shows the menu  *)
(* (Owes, Settled and FieldFollows in Menus.tla).                          *)
(***************************************************************************)
\* The counts of the instanced module are those of the standard one.
LEMMA MECounts == ASSUME NEW S PROVE ME!Cardinality(S) = Cardinality(S)
BY DEF ME!Cardinality, Cardinality

\* What a worker of a menu is.
LEMMA MenuWorkers ==
    ASSUME ME!MenuInv
    PROVE  /\ s5 \in [Handlers -> [at : {"idle", "send", "remove", "edit", "close"}, menu : Nodes \cup {ME!None},
                                        ids : SUBSET Nat, on : Nat]]
           /\ \A u \in Handlers : s5[u].at = "idle" <=> s5[u] = ME!Idle
           /\ ME!Idle \in [at : {"idle", "send", "remove", "edit", "close"}, menu : Nodes \cup {ME!None},
                        ids : SUBSET Nat, on : Nat]
           /\ ME!None \notin Nodes /\ ME!None \notin Inline /\ "back" \notin Nodes /\ "back" # ME!None
           /\ s1 \in Nodes \cup {ME!None} /\ s8 \in Nodes \cup {ME!None} /\ s7 \in Nat
           /\ s3 \in [ME!Numbers -> Nodes \cup {ME!None}] /\ ME!Numbers \subseteq 1..s7 /\ s4 \subseteq ME!Numbers
           /\ ME!Numbers \subseteq Nat /\ 0 \notin ME!Numbers
BY ConversationAssumption DEF ME!MenuInv, ME!MenuShapes, ME!Idle, ME!None

\* As long as the two are not apart, a worker that is not idle is the only one.
LEMMA MenuLone ==
    ASSUME ME!MenuInv, ~s10, NEW u \in Handlers, s5[u].at # "idle"
    PROVE  ME!Owes(s5[u]) /\ \A v \in Handlers : v # u => s5[v] = ME!Idle
<1>1. s5[u] # ME!Idle
  BY DEF ME!Idle
<1>2. QED
  BY <1>1 DEF ME!MenuInv

\* What an update finds, if no other one is handled.
LEMMA MenuFinds ==
    ASSUME ME!MenuInv, NEW u \in Handlers, s5[u] = ME!Idle, ~s10, ~ME!Overlap(u)
    PROVE  ME!Settled /\ \A v \in Handlers : s5[v] = ME!Idle
BY DEF ME!MenuInv, ME!Overlap

\* What a step has to leave behind: either a worker that owes, or a chat that is settled.
LEMMA MenuLeaves ==
    ASSUME NEW u \in Handlers, ME!MenuShapes',
           ~s10' => /\ \A v \in Handlers : v # u => s5'[v] = ME!Idle
                    /\ s5'[u] # ME!Idle => ME!Owes(s5[u])'
                    /\ s5'[u] = ME!Idle => ME!Settled'
    PROVE  ME!MenuInv'
BY DEF ME!MenuInv

\* The chat moves to a menu: the messages before it are on their way out, or one is edited.
LEMMA MenuShows ==
    ASSUME ME!MenuInv, NEW u \in Handlers, NEW menu \in Nodes, NEW on \in ME!Numbers \cup {0}, s5[u] = ME!Idle,
           ME!Show(u, menu, on), UNCHANGED <<s2, s3, s7, s8>>, s9' = menu \/ s10',
           s10 \/ ME!Overlap(u) => s10',
           ~s10' /\ on # 0 => on \in s2 /\ s1 \in Inline
    PROVE  ME!MenuInv'
<1>1. PICK n : n = [at |-> IF s1 # ME!None /\ s1 \notin Inline /\ menu \in Inline THEN "remove"
                           ELSE IF on # 0 /\ menu \in Inline THEN "edit" ELSE "send",
                    menu |-> menu, on |-> on, ids |-> IF on # 0 /\ menu \in Inline THEN s2 ELSE {}]
  OBVIOUS
<1>2. /\ s1' = menu /\ s5' = [s5 EXCEPT ![u] = n]
      /\ s4' = s4 \cup (IF on # 0 /\ menu \in Inline THEN {} ELSE s2 \cap ME!Numbers)
  BY <1>1 DEF ME!Show
<1>3. s2 \in SUBSET Nat
  BY DEF ME!MenuInv, ME!MenuShapes
<1>4. /\ n \in [at : {"idle", "send", "remove", "edit", "close"}, menu : Nodes \cup {ME!None},
                ids : SUBSET Nat, on : Nat]
      /\ n.menu = menu /\ n.on = on /\ n.ids = IF on # 0 /\ menu \in Inline THEN s2 ELSE {}
      /\ n.at \in {"send", "remove", "edit"}
      /\ n.at = "remove" <=> s1 # ME!None /\ s1 \notin Inline /\ menu \in Inline
      /\ n.at = "edit" => on # 0 /\ menu \in Inline
      /\ n.at = "send" => ~(on # 0 /\ menu \in Inline)
  BY <1>1, <1>3, MenuWorkers
<1>5. s5'[u] = n /\ n # ME!Idle /\ \A v \in Handlers : v # u => s5'[v] = s5[v]
  BY <1>2, <1>4, MenuWorkers DEF ME!Idle
<1>6. ME!MenuShapes'
  <2>1. s4' \subseteq ME!Numbers' /\ ME!Numbers' = ME!Numbers
    BY <1>2, MenuWorkers DEF ME!Numbers
  <2>2. \A v \in Handlers : s5'[v].at = "idle" => s5'[v] = ME!Idle
    BY <1>4, <1>5, MenuWorkers
  <2>3. QED
    BY <1>2, <1>3, <1>4, <2>1, <2>2, MenuWorkers DEF ME!MenuShapes
<1>7. ASSUME ~s10'
      PROVE  ME!Owes(n)' /\ \A v \in Handlers : v # u => s5'[v] = ME!Idle
  <2>1. ME!Settled /\ \A v \in Handlers : s5[v] = ME!Idle
    BY <1>7, MenuFinds
  <2>2. menu # ME!None /\ s9' = menu
    BY <1>7, MenuWorkers
  <2>3. s2 \subseteq ME!Numbers /\ ME!Numbers \ s4 = s2 /\ ME!Numbers' = ME!Numbers
    BY <2>1 DEF ME!Settled, ME!Left, ME!Numbers
  <2>4. CASE on # 0 /\ menu \in Inline
    <3>1. on \in s2 /\ s1 \in Inline /\ s1 # ME!None
      BY <1>7, <2>4, MenuWorkers
    <3>2. s2 = {on} /\ s8 = ME!None
      BY <2>1, <3>1 DEF ME!Settled, ME!FieldFollows
    <3>3. n.at = "edit" /\ ME!Left' = {on} /\ n.ids = {on}
      BY <1>2, <1>4, <2>3, <2>4, <3>1, <3>2 DEF ME!Left
    <3>4. QED
      BY <1>2, <1>4, <1>5, <2>1, <2>2, <2>4, <3>2, <3>3 DEF ME!Owes
  <2>5. CASE ~(on # 0 /\ menu \in Inline)
    <3>1. ME!Left' = {} /\ n.ids = {} /\ n.at \in {"send", "remove"}
      BY <1>2, <1>4, <2>3, <2>5 DEF ME!Left
    <3>2. n.at = "send" /\ menu \in Inline => s8 = ME!None
      BY <1>4, <2>1 DEF ME!Settled, ME!FieldFollows
    <3>3. n.at = "remove" => menu \in Inline
      BY <1>4
    <3>4. QED
      BY <1>2, <1>4, <1>5, <2>1, <2>2, <3>1, <3>2, <3>3 DEF ME!Owes
  <2>6. QED
    BY <2>4, <2>5
<1>8. QED
  BY <1>5, <1>6, <1>7, MenuLeaves

\* An update that has no menu to go to leaves the chat as it is.
LEMMA MenuStays ==
    ASSUME ME!MenuInv, NEW u \in Handlers, s5[u] = ME!Idle,
           UNCHANGED <<s1, s4, s5, s2, s3, s7, s8>>, s10'
    PROVE  ME!MenuInv'
BY DEF ME!MenuInv, ME!MenuShapes, ME!Numbers

\* Commands and texts.
LEMMA MenuCommand == ASSUME ME!MenuInv, NEW u \in Handlers, ME!Command(u) PROVE ME!MenuInv'
<1>1. Root \in Nodes /\ Root # "back" /\ Root # ME!None
  BY ConversationAssumption, MenuWorkers
<1>2. /\ s5[u] = ME!Idle /\ ME!Show(u, Root, 0) /\ s9' = Root
      /\ s10' = (s10 \/ ME!Overlap(u)) /\ UNCHANGED <<s2, s3, s7, s8>>
  BY <1>1 DEF ME!Command, ME!Update, ME!SendMenu
<1>3. QED
  BY <1>1, <1>2, MenuShows

LEMMA MenuText ==
    ASSUME ME!MenuInv, NEW u \in Handlers, NEW target \in Nodes \cup {"back"}, ME!Text(u, target)
    PROVE  ME!MenuInv'
<1>1. PICK menu : menu = IF target # "back" THEN target ELSE ME!Parent(s1)
  OBVIOUS
<1>2. /\ s5[u] = ME!Idle /\ s1 # ME!None /\ s1 \notin Inline
      /\ target = "back" => ME!Parent(s1) # ME!None
      /\ s9' = (IF target = "back" THEN ME!Parent(s8) ELSE target)
      /\ s10' = (s10 \/ ME!Overlap(u)) /\ UNCHANGED <<s2, s3, s7, s8>>
  BY MenuWorkers DEF ME!Text, ME!Update
<1>3. menu \in Nodes /\ menu # ME!None
  BY <1>1, <1>2, ConversationAssumption, MenuWorkers DEF ME!Parent
<1>4. ME!Show(u, menu, 0)
  BY <1>1, <1>2, <1>3 DEF ME!Text, ME!SendMenu
<1>5. ASSUME ~s10'
      PROVE  s9' = menu
  <2>1. s8 = s1
    BY <1>2, <1>5, MenuFinds DEF ME!Settled, ME!FieldFollows
  <2>2. QED
    BY <1>1, <1>2, <2>1
<1>6. QED
  BY <1>2, <1>3, <1>4, <1>5, MenuShows

\* The button of a message.
LEMMA MenuButton ==
    ASSUME ME!MenuInv, NEW u \in Handlers, NEW target \in Nodes \cup {"back"}, NEW n \in ME!Numbers,
           ME!Callback(u, n, target)
    PROVE  ME!MenuInv'
<1>1. PICK menu : menu = IF target # "back" THEN target ELSE IF s1 = ME!None THEN ME!None ELSE ME!Parent(s1)
  OBVIOUS
<1>2. /\ s5[u] = ME!Idle /\ s3[n] \in Inline
      /\ target = "back" => ME!Parent(s3[n]) # ME!None
      /\ s9' = (IF target = "back" THEN ME!Parent(s3[n]) ELSE target)
      /\ s10' = (s10 \/ ME!Overlap(u) \/ s3[n] # s1 \/ n \in s4)
      /\ UNCHANGED <<s2, s3, s7, s8>>
  BY MenuWorkers DEF ME!Callback, ME!Update
<1>3. menu = ME!None \/ menu \in Nodes
  BY <1>1, ConversationAssumption, MenuWorkers DEF ME!Parent
<1>4. ASSUME ~s10'
      PROVE  menu # ME!None /\ s9' = menu /\ n \in s2 /\ s1 \in Inline
  <2>1. s3[n] = s1 /\ s1 \in Inline /\ s1 # ME!None /\ n \in ME!Numbers \ s4
    BY <1>2, <1>4, MenuWorkers
  <2>2. n \in s2
    BY <1>2, <1>4, <2>1, MenuFinds DEF ME!Settled, ME!Left
  <2>3. QED
    BY <1>1, <1>2, <2>1, <2>2, MenuWorkers
<1>5. CASE menu = ME!None
  <2>1. UNCHANGED <<s1, s4, s5>>
    BY <1>1, <1>5 DEF ME!Callback, ME!SendMenu
  <2>2. s10'
    BY <1>2, <1>4, <1>5
  <2>3. QED
    BY <1>2, <2>1, <2>2, MenuStays
<1>6. CASE menu # ME!None
  <2>1. ME!Show(u, menu, n)
    BY <1>1, <1>6 DEF ME!Callback, ME!SendMenu
  <2>2. QED
    BY <1>2, <1>3, <1>4, <1>6, <2>1, MenuShows
<1>7. QED
  BY <1>5, <1>6

\* A menu is closed, by its label or by its button.
LEMMA MenuCloses ==
    ASSUME ME!MenuInv, NEW u \in Handlers, NEW on \in ME!Numbers \cup {0}, s5[u] = ME!Idle,
           s5' = [s5 EXCEPT ![u] = [at |-> "close", menu |-> ME!None, ids |-> {}, on |-> on]], s9' = ME!None,
           UNCHANGED <<s1, s2, s3, s7, s8>>, s4' \in SUBSET ME!Numbers,
           s10 \/ ME!Overlap(u) => s10',
           ~s10' => IF on = 0 THEN s2 \subseteq s4' /\ s4 \subseteq s4'
                      ELSE on \in s2 /\ s1 \in Inline /\ s4' = s4
    PROVE  ME!MenuInv'
<1>1. PICK n : n = [at |-> "close", menu |-> ME!None, ids |-> {}, on |-> on]
  OBVIOUS
<1>2. /\ n \in [at : {"idle", "send", "remove", "edit", "close"}, menu : Nodes \cup {ME!None},
                ids : SUBSET Nat, on : Nat]
      /\ n.at = "close" /\ n.on = on
  BY <1>1, MenuWorkers DEF ME!Idle
<1>3. s5'[u] = n /\ n # ME!Idle /\ \A v \in Handlers : v # u => s5'[v] = s5[v]
  BY <1>1, <1>2, MenuWorkers DEF ME!Idle
<1>4. ME!MenuShapes'
  <2>1. \A v \in Handlers : s5'[v].at = "idle" => s5'[v] = ME!Idle
    BY <1>2, <1>3, MenuWorkers
  <2>2. s2' \in SUBSET Nat
    BY DEF ME!MenuInv, ME!MenuShapes
  <2>3. ME!Numbers' = ME!Numbers
    BY DEF ME!Numbers
  <2>4. QED
    BY <1>1, <1>2, <2>1, <2>2, <2>3, MenuWorkers DEF ME!MenuShapes
<1>5. ASSUME ~s10'
      PROVE  ME!Owes(n)' /\ \A v \in Handlers : v # u => s5'[v] = ME!Idle
  <2>1. ME!Settled /\ \A v \in Handlers : s5[v] = ME!Idle
    BY <1>5, MenuFinds
  <2>2. ME!Numbers \ s4 = s2 /\ ME!Numbers' = ME!Numbers
    BY <2>1 DEF ME!Settled, ME!Left, ME!Numbers
  <2>3. CASE on = 0
    <3>1. ME!Left' = {}
      BY <1>5, <2>2, <2>3 DEF ME!Left
    <3>2. QED
      BY <1>2, <1>3, <2>1, <2>3, <3>1 DEF ME!Owes
  <2>4. CASE on # 0
    <3>1. s2 = {on} /\ s8 = ME!None
      BY <1>5, <2>1, <2>4, MenuWorkers DEF ME!Settled, ME!FieldFollows
    <3>2. ME!Left' = {on}
      BY <1>5, <2>2, <2>4, <3>1 DEF ME!Left
    <3>3. QED
      BY <1>2, <1>3, <2>1, <2>4, <3>1, <3>2 DEF ME!Owes
  <2>5. QED
    BY <2>3, <2>4
<1>6. QED
  BY <1>3, <1>4, <1>5, MenuLeaves

LEMMA MenuIsClosed ==
    ASSUME ME!MenuInv, NEW u \in Handlers, ME!CloseText(u) \/ \E n \in ME!Numbers : ME!CloseCallback(u, n)
    PROVE  ME!MenuInv'
<1>1. CASE ME!CloseText(u)
  <2>1. /\ s5[u] = ME!Idle /\ s5' = [s5 EXCEPT ![u] = [ME!Idle EXCEPT !.at = "close"]]
        /\ s4' = s4 \cup (s2 \cap ME!Numbers) /\ s9' = ME!None /\ s10' = (s10 \/ ME!Overlap(u))
        /\ UNCHANGED <<s1, s2, s3, s7, s8>>
    BY <1>1 DEF ME!CloseText, ME!Update
  <2>2. [ME!Idle EXCEPT !.at = "close"] = [at |-> "close", menu |-> ME!None, ids |-> {}, on |-> 0]
    BY DEF ME!Idle
  <2>3. ASSUME ~s10'
        PROVE  s2 \subseteq s4' /\ s4 \subseteq s4'
    <3>1. s2 \subseteq ME!Numbers
      BY <2>1, <2>3, MenuFinds DEF ME!Settled, ME!Left
    <3>2. QED
      BY <2>1, <3>1
  <2>4. s4' \in SUBSET ME!Numbers
    BY <2>1, MenuWorkers
  <2>5. QED
    BY <2>1, <2>2, <2>3, <2>4, MenuCloses
<1>2. ASSUME NEW n \in ME!Numbers, ME!CloseCallback(u, n)
      PROVE  ME!MenuInv'
  <2>1. /\ s5[u] = ME!Idle /\ s5' = [s5 EXCEPT ![u] = [ME!Idle EXCEPT !.at = "close", !.on = n]]
        /\ s3[n] \in Inline /\ s9' = ME!None
        /\ s10' = (s10 \/ ME!Overlap(u) \/ s3[n] # s1 \/ n \in s4)
        /\ UNCHANGED <<s1, s2, s3, s4, s7, s8>>
    BY <1>2 DEF ME!CloseCallback, ME!Update
  <2>2. ASSUME ~s10'
        PROVE  n \in s2 /\ s1 \in Inline
    BY <2>1, <2>2, MenuFinds DEF ME!Settled, ME!Left
  <2>3. s4' \in SUBSET ME!Numbers /\ n # 0
    BY <2>1, MenuWorkers
  <2>4. [ME!Idle EXCEPT !.at = "close", !.on = n] = [at |-> "close", menu |-> ME!None, ids |-> {}, on |-> n]
    <3>1. PICK i, e : i = [ME!Idle EXCEPT !.at = "close"] /\ e = [i EXCEPT !.on = n]
      OBVIOUS
    <3>2. i = [at |-> "close", menu |-> ME!None, ids |-> {}, on |-> 0]
      BY <3>1 DEF ME!Idle
    <3>3. e = [at |-> "close", menu |-> ME!None, ids |-> {}, on |-> n]
      <4>1. i \in [at : {"close"}, menu : {ME!None}, ids : {{}}, on : {0}]
        BY <3>2
      <4>2. e \in [at : {"close"}, menu : {ME!None}, ids : {{}}, on : {n}]
        BY <3>1, <4>1
      <4>3. QED
        BY <4>2
    <3>4. [ME!Idle EXCEPT !.at = "close", !.on = n] = e
      BY <3>1
    <3>5. QED
      BY <3>3, <3>4
  <2>5. QED
    BY <2>1, <2>2, <2>3, <2>4, MenuCloses
<1>3. QED
  BY <1>1, <1>2

\* The session forgets the menu.
LEMMA MenuForgotten == ASSUME ME!MenuInv, NEW u \in Handlers, ME!Closed(u) PROVE ME!MenuInv'
<1>1. PICK w : w = s5[u]
  OBVIOUS
<1>2. /\ w.at = "close" /\ s5' = [s5 EXCEPT ![u] = ME!Idle] /\ s1' = ME!None /\ s2' = {}
      /\ \/ /\ s3' = [m \in ME!Numbers \ {w.on} |-> s3[m]] /\ s4' = s4 \ {w.on}
            /\ s8' = (IF w.on = 0 THEN ME!None ELSE s8) /\ s10' = (s10 \/ ME!Overlap(u))
         \/ UNCHANGED <<s3, s4, s8>> /\ s10' = TRUE
      /\ UNCHANGED <<s6, s7, s9>>
  BY <1>1 DEF ME!Closed
<1>3. s5'[u] = ME!Idle /\ \A v \in Handlers : v # u => s5'[v] = s5[v]
  BY <1>2, MenuWorkers
<1>4. \/ ME!Numbers' = ME!Numbers \ {w.on} /\ \A m \in ME!Numbers' : s3'[m] = s3[m]
      \/ ME!Numbers' = ME!Numbers /\ s3' = s3
  BY <1>2 DEF ME!Numbers
<1>5. ME!MenuShapes'
  <2>1. \A v \in Handlers : s5'[v].at = "idle" => s5'[v] = ME!Idle
    BY <1>3, MenuWorkers
  <2>2. s3' \in [ME!Numbers' -> Nodes \cup {ME!None}] /\ ME!Numbers' \subseteq 1..s7' /\ s4' \subseteq ME!Numbers'
    <3>1. CASE UNCHANGED <<s3, s4>>
      BY <1>2, <3>1, MenuWorkers DEF ME!Numbers
    <3>2. CASE s3' = [m \in ME!Numbers \ {w.on} |-> s3[m]] /\ s4' = s4 \ {w.on}
      BY <1>2, <3>2, MenuWorkers DEF ME!Numbers
    <3>3. QED
      BY <1>2, <3>1, <3>2
  <2>3. s8' \in Nodes \cup {ME!None}
    BY <1>2, MenuWorkers
  <2>4. QED
    BY <1>2, <2>1, <2>2, <2>3, MenuWorkers DEF ME!MenuShapes
<1>6. ASSUME ~s10'
      PROVE  ME!Settled' /\ \A v \in Handlers : v # u => s5'[v] = ME!Idle
  <2>1. /\ ~s10 /\ s3' = [m \in ME!Numbers \ {w.on} |-> s3[m]] /\ s4' = s4 \ {w.on}
        /\ s8' = IF w.on = 0 THEN ME!None ELSE s8
    BY <1>2, <1>6
  <2>2. ME!Owes(w) /\ \A v \in Handlers : v # u => s5[v] = ME!Idle
    BY <1>1, <1>2, <2>1, MenuLone
  <2>3. ME!Numbers' = ME!Numbers \ {w.on}
    BY <2>1 DEF ME!Numbers
  <2>4. ME!Left' = {} /\ s8' = ME!None /\ s9 = ME!None
    BY <1>2, <2>1, <2>2, <2>3 DEF ME!Owes, ME!Left
  <2>5. QED
    BY <1>2, <1>3, <2>2, <2>4 DEF ME!Settled, ME!FieldFollows
<1>7. QED
  BY <1>3, <1>5, <1>6, MenuLeaves

\* The menu is sent.
LEMMA MenuIsSent == ASSUME ME!MenuInv, NEW u \in Handlers, ME!Send(u) PROVE ME!MenuInv'
<1>1. PICK w : w = s5[u]
  OBVIOUS
<1>2. PICK n : n = s7 + 1
  OBVIOUS
<1>3. /\ w.at \in {"send", "remove"} /\ s5' = [s5 EXCEPT ![u] = ME!Idle]
      /\ \/ /\ s7' = n
            /\ \E menu \in {w.menu} \cup (IF w.at = "remove" THEN {ME!None} ELSE {}) :
                  /\ s3' = [m \in ME!Numbers \cup {n} |-> IF m = n THEN menu ELSE s3[m]]
                  /\ s10' = (s10 \/ ME!Overlap(u) \/ menu = ME!None)
            /\ s2' = w.ids \cup {n}
            /\ s8' = (IF w.at = "remove" THEN ME!None ELSE IF w.menu \in Inline THEN s8 ELSE w.menu)
         \/ UNCHANGED <<s7, s3, s2, s8>> /\ s10' = TRUE
      /\ UNCHANGED <<s1, s4, s6, s9>>
  BY <1>1, <1>2 DEF ME!Send
<1>4. /\ w \in [at : {"idle", "send", "remove", "edit", "close"}, menu : Nodes \cup {ME!None},
                ids : SUBSET Nat, on : Nat]
      /\ n \in Nat /\ n # 0 /\ n \notin ME!Numbers /\ 1..s7 \subseteq 1..n /\ n \in 1..n
  BY <1>1, <1>2, MenuWorkers
<1>5. s5'[u] = ME!Idle /\ \A v \in Handlers : v # u => s5'[v] = s5[v]
  BY <1>3, MenuWorkers
<1>6. ME!MenuShapes'
  <2>1. \A v \in Handlers : s5'[v].at = "idle" => s5'[v] = ME!Idle
    BY <1>5, MenuWorkers
  <2>2. s5' \in [Handlers -> [at : {"idle", "send", "remove", "edit", "close"}, menu : Nodes \cup {ME!None},
                                   ids : SUBSET Nat, on : Nat]]
    BY <1>3, MenuWorkers
  <2>3. CASE UNCHANGED <<s7, s3, s2, s8>>
    BY <1>3, <2>1, <2>2, <2>3, MenuWorkers DEF ME!MenuInv, ME!MenuShapes, ME!Numbers
  <2>4. ASSUME NEW menu \in Nodes \cup {ME!None}, s7' = n, s2' = w.ids \cup {n},
               s3' = [m \in ME!Numbers \cup {n} |-> IF m = n THEN menu ELSE s3[m]],
               s8' \in Nodes \cup {ME!None}
        PROVE  ME!MenuShapes'
    <3>1. ME!Numbers' = ME!Numbers \cup {n} /\ s3' \in [ME!Numbers' -> Nodes \cup {ME!None}]
      BY <2>4, MenuWorkers DEF ME!Numbers
    <3>2. ME!Numbers' \subseteq 1..n /\ s4' \subseteq ME!Numbers' /\ s2' \subseteq Nat
      BY <1>3, <1>4, <2>4, <3>1, MenuWorkers
    <3>3. QED
      BY <1>3, <1>4, <2>1, <2>2, <2>4, <3>1, <3>2, MenuWorkers DEF ME!MenuShapes
  <2>5. QED
    BY <1>3, <1>4, <2>3, <2>4, MenuWorkers
<1>7. ASSUME ~s10'
      PROVE  ME!Settled' /\ \A v \in Handlers : v # u => s5'[v] = ME!Idle
  <2>1. /\ ~s10 /\ s2' = w.ids \cup {n}
        /\ s3' = [m \in ME!Numbers \cup {n} |-> IF m = n THEN w.menu ELSE s3[m]]
        /\ s8' = IF w.at = "remove" THEN ME!None ELSE IF w.menu \in Inline THEN s8 ELSE w.menu
    BY <1>3, <1>7
  <2>2. ME!Owes(w) /\ \A v \in Handlers : v # u => s5[v] = ME!Idle
    BY <1>1, <1>3, <2>1, MenuLone
  <2>3. /\ w.menu = s1 /\ s1 = s9 /\ s1 # ME!None /\ ME!Numbers \ s4 = {} /\ w.ids = {}
        /\ w.at = "send" => (s1 \in Inline => s8 = ME!None)
        /\ w.at = "remove" => s1 \in Inline
    BY <1>3, <2>2 DEF ME!Owes, ME!Left
  <2>4. ME!Numbers' = ME!Numbers \cup {n} /\ s3'[n] = s1
    BY <2>1, <2>3 DEF ME!Numbers
  <2>5. n \notin s4
    BY <1>4, MenuWorkers
  <2>6. ME!Left' = {n} /\ s2' = {n}
    BY <1>3, <2>1, <2>3, <2>4, <2>5 DEF ME!Left
  <2>7. ME!FieldFollows'
    BY <1>3, <2>1, <2>3 DEF ME!FieldFollows
  <2>8. QED
    BY <1>3, <1>5, <2>2, <2>3, <2>4, <2>6, <2>7 DEF ME!Settled
<1>8. QED
  BY <1>5, <1>6, <1>7, MenuLeaves

\* The message is edited into the menu.
LEMMA MenuIsEdited == ASSUME ME!MenuInv, NEW u \in Handlers, ME!Edit(u) PROVE ME!MenuInv'
<1>1. PICK w : w = s5[u]
  OBVIOUS
<1>2. /\ w.at = "edit" /\ s5' = [s5 EXCEPT ![u] = ME!Idle]
      /\ \/ /\ w.on \in ME!Numbers /\ s3' = [s3 EXCEPT ![w.on] = w.menu] /\ s2' = w.ids \cup {w.on}
            /\ s10' = (s10 \/ ME!Overlap(u) \/ w.on \in s4)
         \/ UNCHANGED <<s3, s2>> /\ s10' = TRUE
      /\ UNCHANGED <<s1, s4, s6, s7, s8, s9>>
  BY <1>1 DEF ME!Edit
<1>3. w \in [at : {"idle", "send", "remove", "edit", "close"}, menu : Nodes \cup {ME!None},
             ids : SUBSET Nat, on : Nat]
  BY <1>1, MenuWorkers
<1>4. s5'[u] = ME!Idle /\ \A v \in Handlers : v # u => s5'[v] = s5[v]
  BY <1>2, MenuWorkers
<1>5. s3' \in [ME!Numbers -> Nodes \cup {ME!None}] /\ ME!Numbers' = ME!Numbers /\ s2' \subseteq Nat
  BY <1>2, <1>3, MenuWorkers DEF ME!Numbers, ME!MenuInv, ME!MenuShapes
<1>6. ME!MenuShapes'
  <2>1. \A v \in Handlers : s5'[v].at = "idle" => s5'[v] = ME!Idle
    BY <1>4, MenuWorkers
  <2>2. QED
    BY <1>2, <1>5, <2>1, MenuWorkers DEF ME!MenuShapes
<1>7. ASSUME ~s10'
      PROVE  ME!Settled' /\ \A v \in Handlers : v # u => s5'[v] = ME!Idle
  <2>1. ~s10 /\ w.on \in ME!Numbers /\ s3' = [s3 EXCEPT ![w.on] = w.menu] /\ s2' = w.ids \cup {w.on}
    BY <1>2, <1>7
  <2>2. ME!Owes(w) /\ \A v \in Handlers : v # u => s5[v] = ME!Idle
    BY <1>1, <1>2, <2>1, MenuLone
  <2>3. /\ w.menu = s1 /\ s1 = s9 /\ s1 # ME!None
        /\ s1 \in Inline /\ s8 = ME!None /\ ME!Left = {w.on} /\ w.ids = {w.on}
    BY <1>2, <2>2 DEF ME!Owes
  <2>4. s3'[w.on] = s1
    BY <2>1, <2>3, MenuWorkers
  <2>5. ME!Left' = ME!Left
    BY <1>2, <1>5 DEF ME!Left
  <2>6. QED
    BY <1>2, <1>4, <2>1, <2>2, <2>3, <2>4, <2>5 DEF ME!Settled, ME!FieldFollows
<1>8. QED
  BY <1>4, <1>6, <1>7, MenuLeaves

\* A deletion is over: nothing that stays changes.
LEMMA MenuDeletes == ASSUME ME!MenuInv, NEW n \in s4, ME!Delete(n) PROVE ME!MenuInv'
<1>1. /\ s4' = s4 \ {n}
      /\ \/ s3' = [m \in ME!Numbers \ {n} |-> s3[m]] /\ s10' = s10
         \/ s3' = s3 /\ s10' = TRUE
      /\ UNCHANGED <<s1, s2, s5, s6, s7, s8, s9>>
  BY DEF ME!Delete
<1>2. /\ ME!Numbers' \in {ME!Numbers, ME!Numbers \ {n}} /\ \A m \in ME!Numbers' : s3'[m] = s3[m]
      /\ s3' \in [ME!Numbers' -> Nodes \cup {ME!None}]
      /\ s4' \subseteq ME!Numbers'
  BY <1>1, MenuWorkers DEF ME!Numbers
<1>3. ME!MenuShapes'
  BY <1>1, <1>2, MenuWorkers DEF ME!MenuInv, ME!MenuShapes
<1>4. ASSUME ~s10'
      PROVE  ME!Left' = ME!Left /\ \A m \in ME!Left : s3'[m] = s3[m]
  <2>1. ME!Numbers' = ME!Numbers \ {n} /\ s4' = s4 \ {n}
    BY <1>1, <1>4 DEF ME!Numbers
  <2>2. QED
    BY <1>2, <2>1 DEF ME!Left
<1>5. ASSUME ~s10', NEW u \in Handlers, s5[u] # ME!Idle
      PROVE  ME!Owes(s5[u])'
  BY <1>1, <1>4, <1>5 DEF ME!MenuInv, ME!Owes
<1>6. ASSUME ~s10', \A u \in Handlers : s5[u] = ME!Idle
      PROVE  ME!Settled'
  BY <1>1, <1>4, <1>6 DEF ME!MenuInv, ME!Settled, ME!FieldFollows
<1>7. QED
  BY <1>1, <1>3, <1>5, <1>6 DEF ME!MenuInv

\* Every step keeps the invariant.
LEMMA MenuStep == ASSUME ME!MenuInv, [ME!MenusNext]_(ME!menuVars) PROVE ME!MenuInv'
<1>1. CASE UNCHANGED ME!menuVars
  BY <1>1 DEF ME!menuVars, ME!MenuInv, ME!MenuShapes, ME!Settled, ME!Owes, ME!Left, ME!FieldFollows, ME!Numbers
<1>2. CASE ME!MenusNext
  BY <1>2, MenuCommand, MenuText, MenuButton, MenuIsClosed, MenuForgotten, MenuIsSent, MenuIsEdited, MenuDeletes
     DEF ME!MenusNext
<1>3. QED
  BY <1>1, <1>2

\* No menu is shown at first.
LEMMA MenuBegins == ASSUME ME!InitMenus PROVE ME!MenuInv
<1>1. /\ s1 = ME!None /\ s2 = {} /\ ME!Numbers = {} /\ s3 \in [ME!Numbers -> Nodes \cup {ME!None}] /\ s4 = {}
      /\ s7 = 0 /\ s8 = ME!None /\ s9 = ME!None
      /\ s5 \in [Handlers -> {ME!Idle}] /\ \A u \in Handlers : s5[u] = ME!Idle
  BY DEF ME!InitMenus, ME!Numbers
<1>2. ME!Idle \in [at : {"idle", "send", "remove", "edit", "close"}, menu : Nodes \cup {ME!None},
                   ids : SUBSET Nat, on : Nat]
  BY DEF ME!Idle
<1>3. ME!MenuShapes
  BY <1>1, <1>2 DEF ME!MenuShapes
<1>4. QED
  BY <1>1, <1>3 DEF ME!MenuInv, ME!Settled, ME!Left, ME!FieldFollows

\* What the invariant means.
LEMMA MenuHolds == ASSUME ME!MenuInv PROVE ME!OneMenu
<1>1. ASSUME ~s10, \A u \in Handlers : s5[u] = ME!Idle
      PROVE  /\ s1 = s9 /\ ME!Left = s2
             /\ ME!Cardinality(ME!Left) = IF s1 = ME!None THEN 0 ELSE 1
             /\ \A n \in ME!Left : s3[n] = s1
             /\ s8 # ME!None => s8 = s1
  <2>1. ME!Settled
    BY <1>1 DEF ME!MenuInv
  <2>2. CASE s1 = ME!None
    <3>1. ME!Left = {}
      BY <2>1, <2>2 DEF ME!Settled
    <3>2. ME!Cardinality({}) = 0
      BY FS_EmptySet, MECounts
    <3>3. QED
      BY <2>1, <2>2, <3>1, <3>2 DEF ME!Settled, ME!FieldFollows
  <2>3. CASE s1 # ME!None
    <3>1. PICK n : s2 = {n} /\ s3[n] = s1
      BY <2>1, <2>3 DEF ME!Settled
    <3>2. ME!Cardinality({n}) = 1
      BY FS_Singleton, MECounts
    <3>3. QED
      BY <2>1, <2>3, <3>1, <3>2 DEF ME!Settled, ME!FieldFollows
  <2>4. QED
    BY <2>2, <2>3
<1>2. QED
  BY <1>1 DEF ME!OneMenu, ME!Left

\* Behaviours of conversations are those of the services in which the part is theirs.
LEMMA ConversationsAlone ==
    ASSUME [ServicesNext]_servicesVars
    PROVE  /\ part = "wizards" => [WZ!WizardsNext]_(WZ!wizardVars)
           /\ part = "surveys" => [SU!SurveysNext]_(SU!surveyVars)
           /\ part = "pages" => [PA!PaginationNext]_(PA!pageVars)
           /\ part = "menus" => [ME!MenusNext]_(ME!menuVars)
BY DEF ServicesNext, servicesVars, shared, WZ!wizardVars, SU!surveyVars, PA!pageVars, ME!menuVars,
       SessionsMove, WizardsMove, SurveysMove, CaptchaMoves, RegistryMoves, DownloadMoves, UploadMoves,
       HubMoves, LogMoves, BackgroundMoves, PagesMove, MenusMove, AnalyticsMoves, VolumesMove,
       BroadcastMoves, WarningsMove

\* Whatever a user answers, repeats or gives up, and whichever timer fires: unless handlers of one chat
\* overlap, a form has its own valid answers, a survey those that were given, in order; the item that is
\* picked from a list is the one that its message shows, and of a menu there is one message (flows.go,
\* pagination.go, menu.go).
THEOREM AnswersAreKept == ServicesSpec => []AnswersKept
<1> DEFINE Inv == /\ part = "wizards" => WZ!WizardInv
                  /\ part = "surveys" => SU!SurveyInv
                  /\ part = "pages" => PA!PagesInv
                  /\ part = "menus" => ME!MenuInv
<1>1. ServicesInit => Inv
  BY WizardBegins, SurveyBegins, PageBegins, MenuBegins DEF ServicesInit
<1>2. Inv /\ [ServicesNext]_servicesVars => Inv'
  BY ConversationsAlone, WizardStep, SurveyStep, PageStep, MenuStep, PartStays
<1>3. Inv => AnswersKept
  BY MenuHolds DEF AnswersKept, WZ!WizardInv, SU!SurveyInv, PA!PagesInv
<1>4. QED
  BY <1>1, <1>2, <1>3, PTL DEF ServicesSpec
=============================================================================
