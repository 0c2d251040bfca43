-------------------------- MODULE WarnEngine_proofs --------------------------
(***************************************************************************)
(* Invariants of WarnEngine that its steps preserve: WarnInv as long as    *)
(* operations on a user do not overlap, LimitInv always.                   *)
(***************************************************************************)
EXTENDS WarnEngine, SequenceTheorems, WellFoundedInduction, TLAPS

-----------------------------------------------------------------------------
(***************************************************************************)
(* Warnings.  While operations on one user do not overlap at most one of   *)
(* them is under way, and it alone makes the disk differ from the map: in  *)
(* the keys it has still to append.  A reason and an expiry are there      *)
(* before their warning is counted, and go after it, so both the map and   *)
(* whatever a crash leaves of it have enough of them.  That a count at the *)
(* limit is about to be reset needs no such condition.                     *)
(***************************************************************************)
\* A set of natural numbers has a first one, to which 0 or a number outside of the set leads.
LEMMA FirstOfThem ==
    ASSUME NEW S \in SUBSET Nat, S # {}
    PROVE  \E n \in S : n = 0 \/ (n - 1 \in Nat /\ n - 1 \notin S)
<1> DEFINE Below == OpToRel(<, Nat)
<1>1. PICK n \in S : \A k \in S : <<k, n>> \notin Below
  BY NatLessThanWellFounded, WFMin
<1>2. ASSUME n # 0, n - 1 \in S
      PROVE  FALSE
  <2>1. n - 1 \in Nat /\ n \in Nat /\ n - 1 < n
    BY <1>2
  <2>2. <<n - 1, n>> \in Below
    BY <2>1 DEF OpToRel
  <2>3. QED
    BY <1>1, <1>2, <2>2
<1>3. n = 0 \/ n - 1 \in Nat
  OBVIOUS
<1>4. QED
  BY <1>2, <1>3

\* The loop of Unexpired up to some place of the list.
Filtered(list, n, f) ==
    f = [i \in 0..n |-> IF i = 0 THEN <<>>
                        ELSE IF list[i] > 0 THEN Append(f[i - 1], list[i]) ELSE f[i - 1]]

\* The loop comes to every place: no place is the first that it does not come to.
LEMMA LoopEnds ==
    ASSUME NEW list, NEW m \in Nat
    PROVE  \E f : Filtered(list, m, f)
<1> DEFINE Stuck == {n \in Nat : ~\E f : Filtered(list, n, f)}
<1>1. CASE Stuck = {}
  BY <1>1
<1>2. CASE Stuck # {}
  <2>1. PICK n \in Stuck : n = 0 \/ (n - 1 \in Nat /\ n - 1 \notin Stuck)
    BY <1>2, FirstOfThem
  <2>2. CASE n = 0
    <3>1. Filtered(list, 0, [i \in 0..0 |-> <<>>])
      BY DEF Filtered
    <3>2. QED
      BY <2>1, <2>2, <3>1
  <2>3. CASE n # 0
    <3>1. n \in Nat /\ n - 1 \in Nat
      BY <2>1, <2>3
    <3>2. n - 1 \notin Stuck
      BY <2>1, <2>3
    <3>3. PICK f : Filtered(list, n - 1, f)
      BY <3>1, <3>2
    <3>4. PICK g : g = [i \in 0..n |-> IF i < n THEN f[i]
                                       ELSE IF list[i] > 0 THEN Append(f[i - 1], list[i]) ELSE f[i - 1]]
      OBVIOUS
    <3>5. ASSUME NEW i \in 0..n
          PROVE  g[i] = IF i = 0 THEN <<>>
                        ELSE IF list[i] > 0 THEN Append(g[i - 1], list[i]) ELSE g[i - 1]
      <4>1. CASE i = n
        <5>1. n - 1 \in 0..n /\ n - 1 < n /\ n \in 0..n /\ ~(n < n)
          BY <3>1
        <5>2. g[n - 1] = f[n - 1]
          BY <3>4, <5>1
        <5>3. g[n] = IF list[n] > 0 THEN Append(f[n - 1], list[n]) ELSE f[n - 1]
          BY <3>4, <5>1
        <5>4. QED
          BY <2>3, <4>1, <5>2, <5>3
      <4>2. CASE i # n
        <5>1. i \in 0..(n - 1) /\ i < n /\ (i # 0 => i - 1 \in 0..n /\ i - 1 < n)
          BY <3>1, <4>2
        <5>2. g[i] = f[i] /\ (i # 0 => g[i - 1] = f[i - 1])
          BY <3>4, <5>1
        <5>3. f[i] = IF i = 0 THEN <<>>
                     ELSE IF list[i] > 0 THEN Append(f[i - 1], list[i]) ELSE f[i - 1]
          BY <3>3, <5>1 DEF Filtered
        <5>4. QED
          BY <5>2, <5>3
      <4>3. QED
        BY <4>1, <4>2
    <3>6. g = [i \in 0..n |-> g[i]]
      BY <3>4
    <3>7. Filtered(list, n, g)
      BY <3>5, <3>6 DEF Filtered
    <3>8. QED
      BY <2>1, <3>7
  <2>4. QED
    BY <2>2, <2>3
<1>3. QED
  BY <1>1, <1>2

\* What has not expired is some of the list.
LEMMA UnexpiredSome ==
    ASSUME NEW S \in SUBSET Int, NEW list \in Seq(S), NEW new, new = Unexpired(list)
    PROVE  new \in Seq(S) /\ Len(new) <= Len(list)
<1> DEFINE f == CHOOSE f : Filtered(list, Len(list), f)
<1>1. Len(list) \in Nat
  OBVIOUS
<1>2. Filtered(list, Len(list), f)
  BY <1>1, LoopEnds
<1>3. new = f[Len(list)]
  BY DEF Unexpired, Filtered
<1> HIDE DEF f
<1> DEFINE Wrong == {i \in 0..Len(list) : ~(f[i] \in Seq(S) /\ Len(f[i]) <= i)}
<1>4. CASE Wrong = {}
  BY <1>1, <1>3, <1>4
<1>5. CASE Wrong # {}
  <2>1. PICK i \in Wrong : i = 0 \/ (i - 1 \in Nat /\ i - 1 \notin Wrong)
    <3>1. Wrong \in SUBSET Nat
      BY <1>1
    <3>2. QED
      BY <1>5, <3>1, FirstOfThem
  <2>2. f[i] = IF i = 0 THEN <<>>
               ELSE IF list[i] > 0 THEN Append(f[i - 1], list[i]) ELSE f[i - 1]
    BY <1>2 DEF Filtered
  <2>3. CASE i = 0
    <3>1. f[i] = <<>> /\ <<>> \in Seq(S) /\ Len(<<>>) = 0
      BY <2>2, <2>3
    <3>2. ~(f[i] \in Seq(S) /\ Len(f[i]) <= i)
      BY <2>1
    <3>3. QED
      BY <2>3, <3>1, <3>2
  <2>4. CASE i # 0
    <3>1. PICK k \in 0..Len(list) : i = k + 1
      <4>1. i - 1 \in 0..Len(list) /\ i = (i - 1) + 1
        BY <1>1, <2>4
      <4>2. QED
        BY <4>1
    <3>2. i - 1 = k /\ list[i] \in S
      BY <1>1, <2>4, <3>1
    <3>3. f[k] \in Seq(S) /\ Len(f[k]) <= k
      BY <2>1, <3>2
    <3>4. PICK b : b = f[k]
      OBVIOUS
    <3>5. Append(b, list[i]) \in Seq(S) /\ Len(Append(b, list[i])) = Len(b) + 1 /\ Len(b) \in Nat
      BY <3>2, <3>3, <3>4
    <3>6. f[i] = IF list[i] > 0 THEN Append(b, list[i]) ELSE b
      BY <2>2, <2>4, <3>2, <3>4
    <3>7. f[i] \in Seq(S) /\ Len(f[i]) <= i
      BY <3>1, <3>3, <3>4, <3>5, <3>6
    <3>8. QED
      BY <2>1, <3>7
  <2>5. QED
    BY <2>3, <2>4
<1>6. QED
  BY <1>4, <1>5

\* Where a handler may be.
Places == {"idle", "expires", "count", "delCount", "delReasons", "delExpires"}

\* What an operation may still have to append.
KeyLists == {<<>>, <<"count">>, <<"reasons">>, <<"expires">>, <<"count", "expires">>,
             <<"reasons", "expires">>, <<"count", "reasons", "expires">>}

\* A record of this key is still to be appended.
Pending(k) == \E p \in Writers : \E i \in DOMAIN pend[p] : pend[p][i].key = k

\* The only operation under way has the records of what it changed to append, and the
\* disk is the map but for them.
Follows ==
    /\ DOMAIN pend = Writers
    /\ \A p, q \in Writers : Busy(p) /\ Busy(q) => p = q
    /\ ~up => Quiet
    /\ \A p \in Writers : \E keys \in KeyLists : pend[p] = Records(keys, mem)
    /\ \A k \in Keys : up /\ ~Pending(k) => disk[k] = mem[k]

\* The disk is covered for the count that it has and for the one it is about to get.
DiskCovered == Covered(disk) /\ Covered([disk EXCEPT !.count = mem.count])

\* Reason and expiry come before the warning they are for, and go after the count.
Ahead(h) ==
    /\ pc[h] \in {"expires", "count"} => mem.reasons > Number(mem.count)
    /\ pc[h] = "count" => Len(mem.expires) > Number(mem.count)
    /\ pc[h] \in {"delReasons", "delExpires"} => mem.count = NoVal

\* No expiry without its warning, but that of the warning under way.
NoneTooMany ==
    /\ (\A h \in Handlers : pc[h] \in {"idle", "expires", "delCount"}) => Len(mem.expires) <= Number(mem.count)
    /\ \A h \in Handlers : pc[h] = "count" => Len(mem.expires) <= Number(mem.count) + 1

\* What holds as long as operations do not overlap.
WarnInv ==
    ~raced =>
        /\ mem \in Cells /\ disk \in Cells /\ pc \in [Handlers -> Places] /\ crashes \in Nat
        /\ Follows
        /\ Covered(mem) /\ DiskCovered
        /\ \A h \in Handlers : Ahead(h)
        /\ crashes = 0 => NoneTooMany

\* The count as a number.
LEMMA NumberOf == ASSUME NEW n \in Nat \cup {NoVal} PROVE Number(n) \in Nat /\ (n \in Nat => Number(n) = n)
BY WarnAssumption DEF Number

\* Absent is a cell.
LEMMA AbsentCell == Absent \in Cells /\ Number(Absent.count) = 0 /\ Len(Absent.expires) = 0
<1>1. <<>> \in Seq(0..Cooldown)
  OBVIOUS
<1>2. QED
  BY <1>1 DEF Absent, Cells, Number

\* Records of nothing, and of what is left after the first.
LEMMA RecordsOf ==
    ASSUME NEW new, NEW keys \in KeyLists
    PROVE  /\ Records(<<>>, new) = <<>>
           /\ keys = <<>> <=> Records(keys, new) = <<>>
           /\ keys # <<>> =>
                /\ Tail(keys) \in KeyLists /\ keys[1] \in Keys
                /\ Head(Records(keys, new)) = [key |-> keys[1], val |-> new[keys[1]]]
                /\ Tail(Records(keys, new)) = Records(Tail(keys), new)
                /\ \A i \in DOMAIN keys : keys[i] = keys[1] \/ \E j \in DOMAIN Tail(keys) : Tail(keys)[j] = keys[i]
<1>1. Records(<<>>, new) = <<>>
  BY DEF Records
<1>2. CASE keys = <<>>
  BY <1>1, <1>2
<1>3. CASE keys \in {<<"count">>, <<"reasons">>, <<"expires">>}
  <2>1. PICK k \in Keys : keys = <<k>>
    BY <1>3 DEF Keys
  <2>2. Records(keys, new) = <<[key |-> k, val |-> new[k]]>>
    BY <2>1 DEF Records
  <2>3. Tail(keys) = <<>> /\ DOMAIN keys = {1} /\ keys[1] = k
    BY <2>1
  <2>4. Records(keys, new) # <<>> /\ Head(Records(keys, new)) = [key |-> k, val |-> new[k]] /\ Tail(Records(keys, new)) = <<>>
    BY <2>2
  <2>5. QED
    BY <1>1, <2>1, <2>3, <2>4 DEF KeyLists
<1>4. CASE keys \in {<<"count", "expires">>, <<"reasons", "expires">>}
  <2>1. PICK k \in {"count", "reasons"} : keys = <<k, "expires">>
    BY <1>4
  <2>2. Records(keys, new) = <<[key |-> k, val |-> new[k]], [key |-> "expires", val |-> new["expires"]]>>
    BY <2>1 DEF Records
  <2>3. Tail(keys) = <<"expires">> /\ DOMAIN keys = {1, 2} /\ keys[1] = k /\ keys[2] = "expires"
        /\ DOMAIN <<"expires">> = {1} /\ <<"expires">>[1] = "expires"
    BY <2>1
  <2>4. Records(<<"expires">>, new) = <<[key |-> "expires", val |-> new["expires"]]>>
    BY DEF Records
  <2>5. Records(keys, new) # <<>> /\ Head(Records(keys, new)) = [key |-> k, val |-> new[k]]
        /\ Tail(Records(keys, new)) = Records(<<"expires">>, new)
    BY <2>2, <2>4
  <2>6. QED
    BY <1>1, <2>1, <2>3, <2>5 DEF KeyLists, Keys
<1>5. CASE keys = <<"count", "reasons", "expires">>
  <2>2. Records(keys, new) = <<[key |-> "count", val |-> new["count"]], [key |-> "reasons", val |-> new["reasons"]],
                               [key |-> "expires", val |-> new["expires"]]>>
    BY <1>5 DEF Records
  <2>3. Tail(keys) = <<"reasons", "expires">> /\ DOMAIN keys = {1, 2, 3} /\ keys[1] = "count"
        /\ keys[2] = "reasons" /\ keys[3] = "expires"
        /\ DOMAIN <<"reasons", "expires">> = {1, 2} /\ <<"reasons", "expires">>[1] = "reasons"
        /\ <<"reasons", "expires">>[2] = "expires"
    BY <1>5
  <2>4. Records(<<"reasons", "expires">>, new) = <<[key |-> "reasons", val |-> new["reasons"]],
                                                   [key |-> "expires", val |-> new["expires"]]>>
    BY DEF Records
  <2>5. Records(keys, new) # <<>> /\ Head(Records(keys, new)) = [key |-> "count", val |-> new["count"]]
        /\ Tail(Records(keys, new)) = Records(<<"reasons", "expires">>, new)
    BY <2>2, <2>4
  <2>6. QED
    BY <1>1, <1>5, <2>3, <2>5 DEF KeyLists, Keys
<1>6. QED
  BY <1>2, <1>3, <1>4, <1>5 DEF KeyLists

\* Who is not busy has nothing to append and no operation under way.
LEMMA NotBusy ==
    ASSUME NEW p \in Writers, ~Busy(p)
    PROVE  pend[p] = <<>> /\ (p \in Handlers => pc[p] = "idle")
BY DEF Busy

\* If nothing is to be appended the disk is the map.
LEMMA DiskIsMap ==
    ASSUME Follows, up, mem \in Cells, disk \in Cells, \A p \in Writers : pend[p] = <<>>
    PROVE  disk = mem
<1>1. \A k \in Keys : ~Pending(k)
  BY DEF Pending
<1>2. disk.count = mem.count /\ disk.reasons = mem.reasons /\ disk.expires = mem.expires
  BY <1>1 DEF Follows, Keys
<1>3. QED
  BY <1>2 DEF Cells

\* An operation changes the map, and has the records of the change to append.
LEMMA WriteKeeps ==
    ASSUME WarnInv, ~raced, NEW p \in Writers, NEW new \in Cells, NEW keys \in KeyLists,
           Write(p, new, keys), keys # <<>>,
           \A q \in Writers \ {p} : ~Busy(q),
           pc' \in [Handlers -> Places], \A h \in Handlers \ {p} : pc'[h] = pc[h],
           \A k \in Keys : new[k] # mem[k] => \E i \in DOMAIN keys : keys[i] = k,
           Covered(new), Covered([mem EXCEPT !.count = new.count]),
           \A h \in Handlers : Ahead(h)',
           crashes = 0 => NoneTooMany'
    PROVE  WarnInv'
<1>1. /\ mem \in Cells /\ disk \in Cells /\ Follows /\ Covered(mem)
      /\ DOMAIN pend = Writers /\ p \in Writers
  BY DEF WarnInv, Follows
<1>2. /\ up /\ pend[p] = <<>> /\ mem' = new /\ disk' = disk /\ up' = up /\ crashes' = crashes
      /\ pend' = [pend EXCEPT ![p] = Records(keys, new)]
  BY DEF Write
<1>3. \A q \in Writers : pend[q] = <<>>
  BY <1>2, NotBusy
<1>4. disk = mem
  BY <1>1, <1>2, <1>3, DiskIsMap
<1>5. /\ DOMAIN pend' = Writers /\ pend'[p] = Records(keys, new)
      /\ \A q \in Writers \ {p} : pend'[q] = <<>>
  BY <1>1, <1>2, <1>3
<1>6. \A q \in Writers \ {p} : ~Busy(q)'
  BY <1>5, NotBusy DEF Busy
<1>7. ASSUME NEW q \in Writers PROVE \E ks \in KeyLists : pend'[q] = Records(ks, mem')
  <2>1. CASE q = p
    BY <1>2, <1>5, <2>1
  <2>2. CASE q # p
    <3>1. <<>> \in KeyLists /\ Records(<<>>, mem') = <<>>
      BY RecordsOf DEF KeyLists
    <3>2. QED
      BY <1>5, <2>2, <3>1
  <2>3. QED
    BY <2>1, <2>2
<1>8. ASSUME NEW k \in Keys, ~Pending(k)' PROVE disk'[k] = mem'[k]
  <2>1. ASSUME NEW i \in DOMAIN keys PROVE keys[i] # k
    <3>1. i \in DOMAIN pend'[p] /\ pend'[p][i].key = keys[i]
      BY <1>5, <2>1 DEF Records
    <3>2. QED
      BY <1>8, <3>1 DEF Pending
  <2>2. new[k] = mem[k]
    BY <2>1
  <2>3. QED
    BY <1>2, <1>4, <2>2
<1>9. Follows'
  BY <1>2, <1>5, <1>6, <1>7, <1>8 DEF Follows
<1>10. Covered(mem)' /\ DiskCovered'
  BY <1>1, <1>2, <1>4 DEF DiskCovered, Covered
<1>11. QED
  BY <1>1, <1>2, <1>9, <1>10 DEF WarnInv

\* A record reaches the log.
LEMMA AppendKeeps ==
    ASSUME WarnInv, ~raced, NEW p \in Writers, AppendRecord(p)
    PROVE  WarnInv'
<1>1. /\ mem \in Cells /\ disk \in Cells /\ Follows /\ Covered(mem) /\ DiskCovered
      /\ DOMAIN pend = Writers
  BY DEF WarnInv, Follows
<1>2. PICK keys \in KeyLists : pend[p] = Records(keys, mem)
  BY <1>1 DEF Follows
<1>3. pend[p] # <<>> /\ keys # <<>> /\ Busy(p)
  BY <1>2, RecordsOf DEF AppendRecord, Busy
<1>4. PICK k \in Keys : k = keys[1]
  BY <1>3, RecordsOf
<1>5. /\ Tail(keys) \in KeyLists /\ Tail(pend[p]) = Records(Tail(keys), mem)
      /\ Head(pend[p]).key = k /\ Head(pend[p]).val = mem[k]
      /\ \A i \in DOMAIN keys : keys[i] = k \/ \E j \in DOMAIN Tail(keys) : Tail(keys)[j] = keys[i]
  BY <1>2, <1>3, <1>4, RecordsOf
<1>6. disk' = [disk EXCEPT ![k] = mem[k]] /\ pend' = [pend EXCEPT ![p] = Records(Tail(keys), mem)]
      /\ UNCHANGED <<mem, pc, up, crashes, raced>>
  BY <1>5 DEF AppendRecord
<1>7. \A q \in Writers \ {p} : ~Busy(q) /\ pend[q] = <<>>
  BY <1>1, <1>3, NotBusy DEF Follows
<1>8. up
  BY <1>1, <1>3 DEF Follows, Quiet
<1>9. /\ DOMAIN pend' = Writers /\ pend'[p] = Records(Tail(keys), mem)
      /\ \A q \in Writers \ {p} : pend'[q] = <<>> /\ ~Busy(q)'
  BY <1>1, <1>6, <1>7, NotBusy DEF Busy
<1>10. ASSUME NEW q \in Writers PROVE \E ks \in KeyLists : pend'[q] = Records(ks, mem)
  <2>1. CASE q = p
    BY <1>5, <1>9, <2>1
  <2>2. CASE q # p
    <3>1. <<>> \in KeyLists /\ Records(<<>>, mem) = <<>>
      BY RecordsOf DEF KeyLists
    <3>2. QED
      BY <1>9, <2>2, <3>1
  <2>3. QED
    BY <2>1, <2>2
<1>11. ASSUME NEW l \in Keys, ~Pending(l)' PROVE disk'[l] = mem[l]
  <2>1. CASE l = k
    BY <1>1, <1>6, <2>1 DEF Cells, Keys
  <2>2. CASE l # k
    <3>1. ASSUME NEW j \in DOMAIN Tail(keys) PROVE Tail(keys)[j] # l
      <4>1. j \in DOMAIN pend'[p] /\ pend'[p][j].key = Tail(keys)[j]
        BY <1>9, <3>1 DEF Records
      <4>2. QED
        BY <1>11, <4>1 DEF Pending
    <3>2. \A i \in DOMAIN keys : keys[i] # l
      BY <1>5, <2>2, <3>1
    <3>3. \A i \in DOMAIN pend[p] : pend[p][i].key # l
      BY <1>2, <3>2 DEF Records
    <3>4. ~Pending(l)
      BY <1>7, <3>3 DEF Pending
    <3>5. disk[l] = mem[l]
      BY <1>1, <1>8, <3>4 DEF Follows
    <3>6. QED
      BY <1>6, <2>2, <3>5
  <2>3. QED
    BY <2>1, <2>2
<1>12. Follows'
  BY <1>6, <1>8, <1>9, <1>10, <1>11 DEF Follows
<1>13. /\ disk' \in Cells
       /\ k = "count" => disk' = [disk EXCEPT !.count = mem.count]
       /\ k = "reasons" => disk' = [disk EXCEPT !.reasons = mem.reasons]
       /\ k = "expires" => disk' = [disk EXCEPT !.expires = mem.expires]
  BY <1>1, <1>6 DEF Cells, Keys
<1>14. DiskCovered'
  <2>1. CASE k = "count"
    BY <1>1, <1>6, <1>13, <2>1 DEF DiskCovered, Covered, Cells
  <2>2. CASE k # "count"
    <3>1. \A i \in DOMAIN keys : keys[i] # "count"
      BY <1>3, <1>4, <2>2 DEF KeyLists
    <3>2. \A i \in DOMAIN pend[p] : pend[p][i].key # "count"
      BY <1>2, <3>1 DEF Records
    <3>3. ~Pending("count")
      BY <1>7, <3>2 DEF Pending
    <3>4. disk["count"] = mem["count"]
      BY <1>1, <1>8, <3>3 DEF Follows, Keys
    <3>5. disk'.count = mem.count /\ [disk' EXCEPT !.count = mem.count] = disk'
      BY <1>1, <1>13, <2>2, <3>4 DEF Cells, Keys
    <3>6. disk'.reasons \in {disk.reasons, mem.reasons} /\ disk'.expires \in {disk.expires, mem.expires}
      BY <1>1, <1>13, <2>2 DEF Cells, Keys
    <3>7. Covered(disk')
      BY <1>1, <3>4, <3>5, <3>6 DEF DiskCovered, Covered
    <3>8. QED
      BY <1>6, <3>5, <3>7 DEF DiskCovered
  <2>3. QED
    BY <2>1, <2>2
<1>15. /\ \A h \in Handlers : Ahead(h)'
       /\ crashes' = 0 => NoneTooMany'
  BY <1>6 DEF WarnInv, Ahead, NoneTooMany
<1>16. QED
  BY <1>1, <1>6, <1>12, <1>13, <1>14, <1>15 DEF WarnInv

\* An expiry as it ages.
LEMMA AgedList ==
    ASSUME NEW list \in Seq(0..Cooldown),
           NEW new, new = [i \in DOMAIN list |-> IF list[i] > 0 THEN list[i] - 1 ELSE 0]
    PROVE  new \in Seq(0..Cooldown) /\ Len(new) = Len(list)
<1>1. Cooldown \in Nat /\ Len(list) \in Nat /\ DOMAIN list = 1..Len(list)
  BY WarnAssumption
<1>2. \A i \in 1..Len(list) : list[i] \in 0..Cooldown
  BY ElementOfSeq
<1>3. \A i \in 1..Len(list) : new[i] \in 0..Cooldown
  BY <1>1, <1>2
<1>4. new = [i \in 1..Len(list) |-> new[i]]
  BY <1>1
<1>5. QED
  BY <1>1, <1>3, <1>4

\* A cell as it ages.
LEMMA AgedCell ==
    ASSUME NEW cell \in Cells
    PROVE  /\ Aged(cell) \in Cells
           /\ Aged(cell).count = cell.count /\ Aged(cell).reasons = cell.reasons
           /\ Aged(cell).expires = [i \in DOMAIN cell.expires |-> IF cell.expires[i] > 0 THEN cell.expires[i] - 1 ELSE 0]
           /\ Len(Aged(cell).expires) = Len(cell.expires)
<1>1. cell.expires \in Seq(0..Cooldown)
  BY DEF Cells
<1>2. PICK new : new = [i \in DOMAIN cell.expires |-> IF cell.expires[i] > 0 THEN cell.expires[i] - 1 ELSE 0]
  OBVIOUS
<1>3. new \in Seq(0..Cooldown) /\ Len(new) = Len(cell.expires)
  BY <1>1, <1>2, AgedList
<1>4. Aged(cell) = [cell EXCEPT !.expires = new]
  BY <1>2 DEF Aged
<1>5. QED
  BY <1>2, <1>3, <1>4 DEF Cells

\* Records age with the map.
LEMMA AgedRecords ==
    ASSUME NEW keys \in KeyLists, NEW cell \in Cells, NEW r, r = Records(keys, cell)
    PROVE  [i \in DOMAIN r |-> AgedRecord(r[i])] = Records(keys, Aged(cell))
<1>1. \A i \in DOMAIN keys : keys[i] \in {"count", "reasons", "expires"}
  BY DEF KeyLists
<1>2. DOMAIN r = DOMAIN keys
  BY DEF Records
<1>3. ASSUME NEW i \in DOMAIN keys
      PROVE  AgedRecord(r[i]) = [key |-> keys[i], val |-> Aged(cell)[keys[i]]]
  <2>1. r[i] = [key |-> keys[i], val |-> cell[keys[i]]]
    BY DEF Records
  <2>2. CASE keys[i] = "expires"
    <3>1. AgedRecord(r[i]) = [r[i] EXCEPT !.val = Aged([Absent EXCEPT !.expires = r[i].val]).expires]
      BY <2>1, <2>2 DEF AgedRecord
    <3>2. r[i].val = cell.expires /\ cell.expires \in Seq(0..Cooldown)
      BY <2>1, <2>2 DEF Cells
    <3>3. PICK other : other = [Absent EXCEPT !.expires = cell.expires]
      OBVIOUS
    <3>4. other \in Cells /\ other.expires = cell.expires
      BY <3>2, <3>3, AbsentCell DEF Cells
    <3>5. Aged(other).expires = Aged(cell).expires
      <4>1. Aged(other).expires = [j \in DOMAIN other.expires |->
                                     IF other.expires[j] > 0 THEN other.expires[j] - 1 ELSE 0]
        BY <3>4, AgedCell
      <4>2. Aged(cell).expires = [j \in DOMAIN cell.expires |->
                                    IF cell.expires[j] > 0 THEN cell.expires[j] - 1 ELSE 0]
        BY AgedCell
      <4>3. QED
        BY <3>4, <4>1, <4>2, Zenon
    <3>6. QED
      BY <2>1, <2>2, <3>1, <3>2, <3>3, <3>5
  <2>3. CASE keys[i] \in {"count", "reasons"}
    <3>1. AgedRecord(r[i]) = r[i]
      BY <2>1, <2>3 DEF AgedRecord
    <3>2. Aged(cell)["count"] = cell["count"] /\ Aged(cell)["reasons"] = cell["reasons"]
      BY AgedCell
    <3>3. QED
      BY <2>1, <2>3, <3>1, <3>2, Zenon
  <2>5. QED
    BY <1>1, <2>2, <2>3
<1>4. QED
  BY <1>2, <1>3 DEF Records

\* Time passes for the map, the disk and what is on its way.
LEMMA TickKeeps == ASSUME WarnInv, ~raced, Tick PROVE WarnInv'
<1>1. /\ mem \in Cells /\ disk \in Cells /\ Follows /\ Covered(mem) /\ DiskCovered
      /\ DOMAIN pend = Writers
  BY DEF WarnInv, Follows
<1>2. /\ mem' = Aged(mem) /\ disk' = Aged(disk) /\ UNCHANGED <<pc, up, crashes, raced>>
      /\ pend' = [p \in Writers |-> [i \in DOMAIN pend[p] |-> AgedRecord(pend[p][i])]]
  BY DEF Tick
<1>3. /\ mem' \in Cells /\ mem'.count = mem.count /\ mem'.reasons = mem.reasons
      /\ Len(mem'.expires) = Len(mem.expires)
      /\ disk' \in Cells /\ disk'.count = disk.count /\ disk'.reasons = disk.reasons
      /\ Len(disk'.expires) = Len(disk.expires)
  BY <1>1, <1>2, AgedCell
<1>4. ASSUME NEW p \in Writers
      PROVE  /\ \E keys \in KeyLists : pend'[p] = Records(keys, mem')
             /\ Busy(p)' <=> Busy(p)
             /\ DOMAIN pend'[p] = DOMAIN pend[p]
             /\ \A i \in DOMAIN pend[p] : pend'[p][i].key = pend[p][i].key
  <2>1. PICK keys \in KeyLists : pend[p] = Records(keys, mem)
    BY <1>1 DEF Follows
  <2>2. pend'[p] = Records(keys, mem')
    BY <1>1, <1>2, <2>1, AgedRecords
  <2>3. pend'[p] = <<>> <=> pend[p] = <<>>
    BY <2>1, <2>2, RecordsOf
  <2>4. /\ DOMAIN pend'[p] = DOMAIN keys /\ DOMAIN pend[p] = DOMAIN keys
        /\ \A i \in DOMAIN keys : pend'[p][i].key = keys[i] /\ pend[p][i].key = keys[i]
    BY <2>1, <2>2 DEF Records
  <2>5. Busy(p)' <=> Busy(p)
    BY <1>2, <2>3 DEF Busy
  <2>6. QED
    BY <2>2, <2>4, <2>5
<1>5. \A k : Pending(k)' <=> Pending(k)
  BY <1>4 DEF Pending
<1>6. ASSUME NEW k \in Keys, up, disk[k] = mem[k] PROVE disk'[k] = mem'[k]
  <2>1. CASE k = "expires"
    <3>1. Aged(disk).expires = [i \in DOMAIN disk.expires |-> IF disk.expires[i] > 0 THEN disk.expires[i] - 1 ELSE 0]
      BY <1>1, AgedCell
    <3>2. Aged(mem).expires = [i \in DOMAIN mem.expires |-> IF mem.expires[i] > 0 THEN mem.expires[i] - 1 ELSE 0]
      BY <1>1, AgedCell
    <3>3. QED
      BY <1>2, <1>6, <2>1, <3>1, <3>2, Zenon
  <2>2. CASE k \in {"count", "reasons"}
    BY <1>3, <1>6, <2>2
  <2>3. QED
    BY <2>1, <2>2 DEF Keys
<1>7. Follows'
  BY <1>1, <1>2, <1>4, <1>5, <1>6 DEF Follows, Quiet
<1>8. Covered(mem)' /\ DiskCovered'
  BY <1>1, <1>3 DEF Covered, DiskCovered, Cells
<1>9. /\ \A h \in Handlers : Ahead(h)'
      /\ crashes' = 0 => NoneTooMany'
  BY <1>2, <1>3 DEF WarnInv, Ahead, NoneTooMany
<1>10. QED
  BY <1>2, <1>3, <1>7, <1>8, <1>9 DEF WarnInv

\* Nothing is under way when the process has died.
LEMMA CrashKeeps == ASSUME WarnInv, ~raced, Crash PROVE WarnInv'
<1>1. /\ disk \in Cells /\ DiskCovered /\ crashes' = crashes + 1 /\ crashes \in Nat
      /\ mem' = Absent /\ disk' = disk /\ ~up' /\ raced' = raced
      /\ pend' = [p \in Writers |-> <<>>] /\ pc' = [h \in Handlers |-> "idle"]
  BY DEF WarnInv, Crash
<1>2. \A p \in Writers : ~Busy(p)'
  BY <1>1 DEF Busy
<1>3. <<>> \in KeyLists /\ Records(<<>>, mem') = <<>>
  BY RecordsOf DEF KeyLists
<1>4. Follows'
  BY <1>1, <1>2, <1>3 DEF Follows, Quiet
<1>5. mem' \in Cells /\ Number(mem'.count) = 0 /\ Len(mem'.expires) = 0 /\ mem'.reasons = 0
  BY <1>1, AbsentCell DEF Absent
<1>6. Covered(mem)' /\ DiskCovered'
  <2>1. /\ [disk EXCEPT !.count = mem'.count].expires = disk.expires
        /\ [disk EXCEPT !.count = mem'.count].reasons = disk.reasons
        /\ [disk EXCEPT !.count = mem'.count].count = mem'.count
    BY <1>1 DEF Cells
  <2>2. Len(disk.expires) >= 0 /\ disk.reasons >= 0
    BY <1>1 DEF Cells
  <2>3. QED
    BY <1>1, <1>5, <2>1, <2>2 DEF Covered, DiskCovered
<1>7. \A h \in Handlers : Ahead(h)'
  BY <1>1 DEF Ahead
<1>8. /\ pc' \in [Handlers -> Places] /\ crashes' \in Nat /\ crashes' # 0
  BY <1>1 DEF Places
<1>9. QED
  BY <1>1, <1>4, <1>5, <1>6, <1>7, <1>8 DEF WarnInv

\* A restart finds what is on disk.
LEMMA RestartKeeps == ASSUME WarnInv, ~raced, crashes # 0, Restart PROVE WarnInv'
<1>1. /\ mem \in Cells /\ disk \in Cells /\ Follows /\ DiskCovered /\ Covered(disk)
      /\ mem' = disk /\ up' /\ ~up /\ UNCHANGED <<disk, pend, pc, crashes, raced>>
  BY DEF WarnInv, Restart, DiskCovered
<1>2. \A p \in Writers : ~Busy(p) /\ ~Busy(p)' /\ pend'[p] = <<>>
  BY <1>1, NotBusy DEF Follows, Quiet, Busy
<1>3. <<>> \in KeyLists /\ Records(<<>>, mem') = <<>>
  BY RecordsOf DEF KeyLists
<1>4. Follows'
  BY <1>1, <1>2, <1>3 DEF Follows
<1>5. [disk EXCEPT !.count = disk.count] = disk
  BY <1>1 DEF Cells
<1>6. Covered(mem)' /\ DiskCovered'
  BY <1>1, <1>5 DEF DiskCovered
<1>7. \A h \in Handlers : Ahead(h)'
  <2>1. ASSUME NEW h \in Handlers PROVE pc'[h] = "idle"
    BY <1>1, <1>2 DEF Busy, Writers
  <2>2. QED
    BY <2>1 DEF Ahead
<1>8. QED
  BY <1>1, <1>4, <1>6, <1>7 DEF WarnInv

\* A handler in an operation is the only one.
LEMMA OthersIdle ==
    ASSUME Follows, NEW h \in Handlers, pc[h] # "idle"
    PROVE  /\ \A q \in Writers \ {h} : ~Busy(q)
           /\ \A g \in Handlers \ {h} : pc[g] = "idle"
<1>1. Busy(h) /\ Handlers \subseteq Writers
  BY DEF Busy, Writers
<1>2. \A q \in Writers \ {h} : ~Busy(q)
  BY <1>1 DEF Follows
<1>3. QED
  BY <1>1, <1>2, NotBusy

\* The step of a handler that is alone, and changes one or two keys of the map.
LEMMA HandlerWrites ==
    ASSUME WarnInv, ~raced, NEW h \in Handlers, NEW to \in Places,
           NEW new \in Cells, NEW keys \in KeyLists, keys # <<>>,
           Write(h, new, keys), pc' = [pc EXCEPT ![h] = to],
           \A q \in Writers \ {h} : ~Busy(q),
           \A k \in Keys : new[k] # mem[k] => \E i \in DOMAIN keys : keys[i] = k,
           Covered(new), Covered([mem EXCEPT !.count = new.count]),
           to \in {"expires", "count"} => new.reasons > Number(new.count),
           to = "count" => Len(new.expires) > Number(new.count),
           to \in {"delReasons", "delExpires"} => new.count = NoVal,
           crashes = 0 /\ to \in {"idle", "expires", "delCount"} => Len(new.expires) <= Number(new.count),
           crashes = 0 /\ to = "count" => Len(new.expires) <= Number(new.count) + 1
    PROVE  WarnInv'
<1>1. pc \in [Handlers -> Places] /\ h \in Writers /\ mem' = new
  BY DEF WarnInv, Writers, Write
<1>2. /\ pc' \in [Handlers -> Places] /\ pc'[h] = to
      /\ \A g \in Handlers \ {h} : pc'[g] = pc[g] /\ pc'[g] = "idle"
  BY <1>1, NotBusy DEF Writers
<1>3. \A g \in Handlers : Ahead(g)'
  <2>1. ASSUME NEW g \in Handlers PROVE Ahead(g)'
    <3>1. CASE g = h
      BY <1>1, <1>2, <3>1 DEF Ahead
    <3>2. CASE g # h
      BY <1>2, <3>2 DEF Ahead
    <3>3. QED
      BY <3>1, <3>2
  <2>2. QED
    BY <2>1
<1>4. crashes = 0 => NoneTooMany'
  <2> SUFFICES ASSUME crashes = 0 PROVE NoneTooMany'
    OBVIOUS
  <2>1. (\A g \in Handlers : pc'[g] \in {"idle", "expires", "delCount"}) => Len(mem'.expires) <= Number(mem'.count)
    BY <1>1, <1>2
  <2>2. \A g \in Handlers : pc'[g] = "count" => Len(mem'.expires) <= Number(mem'.count) + 1
    BY <1>1, <1>2
  <2>3. QED
    BY <2>1, <2>2 DEF NoneTooMany
<1>5. QED
  BY <1>1, <1>2, <1>3, <1>4, WriteKeeps

\* The map, of which nothing is under way.
LEMMA NoneUnderWay ==
    ASSUME WarnInv, ~raced, \A q \in Writers : ~Busy(q)
    PROVE  /\ \A h \in Handlers : pc[h] = "idle"
           /\ crashes = 0 => Len(mem.expires) <= Number(mem.count)
<1>1. \A h \in Handlers : pc[h] = "idle"
  BY NotBusy DEF Writers
<1>2. QED
  BY <1>1 DEF WarnInv, NoneTooMany

\* What the proofs need of the map.
LEMMA CellOf ==
    ASSUME NEW cell \in Cells
    PROVE  /\ cell.count \in Nat \cup {NoVal} /\ cell.reasons \in Nat
           /\ cell.expires \in Seq(0..Cooldown) /\ Len(cell.expires) \in Nat
           /\ Number(cell.count) \in Nat
           /\ DOMAIN cell = Keys
<1>1. /\ cell.count \in Nat \cup {NoVal} /\ cell.reasons \in Nat
      /\ cell.expires \in Seq(0..Cooldown) /\ DOMAIN cell = {"count", "reasons", "expires"}
  BY DEF Cells
<1>2. Number(cell.count) \in Nat
  BY <1>1, NumberOf
<1>3. Len(cell.expires) \in Nat
  BY <1>1
<1>4. QED
  BY <1>1, <1>2, <1>3 DEF Keys

\* The keys of a change of one key.
LEMMA KeyOf ==
    ASSUME NEW k \in Keys, NEW keys, keys = <<k>>
    PROVE  keys \in KeyLists /\ keys # <<>> /\ \E i \in DOMAIN keys : keys[i] = k
<1>1. 1 \in DOMAIN keys /\ keys[1] = k /\ keys # <<>>
  OBVIOUS
<1>2. QED
  BY <1>1 DEF KeyLists, Keys

\* The keys of a pardon, and of a clean-up that leaves warnings.
LEMMA KeysOf ==
    ASSUME NEW keys, keys = <<"count", "expires">>
    PROVE  /\ keys \in KeyLists /\ keys # <<>>
           /\ \A k \in {"count", "expires"} : \E i \in DOMAIN keys : keys[i] = k
<1>1. 1 \in DOMAIN keys /\ keys[1] = "count" /\ 2 \in DOMAIN keys /\ keys[2] = "expires" /\ keys # <<>>
  OBVIOUS
<1>2. QED
  BY <1>1 DEF KeyLists

\* A warning begins with its reason.
LEMMA WarnKeeps == ASSUME WarnInv, ~raced', NEW h \in Handlers, Warn(h) PROVE WarnInv'
<1>1. /\ ~raced /\ \A q \in Writers : ~Busy(q)
      /\ pc' = [pc EXCEPT ![h] = "expires"]
  BY DEF Warn, Begins, Step
<1>2. mem \in Cells /\ Covered(mem)
  BY <1>1 DEF WarnInv
<1>3. PICK new : new = [mem EXCEPT !.reasons = mem.reasons + 1]
  OBVIOUS
<1>4. Write(h, new, <<"reasons">>)
  BY <1>3 DEF Warn
<1>5. /\ new \in Cells /\ new.count = mem.count /\ new.expires = mem.expires /\ new.reasons = mem.reasons + 1
      /\ \A k \in Keys : new[k] # mem[k] => k = "reasons"
      /\ [mem EXCEPT !.count = new.count] = mem
  BY <1>2, <1>3 DEF Cells, Keys
<1>6. PICK keys : keys = <<"reasons">>
  OBVIOUS
<1>10. /\ keys \in KeyLists /\ keys # <<>>
       /\ \A k \in Keys : new[k] # mem[k] => \E i \in DOMAIN keys : keys[i] = k
  <2>1. "reasons" \in Keys
    BY DEF Keys
  <2>2. QED
    BY <1>5, <1>6, <2>1, KeyOf
<1>7. Covered(new) /\ new.reasons > Number(new.count)
  BY <1>2, <1>5, CellOf DEF Covered
<1>8. crashes = 0 => Len(new.expires) <= Number(new.count)
  BY <1>1, <1>5, NoneUnderWay
<1>9. "expires" \in Places
  BY DEF Places
<1>11. QED
  BY <1>1, <1>2, <1>4, <1>5, <1>6, <1>7, <1>8, <1>9, <1>10, HandlerWrites

\* Then comes the expiry.
LEMMA AddExpiryKeeps == ASSUME WarnInv, ~raced', NEW h \in Handlers, AddExpiry(h) PROVE WarnInv'
<1>1. /\ ~raced /\ pc[h] = "expires" /\ pc' = [pc EXCEPT ![h] = "count"]
  BY DEF AddExpiry, Step
<1>2. mem \in Cells /\ Covered(mem) /\ Follows /\ Ahead(h) /\ (crashes = 0 => NoneTooMany)
  BY <1>1 DEF WarnInv
<1>3. /\ \A q \in Writers \ {h} : ~Busy(q)
      /\ \A g \in Handlers \ {h} : pc[g] = "idle"
  BY <1>1, <1>2, OthersIdle
<1>4. PICK list : list = Append(mem.expires, Cooldown)
  OBVIOUS
<1>5. list \in Seq(0..Cooldown) /\ Len(list) = Len(mem.expires) + 1
  <2>1. mem.expires \in Seq(0..Cooldown) /\ Cooldown \in 0..Cooldown
    BY <1>2, CellOf, WarnAssumption
  <2>2. QED
    BY <1>4, <2>1
<1>6. PICK new : new = [mem EXCEPT !.expires = list]
  OBVIOUS
<1>7. Write(h, new, <<"expires">>)
  BY <1>4, <1>6 DEF AddExpiry
<1>8. /\ new \in Cells /\ new.count = mem.count /\ new.expires = list /\ new.reasons = mem.reasons
      /\ \A k \in Keys : new[k] # mem[k] => k = "expires"
      /\ [mem EXCEPT !.count = new.count] = mem
  BY <1>2, <1>5, <1>6 DEF Cells, Keys
<1>9. PICK keys : keys = <<"expires">>
  OBVIOUS
<1>10. /\ keys \in KeyLists /\ keys # <<>>
       /\ \A k \in Keys : new[k] # mem[k] => \E i \in DOMAIN keys : keys[i] = k
  <2>1. "expires" \in Keys
    BY DEF Keys
  <2>2. QED
    BY <1>8, <1>9, <2>1, KeyOf
<1>11. /\ Covered(new) /\ new.reasons > Number(new.count) /\ Len(new.expires) > Number(new.count)
  BY <1>1, <1>2, <1>5, <1>8, CellOf DEF Covered, Ahead
<1>12. crashes = 0 => Len(new.expires) <= Number(new.count) + 1
  <2>1. crashes = 0 => Len(mem.expires) <= Number(mem.count)
    BY <1>1, <1>2, <1>3 DEF NoneTooMany
  <2>2. QED
    BY <1>2, <1>5, <1>8, <2>1, CellOf
<1>13. "count" \in Places
  BY DEF Places
<1>14. Write(h, new, keys) /\ Covered([mem EXCEPT !.count = new.count])
  BY <1>2, <1>7, <1>8, <1>9
<1>15. QED
  BY <1>1, <1>2, <1>3, <1>8, <1>10, <1>11, <1>12, <1>13, <1>14, HandlerWrites

\* And then it counts.
LEMMA AddCountKeeps == ASSUME WarnInv, ~raced', NEW h \in Handlers, AddCount(h) PROVE WarnInv'
<1>1. ~raced /\ pc[h] = "count"
  BY DEF AddCount, Step
<1>2. mem \in Cells /\ Covered(mem) /\ Follows /\ Ahead(h) /\ (crashes = 0 => NoneTooMany)
  BY <1>1 DEF WarnInv
<1>3. \A q \in Writers \ {h} : ~Busy(q)
  BY <1>1, <1>2, OthersIdle
<1>4. PICK n : n = Number(mem.count) + 1
  OBVIOUS
<1>5. n \in Nat /\ n = Number(mem.count) + 1 /\ Number(n) = n
  BY <1>2, <1>4, CellOf, NumberOf
<1>6. PICK to \in {"delCount", "idle"} : pc' = [pc EXCEPT ![h] = to]
  BY <1>4 DEF AddCount, Step
<1>7. PICK new : new = [mem EXCEPT !.count = n]
  OBVIOUS
<1>8. Write(h, new, <<"count">>)
  BY <1>4, <1>7 DEF AddCount
<1>9. /\ new \in Cells /\ new.count = n /\ new.expires = mem.expires /\ new.reasons = mem.reasons
      /\ \A k \in Keys : new[k] # mem[k] => k = "count"
      /\ [mem EXCEPT !.count = new.count] = new
  BY <1>2, <1>5, <1>7 DEF Cells, Keys
<1>10. PICK keys : keys = <<"count">>
  OBVIOUS
<1>11. /\ keys \in KeyLists /\ keys # <<>>
       /\ \A k \in Keys : new[k] # mem[k] => \E i \in DOMAIN keys : keys[i] = k
  <2>1. "count" \in Keys
    BY DEF Keys
  <2>2. QED
    BY <1>9, <1>10, <2>1, KeyOf
<1>12. Covered(new)
  BY <1>1, <1>2, <1>5, <1>9, CellOf DEF Covered, Ahead
<1>13. crashes = 0 => Len(new.expires) <= Number(new.count)
  BY <1>1, <1>2, <1>5, <1>9 DEF NoneTooMany
<1>14. to \in Places /\ to \notin {"expires", "count", "delReasons", "delExpires"}
  BY <1>6 DEF Places
<1>15. Write(h, new, keys) /\ Covered([mem EXCEPT !.count = new.count])
  BY <1>8, <1>9, <1>10, <1>12
<1>16. WarnInv /\ pc' = [pc EXCEPT ![h] = to]
  BY <1>6
<1>17. QED
  BY <1>1, <1>3, <1>9, <1>11, <1>12, <1>13, <1>14, <1>15, <1>16, HandlerWrites

\* The count is reset before the reasons and the expiries.
LEMMA ResetKeeps == ASSUME WarnInv, ~raced', NEW h \in Handlers, Reset(h) PROVE WarnInv'
<1>1. PICK key \in Keys, to \in {"delReasons", "delExpires", "idle"} :
         /\ Write(h, [mem EXCEPT ![key] = Absent[key]], <<key>>)
         /\ pc' = [pc EXCEPT ![h] = to] /\ raced' = raced
         /\ \/ key = "count" /\ pc[h] = "delCount" /\ to = "delReasons"
            \/ key = "reasons" /\ pc[h] = "delReasons" /\ to = "delExpires"
            \/ key = "expires" /\ pc[h] = "delExpires" /\ to = "idle"
  BY DEF Reset, Forget, Step, Keys
<1>2. ~raced /\ pc[h] # "idle"
  BY <1>1
<1>3. mem \in Cells /\ Covered(mem) /\ Follows /\ Ahead(h)
  BY <1>2 DEF WarnInv
<1>4. \A q \in Writers \ {h} : ~Busy(q)
  BY <1>2, <1>3, OthersIdle
<1>5. PICK new : new = [mem EXCEPT ![key] = Absent[key]]
  OBVIOUS
<1>6. Write(h, new, <<key>>)
  BY <1>1, <1>5
<1>7. /\ key = "count" => new = [mem EXCEPT !.count = NoVal]
      /\ key = "reasons" => new = [mem EXCEPT !.reasons = 0]
      /\ key = "expires" => new = [mem EXCEPT !.expires = <<>>]
  <2>1. Absent["count"] = NoVal /\ Absent["reasons"] = 0 /\ Absent["expires"] = <<>>
    BY DEF Absent
  <2>2. QED
    BY <1>5, <2>1
<1>8. <<>> \in Seq(0..Cooldown) /\ Len(<<>>) = 0
  OBVIOUS
<1>9. /\ new \in Cells
      /\ \A k \in Keys : new[k] # mem[k] => k = key
      /\ new.count = NoVal
      /\ key = "expires" => new.expires = <<>>
  <2>1. key # "count" => mem.count = NoVal
    BY <1>1, <1>3 DEF Ahead
  <2>2. CASE key = "count"
    BY <1>3, <1>7, <2>2 DEF Cells, Keys
  <2>3. CASE key = "reasons"
    BY <1>3, <1>7, <2>1, <2>3 DEF Cells, Keys
  <2>4. CASE key = "expires"
    BY <1>3, <1>7, <1>8, <2>1, <2>4 DEF Cells, Keys
  <2>5. QED
    BY <2>2, <2>3, <2>4 DEF Keys
<1>10. Number(NoVal) = 0
  BY DEF Number
<1>11. PICK mid : mid = [mem EXCEPT !.count = new.count]
  OBVIOUS
<1>12. mid \in Cells /\ mid.count = NoVal
  BY <1>3, <1>9, <1>11 DEF Cells
<1>13. Covered(new) /\ Covered(mid)
  BY <1>9, <1>10, <1>12, CellOf DEF Covered
<1>14. PICK keys : keys = <<key>>
  OBVIOUS
<1>15. /\ keys \in KeyLists /\ keys # <<>>
       /\ \A k \in Keys : new[k] # mem[k] => \E i \in DOMAIN keys : keys[i] = k
  BY <1>9, <1>14, KeyOf
<1>16. to \in {"idle", "expires", "delCount"} => Len(new.expires) <= Number(new.count)
  BY <1>1, <1>8, <1>9, <1>10
<1>17. to \in Places /\ to \notin {"expires", "count"}
  BY DEF Places
<1>18. Write(h, new, keys) /\ Covered([mem EXCEPT !.count = new.count]) /\ WarnInv /\ pc' = [pc EXCEPT ![h] = to]
  BY <1>1, <1>6, <1>11, <1>13, <1>14
<1>19. QED
  BY <1>2, <1>4, <1>9, <1>13, <1>15, <1>16, <1>17, <1>18, HandlerWrites

\* A list without its last element.
LEMMA FrontOf ==
    ASSUME NEW S, NEW list \in Seq(S), list # <<>>
    PROVE  Front(list) \in Seq(S) /\ Len(Front(list)) = Len(list) - 1 /\ Len(list) >= 1
<1>1. PICK m \in Nat : Len(list) = m + 1 /\ Len(list) - 1 = m
  <2>1. PICK n : n = Len(list)
    OBVIOUS
  <2>2. n \in Nat /\ n # 0
    BY <2>1
  <2>3. \E m \in Nat : n = m + 1 /\ n - 1 = m
    <3>1. n - 1 \in Nat /\ n = (n - 1) + 1
      BY ONLY <2>2
    <3>2. QED
      BY <3>1
  <2>4. QED
    BY <2>1, <2>3, Zenon
<1>2. Front(list) = SubSeq(list, 1, m)
  BY <1>1 DEF Front
<1>3. \A i \in 1..m : list[i] \in S
  BY <1>1, ElementOfSeq
<1>4. PICK new : new = SubSeq(list, 1, m)
  OBVIOUS
<1>5. new \in Seq(S) /\ Len(new) = m
  BY <1>1, <1>3, <1>4
<1>6. QED
  BY <1>1, <1>2, <1>4, <1>5

\* A pardon takes a warning and its expiry together.
LEMMA UnwarnKeeps == ASSUME WarnInv, ~raced', NEW h \in Handlers, Unwarn(h) PROVE WarnInv'
<1>1. PICK current, newCount, popped :
         /\ current = Number(mem.count)
         /\ newCount = IF current > 0 THEN current - 1 ELSE 0
         /\ popped = IF current > 0 /\ mem.expires # <<>> THEN Front(mem.expires) ELSE mem.expires
  OBVIOUS
<1>2. PICK new : new = [mem EXCEPT !.count = newCount, !.expires = popped]
  OBVIOUS
<1>3. /\ ~raced /\ \A q \in Writers : ~Busy(q)
      /\ Step(h, "idle", IF newCount = 0 THEN "delCount" ELSE "idle")
      /\ Write(h, new, <<"count", "expires">>)
  BY <1>1, <1>2 DEF Unwarn, Begins
<1>4. PICK to \in {"idle", "delCount"} : pc' = [pc EXCEPT ![h] = to]
  BY <1>3 DEF Step
<1>5. mem \in Cells /\ Covered(mem)
  BY <1>3 DEF WarnInv
<1>6. /\ current \in Nat /\ newCount \in Nat /\ newCount <= current
      /\ current > 0 => current = newCount + 1
      /\ ~(current > 0) => current = 0 /\ newCount = 0
  BY <1>1, <1>5, CellOf
<1>7. mem.expires \in Seq(0..Cooldown) /\ Len(mem.expires) \in Nat /\ mem.reasons \in Nat
  BY <1>5, CellOf
<1>8. Len(mem.expires) >= current /\ mem.reasons >= current
  BY <1>1, <1>5 DEF Covered
<1>9. /\ popped \in Seq(0..Cooldown)
      /\ current > 0 => Len(popped) = Len(mem.expires) - 1
      /\ ~(current > 0) => popped = mem.expires
  <2>1. CASE current > 0
    <3>1. mem.expires # <<>>
      BY <1>6, <1>8, <2>1
    <3>2. popped = Front(mem.expires)
      BY <1>1, <2>1, <3>1
    <3>3. QED
      BY <1>7, <2>1, <3>1, <3>2, FrontOf
  <2>2. CASE ~(current > 0)
    BY <1>1, <1>7, <2>2
  <2>3. QED
    BY <2>1, <2>2
<1>10. /\ new \in Cells /\ new.count = newCount /\ new.expires = popped /\ new.reasons = mem.reasons
       /\ \A k \in Keys : new[k] # mem[k] => k \in {"count", "expires"}
  BY <1>2, <1>5, <1>6, <1>9 DEF Cells, Keys
<1>11. PICK mid : mid = [mem EXCEPT !.count = new.count]
  OBVIOUS
<1>12. mid \in Cells /\ mid.count = newCount /\ mid.expires = mem.expires /\ mid.reasons = mem.reasons
  BY <1>5, <1>6, <1>10, <1>11 DEF Cells
<1>13. Number(newCount) = newCount
  BY <1>6, NumberOf
<1>14. Len(popped) \in Nat
  BY <1>9
<1>15. Covered(new) /\ Covered(mid)
  BY <1>6, <1>7, <1>8, <1>9, <1>10, <1>12, <1>13, <1>14 DEF Covered
<1>16. crashes = 0 /\ to \in {"idle", "expires", "delCount"} => Len(new.expires) <= Number(new.count)
  <2>1. crashes = 0 => Len(mem.expires) <= current
    BY <1>1, <1>3, NoneUnderWay
  <2>2. QED
    BY <1>6, <1>7, <1>9, <1>10, <1>13, <2>1
<1>17. PICK keys : keys = <<"count", "expires">>
  OBVIOUS
<1>18. /\ keys \in KeyLists /\ keys # <<>>
       /\ \A k \in Keys : new[k] # mem[k] => \E i \in DOMAIN keys : keys[i] = k
  BY <1>10, <1>17, KeysOf
<1>19. to \in Places /\ to \notin {"expires", "count", "delReasons", "delExpires"}
  BY <1>4 DEF Places
<1>20. Write(h, new, keys) /\ Covered([mem EXCEPT !.count = new.count]) /\ pc' = [pc EXCEPT ![h] = to]
  BY <1>3, <1>4, <1>11, <1>15, <1>17
<1>21. QED
  BY <1>3, <1>10, <1>15, <1>16, <1>18, <1>19, <1>20, HandlerWrites

\* The clean-up takes warnings off as their expiries go.
LEMMA CleanKeeps == ASSUME WarnInv, ~raced', Clean PROVE WarnInv'
<1>1. PICK newList : newList = Unexpired(mem.expires)
  OBVIOUS
<1>2. PICK newCount : newCount = mem.count - (Len(mem.expires) - Len(newList))
  OBVIOUS
<1>3. /\ mem.count # NoVal /\ pc' = pc /\ ~raced /\ \A h \in Handlers : ~Busy(h)
      /\ IF newCount <= 0
         THEN Write(Cleaner, Absent, <<"count", "reasons", "expires">>)
         ELSE Write(Cleaner, [mem EXCEPT !.count = newCount, !.expires = newList], <<"count", "expires">>)
  BY <1>1, <1>2 DEF Clean
<1>4. /\ mem \in Cells /\ Covered(mem) /\ pc \in [Handlers -> Places]
      /\ crashes = 0 => NoneTooMany
  BY <1>3 DEF WarnInv
<1>5. /\ mem.count \in Nat /\ Number(mem.count) = mem.count /\ mem.reasons \in Nat
      /\ mem.expires \in Seq(0..Cooldown) /\ Len(mem.expires) \in Nat
  BY <1>3, <1>4, CellOf, NumberOf
<1>6. newList \in Seq(0..Cooldown) /\ Len(newList) <= Len(mem.expires) /\ Len(newList) \in Nat
  <2>1. 0..Cooldown \in SUBSET Int
    BY WarnAssumption
  <2>2. newList \in Seq(0..Cooldown) /\ Len(newList) <= Len(mem.expires)
    BY <1>1, <1>5, <2>1, UnexpiredSome
  <2>3. QED
    BY <2>2
<1>7. newCount \in Int /\ newCount <= mem.count
      /\ newCount - Len(newList) = mem.count - Len(mem.expires)
  <2>1. PICK a, b : a = Len(mem.expires) /\ b = Len(newList)
    OBVIOUS
  <2>2. newCount = mem.count - (a - b)
    BY <1>2, <2>1
  <2>3. a \in Nat /\ b \in Nat /\ b <= a /\ mem.count \in Nat
    BY <1>5, <1>6, <2>1
  <2>4. newCount \in Int /\ newCount <= mem.count /\ newCount - b = mem.count - a
    BY ONLY <2>2, <2>3
  <2>5. QED
    BY <2>1, <2>4
<1>8. Len(mem.expires) >= mem.count /\ mem.reasons >= mem.count
  BY <1>4, <1>5 DEF Covered
<1>9. /\ Cleaner \in Writers /\ \A q \in Writers \ {Cleaner} : ~Busy(q)
      /\ \A h \in Handlers : pc[h] = "idle"
  BY <1>3, NotBusy DEF Writers
<1>10. crashes = 0 => Len(mem.expires) <= mem.count
  BY <1>4, <1>5, <1>9 DEF NoneTooMany
<1>11. PICK new, keys : /\ Write(Cleaner, new, keys) /\ new \in Cells /\ Covered(new)
                        /\ keys \in KeyLists /\ keys # <<>>
                        /\ \A k \in Keys : new[k] # mem[k] => \E i \in DOMAIN keys : keys[i] = k
                        /\ Covered([mem EXCEPT !.count = new.count])
                        /\ crashes = 0 => Len(new.expires) <= Number(new.count)
  <2>1. CASE newCount <= 0
    <3>1. PICK keys : keys = <<"count", "reasons", "expires">>
      OBVIOUS
    <3>2. /\ keys \in KeyLists /\ keys # <<>>
          /\ \A k \in Keys : \E i \in DOMAIN keys : keys[i] = k
      <4>1. /\ 1 \in DOMAIN keys /\ keys[1] = "count" /\ 2 \in DOMAIN keys /\ keys[2] = "reasons"
            /\ 3 \in DOMAIN keys /\ keys[3] = "expires" /\ keys # <<>>
        BY <3>1
      <4>2. QED
        BY <3>1, <4>1 DEF KeyLists, Keys
    <3>3. PICK mid : mid = [mem EXCEPT !.count = Absent.count]
      OBVIOUS
    <3>4. Number(mid.count) = 0 /\ mid.expires = mem.expires /\ mid.reasons = mem.reasons
      BY <1>4, <3>3, AbsentCell DEF Cells
    <3>5. Absent.reasons = 0
      BY DEF Absent
    <3>6. Covered(Absent) /\ Covered(mid)
      BY <1>5, <3>4, <3>5, AbsentCell DEF Covered
    <3>7. Write(Cleaner, Absent, keys)
      BY <1>3, <2>1, <3>1
    <3>8. Len(Absent.expires) <= Number(Absent.count)
      BY AbsentCell
    <3>9. QED
      BY <3>2, <3>3, <3>6, <3>7, <3>8, AbsentCell
  <2>2. CASE ~(newCount <= 0)
    <3>1. newCount \in Nat /\ Number(newCount) = newCount
      <4>1. newCount \in Nat
        BY <1>7, <2>2
      <4>2. QED
        BY <4>1, NumberOf
    <3>2. PICK new : new = [mem EXCEPT !.count = newCount, !.expires = newList]
      OBVIOUS
    <3>3. /\ new \in Cells /\ new.count = newCount /\ new.expires = newList /\ new.reasons = mem.reasons
          /\ \A k \in Keys : new[k] # mem[k] => k \in {"count", "expires"}
      BY <1>4, <1>6, <3>1, <3>2 DEF Cells, Keys
    <3>4. PICK mid : mid = [mem EXCEPT !.count = new.count]
      OBVIOUS
    <3>5. mid.count = newCount /\ mid.expires = mem.expires /\ mid.reasons = mem.reasons
      BY <1>4, <3>3, <3>4 DEF Cells
    <3>6. Covered(new) /\ Covered(mid)
      BY <1>5, <1>6, <1>7, <1>8, <3>1, <3>3, <3>5 DEF Covered
    <3>7. PICK keys : keys = <<"count", "expires">>
      OBVIOUS
    <3>8. /\ keys \in KeyLists /\ keys # <<>>
          /\ \A k \in Keys : new[k] # mem[k] => \E i \in DOMAIN keys : keys[i] = k
      BY <3>3, <3>7, KeysOf
    <3>9. Write(Cleaner, new, keys)
      BY <1>3, <2>2, <3>2, <3>7
    <3>10. crashes = 0 => Len(new.expires) <= Number(new.count)
      BY <1>5, <1>6, <1>7, <1>10, <3>1, <3>3
    <3>11. QED
      BY <3>3, <3>4, <3>6, <3>8, <3>9, <3>10
  <2>3. QED
    BY <2>1, <2>2
<1>12. mem' = new /\ \A h \in Handlers : pc'[h] = "idle"
  <2>1. mem' = new
    BY <1>11 DEF Write
  <2>2. QED
    BY <1>3, <1>9, <2>1
<1>13. \A h \in Handlers : Ahead(h)'
  BY <1>12 DEF Ahead
<1>14. crashes = 0 => NoneTooMany'
  <2> SUFFICES ASSUME crashes = 0 PROVE NoneTooMany'
    OBVIOUS
  <2>1. Len(mem'.expires) <= Number(mem'.count)
    BY <1>11, <1>12
  <2>2. \A h \in Handlers : pc'[h] # "count"
    BY <1>12
  <2>3. QED
    BY <2>1, <2>2 DEF NoneTooMany
<1>15. /\ pc' \in [Handlers -> Places]
       /\ \A h \in Handlers \ {Cleaner} : pc'[h] = pc[h]
  BY <1>3, <1>4
<1>16. QED
  BY <1>3, <1>9, <1>11, <1>13, <1>14, <1>15, WriteKeeps

-----------------------------------------------------------------------------
\* Until the process dies for the first time, a count at the limit is about to be reset.
LimitInv ==
    /\ pc \in [Handlers -> Places] /\ crashes \in Nat
    /\ crashes = 0 =>
         /\ up /\ mem \in Cells
         /\ Number(mem.count) >= MaxWarns => \E h \in Handlers : pc[h] = "delCount"

\* A step that takes no reset back and does not warn.
LEMMA LimitStays ==
    ASSUME LimitInv, pc' \in [Handlers -> Places], up' = up, crashes' = crashes,
           crashes = 0 => mem' \in Cells /\ Number(mem'.count) <= Number(mem.count),
           \A h \in Handlers : pc[h] = "delCount" => pc'[h] = "delCount"
    PROVE  LimitInv'
<1> SUFFICES ASSUME crashes = 0 PROVE LimitInv'
  BY DEF LimitInv
<1>1. /\ up /\ mem \in Cells /\ mem' \in Cells /\ Number(mem'.count) <= Number(mem.count)
      /\ Number(mem.count) >= MaxWarns => \E h \in Handlers : pc[h] = "delCount"
  BY DEF LimitInv
<1>2. Number(mem.count) \in Nat /\ Number(mem'.count) \in Nat /\ MaxWarns \in Nat
  BY <1>1, CellOf, WarnAssumption
<1>3. Number(mem'.count) >= MaxWarns => Number(mem.count) >= MaxWarns
  BY <1>1, <1>2
<1>4. QED
  BY <1>1, <1>3 DEF LimitInv

\* A handler that was not about to reset takes a step that does not warn.
LEMMA LimitStaysFor ==
    ASSUME LimitInv, NEW h \in Handlers, NEW to \in Places, pc[h] # "delCount",
           pc' = [pc EXCEPT ![h] = to], up' = up, crashes' = crashes,
           crashes = 0 => mem' \in Cells /\ Number(mem'.count) <= Number(mem.count)
    PROVE  LimitInv'
<1>1. pc \in [Handlers -> Places]
  BY DEF LimitInv
<1>2. /\ pc' \in [Handlers -> Places]
      /\ \A g \in Handlers : pc[g] = "delCount" => pc'[g] = "delCount"
  BY <1>1
<1>3. QED
  BY <1>2, LimitStays

\* A handler that counts up to the limit goes on to the reset.
LEMMA LimitHandler ==
    ASSUME LimitInv, NEW h \in Handlers, Warn(h) \/ Unwarn(h) \/ Warning(h)
    PROVE  LimitInv'
<1>1. pc \in [Handlers -> Places] /\ (crashes = 0 => mem \in Cells)
  BY DEF LimitInv
<1>2. CASE Warn(h)
  <2>1. /\ pc' = [pc EXCEPT ![h] = "expires"] /\ pc[h] # "delCount" /\ up' = up /\ crashes' = crashes
        /\ mem' = [mem EXCEPT !.reasons = @ + 1]
    BY <1>2 DEF Warn, Step, Write
  <2>2. crashes = 0 => mem' \in Cells /\ mem'.count = mem.count
    BY <1>1, <2>1 DEF Cells
  <2>3. crashes = 0 => Number(mem'.count) <= Number(mem.count)
    BY <1>1, <2>2, CellOf
  <2>4. "expires" \in Places
    BY DEF Places
  <2>5. QED
    BY <2>1, <2>2, <2>3, <2>4, LimitStaysFor
<1>3. CASE AddExpiry(h)
  <2>1. /\ pc' = [pc EXCEPT ![h] = "count"] /\ pc[h] # "delCount" /\ up' = up /\ crashes' = crashes
        /\ mem' = [mem EXCEPT !.expires = Append(@, Cooldown)]
    BY <1>3 DEF AddExpiry, Step, Write
  <2>2. crashes = 0 => mem' \in Cells /\ mem'.count = mem.count
    <3> SUFFICES ASSUME crashes = 0 PROVE mem' \in Cells /\ mem'.count = mem.count
      OBVIOUS
    <3>1. mem \in Cells /\ mem.expires \in Seq(0..Cooldown) /\ Cooldown \in 0..Cooldown
      BY <1>1, CellOf, WarnAssumption
    <3>2. PICK list : list = Append(mem.expires, Cooldown)
      OBVIOUS
    <3>3. list \in Seq(0..Cooldown)
      BY <3>1, <3>2
    <3>4. mem' = [mem EXCEPT !.expires = list]
      BY <2>1, <3>2
    <3>5. QED
      BY <3>1, <3>3, <3>4 DEF Cells
  <2>3. crashes = 0 => Number(mem'.count) <= Number(mem.count)
    BY <1>1, <2>2, CellOf
  <2>4. "count" \in Places
    BY DEF Places
  <2>5. QED
    BY <2>1, <2>2, <2>3, <2>4, LimitStaysFor
<1>4. CASE AddCount(h)
  <2>1. PICK n : n = Number(mem.count) + 1
    OBVIOUS
  <2>2. PICK to : to = IF n >= MaxWarns THEN "delCount" ELSE "idle"
    OBVIOUS
  <2>3. /\ pc' = [pc EXCEPT ![h] = to] /\ up' = up /\ crashes' = crashes
        /\ mem' = [mem EXCEPT !.count = n]
    BY <1>4, <2>1, <2>2 DEF AddCount, Step, Write
  <2>4. to \in Places
    BY <2>2 DEF Places
  <2>5. pc' \in [Handlers -> Places] /\ pc'[h] = to
    BY <1>1, <2>3, <2>4
  <2>6. CASE crashes = 0
    <3>1. mem \in Cells /\ Number(mem.count) \in Nat /\ MaxWarns \in Nat
      BY <1>1, <2>6, CellOf, WarnAssumption
    <3>2. n \in Nat /\ Number(n) = n
      BY <2>1, <3>1, NumberOf
    <3>3. mem' \in Cells /\ mem'.count = n
      BY <2>3, <3>1, <3>2 DEF Cells
    <3>4. Number(mem'.count) >= MaxWarns => pc'[h] = "delCount"
      BY <2>2, <2>5, <3>2, <3>3
    <3>5. up' /\ crashes' \in Nat
      BY <2>3, <2>6 DEF LimitInv
    <3>6. QED
      BY <2>5, <3>3, <3>4, <3>5 DEF LimitInv
  <2>7. CASE crashes # 0
    BY <2>3, <2>5, <2>7 DEF LimitInv
  <2>8. QED
    BY <2>6, <2>7
<1>5. CASE Reset(h)
  <2>1. PICK key \in Keys, to \in {"delReasons", "delExpires", "idle"} :
           /\ mem' = [mem EXCEPT ![key] = Absent[key]] /\ up' = up /\ crashes' = crashes
           /\ pc' = [pc EXCEPT ![h] = to]
           /\ key # "count" => pc[h] # "delCount"
    BY <1>5 DEF Reset, Forget, Step, Write, Keys
  <2>2. Absent["count"] = NoVal /\ Absent["reasons"] = 0 /\ Absent["expires"] = <<>>
    BY DEF Absent
  <2>3. <<>> \in Seq(0..Cooldown)
    OBVIOUS
  <2>4. to \in Places
    BY <2>1 DEF Places
  <2>5. crashes = 0 => mem' \in Cells /\ (key = "count" => mem'.count = NoVal)
                       /\ (key # "count" => mem'.count = mem.count)
    <3> SUFFICES ASSUME crashes = 0
                 PROVE mem' \in Cells /\ (key = "count" => mem'.count = NoVal)
                       /\ (key # "count" => mem'.count = mem.count)
      OBVIOUS
    <3>1. CASE key = "count"
      <4>1. mem' = [mem EXCEPT !.count = NoVal]
        BY <2>1, <2>2, <3>1
      <4>2. QED
        BY <1>1, <3>1, <4>1 DEF Cells
    <3>2. CASE key = "reasons"
      <4>1. mem' = [mem EXCEPT !.reasons = 0]
        BY <2>1, <2>2, <3>2
      <4>2. QED
        BY <1>1, <3>2, <4>1 DEF Cells
    <3>3. CASE key = "expires"
      <4>1. mem' = [mem EXCEPT !.expires = <<>>]
        BY <2>1, <2>2, <3>3
      <4>2. QED
        BY <1>1, <2>3, <3>3, <4>1 DEF Cells
    <3>4. QED
      BY <3>1, <3>2, <3>3 DEF Keys
  <2>6. CASE key = "count"
    <3>1. pc' \in [Handlers -> Places]
      BY <1>1, <2>1, <2>4
    <3>2. Number(NoVal) = 0 /\ ~(0 >= MaxWarns)
      BY WarnAssumption DEF Number
    <3>3. QED
      BY <2>1, <2>5, <2>6, <3>1, <3>2 DEF LimitInv
  <2>7. CASE key # "count"
    <3>1. crashes = 0 => Number(mem'.count) <= Number(mem.count)
      BY <1>1, <2>5, <2>7, CellOf
    <3>2. QED
      BY <2>1, <2>4, <2>5, <2>7, <3>1, LimitStaysFor
  <2>8. QED
    BY <2>6, <2>7
<1>6. CASE Unwarn(h)
  <2>1. PICK current, newCount, popped :
           /\ current = Number(mem.count)
           /\ newCount = IF current > 0 THEN current - 1 ELSE 0
           /\ popped = IF current > 0 /\ mem.expires # <<>> THEN Front(mem.expires) ELSE mem.expires
    OBVIOUS
  <2>2. PICK to : to = IF newCount = 0 THEN "delCount" ELSE "idle"
    OBVIOUS
  <2>3. /\ pc' = [pc EXCEPT ![h] = to] /\ pc[h] # "delCount" /\ up' = up /\ crashes' = crashes
        /\ mem' = [mem EXCEPT !.count = newCount, !.expires = popped]
    BY <1>6, <2>1, <2>2 DEF Unwarn, Step, Write
  <2>4. to \in Places
    BY <2>2 DEF Places
  <2>5. crashes = 0 => mem' \in Cells /\ Number(mem'.count) <= Number(mem.count)
    <3> SUFFICES ASSUME crashes = 0
                 PROVE  mem' \in Cells /\ Number(mem'.count) <= Number(mem.count)
      OBVIOUS
    <3>1. mem \in Cells /\ current \in Nat /\ mem.expires \in Seq(0..Cooldown)
      BY <1>1, <2>1, CellOf
    <3>2. newCount \in Nat /\ newCount <= current
      BY <2>1, <3>1
    <3>3. popped \in Seq(0..Cooldown)
      BY <2>1, <3>1, FrontOf
    <3>4. mem' \in Cells /\ mem'.count = newCount
      BY <2>3, <3>1, <3>2, <3>3 DEF Cells
    <3>5. QED
      BY <2>1, <3>2, <3>4, NumberOf
  <2>6. QED
    BY <2>3, <2>4, <2>5, LimitStaysFor
<1>7. QED
  BY <1>2, <1>3, <1>4, <1>5, <1>6 DEF Warning

\* The clean-up only counts down.
LEMMA LimitClean == ASSUME LimitInv, Clean PROVE LimitInv'
<1>1. pc \in [Handlers -> Places] /\ (crashes = 0 => mem \in Cells)
  BY DEF LimitInv
<1>2. PICK newList : newList = Unexpired(mem.expires)
  OBVIOUS
<1>3. PICK newCount : newCount = mem.count - (Len(mem.expires) - Len(newList))
  OBVIOUS
<1>4. /\ mem.count # NoVal /\ pc' = pc /\ up' = up /\ crashes' = crashes
      /\ mem' = IF newCount <= 0 THEN Absent ELSE [mem EXCEPT !.count = newCount, !.expires = newList]
  BY <1>2, <1>3 DEF Clean, Write
<1>5. crashes = 0 => mem' \in Cells /\ Number(mem'.count) <= Number(mem.count)
  <2> SUFFICES ASSUME crashes = 0
               PROVE  mem' \in Cells /\ Number(mem'.count) <= Number(mem.count)
    OBVIOUS
  <2>1. /\ mem \in Cells /\ mem.count \in Nat /\ Number(mem.count) = mem.count
        /\ mem.expires \in Seq(0..Cooldown) /\ Len(mem.expires) \in Nat
    BY <1>1, <1>4, CellOf, NumberOf
  <2>2. newList \in Seq(0..Cooldown) /\ Len(newList) <= Len(mem.expires) /\ Len(newList) \in Nat
    <3>1. 0..Cooldown \in SUBSET Int
      BY WarnAssumption
    <3>2. newList \in Seq(0..Cooldown) /\ Len(newList) <= Len(mem.expires)
      BY <1>2, <2>1, <3>1, UnexpiredSome
    <3>3. QED
      BY <3>2
  <2>3. newCount \in Int /\ newCount <= mem.count
    <3>1. PICK a, b : a = Len(mem.expires) /\ b = Len(newList)
      OBVIOUS
    <3>2. newCount = mem.count - (a - b)
      BY <1>3, <3>1
    <3>3. a \in Nat /\ b \in Nat /\ b <= a /\ mem.count \in Nat
      BY <2>1, <2>2, <3>1
    <3>4. QED
      BY ONLY <3>2, <3>3
  <2>4. CASE newCount <= 0
    BY <1>4, <2>1, <2>4, AbsentCell
  <2>5. CASE ~(newCount <= 0)
    <3>1. newCount \in Nat
      BY <2>3, <2>5
    <3>2. mem' = [mem EXCEPT !.count = newCount, !.expires = newList]
      BY <1>4, <2>5
    <3>3. mem' \in Cells /\ mem'.count = newCount
      BY <2>1, <2>2, <3>1, <3>2 DEF Cells
    <3>4. Number(newCount) = newCount
      BY <3>1, NumberOf
    <3>5. QED
      BY <2>1, <2>3, <3>3, <3>4
  <2>6. QED
    BY <2>4, <2>5
<1>6. QED
  BY <1>1, <1>4, <1>5, LimitStays

\* No step of the warnings leaves a count at the limit alone.
LEMMA LimitStep == ASSUME LimitInv, [Next]_vars PROVE LimitInv'
<1>1. pc \in [Handlers -> Places] /\ (crashes = 0 => mem \in Cells /\ up) /\ crashes \in Nat
  BY DEF LimitInv
<1>2. CASE UNCHANGED <<mem, pc, up, crashes>>
  BY <1>2 DEF LimitInv
<1>3. CASE \E h \in Handlers : Warn(h) \/ Unwarn(h) \/ Warning(h)
  BY <1>3, LimitHandler
<1>4. CASE Clean
  BY <1>4, LimitClean
<1>5. CASE Tick
  <2>1. mem' = Aged(mem) /\ UNCHANGED <<pc, up, crashes>>
    BY <1>5 DEF Tick
  <2>2. crashes = 0 => mem' \in Cells /\ mem'.count = mem.count
    BY <1>1, <2>1, AgedCell
  <2>3. QED
    BY <2>1, <2>2 DEF LimitInv
<1>6. CASE Crash
  <2>1. crashes' = crashes + 1 /\ pc' = [h \in Handlers |-> "idle"]
    BY <1>6 DEF Crash
  <2>2. crashes' \in Nat /\ crashes' # 0 /\ pc' \in [Handlers -> Places]
    BY <1>1, <2>1 DEF Places
  <2>3. QED
    BY <2>2 DEF LimitInv
<1>7. CASE Restart
  <2>1. ~up /\ crashes' = crashes /\ pc' = pc
    BY <1>7 DEF Restart
  <2>2. crashes' # 0
    BY <1>1, <2>1
  <2>3. QED
    BY <1>1, <2>1, <2>2 DEF LimitInv
<1>8. CASE \E p \in Writers : AppendRecord(p)
  BY <1>2, <1>8 DEF AppendRecord
<1>9. CASE \E K \in SUBSET {k \in Keys : mem[k] # disk[k]} : Checkpoint(K)
  BY <1>2, <1>9 DEF Checkpoint
<1>10. QED
  BY <1>2, <1>3, <1>4, <1>5, <1>6, <1>7, <1>8, <1>9 DEF Next, vars

\* No step of the warnings but one that overlaps another uncovers a warning.
LEMMA WarnStep == ASSUME WarnInv, LimitInv, [Next]_vars PROVE WarnInv'
<1>1. CASE raced'
  BY <1>1 DEF WarnInv
<1>2. CASE ~raced'
  <2>1. CASE UNCHANGED vars
    BY <2>1 DEF vars, WarnInv, Follows, Quiet, Busy, Pending, DiskCovered, Covered, Ahead, NoneTooMany
  <2>2. CASE \E h \in Handlers : Warn(h) \/ Unwarn(h) \/ Warning(h)
    BY <1>2, <2>2, WarnKeeps, UnwarnKeeps, AddExpiryKeeps, AddCountKeeps, ResetKeeps DEF Warning
  <2>3. CASE Clean
    BY <1>2, <2>3, CleanKeeps
  <2>4. CASE Tick
    <3>1. ~raced
      BY <1>2, <2>4 DEF Tick
    <3>2. QED
      BY <2>4, <3>1, TickKeeps
  <2>5. CASE Crash
    <3>1. ~raced
      BY <1>2, <2>5 DEF Crash
    <3>2. QED
      BY <2>5, <3>1, CrashKeeps
  <2>6. CASE Restart
    <3>1. ~raced /\ crashes # 0
      BY <1>2, <2>6 DEF Restart, LimitInv
    <3>2. QED
      BY <2>6, <3>1, RestartKeeps
  <2>7. CASE \E p \in Writers : AppendRecord(p)
    <3>1. PICK p \in Writers : AppendRecord(p)
      BY <2>7
    <3>2. ~raced
      BY <1>2, <3>1 DEF AppendRecord
    <3>3. QED
      BY <3>1, <3>2, AppendKeeps
  <2>8. CASE \E K \in SUBSET {k \in Keys : mem[k] # disk[k]} : Checkpoint(K)
    BY <1>2, <2>8 DEF Checkpoint
  <2>9. QED
    BY <2>1, <2>2, <2>3, <2>4, <2>5, <2>6, <2>7, <2>8 DEF Next
<1>3. QED
  BY <1>1, <1>2

\* Nothing is in the store at first.
LEMMA WarnBegins == ASSUME Init PROVE WarnInv /\ LimitInv
<1>1. /\ mem = Absent /\ disk = Absent /\ pend = [p \in Writers |-> <<>>]
      /\ pc = [h \in Handlers |-> "idle"] /\ up /\ crashes = 0
  BY DEF Init
<1>2. \A p \in Writers : ~Busy(p) /\ pend[p] = <<>>
  BY <1>1 DEF Busy
<1>3. <<>> \in KeyLists /\ Records(<<>>, mem) = <<>>
  BY RecordsOf DEF KeyLists
<1>4. Follows
  BY <1>1, <1>2, <1>3 DEF Follows
<1>5. mem \in Cells /\ Number(mem.count) = 0 /\ Len(mem.expires) = 0 /\ mem.reasons = 0
  BY <1>1, AbsentCell DEF Absent
<1>6. [disk EXCEPT !.count = mem.count] = disk
  BY <1>1 DEF Absent
<1>7. Covered(mem) /\ DiskCovered
  BY <1>1, <1>5, <1>6 DEF Covered, DiskCovered
<1>8. /\ \A h \in Handlers : Ahead(h)
      /\ pc \in [Handlers -> Places]
  BY <1>1 DEF Ahead, Places
<1>9. NoneTooMany
  BY <1>1, <1>5 DEF NoneTooMany
<1>10. ~(0 >= MaxWarns)
  BY WarnAssumption
<1>11. WarnInv
  BY <1>1, <1>4, <1>5, <1>7, <1>8, <1>9 DEF WarnInv
<1>12. LimitInv
  BY <1>1, <1>5, <1>8, <1>10 DEF LimitInv
<1>13. QED
  BY <1>11, <1>12
=============================================================================
