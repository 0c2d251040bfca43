------------------------ MODULE WalDatabase_proofs ------------------------
(***************************************************************************)
(* Proofs about WalDatabase, for any sets of clients, keys and values and  *)
(* any bounds.                                                             *)
(***************************************************************************)
EXTENDS WalDatabase, SequenceTheorems, WellFoundedInduction, TLAPS

-----------------------------------------------------------------------------
(***************************************************************************)
(* Least and greatest elements of sets of natural numbers, and of them     *)
(* what Max of FiniteSetsExt chooses.  The proofs go by well-foundedness   *)
(* of < instead of induction.                                              *)
(***************************************************************************)
\* < as a set of pairs.
Below == {p \in Nat \X Nat : p[1] < p[2]}

\* The order of the natural numbers, as a set of pairs, is well-founded.
LEMMA BelowWellFounded == IsWellFoundedOn(Below, Nat)
  BY NatLessThanWellFounded DEF OpToRel, Below

\* A nonempty set of natural numbers has a least element.
LEMMA NatLeast ==
    ASSUME NEW S \in SUBSET Nat, S # {}
    PROVE  \E x \in S : \A y \in S : x <= y
<1>1. PICK x \in S : \A y \in S : <<y, x>> \notin Below
  BY BelowWellFounded, WFMin
<1>2. ASSUME NEW y \in S, y < x
      PROVE  FALSE
  <2>1. <<y, x>> \in Nat \X Nat /\ <<y, x>>[1] = y /\ <<y, x>>[2] = x
    OBVIOUS
  <2>2. <<y, x>> \in Below
    BY <1>2, <2>1 DEF Below
  <2>3. QED
    BY <1>1, <2>2
<1>3. \A y \in S : x <= y
  BY <1>2
<1>4. QED
  BY <1>3

\* A nonempty set of natural numbers up to n has a greatest element.
LEMMA NatGreatest ==
    ASSUME NEW n \in Nat, NEW S \in SUBSET (0..n), S # {}
    PROVE  \E x \in S : \A y \in S : x >= y
<1> DEFINE T == {n - x : x \in S}
<1>1. \A x \in S : x \in Nat /\ n - x \in Nat
  OBVIOUS
<1>2. T \in SUBSET Nat
  BY <1>1
<1>3. T # {}
  OBVIOUS
<1>4. PICK t \in T : \A u \in T : t <= u
  BY <1>2, <1>3, NatLeast
<1>5. PICK x \in S : t = n - x
  OBVIOUS
<1>6. ASSUME NEW y \in S
      PROVE  x >= y
  <2>1. n - x <= n - y
    BY <1>4, <1>5
  <2>2. QED
    BY <1>1, <2>1
<1>7. QED
  BY <1>6

\* Max chooses an element of the set, and none is greater.
LEMMA MaxIsGreatest ==
    ASSUME NEW n \in Nat, NEW S \in SUBSET (0..n), S # {}
    PROVE  Max(S) \in S /\ \A y \in S : Max(S) >= y
<1>1. \E x \in S : \A y \in S : x >= y
  BY NatGreatest
<1>2. QED
  BY <1>1 DEF Max

\* The greatest element of a set that ends in n.
LEMMA MaxAddLast ==
    ASSUME NEW S, NEW n \in Nat, \A i \in S : i \in Nat /\ i < n
    PROVE  Max(S \cup {n}) = n
<1>1. \A x \in S \cup {n} : (\A y \in S \cup {n} : x >= y) <=> x = n
  OBVIOUS
<1>2. QED
  BY <1>1 DEF Max

-----------------------------------------------------------------------------
(***************************************************************************)
(* What an append to the log does to what a restart reads back.            *)
(***************************************************************************)

\* An append leaves the records before it as they were.
LEMMA AppendFacts ==
    ASSUME NEW w \in Seq(Record), NEW r \in Record
    PROVE  /\ Append(w, r) \in Seq(Record)
           /\ DOMAIN w = 1..Len(w)
           /\ DOMAIN Append(w, r) = 1..(Len(w) + 1)
           /\ Len(w) \in Nat
           /\ \A i \in 1..Len(w) : Append(w, r)[i] = w[i]
           /\ Append(w, r)[Len(w) + 1] = r
<1>1. Append(w, r) \in Seq(Record) /\ Len(Append(w, r)) = Len(w) + 1
  BY AppendProperties
<1>2. QED
  BY <1>1, AppendProperties, LenProperties

\* The decoder's verdict on a record does not depend on what follows it, so
\* an append makes at most the new record readable, and none of the old ones
\* unreadable.
LEMMA ReachedAppend ==
    ASSUME NEW w \in Seq(Record), NEW r \in Record
    PROVE  LET v == Append(w, r)
               n == Len(w) + 1
           IN  /\ Reached(v) = Reached(w) \/ Reached(v) = Reached(w) \cup {n}
               /\ ~Legible(v, n) => Reached(v) = Reached(w)
               /\ Healthy(v) => Healthy(w) /\ Reached(v) = Reached(w) \cup {n}
               /\ n \notin Reached(w)
               /\ \A i \in Reached(w) : i \in Nat /\ i < n
<1> DEFINE v == Append(w, r)
           n == Len(w) + 1
<1>1. \A i \in 1..Len(w) : Legible(v, i) <=> Legible(w, i)
  BY AppendFacts DEF Legible
<1>2. \A i \in 1..Len(w) : i \in Reached(v) <=> i \in Reached(w)
  BY <1>1, AppendFacts DEF Reached
<1>3. Reached(v) \subseteq 1..n /\ Reached(w) \subseteq 1..Len(w)
  BY AppendFacts DEF Reached
<1>4. ~Legible(v, n) => n \notin Reached(v)
  BY AppendFacts DEF Reached
<1>5. Healthy(v) => Healthy(w) /\ n \in Reached(v)
  BY <1>1, AppendFacts DEF Reached, Healthy
<1>6. 1..n = (1..Len(w)) \cup {n} /\ n \notin 1..Len(w) /\ n \in Nat
  BY AppendFacts
<1>7. Reached(v) \ {n} = Reached(w)
  BY <1>2, <1>3, <1>6
<1>8. \A i \in Reached(w) : i \in Nat /\ i < n
  BY <1>3, AppendFacts
<1>9. QED
  BY <1>3, <1>4, <1>5, <1>6, <1>7, <1>8

\* One append changes what a restart reads back for one key at most, to the
\* value appended; it does so when the log can be read to its end.
LEMMA ReplayAppend ==
    ASSUME NEW s, NEW w \in Seq(Record), NEW r \in Record, NEW k \in Keys
    PROVE  LET v == Append(w, r)
           IN  /\ Replay(s, v)[k] \in {Replay(s, w)[k], r.val}
               /\ r.kind # "entry" \/ r.key # k => Replay(s, v)[k] = Replay(s, w)[k]
               /\ r.kind = "entry" /\ r.key = k /\ Healthy(v) => Replay(s, v)[k] = r.val
<1> DEFINE v == Append(w, r)
           n == Len(w) + 1
<1>1. n \in Nat /\ v[n] = r /\ \A i \in Reached(w) : i \in DOMAIN w /\ v[i] = w[i]
  BY AppendFacts DEF Reached
<1>2. \A i \in Hits(w, k) : i \in Nat /\ i < n /\ v[i] = w[i]
  BY <1>1, ReachedAppend DEF Hits
<1>3. CASE n \in Reached(v) /\ r.kind = "entry" /\ r.key = k
  <2>1. Hits(v, k) = Hits(w, k) \cup {n}
    BY <1>1, <1>3, ReachedAppend DEF Hits
  <2>2. Max(Hits(v, k)) = n
    BY <1>1, <1>2, <2>1, MaxAddLast
  <2>3. Replay(s, v)[k] = r.val
    BY <1>1, <2>1, <2>2 DEF Replay
  <2>4. QED
    BY <1>3, <2>3
<1>4. CASE ~(n \in Reached(v) /\ r.kind = "entry" /\ r.key = k)
  <2>1. Hits(v, k) = Hits(w, k)
    BY <1>1, <1>4, ReachedAppend DEF Hits
  <2>2. Hits(w, k) # {} => v[Max(Hits(w, k))] = w[Max(Hits(w, k))]
    <3>1. Hits(w, k) \in SUBSET (0..n)
      BY <1>1, <1>2
    <3>2. QED
      BY <1>1, <1>2, <3>1, MaxIsGreatest
  <2>3. Replay(s, v)[k] = Replay(s, w)[k]
    BY <2>1, <2>2 DEF Replay
  <2>4. Healthy(v) => n \in Reached(v)
    BY ReachedAppend
  <2>5. QED
    BY <1>4, <2>3, <2>4
<1>5. QED
  BY <1>3, <1>4

-----------------------------------------------------------------------------
(***************************************************************************)
(* The invariant, action by action.                                        *)
(***************************************************************************)

\* A critical section keeps the invariant, when what it will log is what it
\* has put in the map.
LEMMA MutateKeepsInv ==
    ASSUME DurabilityInv,
           NEW c \in Clients, NEW new \in [Keys -> Cell], NEW E \in SUBSET Entry,
           NEW holder \in Clients \cup {Free, Leaked},
           \A e \in E : e.val = new[e.key],
           Mutate(c, new, E, holder)
    PROVE  DurabilityInv'
<1> USE DEF DurabilityInv
<1>1. Recovered' = Recovered /\ Healthy(wal)' = Healthy(wal)
  BY DEF Mutate, files, Recovered, Replay, Hits, Reached, Legible, Healthy
<1>2. pend[c] = {} /\ pend' = [pend EXCEPT ![c] = E] /\ store' = new
  BY DEF Mutate, Idle
<1>3. \A k \in Keys : Pending(k)' = IF k \in KeysOf(E) THEN Pending(k) \cup {c} ELSE Pending(k)
  BY <1>2 DEF TypeOK, Pending, KeysOf
<1>4. \A k \in Keys \ suspect' :
        IF k \in KeysOf(E) THEN Pending(k) = {}
                           ELSE k \notin suspect /\ new[k] = store[k]
  BY DEF Mutate
<1>5. TypeOK'
  <2>1. suspect' \in SUBSET Keys
    BY DEF Mutate, TypeOK, KeysOf, Entry
  <2>2. comp \notin {"write", "renamed", "hung"} /\ holder # Compactor
    BY ClientsAssumption, HoldersAssumption DEF Mutate, TypeOK
  <2>3. QED
    BY <1>1, <1>2, <2>1, <2>2 DEF Mutate, TypeOK, loop, files
<1>6. LoneWritesSurvive'
  BY <1>1, <1>2, <1>3, <1>4 DEF LoneWritesSurvive, Mutate, files
<1>7. LonePending'
  <2> SUFFICES ASSUME NEW k \in Keys \ suspect', NEW d \in Pending(k)'
               PROVE  /\ Pending(k)' = {d}
                      /\ \A e \in pend'[d] : e.key = k => e.val = store'[k]
    BY DEF LonePending
  <2>1. CASE k \in KeysOf(E)
    <3>1. Pending(k)' = {c} /\ d = c
      BY <1>3, <1>4, <2>1
    <3>2. pend'[c] = E
      BY <1>2 DEF TypeOK
    <3>3. QED
      BY <1>2, <3>1, <3>2
  <2>2. CASE k \notin KeysOf(E)
    <3>1. Pending(k)' = Pending(k) /\ k \notin suspect /\ store'[k] = store[k]
      BY <1>2, <1>3, <1>4, <2>2
    <3>2. d \in Clients /\ d # c /\ pend'[d] = pend[d]
      BY <1>2, <3>1 DEF Pending, TypeOK
    <3>3. QED
      BY <3>1, <3>2 DEF LonePending
  <2>3. QED
    BY <2>1, <2>2
<1>8. SnapshotCurrent' /\ DownIsBlank'
  <2>1. comp' # "renamed"
    BY HoldersAssumption DEF Mutate, TypeOK, loop
  <2>2. life' # "down"
    BY DEF Mutate, Alive
  <2>3. QED
    BY <2>1, <2>2 DEF SnapshotCurrent, DownIsBlank
<1>9. QED
  BY <1>5, <1>6, <1>7, <1>8

\* Each operation is such a critical section.
Section(c) ==
    \E new \in [Keys -> Cell], E \in SUBSET Entry, holder \in Clients \cup {Free, Leaked} :
        (\A e \in E : e.val = new[e.key]) /\ Mutate(c, new, E, holder)

\* Every operation of the store is one critical section whose records carry
\* the values it leaves in the map.
LEMMA OperationIsSection ==
    ASSUME TypeOK, NEW c \in Clients, Operation(c)
    PROVE  Section(c)
<1>1. ASSUME NEW k \in Keys, NEW v \in Cell,
             Mutate(c, [store EXCEPT ![k] = v], {[key |-> k, val |-> v]}, Free)
      PROVE  Section(c)
  <2> DEFINE new == [store EXCEPT ![k] = v]
             E == {[key |-> k, val |-> v]}
  <2>1. new \in [Keys -> Cell] /\ E \in SUBSET Entry /\ \A e \in E : e.val = new[e.key]
    BY DEF TypeOK, Entry
  <2>2. QED
    BY <1>1, <2>1 DEF Section
<1>2. ASSUME NEW k \in Keys, NEW v \in Values, Set(c, k, v)
      PROVE  Section(c)
  BY <1>1, <1>2 DEF Set, Cell, Stored
<1>3. ASSUME NEW k \in Keys, Del(c, k)
      PROVE  Section(c)
  BY <1>1, <1>3 DEF Del, Cell
<1>4. ASSUME NEW new \in [Keys -> Cell], Tx(c, new)
      PROVE  Section(c)
  <2>1. TxChanges(new) \in SUBSET Entry /\ \A e \in TxChanges(new) : e.val = new[e.key]
    BY DEF TxChanges, Entry
  <2>2. QED
    BY <1>4, <2>1 DEF Tx, Section
<1>5. ASSUME NEW new \in [Keys -> Cell], TxPanic(c, new)
      PROVE  Section(c)
  BY <1>5 DEF TxPanic, Section
<1>6. ASSUME NEW K \in SUBSET Keys, NEW res \in [K -> Stored], TxKeys(c, K, res)
      PROVE  Section(c)
  <2> DEFINE new == [k \in Keys |-> IF k \in K THEN res[k] ELSE store[k]]
             E == {[key |-> k, val |-> res[k]] : k \in K}
  <2>1. new \in [Keys -> Cell] /\ E \in SUBSET Entry /\ \A e \in E : e.val = new[e.key]
    BY DEF TypeOK, Cell, Entry
  <2>2. Mutate(c, new, E, Free)
    BY <1>6 DEF TxKeys
  <2>3. QED
    BY <2>1, <2>2 DEF Section
<1>7. CASE TxKeysPanic(c)
  BY <1>7 DEF TxKeysPanic, Section, TypeOK
<1>8. QED
  BY <1>2, <1>3, <1>4, <1>5, <1>6, <1>7 DEF Operation

\* Hence the operations of clients keep the invariant.
LEMMA OperationKeepsInv ==
    ASSUME DurabilityInv, NEW c \in Clients, Operation(c)
    PROVE  DurabilityInv'
  BY OperationIsSection, MutateKeepsInv DEF DurabilityInv, Section

\* What one call of Encode does to the log.
LEMMA EncodedAppends ==
    ASSUME TypeOK, NEW e \in Entry
    PROVE  \/ wal \o Encoded(e) = wal /\ (walOpen => e.val \in Opaque)
           \/ \E r \in Record :
                 /\ wal \o Encoded(e) = Append(wal, r)
                 /\ r.key = e.key /\ r.val = e.val
                 /\ r.kind = IF e.val \in Opaque THEN "void" ELSE "entry"
<1> DEFINE record(kind) == [kind |-> kind, key |-> e.key, val |-> e.val,
                            hdr |-> fresh, tid |-> typeId]
<1>1. record("entry") \in Record /\ record("void") \in Record
  BY DEF TypeOK, Record, Entry
<1>2. wal \in Seq(Record)
  BY DEF TypeOK
<1>3. wal \o << >> = wal
  BY <1>2, ConcatEmptySeq
<1>4. /\ wal \o <<record("entry")>> = Append(wal, record("entry"))
      /\ wal \o <<record("void")>> = Append(wal, record("void"))
  BY <1>1, <1>2, AppendIsConcat
<1>5. CASE Encoded(e) = << >> /\ (walOpen => e.val \in Opaque)
  BY <1>3, <1>5
<1>6. CASE Encoded(e) = <<record("entry")>> /\ e.val \notin Opaque
  BY <1>1, <1>4, <1>6
<1>7. CASE Encoded(e) = <<record("void")>> /\ e.val \in Opaque
  BY <1>1, <1>4, <1>7
<1>8. QED
  BY <1>5, <1>6, <1>7 DEF Encoded

\* What one append does to what a restart would read back.
LEMMA RecoveredAfterAppend ==
    ASSUME TypeOK, NEW e \in Entry,
           snapshot' = snapshot, wal' = wal \o Encoded(e)
    PROVE  /\ wal' \in Seq(Record)
           /\ Recovered' \in [Keys -> Cell]
           /\ Recovered'[e.key] \in {Recovered[e.key], e.val}
           /\ \A k \in Keys : k # e.key => Recovered'[k] = Recovered[k]
           /\ Healthy(wal)' => Healthy(wal)
           /\ walOpen /\ Healthy(wal)' /\ e.val \notin Opaque => Recovered'[e.key] = e.val
<1>1. e.key \in Keys /\ e.val \in Cell /\ wal \in Seq(Record)
  BY DEF Entry, TypeOK
<1>2. Recovered' = Replay(snapshot, wal')
  BY DEF Recovered, Replay, Hits, Reached, Legible
<1>3. CASE wal' = wal /\ (walOpen => e.val \in Opaque)
  BY <1>1, <1>2, <1>3 DEF Recovered, TypeOK, Healthy, Legible
<1>4. ASSUME NEW r \in Record, wal' = Append(wal, r),
             r.key = e.key, r.val = e.val,
             r.kind = IF e.val \in Opaque THEN "void" ELSE "entry"
      PROVE  /\ wal' \in Seq(Record)
             /\ Recovered' \in [Keys -> Cell]
             /\ Recovered'[e.key] \in {Recovered[e.key], e.val}
             /\ \A k \in Keys : k # e.key => Recovered'[k] = Recovered[k]
             /\ Healthy(wal)' => Healthy(wal)
             /\ walOpen /\ Healthy(wal)' /\ e.val \notin Opaque => Recovered'[e.key] = e.val
  <2>1. \A k \in Keys :
          /\ Recovered'[k] \in {Recovered[k], e.val}
          /\ k # e.key => Recovered'[k] = Recovered[k]
          /\ k = e.key /\ e.val \notin Opaque /\ Healthy(wal') => Recovered'[k] = e.val
    <3> SUFFICES ASSUME NEW k \in Keys
                 PROVE  /\ Recovered'[k] \in {Recovered[k], e.val}
                        /\ k # e.key => Recovered'[k] = Recovered[k]
                        /\ k = e.key /\ e.val \notin Opaque /\ Healthy(wal') => Recovered'[k] = e.val
      OBVIOUS
    <3>1. Recovered' = Replay(snapshot, Append(wal, r)) /\ Recovered = Replay(snapshot, wal)
      BY <1>2, <1>4 DEF Recovered
    <3>2. /\ Replay(snapshot, Append(wal, r))[k] \in {Replay(snapshot, wal)[k], r.val}
          /\ r.key # k => Replay(snapshot, Append(wal, r))[k] = Replay(snapshot, wal)[k]
          /\ r.kind = "entry" /\ r.key = k /\ Healthy(Append(wal, r)) =>
                Replay(snapshot, Append(wal, r))[k] = r.val
      <4>1. wal \in Seq(Record) /\ r \in Record /\ k \in Keys
        BY <1>1
      <4>2. QED
        BY ONLY <4>1, ReplayAppend
    <3>3. e.val \notin Opaque => r.kind = "entry"
      BY <1>4
    <3>4. Healthy(wal') <=> Healthy(Append(wal, r))
      BY <1>4
    <3>5. Recovered'[k] \in {Recovered[k], e.val}
      BY <1>4, <3>1, <3>2
    <3>6. ASSUME k # e.key PROVE Recovered'[k] = Recovered[k]
      BY <1>4, <3>1, <3>2, <3>6
    <3>7. ASSUME k = e.key, e.val \notin Opaque, Healthy(wal') PROVE Recovered'[k] = e.val
      BY <1>4, <3>1, <3>2, <3>3, <3>4, <3>7
    <3>8. QED
      BY <3>5, <3>6, <3>7
  <2>2. Healthy(wal)' <=> Healthy(wal')
    BY DEF Healthy, Legible
  <2>3. wal' \in Seq(Record) /\ (Healthy(wal') => Healthy(wal))
    BY <1>1, <1>4, AppendFacts, ReachedAppend
  <2>4. Recovered' = [k \in Keys |-> Recovered'[k]]
    BY DEF Recovered, Replay
  <2>5. Recovered' \in [Keys -> Cell]
    BY <1>1, <2>1, <2>4 DEF TypeOK
  <2>6. QED
    BY <1>1, <2>1, <2>2, <2>3, <2>5
<1>5. QED
  BY <1>3, <1>4, EncodedAppends

\* An append keeps the invariant: it takes the one record that a key which is
\* not suspect has in flight to the log, and the others' keys are not touched.
LEMMA AppendKeepsInv ==
    ASSUME DurabilityInv, NEW c \in Clients, AppendSome(c)
    PROVE  DurabilityInv'
<1> USE DEF DurabilityInv
<1>1. PICK e \in pend[c] : Append1(c, e)
  BY DEF AppendSome
<1>2. e \in Entry /\ e.key \in Keys /\ e.val \in Cell
  BY DEF TypeOK, Entry
<1>3. snapshot' = snapshot /\ wal' = wal \o Encoded(e) /\ store' = store /\ suspect' = suspect
  BY <1>1 DEF Append1
<1>4. /\ pend' = [pend EXCEPT ![c] = @ \ {e}]
      /\ pend'[c] = pend[c] \ {e}
      /\ \A d \in Clients : d # c => pend'[d] = pend[d]
  BY <1>1 DEF Append1, TypeOK
<1>5. /\ \A d \in Clients : pend'[d] \subseteq pend[d]
      /\ \A k \in Keys : Pending(k)' \subseteq Pending(k)
      /\ \A k \in Keys : k # e.key => Pending(k)' = Pending(k)
  BY <1>4 DEF Pending
<1>6. /\ wal' \in Seq(Record)
      /\ Recovered' \in [Keys -> Cell]
      /\ \A k \in Keys : k # e.key => Recovered'[k] = Recovered[k]
      /\ Healthy(wal)' => Healthy(wal)
      /\ walOpen /\ Healthy(wal)' /\ e.val \notin Opaque => Recovered'[e.key] = e.val
  BY <1>2, <1>3, RecoveredAfterAppend
<1>7. TypeOK'
  BY <1>1, <1>4, <1>6 DEF Append1, TypeOK
<1>8. LoneWritesSurvive'
  <2> SUFFICES ASSUME walOpen, Healthy(wal)', NEW k \in Keys \ suspect,
                      Pending(k)' = {}, store[k] \notin Opaque
               PROVE  Recovered'[k] = store[k]
    BY <1>1, <1>3 DEF LoneWritesSurvive, Append1
  <2>1. CASE k = e.key
    <3>1. c \in Pending(k)
      BY <2>1 DEF Pending
    <3>2. e.val = store[k]
      BY <2>1, <3>1 DEF LonePending
    <3>3. QED
      BY <1>6, <2>1, <3>2
  <2>2. CASE k # e.key
    BY <1>5, <1>6, <2>2 DEF LoneWritesSurvive
  <2>3. QED
    BY <2>1, <2>2
<1>9. LonePending'
  <2> SUFFICES ASSUME NEW k \in Keys \ suspect, NEW d \in Pending(k)'
               PROVE  /\ Pending(k)' = {d}
                      /\ \A f \in pend'[d] : f.key = k => f.val = store[k]
    BY <1>3 DEF LonePending
  <2>1. d \in Pending(k) /\ d \in Clients
    BY <1>5 DEF Pending
  <2>2. Pending(k) = {d} /\ \A f \in pend[d] : f.key = k => f.val = store[k]
    BY <2>1 DEF LonePending
  <2>3. QED
    BY <1>5, <2>1, <2>2
<1>10. SnapshotCurrent' /\ DownIsBlank'
  BY <1>1, <1>5 DEF Append1, SnapshotCurrent, DownIsBlank
<1>11. QED
  BY <1>7, <1>8, <1>9, <1>10

\* An append that panics gives up what its operation had in flight, for keys
\* that are suspect from then on.
LEMMA PanicKeepsInv ==
    ASSUME DurabilityInv, NEW c \in Clients, AppendPanics(c)
    PROVE  DurabilityInv'
<1> USE DEF DurabilityInv
<1>1. /\ store' = store /\ snapshot' = snapshot /\ wal' = wal /\ walOpen' = walOpen
      /\ comp' = comp /\ life' = life
      /\ pend' = [pend EXCEPT ![c] = {}] /\ suspect' = suspect \cup KeysOf(pend[c])
  BY DEF AppendPanics, loop
<1>2. Recovered' = Recovered /\ Healthy(wal)' = Healthy(wal)
  BY <1>1 DEF Recovered, Replay, Hits, Reached, Legible, Healthy
<1>3. pend'[c] = {} /\ \A d \in Clients : d # c => pend'[d] = pend[d]
  BY <1>1 DEF TypeOK
<1>4. \A k \in Keys \ suspect' : k \notin suspect /\ Pending(k)' = Pending(k)
  BY <1>1, <1>3 DEF Pending, KeysOf
<1>5. TypeOK'
  <2>1. suspect' \in SUBSET Keys
    BY <1>1 DEF TypeOK, KeysOf, Entry
  <2>2. QED
    BY <1>1, <1>2, <2>1 DEF AppendPanics, TypeOK, loop
<1>6. LoneWritesSurvive'
  BY <1>1, <1>2, <1>4 DEF LoneWritesSurvive
<1>7. LonePending'
  <2> SUFFICES ASSUME NEW k \in Keys \ suspect', NEW d \in Pending(k)'
               PROVE  /\ Pending(k)' = {d}
                      /\ \A e \in pend'[d] : e.key = k => e.val = store'[k]
    BY DEF LonePending
  <2>1. k \notin suspect /\ Pending(k)' = Pending(k) /\ d \in Clients /\ pend'[d] = pend[d]
    BY <1>3, <1>4 DEF Pending
  <2>2. QED
    BY <1>1, <2>1 DEF LonePending
<1>8. SnapshotCurrent' /\ DownIsBlank'
  BY <1>1, <1>3 DEF AppendPanics, SnapshotCurrent, DownIsBlank
<1>9. QED
  BY <1>5, <1>6, <1>7, <1>8

\* Steps that leave the map, the files and the records in flight alone.
Quiet ==
    UNCHANGED <<store, pend, snapshot, wal, walOpen, fresh, typeId, suspect>>

\* A step that leaves the map, the files and the records in flight alone, and
\* begins neither the truncation nor a restart, keeps the invariant.
LEMMA QuietKeepsInv ==
    ASSUME DurabilityInv, Quiet, TypeOK',
           comp' = "renamed" => comp = "renamed",
           life' = "down" => life = "down" /\ comp' = "wait"
    PROVE  DurabilityInv'
<1> USE DEF DurabilityInv, Quiet
<1>1. Recovered' = Recovered /\ Healthy(wal)' = Healthy(wal)
  BY DEF Recovered, Replay, Hits, Reached, Legible, Healthy
<1>2. \A k \in Keys : Pending(k)' = Pending(k)
  BY DEF Pending
<1>3. QED
  BY <1>1, <1>2 DEF LoneWritesSurvive, LonePending, SnapshotCurrent, DownIsBlank

\* Locking, signalling and the phases of Close are such steps.
LEMMA ControlKeepsInv ==
    ASSUME DurabilityInv,
           \/ \E c \in Clients : Signal(c) \/ TxReturn(c)
           \/ Wake \/ Tick \/ TickHangs \/ CompactLock \/ CompactHangs \/ CompactAbort
           \/ Close \/ LoopExit
    PROVE  DurabilityInv'
<1> USE DEF DurabilityInv
<1>1. /\ Quiet
      /\ comp' = "renamed" => comp = "renamed"
      /\ life' = "down" => life = "down" /\ comp' = "wait"
  BY DEF Quiet, Signal, TxReturn, Wake, Tick, TickHangs, CompactLock, CompactHangs,
         CompactAbort, CompactReturn,
         Close, LoopExit, memory, loop, files, DownIsBlank
<1>2. Recovered' = Recovered
  BY <1>1 DEF Quiet, Recovered, Replay, Hits, Reached, Legible
<1>3. TypeOK'
  <2>1. ASSUME NEW c \in Clients, Signal(c)
        PROVE  TypeOK'
    BY <1>2, <2>1 DEF TypeOK, Signal, files
  <2>2. ASSUME NEW c \in Clients, TxReturn(c)
        PROVE  TypeOK'
    BY <1>2, <2>2, ClientsAssumption, HoldersAssumption DEF TypeOK, TxReturn, loop, files
  <2>3. CASE Wake
    BY <1>2, <2>3 DEF TypeOK, Wake, memory, files
  <2>4. CASE Tick
    BY <1>2, <2>4 DEF TypeOK, Tick, memory, files
  <2>5. CASE CompactLock
    BY <1>2, <2>5 DEF TypeOK, CompactLock, files
  <2>6. CASE CompactAbort
    BY <1>2, <2>6, HoldersAssumption DEF TypeOK, CompactAbort, CompactReturn, files
  <2>7. CASE Close
    BY <1>2, <2>7 DEF TypeOK, Close, memory, loop, files
  <2>8. CASE LoopExit
    BY <1>2, <2>8 DEF TypeOK, LoopExit, memory, files
  <2>9. CASE TickHangs
    BY <1>2, <2>9 DEF TypeOK, TickHangs, memory, files
  <2>10. CASE CompactHangs
    BY <1>2, <2>10 DEF TypeOK, CompactHangs, files
  <2>11. QED
    BY <2>1, <2>2, <2>3, <2>4, <2>5, <2>6, <2>7, <2>8, <2>9, <2>10
<1>4. QED
  BY <1>1, <1>3, QuietKeepsInv

\* The rename puts the map itself under the log: a key without a record reads
\* back as it is in memory, one with a record as before.
LEMMA RenameKeepsInv ==
    ASSUME DurabilityInv, CompactRename
    PROVE  DurabilityInv'
<1> USE DEF DurabilityInv
<1>1. /\ store' = store /\ pend' = pend /\ suspect' = suspect /\ snapshot' = store
      /\ wal' = wal /\ walOpen' = walOpen /\ life' = life
  BY DEF CompactRename, memory
<1>2. \A k \in Keys : Recovered'[k] \in {Recovered[k], store[k]}
  BY <1>1 DEF Recovered, Replay, Hits, Reached, Legible
<1>3. Recovered' \in [Keys -> Cell]
  <2>1. Recovered' = [k \in Keys |-> Recovered'[k]]
    BY DEF Recovered, Replay
  <2>2. QED
    BY <1>2, <2>1 DEF TypeOK
<1>4. TypeOK'
  BY <1>1, <1>3 DEF TypeOK, CompactRename, memory
<1>5. Healthy(wal)' = Healthy(wal) /\ \A k \in Keys : Pending(k)' = Pending(k)
  BY <1>1 DEF Healthy, Legible, Pending
<1>6. LoneWritesSurvive'
  BY <1>1, <1>2, <1>5 DEF LoneWritesSurvive
<1>7. LonePending' /\ SnapshotCurrent' /\ DownIsBlank'
  BY <1>1, <1>5 DEF CompactRename, LonePending, SnapshotCurrent, DownIsBlank
<1>8. QED
  BY <1>4, <1>6, <1>7

\* Nothing is read back from an empty log.
LEMMA EmptyLog ==
    ASSUME NEW s \in [Keys -> Cell]
    PROVE  Replay(s, << >>) = s
<1>1. \A k \in Keys : Hits(<< >>, k) = {}
  BY DEF Hits, Reached
<1>2. QED
  BY <1>1 DEF Replay

\* The truncation leaves the snapshot, which is the map: every key on which
\* nothing is in flight reads back exactly, suspect before or not.
LEMMA TruncateKeepsInv ==
    ASSUME DurabilityInv, CompactTruncate
    PROVE  DurabilityInv'
<1> USE DEF DurabilityInv
<1>1. /\ store' = store /\ pend' = pend /\ snapshot' = store /\ wal' = << >> /\ life' = life
      /\ suspect' = {k \in suspect : Pending(k) # {}}
      /\ comp' # "renamed"
  BY DEF CompactTruncate, CompactReturn, SnapshotCurrent
<1>2. Recovered' = store
  <2>1. Recovered' = Replay(snapshot', wal')
    BY DEF Recovered, Replay, Hits, Reached, Legible
  <2>2. QED
    BY <1>1, <2>1, EmptyLog DEF TypeOK
<1>3. TypeOK'
  BY <1>1, <1>2, HoldersAssumption DEF TypeOK, CompactTruncate, CompactReturn
<1>4. \A k \in Keys : Pending(k)' = Pending(k)
  BY <1>1 DEF Pending
<1>5. LoneWritesSurvive'
  BY <1>1, <1>2 DEF LoneWritesSurvive
<1>6. \A k \in Keys \ suspect' : \A c \in Pending(k) : k \notin suspect
  BY <1>1
<1>7. LonePending'
  BY <1>1, <1>4, <1>6 DEF LonePending
<1>8. life' # "down"
  BY <1>1 DEF CompactTruncate, DownIsBlank
<1>9. QED
  BY <1>1, <1>3, <1>5, <1>7, <1>8 DEF SnapshotCurrent, DownIsBlank

\* When the log cannot be opened again nothing is promised until the next
\* compaction, because walOpen is gone.
LEMMA CloseFileKeepsInv ==
    ASSUME DurabilityInv, CompactReopenFails \/ CloseWal
    PROVE  DurabilityInv'
<1> USE DEF DurabilityInv
<1>1. /\ store' = store /\ pend' = pend /\ snapshot' = snapshot /\ wal' = wal
      /\ suspect' = suspect /\ walOpen' = FALSE
      /\ comp' # "renamed" /\ life' # "down"
  BY DEF CompactReopenFails, CloseWal, CompactReturn, memory, loop, DownIsBlank
<1>2. Recovered' = Recovered
  BY <1>1 DEF Recovered, Replay, Hits, Reached, Legible
<1>3. TypeOK'
  <2>1. CASE CompactReopenFails
    BY <1>1, <1>2, <2>1, HoldersAssumption DEF TypeOK, CompactReopenFails, CompactReturn
  <2>2. CASE CloseWal
    BY <1>1, <1>2, <2>2 DEF TypeOK, CloseWal, memory, loop
  <2>3. QED
    BY <2>1, <2>2
<1>4. \A k \in Keys : Pending(k)' = Pending(k)
  BY <1>1 DEF Pending
<1>5. LonePending'
  BY <1>1, <1>4 DEF LonePending
<1>6. QED
  BY <1>1, <1>3, <1>5 DEF LoneWritesSurvive, SnapshotCurrent, DownIsBlank

\* A crash touches the files at most by tearing the record being written.
LEMMA CrashKeepsRecovered ==
    ASSUME TypeOK, Crash
    PROVE  wal' \in Seq(Record) /\ Recovered' = Recovered
<1>1. snapshot' = snapshot
  BY DEF Crash
<1>2. CASE wal' = wal
  BY <1>1, <1>2 DEF Recovered, Replay, Hits, Reached, Legible, TypeOK
<1>3. ASSUME NEW c \in Clients, NEW e \in pend[c], wal' = Append(wal, Torn(e))
      PROVE  wal' \in Seq(Record) /\ Recovered' = Recovered
  <2>1. Torn(e) \in Record /\ Torn(e).kind = "torn" /\ wal \in Seq(Record)
    BY DEF Torn, TypeOK, Record, Entry
  <2>2. wal' \in Seq(Record)
    BY <1>3, <2>1, AppendFacts
  <2>3. \A k \in Keys : Replay(snapshot, Append(wal, Torn(e)))[k] = Replay(snapshot, wal)[k]
    BY <2>1, ReplayAppend
  <2>4. Recovered' = Replay(snapshot, Append(wal, Torn(e)))
    BY <1>1, <1>3 DEF Recovered, Replay, Hits, Reached, Legible
  <2>5. Recovered' = Recovered
    BY <2>3, <2>4 DEF Recovered, Replay
  <2>6. QED
    BY <2>2, <2>5
<1>4. QED
  BY <1>2, <1>3 DEF Crash

\* A crash forgets memory and records in flight; nothing is promised of a
\* process that is down except that it is blank.
LEMMA CrashKeepsInv ==
    ASSUME DurabilityInv, Crash
    PROVE  DurabilityInv'
<1> USE DEF DurabilityInv
<1>1. wal' \in Seq(Record) /\ Recovered' = Recovered
  BY CrashKeepsRecovered
<1>2. Empty \in [Keys -> Cell]
  BY DEF Empty, Cell
<1>3. TypeOK'
  <2>1. /\ store' = Empty /\ mu' = Free /\ pend' = [c \in Clients |-> {}] /\ sig' = {}
        /\ comp' = "wait" /\ writeChan' = FALSE /\ writeCount' = 0 /\ snapshot' = snapshot
        /\ walOpen' = FALSE /\ fresh' = fresh /\ typeId' = typeId /\ life' = "down"
        /\ logger' = logger /\ restarts' = restarts + 1 /\ suspect' = {}
    BY DEF Crash
  <2>2. TypeOK
    OBVIOUS
  <2>3. pend' \in [Clients -> SUBSET Entry]
    BY <2>1
  <2>4. Recovered' \in [Keys -> Cell] /\ snapshot' \in [Keys -> Cell] /\ store' \in [Keys -> Cell]
    BY <1>1, <1>2, <2>1, <2>2 DEF TypeOK
  <2>5. fresh' \in BOOLEAN /\ typeId' \in TypeIds /\ restarts' \in Nat
        /\ logger' \in {"ready", "missing", "stuck"}
    BY <2>1, <2>2 DEF TypeOK
  <2>6. mu' = Compactor <=> comp' \in {"write", "renamed", "hung"}
    BY <2>1, HoldersAssumption
  <2>7. QED
    BY <1>1, <2>1, <2>3, <2>4, <2>5, <2>6 DEF TypeOK
<1>4. \A c \in Clients : pend'[c] = {}
  BY DEF Crash
<1>5. \A k \in Keys : Pending(k)' = {}
  BY <1>4 DEF Pending
<1>6. /\ walOpen' = FALSE /\ comp' = "wait" /\ suspect' = {}
  BY DEF Crash
<1>7. QED
  BY <1>3, <1>4, <1>5, <1>6 DEF LoneWritesSurvive, LonePending, SnapshotCurrent, DownIsBlank

\* A restart starts from what it reads back.
LEMMA RestartKeepsInv ==
    ASSUME DurabilityInv, NewDatabase
    PROVE  DurabilityInv'
<1> USE DEF DurabilityInv
<1>1. /\ store' = Recovered /\ pend' = pend /\ snapshot' = snapshot /\ wal' = wal
      /\ suspect' = suspect /\ comp' = comp /\ life' = "up"
  BY DEF NewDatabase, loop
<1>2. Recovered' = Recovered
  BY <1>1 DEF Recovered, Replay, Hits, Reached, Legible
<1>3. TypeOK'
  BY <1>1, <1>2 DEF TypeOK, NewDatabase, Opened, loop
<1>4. \A k \in Keys : Pending(k)' = {}
  BY <1>1 DEF NewDatabase, DownIsBlank, Pending
<1>5. QED
  BY <1>1, <1>2, <1>3, <1>4
     DEF LoneWritesSurvive, LonePending, SnapshotCurrent, DownIsBlank, NewDatabase

\* NewDatabase on a path without files starts with the invariant.
LEMMA InitHasInv == Init => DurabilityInv
<1> SUFFICES ASSUME Init PROVE DurabilityInv
  OBVIOUS
<1>1. Empty \in [Keys -> Cell]
  BY DEF Empty, Cell
<1>2. Recovered = Empty
  BY <1>1, EmptyLog DEF Init, Recovered
<1>3. TypeOK
  <2>1. << >> \in Seq(Record)
    BY EmptySeq
  <2>2. QED
    BY <1>1, <1>2, <2>1, HoldersAssumption DEF Init, TypeOK
<1>4. \A k \in Keys : Pending(k) = {}
  BY DEF Init, Pending
<1>5. QED
  BY <1>2, <1>3, <1>4
     DEF Init, DurabilityInv, LoneWritesSurvive, LonePending, SnapshotCurrent, DownIsBlank

\* Every step of the store keeps the invariant.
LEMMA NextKeepsInv == DurabilityInv /\ [Next]_vars => DurabilityInv'
<1> SUFFICES ASSUME DurabilityInv, [Next]_vars PROVE DurabilityInv'
  OBVIOUS
<1>1. ASSUME NEW c \in Clients, Operation(c) PROVE DurabilityInv'
  BY <1>1, OperationKeepsInv
<1>2. ASSUME NEW c \in Clients, AppendSome(c) PROVE DurabilityInv'
  BY <1>2, AppendKeepsInv
<1>3. CASE \/ \E c \in Clients : Signal(c) \/ TxReturn(c)
           \/ Wake \/ Tick \/ TickHangs \/ CompactLock \/ CompactHangs \/ CompactAbort
           \/ Close \/ LoopExit
  BY <1>3, ControlKeepsInv
<1>4. CASE CompactRename
  BY <1>4, RenameKeepsInv
<1>5. CASE CompactTruncate
  BY <1>5, TruncateKeepsInv
<1>6. CASE CompactReopenFails \/ CloseWal
  BY <1>6, CloseFileKeepsInv
<1>7. CASE Crash
  BY <1>7, CrashKeepsInv
<1>8. CASE NewDatabase
  BY <1>8, RestartKeepsInv
<1>9. CASE UNCHANGED vars
  <2>1. Quiet /\ comp' = comp /\ life' = life
    BY <1>9 DEF vars, memory, loop, files, Quiet
  <2>2. Recovered' = Recovered
    BY <2>1 DEF Quiet, Recovered, Replay, Hits, Reached, Legible
  <2>3. TypeOK'
    BY <1>9, <2>2 DEF vars, memory, loop, files, DurabilityInv, TypeOK
  <2>4. QED
    BY <2>1, <2>3, QuietKeepsInv DEF DurabilityInv, DownIsBlank
<1>10. ASSUME NEW c \in Clients, AppendPanics(c) PROVE DurabilityInv'
  BY <1>10, PanicKeepsInv
<1>11. QED
  BY <1>1, <1>2, <1>3, <1>4, <1>5, <1>6, <1>7, <1>8, <1>9, <1>10 DEF Next, Compact

\* The inductive invariant holds in every reachable state.
THEOREM InvariantHolds == Spec => []DurabilityInv
  BY InitHasInv, NextKeepsInv, PTL DEF Spec

\* Whatever the clients, keys, values, threshold and bounds: the variables
\* have their types, and db.mu belongs to compact exactly while it writes.
THEOREM TypeCorrect == Spec => []TypeOK
<1>1. DurabilityInv => TypeOK
  BY DEF DurabilityInv
<1>2. QED
  BY <1>1, InvariantHolds, PTL

\* A key that is written by one goroutine at a time through a logging
\* operation survives a crash at any point, while the log is legible.
THEOREM Durability == Spec => []LoneWritesSurvive
<1>1. DurabilityInv => LoneWritesSurvive
  BY DEF DurabilityInv
<1>2. QED
  BY <1>1, InvariantHolds, PTL

-----------------------------------------------------------------------------
(***************************************************************************)
(* WalDatabase implements DurableMap: every step of the code is a step of  *)
(* the abstract store, or none.                                            *)
(***************************************************************************)

\* The critical section of Set, Del, Tx and TxKeys is a write of the abstract
\* store.
LEMMA SectionIsWrite ==
    ASSUME DurabilityInv, NEW c \in Clients, Section(c)
    PROVE  \E new \in [Keys -> Cell] : Durable!Write(new)
<1>1. PICK new \in [Keys -> Cell], E \in SUBSET Entry, holder \in Clients \cup {Free, Leaked} :
        (\A e \in E : e.val = new[e.key]) /\ Mutate(c, new, E, holder)
  BY DEF Section
<1>2. /\ pend[c] = {} /\ pend' = [pend EXCEPT ![c] = E] /\ store' = new
      /\ Alive /\ Alive' /\ wal' = wal /\ snapshot' = snapshot
  BY <1>1 DEF Mutate, Idle, Alive, files
<1>3. Recovered' = Recovered
  BY <1>2 DEF Recovered, Replay, Hits, Reached, Legible
<1>4. (UNION {pend[d] : d \in Clients})' = (UNION {pend[d] : d \in Clients}) \cup E
  <2>1. pend'[c] = E /\ \A d \in Clients : d # c => pend'[d] = pend[d]
    BY <1>2 DEF DurabilityInv, TypeOK
  <2>2. QED
    BY <1>2, <2>1
<1>5. ASSUME NEW k \in Keys
      PROVE  InFlight'[k] = IF k \in KeysOf(E) THEN InFlight[k] \cup {new[k]} ELSE InFlight[k]
  BY <1>1, <1>4 DEF InFlight, KeysOf
<1>6. KeysOf(E) \in SUBSET Keys
  BY DEF KeysOf, Entry
<1>7. InFlight' = [k \in Keys |-> IF k \in KeysOf(E) THEN InFlight[k] \cup {new[k]} ELSE InFlight[k]]
  BY <1>5 DEF InFlight
<1>8. QED
  BY <1>2, <1>3, <1>6, <1>7 DEF Durable!Write

\* An append makes at most one key durable, with a value that was in flight.
LEMMA AppendIsPersist ==
    ASSUME DurabilityInv, NEW c \in Clients, AppendSome(c)
    PROVE  \E k \in Keys, v \in Cell : Durable!Persist(k, v)
<1>1. PICK e \in pend[c] : Append1(c, e)
  BY DEF AppendSome
<1>2. e \in Entry /\ e.key \in Keys /\ e.val \in Cell /\ TypeOK
  BY DEF DurabilityInv, TypeOK, Entry
<1>3. /\ store' = store /\ Alive' = Alive
      /\ pend'[c] = pend[c] \ {e} /\ \A d \in Clients : d # c => pend'[d] = pend[d]
  BY <1>1, <1>2 DEF Append1, Alive, TypeOK
<1>4. /\ Recovered'[e.key] \in {Recovered[e.key], e.val}
      /\ \A k \in Keys : k # e.key => Recovered'[k] = Recovered[k]
  BY <1>1, <1>2, RecoveredAfterAppend DEF Append1
<1>5. Recovered' \in {Recovered, [Recovered EXCEPT ![e.key] = e.val]}
  <2>1. Recovered = [k \in Keys |-> Recovered[k]] /\ Recovered' = [k \in Keys |-> Recovered'[k]]
    BY DEF Recovered, Replay
  <2>2. CASE Recovered'[e.key] = Recovered[e.key]
    BY <1>4, <2>1, <2>2
  <2>3. CASE Recovered'[e.key] = e.val
    BY <1>2, <1>4, <2>1, <2>3
  <2>4. QED
    BY <1>4, <2>2, <2>3
<1>6. e.val \in InFlight[e.key]
  BY <1>2 DEF InFlight
<1>7. InFlight' \in {InFlight, [InFlight EXCEPT ![e.key] = @ \ {e.val}]}
  <2> DEFINE all == UNION {pend[d] : d \in Clients}
  <2>1. all' \in {all, all \ {e}}
    BY <1>3
  <2>2. CASE all' = all
    BY <2>2 DEF InFlight
  <2>3. CASE all' = all \ {e}
    <3>1. ASSUME NEW k \in Keys
          PROVE  InFlight'[k] = IF k = e.key THEN InFlight[k] \ {e.val} ELSE InFlight[k]
      <4>1. \A f \in all : f \in Entry
        BY <1>2 DEF TypeOK
      <4>2. \A f \in all : f.key = e.key /\ f.val = e.val => f = e
        BY <1>2, <4>1 DEF Entry
      <4>3. InFlight'[k] = {f.val : f \in {g \in all' : g.key = k}}
        BY DEF InFlight
      <4>4. InFlight[k] = {f.val : f \in {g \in all : g.key = k}}
        BY DEF InFlight
      <4>5. QED
        BY <2>3, <4>2, <4>3, <4>4
    <3>2. InFlight' = [InFlight EXCEPT ![e.key] = @ \ {e.val}]
      BY <1>2, <3>1 DEF InFlight
    <3>3. QED
      BY <3>2
  <2>4. QED
    BY <2>1, <2>2, <2>3
<1>8. Durable!Persist(e.key, e.val)
  BY <1>3, <1>5, <1>6, <1>7 DEF Durable!Persist
<1>9. QED
  BY <1>2, <1>8

\* An append that panics gives up values in flight.
LEMMA PanicIsAbandon ==
    ASSUME DurabilityInv, NEW c \in Clients, AppendPanics(c)
    PROVE  Durable!Abandon
<1>1. /\ store' = store /\ wal' = wal /\ snapshot' = snapshot /\ life' = life
      /\ pend' = [pend EXCEPT ![c] = {}] /\ pend[c] # {} /\ TypeOK
  BY DEF AppendPanics, DurabilityInv
<1>2. Alive /\ Alive'
  BY <1>1 DEF Alive, DurabilityInv, DownIsBlank
<1>3. Recovered' = Recovered
  BY <1>1 DEF Recovered, Replay, Hits, Reached, Legible
<1>4. \A d \in Clients : pend'[d] \subseteq pend[d] /\ pend'[d] \subseteq Entry
  BY <1>1 DEF TypeOK
<1>5. ASSUME NEW k \in Keys
      PROVE  InFlight'[k] \subseteq InFlight[k] /\ InFlight'[k] \subseteq Cell
  <2>1. (UNION {pend[d] : d \in Clients})' \subseteq UNION {pend[d] : d \in Clients}
    BY <1>4
  <2>2. \A e \in (UNION {pend[d] : d \in Clients})' : e.val \in Cell
    BY <1>4 DEF Entry
  <2>3. QED
    BY <2>1, <2>2 DEF InFlight
<1>6. InFlight' \in [Keys -> SUBSET Cell]
  BY <1>5 DEF InFlight
<1>7. QED
  BY <1>1, <1>2, <1>3, <1>5, <1>6 DEF Durable!Abandon

\* The steps that touch neither the map nor what a restart would read back.
LEMMA OtherIsStutter ==
    ASSUME UNCHANGED <<store, pend, snapshot, wal, Alive>>
    PROVE  UNCHANGED Durable!dvars
<1>1. Recovered' = Recovered
  BY DEF Recovered, Replay, Hits, Reached, Legible
<1>2. InFlight' = InFlight
  BY DEF InFlight
<1>3. QED
  BY <1>1, <1>2 DEF Durable!dvars

\* The rename and the truncation of compact are checkpoints: a key reads back
\* as before or as it is in memory.
LEMMA CompactionIsCheckpoint ==
    ASSUME DurabilityInv, CompactRename \/ CompactTruncate
    PROVE  \E K \in SUBSET Keys : Durable!Checkpoint(K)
<1>1. /\ store' = store /\ pend' = pend /\ Alive /\ Alive'
      /\ \/ wal' = wal /\ snapshot' = store
         \/ wal' = << >> /\ snapshot' = snapshot /\ snapshot = store
  BY DEF CompactRename, CompactTruncate, CompactReturn, memory, Alive,
         DurabilityInv, DownIsBlank, SnapshotCurrent
<1>2. Recovered' = Replay(snapshot', wal')
  BY DEF Recovered, Replay, Hits, Reached, Legible
<1>3. \A k \in Keys : Recovered'[k] \in {Recovered[k], store[k]}
  <2>1. CASE wal' = wal /\ snapshot' = store
    BY <1>2, <2>1 DEF Recovered, Replay
  <2>2. CASE wal' = << >> /\ snapshot' = snapshot /\ snapshot = store
    BY <1>2, <2>2, EmptyLog DEF DurabilityInv, TypeOK
  <2>3. QED
    BY <1>1, <2>1, <2>2
<1>4. InFlight' = InFlight
  BY <1>1 DEF InFlight
<1>5. Recovered' = [k \in Keys |-> Recovered'[k]]
  BY DEF Recovered, Replay
<1>6. Durable!Checkpoint({k \in Keys : Recovered'[k] = store[k]})
  BY <1>1, <1>3, <1>4, <1>5 DEF Durable!Checkpoint
<1>7. QED
  BY <1>6

\* The death of the process is the abstract crash.
LEMMA CrashIsCrash ==
    ASSUME DurabilityInv, Crash
    PROVE  Durable!Crash
<1>1. Recovered' = Recovered
  BY CrashKeepsRecovered DEF DurabilityInv
<1>2. InFlight' = [k \in Keys |-> {}]
  BY DEF Crash, InFlight
<1>3. QED
  BY <1>1, <1>2 DEF Crash, Alive, Empty, Durable!Crash, Durable!Blank, Durable!Grounded

\* NewDatabase after a crash is the abstract restart.
LEMMA NewDatabaseIsRestart ==
    ASSUME NewDatabase
    PROVE  Durable!Restart
<1>1. Recovered' = Recovered
  BY DEF NewDatabase, Recovered, Replay, Hits, Reached, Legible
<1>2. InFlight' = InFlight
  BY DEF NewDatabase, InFlight
<1>3. QED
  BY <1>1, <1>2 DEF NewDatabase, Alive, Durable!Restart

\* The initial states are initial states of the abstract store.
LEMMA InitRefines == Init => Durable!Init
<1> SUFFICES ASSUME Init PROVE Durable!Init
  OBVIOUS
<1>1. Recovered = Empty
  <2>1. Empty \in [Keys -> Cell]
    BY DEF Empty, Cell
  <2>2. QED
    BY <2>1, EmptyLog DEF Init, Recovered
<1>2. InFlight = [k \in Keys |-> {}]
  BY DEF Init, InFlight
<1>3. QED
  BY <1>1, <1>2 DEF Init, Alive, Empty, Durable!Init, Durable!Blank, Durable!Grounded

\* Every step is a step of the abstract store or leaves it as it was.
LEMMA NextRefines ==
    DurabilityInv /\ [Next]_vars => [Durable!Next]_(Durable!dvars)
<1> SUFFICES ASSUME DurabilityInv, [Next]_vars PROVE [Durable!Next]_(Durable!dvars)
  OBVIOUS
<1>1. ASSUME NEW c \in Clients, Operation(c) PROVE Durable!Next
  BY <1>1, OperationIsSection, SectionIsWrite DEF DurabilityInv, Durable!Next
<1>2. ASSUME NEW c \in Clients, AppendSome(c) PROVE Durable!Next
  BY <1>2, AppendIsPersist DEF Durable!Next
<1>3. CASE CompactRename \/ CompactTruncate
  BY <1>3, CompactionIsCheckpoint DEF Durable!Next
<1>4. CASE Crash
  BY <1>4, CrashIsCrash DEF Durable!Next
<1>5. CASE NewDatabase
  BY <1>5, NewDatabaseIsRestart DEF Durable!Next
<1>6. CASE \/ \E c \in Clients : Signal(c) \/ TxReturn(c)
           \/ Wake \/ Tick \/ TickHangs \/ CompactLock \/ CompactHangs
           \/ CompactAbort \/ CompactReopenFails
           \/ Close \/ LoopExit \/ CloseWal \/ UNCHANGED vars
  <2>1. UNCHANGED <<store, pend, snapshot, wal, Alive>>
    BY <1>6 DEF Signal, TxReturn, Wake, Tick, TickHangs, CompactLock, CompactHangs,
                CompactAbort, CompactReopenFails,
                CompactReturn, Close, LoopExit, CloseWal, vars, memory, loop, files, Alive
  <2>2. QED
    BY <2>1, OtherIsStutter
<1>7. ASSUME NEW c \in Clients, AppendPanics(c) PROVE Durable!Next
  BY <1>7, PanicIsAbandon DEF Durable!Next
<1>8. QED
  BY <1>1, <1>2, <1>3, <1>4, <1>5, <1>6, <1>7 DEF Next, Compact

\* For any clients, keys, values and bounds: whatever interleaving of writes,
\* compactions, file errors and crashes, a restart finds per key a value that
\* was written to it, and compaction and crashes never move a key back.
THEOREM Refinement == Spec => ImplementsDurableMap
<1>1. Init => Durable!Init
  BY InitRefines
<1>2. DurabilityInv /\ [Next]_vars => [Durable!Next]_(Durable!dvars)
  BY NextRefines
<1>3. QED
  BY <1>1, <1>2, InvariantHolds, PTL DEF Spec, ImplementsDurableMap, Durable!Spec
=============================================================================
