------------------------- MODULE Moderation_proofs -------------------------
(***************************************************************************)
(* Proofs about the lock of the bot, the dialogue about banned words, the  *)
(* routing of updates, settings, banned words and the limits over time, in *)
(* the behaviours of MCModeration, and about the rate limiter.  The steps  *)
(* of the parts do not touch each other's variables, so each part has an   *)
(* inductive invariant of its own.                                         *)
(***************************************************************************)
EXTENDS MCModeration, SequenceTheorems, FiniteSetTheorems, TLAPS

-----------------------------------------------------------------------------


(***************************************************************************)
(* Bot.mu.  What a process still does with the lock closes every read lock *)
(* it holds and writes W only together with w: a depth for each place of   *)
(* the sequence, one more behind every R and none at the end, says so.     *)
(***************************************************************************)
\* A sequence with elements has a first one.
LEMMA NonEmpty ==
    ASSUME NEW S, NEW s \in Seq(S)
    PROVE  s # <<>> <=> 1 \in 1..Len(s)
<1>1. Len(s) \in Nat /\ (s = <<>> <=> Len(s) = 0)
  OBVIOUS
<1>2. QED
  BY <1>1

\* What a process does with Bot.mu: R and r take and give back a read lock, W and w the write
\* lock, and ! leaves a read lock behind.
LockOps == {"R", "r", "W", "w", "!"}

\* d counts, before every place of s and at its end, the read locks that are still to be given back.
Depth(s, d) ==
    /\ d \in [1..(Len(s) + 1) -> Nat]
    /\ d[Len(s) + 1] = 0
    /\ \A k \in 1..Len(s) :
          /\ s[k] = "R" => d[k + 1] = d[k] + 1
          /\ s[k] \in {"r", "!"} => d[k] = d[k + 1] + 1
          /\ s[k] \in {"W", "w"} => d[k + 1] = d[k]

\* The program s gives back the n read locks its process holds, and all those it takes.
Closes(s, n) == \E d : Depth(s, d) /\ d[1] = n

\* The write lock is given back as soon as it is taken.
Paired(s) ==
    /\ s \in Seq(LockOps)
    /\ \A k \in 1..Len(s) :
          /\ s[k] = "W" => k < Len(s) /\ s[k + 1] = "w"
          /\ k > 1 /\ s[k] = "w" => s[k - 1] = "W"

\* A sequence that leaves the lock as it found it.
Balanced(s) ==
    /\ Paired(s) /\ Closes(s, 0)
    /\ s # <<>> => s[1] # "w"

\* Nothing, a read lock and a write lock that are given back.
LEMMA BasicsBalanced ==
    Balanced(<<>>) /\ Balanced(<<"R", "r">>) /\ Balanced(<<"R", "!">>) /\ Balanced(<<"W", "w">>)
<1>1. Balanced(<<>>)
  <2>1. Depth(<<>>, [k \in 1..1 |-> 0])
    BY DEF Depth
  <2>2. QED
    BY <2>1 DEF Balanced, Closes, Paired
<1>2. Balanced(<<"R", "r">>)
  <2>1. Depth(<<"R", "r">>, [k \in 1..3 |-> IF k = 2 THEN 1 ELSE 0])
    BY DEF Depth
  <2>2. Closes(<<"R", "r">>, 0)
    BY <2>1 DEF Closes
  <2>3. Paired(<<"R", "r">>)
    BY DEF Paired, LockOps
  <2>4. QED
    BY <2>2, <2>3 DEF Balanced
<1>3. Balanced(<<"W", "w">>)
  <2>1. Depth(<<"W", "w">>, [k \in 1..3 |-> 0])
    BY DEF Depth
  <2>2. Closes(<<"W", "w">>, 0)
    BY <2>1 DEF Closes
  <2>3. Paired(<<"W", "w">>)
    BY DEF Paired, LockOps
  <2>4. QED
    BY <2>2, <2>3 DEF Balanced
<1>4. Balanced(<<"R", "!">>)
  <2>1. Depth(<<"R", "!">>, [k \in 1..3 |-> IF k = 2 THEN 1 ELSE 0])
    BY DEF Depth
  <2>2. Closes(<<"R", "!">>, 0)
    BY <2>1 DEF Closes
  <2>3. Paired(<<"R", "!">>)
    BY DEF Paired, LockOps
  <2>4. QED
    BY <2>2, <2>3 DEF Balanced
<1>5. QED
  BY <1>1, <1>2, <1>3, <1>4

\* One after the other.
LEMMA JoinBalanced ==
    ASSUME NEW a, NEW b, Balanced(a), Balanced(b)
    PROVE  Balanced(a \o b)
<1>1. /\ a \in Seq(LockOps) /\ b \in Seq(LockOps) /\ a \o b \in Seq(LockOps)
      /\ Len(a) \in Nat /\ Len(b) \in Nat /\ Len(a \o b) = Len(a) + Len(b)
  BY DEF Balanced, Paired
<1>2. \A k \in 1..Len(a \o b) : (a \o b)[k] = IF k <= Len(a) THEN a[k] ELSE b[k - Len(a)]
  BY <1>1
<1>3. Paired(a \o b)
  <2> SUFFICES ASSUME NEW k \in 1..Len(a \o b)
               PROVE  /\ (a \o b)[k] = "W" => k < Len(a \o b) /\ (a \o b)[k + 1] = "w"
                      /\ k > 1 /\ (a \o b)[k] = "w" => (a \o b)[k - 1] = "W"
    BY <1>1 DEF Paired
  <2>1. CASE k <= Len(a)
    BY <2>1, <1>1, <1>2 DEF Balanced, Paired
  <2>2. CASE k > Len(a)
    <3>1. k - Len(a) \in 1..Len(b)
      BY <2>2, <1>1
    <3>2. k - Len(a) = 1 => b # <<>> /\ b[1] # "w"
      BY <1>1, <3>1 DEF Balanced
    <3>3. QED
      BY <2>2, <3>1, <3>2, <1>1, <1>2, SMTT(20) DEF Balanced, Paired
  <2>3. QED
    BY <2>1, <2>2, <1>1
<1>4. Closes(a \o b, 0)
  <2>1. PICK d : Depth(a, d) /\ d[1] = 0
    BY DEF Balanced, Closes
  <2>2. PICK e : Depth(b, e) /\ e[1] = 0
    BY DEF Balanced, Closes
  <2> DEFINE f == [k \in 1..(Len(a \o b) + 1) |-> IF k <= Len(a) THEN d[k] ELSE e[k - Len(a)]]
  <2>3. /\ f \in [1..(Len(a \o b) + 1) -> Nat]
        /\ f[Len(a \o b) + 1] = 0 /\ f[1] = 0
    BY <1>1, <2>1, <2>2 DEF Depth
  <2>4. ASSUME NEW k \in 1..Len(a \o b)
        PROVE  /\ (a \o b)[k] = "R" => f[k + 1] = f[k] + 1
               /\ (a \o b)[k] \in {"r", "!"} => f[k] = f[k + 1] + 1
               /\ (a \o b)[k] \in {"W", "w"} => f[k + 1] = f[k]
    <3>1. CASE k < Len(a)
      BY <3>1, <1>1, <1>2, <2>1, <2>2 DEF Depth
    <3>2. CASE k = Len(a)
      BY <3>2, <1>1, <1>2, <2>1, <2>2 DEF Depth
    <3>3. CASE k > Len(a)
      <4>1. k - Len(a) \in 1..Len(b) /\ k + 1 - Len(a) = (k - Len(a)) + 1
        BY <3>3, <1>1
      <4>2. f[k] = e[k - Len(a)] /\ f[k + 1] = e[(k - Len(a)) + 1] /\ (a \o b)[k] = b[k - Len(a)]
        BY <3>3, <4>1, <1>1, <1>2
      <4>3. QED
        BY <4>1, <4>2, <2>2 DEF Depth
    <3>4. QED
      BY <3>1, <3>2, <3>3, <1>1
  <2>5. Depth(a \o b, f)
    BY <2>3, <2>4 DEF Depth
  <2>6. QED
    BY <2>3, <2>5 DEF Closes
<1>5. a \o b # <<>> => (a \o b)[1] # "w"
  <2>1. CASE a # <<>>
    BY <2>1, <1>1, <1>2 DEF Balanced
  <2>2. CASE a = <<>>
    <3>1. a \o b = b
      BY <2>2, <1>1, ConcatEmptySeq
    <3>2. QED
      BY <3>1 DEF Balanced
  <2>3. QED
    BY <2>1, <2>2
<1>6. QED
  BY <1>3, <1>4, <1>5 DEF Balanced

\* Inside a read lock.
LEMMA WrapBalanced ==
    ASSUME NEW b, Balanced(b)
    PROVE  Balanced(<<"R">> \o b \o <<"r">>)
<1> DEFINE s == <<"R">> \o b \o <<"r">>
<1>1. /\ b \in Seq(LockOps) /\ Len(b) \in Nat
      /\ <<"R">> \in Seq(LockOps) /\ <<"r">> \in Seq(LockOps)
      /\ <<"R">> \o b \in Seq(LockOps)
  BY DEF Balanced, Paired, LockOps
<1>2. /\ s \in Seq(LockOps) /\ Len(s) = Len(b) + 2
      /\ \A k \in 1..Len(s) : s[k] = IF k = 1 THEN "R" ELSE IF k = Len(s) THEN "r" ELSE b[k - 1]
  <2>1. /\ Len(<<"R">> \o b) = Len(b) + 1
        /\ \A k \in 1..(Len(b) + 1) : (<<"R">> \o b)[k] = IF k = 1 THEN "R" ELSE b[k - 1]
    BY <1>1
  <2>2. /\ s \in Seq(LockOps) /\ Len(s) = Len(b) + 2
        /\ \A k \in 1..Len(s) :
              s[k] = IF k <= Len(b) + 1 THEN (<<"R">> \o b)[k] ELSE <<"r">>[k - (Len(b) + 1)]
    BY <1>1, <2>1, ConcatProperties
  <2>3. QED
    BY <1>1, <2>1, <2>2
<1> HIDE DEF s
<1>3. Paired(s)
  BY <1>1, <1>2, SMTT(20) DEF Paired, Balanced
<1>4. Closes(s, 0)
  <2>1. PICK d : Depth(b, d) /\ d[1] = 0
    BY DEF Balanced, Closes
  <2> DEFINE f == [k \in 1..(Len(s) + 1) |-> IF k = 1 \/ k = Len(s) + 1 THEN 0 ELSE d[k - 1] + 1]
  <2>2. f \in [1..(Len(s) + 1) -> Nat] /\ f[Len(s) + 1] = 0 /\ f[1] = 0
    BY <1>1, <1>2, <2>1 DEF Depth
  <2>3. ASSUME NEW k \in 1..Len(s)
        PROVE  /\ s[k] = "R" => f[k + 1] = f[k] + 1
               /\ s[k] \in {"r", "!"} => f[k] = f[k + 1] + 1
               /\ s[k] \in {"W", "w"} => f[k + 1] = f[k]
    <3>1. CASE k = 1 \/ k = Len(s)
      BY <3>1, <1>1, <1>2, <2>1 DEF Depth
    <3>2. CASE k # 1 /\ k # Len(s)
      <4>1. k - 1 \in 1..Len(b) /\ k = (k - 1) + 1
        BY <3>2, <1>1, <1>2
      <4>2. f[k] = d[k - 1] + 1 /\ f[k + 1] = d[(k - 1) + 1] + 1 /\ s[k] = b[k - 1]
        BY <3>2, <4>1, <1>1, <1>2
      <4>3. d[k - 1] \in Nat /\ d[(k - 1) + 1] \in Nat
        BY <4>1, <1>1, <2>1 DEF Depth
      <4>4. QED
        BY <4>1, <4>2, <4>3, <2>1 DEF Depth
    <3>3. QED
      BY <3>1, <3>2
  <2>4. Depth(s, f)
    BY <2>2, <2>3 DEF Depth
  <2>5. QED
    BY <2>2, <2>4 DEF Closes
<1>5. QED
  BY <1>1, <1>2, <1>3, <1>4 DEF Balanced, s

\* Everything that a process begins with the lock is balanced.
LEMMA ProgramsBalanced == \A prog \in BL!Programs : Balanced(prog)
<1>1. /\ Balanced(BL!Routed) /\ Balanced(BL!IsOwner) /\ Balanced(BL!NoSender) /\ Balanced(BL!Panel)
      /\ Balanced(BL!OnRoute) /\ Balanced(BL!Toggle) /\ Balanced(BL!StepDone)
  BY BasicsBalanced DEF BL!Routed, BL!IsOwner, BL!NoSender, BL!Panel, BL!OnRoute, BL!Toggle, BL!StepDone
<1>2. Balanced(BL!StepDone \o BL!Step)
  BY <1>1, JoinBalanced DEF BL!Step
<1>3. Balanced(BL!IsOwner \o <<"R", "r">>)
  BY <1>1, BasicsBalanced, JoinBalanced
<1>4. \A h \in BL!Handlers : Balanced(h)
  BY <1>1, <1>2, <1>3, BasicsBalanced DEF BL!Handlers, BL!Scan
<1>5. \A h \in BL!Handlers : Balanced(BL!Update(h)) /\ Balanced(BL!Update(BL!AdminOnly(h)))
  BY <1>1, <1>4, JoinBalanced, WrapBalanced DEF BL!Update, BL!AdminOnly
<1>6. QED
  BY <1>1, <1>5 DEF BL!Programs

\* What a process does with the lock next takes a read lock, closes one, or neither.
LEMMA TailCloses ==
    ASSUME NEW s, NEW n, Paired(s), Closes(s, n), s # <<>>
    PROVE  /\ Paired(Tail(s))
           /\ n \in Nat
           /\ s[1] = "R" => Closes(Tail(s), n + 1)
           /\ s[1] \in {"r", "!"} => n > 0 /\ Closes(Tail(s), n - 1)
           /\ s[1] \in {"W", "w"} => Closes(Tail(s), n)
           /\ s[1] = "W" => Tail(s) # <<>> /\ Tail(s)[1] = "w"
           /\ s[1] # "W" /\ Tail(s) # <<>> => Tail(s)[1] # "w"
<1>1. /\ s \in Seq(LockOps) /\ Len(s) \in Nat \ {0} /\ Tail(s) \in Seq(LockOps)
      /\ Len(Tail(s)) = Len(s) - 1
      /\ \A k \in 1..Len(Tail(s)) : Tail(s)[k] = s[k + 1]
  BY HeadTailProperties DEF Paired
<1>2. PICK d : Depth(s, d) /\ d[1] = n
  BY DEF Closes
<1> DEFINE e == [k \in 1..(Len(Tail(s)) + 1) |-> d[k + 1]]
<1>3. Depth(Tail(s), e) /\ e[1] = d[2]
  BY <1>1, <1>2 DEF Depth
<1>4. n \in Nat /\ d[2] \in Nat /\ Closes(Tail(s), d[2])
  <2>1. 1 \in 1..(Len(s) + 1) /\ 2 \in 1..(Len(s) + 1)
    BY <1>1
  <2>2. d[1] \in Nat /\ d[2] \in Nat
    BY <1>2, <2>1 DEF Depth
  <2> HIDE DEF e
  <2>3. QED
    BY <1>2, <1>3, <2>2 DEF Closes
<1>5. /\ s[1] = "R" => d[2] = n + 1
      /\ s[1] \in {"r", "!"} => n > 0 /\ d[2] = n - 1
      /\ s[1] \in {"W", "w"} => d[2] = n
  BY <1>1, <1>2, <1>4 DEF Depth
<1>6. Paired(Tail(s))
  BY <1>1 DEF Paired
<1>7. /\ s[1] = "W" => Tail(s) # <<>> /\ Tail(s)[1] = "w"
      /\ s[1] # "W" /\ Tail(s) # <<>> => Tail(s)[1] # "w"
  <2>1. Tail(s) # <<>> <=> 1 \in 1..Len(Tail(s))
    BY <1>1, NonEmpty
  <2>2. Tail(s) # <<>> => Tail(s)[1] = s[2] /\ 2 \in 1..Len(s)
    <3>1. SUFFICES ASSUME 1 \in 1..Len(Tail(s)) PROVE Tail(s)[1] = s[2] /\ 2 \in 1..Len(s)
      BY <2>1
    <3>2. Tail(s)[1] = s[1 + 1]
      BY <1>1, <3>1
    <3>3. QED
      BY <1>1, <3>1, <3>2
  <2>3. s[1] = "W" => 1 < Len(s) /\ s[2] = "w"
    BY <1>1 DEF Paired
  <2>4. 1 < Len(s) => 1 \in 1..Len(Tail(s))
    BY <1>1
  <2>5. Tail(s) # <<>> /\ s[2] = "w" => s[1] = "W"
    BY <1>1, <2>2 DEF Paired
  <2>6. QED
    BY <2>1, <2>2, <2>3, <2>4, <2>5
<1>8. QED
  BY <1>4, <1>5, <1>6, <1>7

\* Nothing left to do closes nothing.
LEMMA NothingHeld == ASSUME NEW n, Closes(<<>>, n) PROVE n = 0
BY DEF Closes, Depth

\* Everyone closes what it holds, the writer is the one about to unlock or to lock, and
\* those who ask are before their lock; while a writer is inside nobody holds a read lock.
LockInv ==
    /\ asks \subseteq Processes
    /\ writer \in Processes \cup {"none"}
    /\ todo \in [Processes -> Seq(LockOps)]
    /\ reading \in [Processes -> Nat]
    /\ \A p \in Processes : Paired(todo[p]) /\ Closes(todo[p], reading[p])
    /\ \A p \in Processes : BL!Op(p) = "w" <=> writer = p /\ p \notin asks
    /\ \A p \in asks : BL!Op(p) = "R" \/ (BL!Op(p) = "W" /\ writer = p)
    /\ writer # "none" => BL!Op(writer) \in {"W", "w"}
    /\ leaked \in Nat
    /\ writer # "none" /\ writer \notin asks => BL!Holders = {} /\ leaked = 0

\* Nobody holds the lock when the bot starts.
LEMMA LockInit == BL!InitLock => LockInv
<1> SUFFICES ASSUME BL!InitLock PROVE LockInv
  OBVIOUS
<1>1. Paired(<<>>) /\ Closes(<<>>, 0)
  BY BasicsBalanced DEF Balanced
<1>2. QED
  BY <1>1, ModerationAssumption DEF BL!InitLock, LockInv, BL!Op, BL!Holders

\* A process begins something that leaves the lock as it found it.
LEMMA BeginKeepsLock ==
    ASSUME LockInv, NEW p \in Processes, BL!Begin(p)
    PROVE  LockInv'
<1>1. PICK prog \in BL!Programs : todo' = [todo EXCEPT ![p] = prog]
  BY DEF BL!Begin
<1>2. /\ Paired(prog) /\ Closes(prog, 0) /\ prog \in Seq(LockOps)
      /\ prog # <<>> => prog[1] # "w"
  BY ProgramsBalanced DEF Balanced, Paired
<1>3. todo[p] = <<>> /\ reading[p] = 0 /\ UNCHANGED <<asks, reading, leaked, writer>>
  BY NothingHeld DEF BL!Begin, LockInv
<1>4. p \notin asks /\ writer # p
  BY <1>3 DEF LockInv, BL!Op
<1>5. /\ \A q \in Processes : q # p => todo'[q] = todo[q] /\ BL!Op(q)' = BL!Op(q)
      /\ todo'[p] = prog /\ BL!Op(p)' # "w"
  BY <1>1, <1>2 DEF LockInv, BL!Op
<1>6. BL!Holders' = BL!Holders
  BY <1>3 DEF BL!Holders
<1>7. QED
  BY <1>1, <1>2, <1>3, <1>4, <1>5, <1>6 DEF LockInv

\* What a step of p's program leaves of it, and the lock it takes or gives.
LEMMA DoneStep ==
    ASSUME LockInv, NEW p \in Processes, todo[p] # <<>>
    PROVE  /\ Paired(Tail(todo[p])) /\ Tail(todo[p]) \in Seq(LockOps)
           /\ reading[p] \in Nat
           /\ BL!Op(p) \in LockOps
           /\ BL!Op(p) = "R" => Closes(Tail(todo[p]), reading[p] + 1)
           /\ BL!Op(p) \in {"r", "!"} => reading[p] > 0 /\ Closes(Tail(todo[p]), reading[p] - 1)
           /\ BL!Op(p) \in {"W", "w"} => Closes(Tail(todo[p]), reading[p])
           /\ BL!Op(p) = "W" => Tail(todo[p]) # <<>> /\ Head(Tail(todo[p])) = "w"
           /\ BL!Op(p) # "W" /\ Tail(todo[p]) # <<>> => Head(Tail(todo[p])) # "w"
<1>1. todo[p] \in Seq(LockOps) /\ Paired(todo[p]) /\ Closes(todo[p], reading[p])
  BY DEF LockInv
<1>2. BL!Op(p) = todo[p][1] /\ todo[p][1] \in LockOps
  BY <1>1 DEF BL!Op
<1>3. /\ Tail(todo[p]) \in Seq(LockOps)
      /\ Tail(todo[p]) # <<>> => Head(Tail(todo[p])) = Tail(todo[p])[1]
  BY <1>1
<1>4. QED
  BY <1>1, <1>2, <1>3, TailCloses

\* A reader gets in, or waits for the writer.
LEMMA RLockKeepsLock ==
    ASSUME LockInv, NEW p \in Processes, BL!RLock(p)
    PROVE  LockInv'
<1>1. BL!Op(p) = "R" /\ p \notin asks /\ UNCHANGED <<writer, leaked>> /\ todo[p] # <<>>
  BY DEF BL!RLock, BL!Op
<1>2. CASE writer = "none"
  <2>1. /\ todo' = [todo EXCEPT ![p] = Tail(todo[p])]
        /\ reading' = [reading EXCEPT ![p] = reading[p] + 1]
        /\ asks' = asks
    BY <1>2 DEF BL!RLock, BL!Done
  <2>2. /\ \A q \in Processes : q # p => todo'[q] = todo[q] /\ BL!Op(q)' = BL!Op(q)
                                        /\ reading'[q] = reading[q]
        /\ todo'[p] = Tail(todo[p]) /\ reading'[p] = reading[p] + 1
    BY <2>1 DEF LockInv, BL!Op
  <2>3. BL!Op(p)' # "w"
    BY <1>1, <2>2, DoneStep DEF BL!Op
  <2>4. /\ todo' \in [Processes -> Seq(LockOps)] /\ reading' \in [Processes -> Nat]
        /\ \A q \in Processes : Paired(todo'[q]) /\ Closes(todo'[q], reading'[q])
    BY <1>1, <2>1, <2>2, DoneStep DEF LockInv
  <2>5. QED
    BY <1>1, <1>2, <2>1, <2>2, <2>3, <2>4 DEF LockInv
<1>3. CASE writer # "none"
  <2>1. asks' = asks \cup {p} /\ UNCHANGED <<todo, reading>>
    BY <1>3 DEF BL!RLock
  <2>2. /\ \A q \in Processes : BL!Op(q)' = BL!Op(q)
        /\ BL!Holders' = BL!Holders /\ writer # p
    BY <1>1, <2>1 DEF BL!Op, BL!Holders, LockInv
  <2>3. writer \in Processes
    BY <1>3 DEF LockInv
  <2>4. QED
    BY <1>1, <2>1, <2>2, <2>3 DEF LockInv
<1>4. QED
  BY <1>2, <1>3

\* A reader leaves, or leaves its lock behind: it holds a read lock, as its program closes no
\* more than it holds, so no writer is inside.
LEMMA RUnlockKeepsLock ==
    ASSUME LockInv, NEW p \in Processes, BL!RUnlock(p) \/ BL!Panic(p)
    PROVE  LockInv'
<1>1. BL!Op(p) \in {"r", "!"} /\ todo[p] # <<>>
  BY DEF BL!RUnlock, BL!Panic, BL!Op
<1>2. /\ todo' = [todo EXCEPT ![p] = Tail(todo[p])]
      /\ reading' = [reading EXCEPT ![p] = reading[p] - 1]
      /\ UNCHANGED <<asks, writer>> /\ leaked' \in Nat
  BY DEF BL!RUnlock, BL!Panic, BL!Done, LockInv
<1>3. /\ \A q \in Processes : q # p => todo'[q] = todo[q] /\ BL!Op(q)' = BL!Op(q)
                                      /\ reading'[q] = reading[q]
      /\ todo'[p] = Tail(todo[p]) /\ reading'[p] = reading[p] - 1 /\ reading[p] \in Nat
  BY <1>2 DEF LockInv, BL!Op
<1>4. BL!Op(p)' # "w" /\ p \notin asks /\ writer # p /\ reading[p] > 0
  BY <1>1, <1>3, DoneStep DEF BL!Op, LockInv
<1>5. /\ todo' \in [Processes -> Seq(LockOps)] /\ reading' \in [Processes -> Nat]
      /\ \A q \in Processes : Paired(todo'[q]) /\ Closes(todo'[q], reading'[q])
  BY <1>1, <1>2, <1>3, <1>4, DoneStep DEF LockInv
<1>6. BL!Holders # {} /\ BL!Op(writer)' = BL!Op(writer)
  BY <1>2, <1>3, <1>4, ModerationAssumption DEF BL!Holders, BL!Op, LockInv
<1>7. writer # "none" => writer \in asks
  BY <1>6 DEF LockInv
<1>8. QED
  BY <1>2, <1>3, <1>4, <1>5, <1>6, <1>7 DEF LockInv

\* A writer keeps new readers out, and gets in when those inside have left.
LEMMA WriterKeepsLock ==
    ASSUME LockInv, NEW p \in Processes, BL!Announce(p) \/ BL!Lock(p)
    PROVE  LockInv'
<1>1. CASE BL!Announce(p)
  <2>1. /\ BL!Op(p) = "W" /\ writer = "none" /\ writer' = p /\ asks' = asks \cup {p}
        /\ UNCHANGED <<todo, reading, leaked>>
    BY <1>1 DEF BL!Announce
  <2>2. \A q \in Processes : BL!Op(q)' = BL!Op(q)
    BY <2>1 DEF BL!Op
  <2>3. \A q \in Processes : BL!Op(q) # "w"
    BY <2>1, ModerationAssumption DEF LockInv
  <2>4. QED
    BY <2>1, <2>2, <2>3, ModerationAssumption DEF LockInv
<1>2. CASE BL!Lock(p)
  <2>1. /\ BL!Op(p) = "W" /\ writer = p /\ BL!Holders = {} /\ leaked = 0 /\ asks' = asks \ {p}
        /\ todo' = [todo EXCEPT ![p] = Tail(todo[p])] /\ todo[p] # <<>>
        /\ UNCHANGED <<reading, leaked, writer>>
    BY <1>2 DEF BL!Lock, BL!Done, BL!Op
  <2>2. /\ \A q \in Processes : q # p => todo'[q] = todo[q] /\ BL!Op(q)' = BL!Op(q)
        /\ todo'[p] = Tail(todo[p])
    BY <2>1 DEF LockInv, BL!Op
  <2>3. BL!Op(p)' = "w"
    BY <2>1, <2>2, DoneStep DEF BL!Op
  <2>4. /\ todo' \in [Processes -> Seq(LockOps)]
        /\ \A q \in Processes : Paired(todo'[q]) /\ Closes(todo'[q], reading[q])
    BY <2>1, <2>2, DoneStep DEF LockInv
  <2>5. BL!Holders' = {}
    BY <2>1 DEF BL!Holders
  <2>6. QED
    BY <2>1, <2>2, <2>3, <2>4, <2>5 DEF LockInv
<1>3. QED
  BY <1>1, <1>2

\* A writer leaves and lets the readers in that wait.
LEMMA UnlockKeepsLock ==
    ASSUME LockInv, NEW p \in Processes, BL!Unlock(p)
    PROVE  LockInv'
<1> DEFINE let == {q \in asks : BL!Op(q) = "R"}
<1>1. /\ BL!Op(p) = "w" /\ todo[p] # <<>> /\ writer = p /\ p \notin asks
      /\ writer' = "none" /\ asks' = asks \ let /\ leaked' = leaked
      /\ reading' = [q \in Processes |-> IF q \in let THEN reading[q] + 1 ELSE reading[q]]
      /\ todo' = [q \in Processes |-> IF q \in let \cup {p} THEN Tail(todo[q]) ELSE todo[q]]
  BY DEF BL!Unlock, BL!Op, LockInv
<1>2. let \subseteq Processes /\ p \notin let /\ asks \ let = {}
  BY <1>1 DEF LockInv
<1>3. ASSUME NEW q \in Processes
      PROVE  /\ Paired(todo'[q]) /\ Closes(todo'[q], reading'[q])
             /\ todo'[q] \in Seq(LockOps) /\ reading'[q] \in Nat /\ BL!Op(q)' # "w"
  <2>1. CASE q = p
    <3>1. todo'[q] = Tail(todo[q]) /\ reading'[q] = reading[q]
      BY <1>1, <1>2, <2>1
    <3>2. QED
      BY <1>1, <2>1, <3>1, DoneStep DEF BL!Op
  <2>2. CASE q \in let
    <3>1. todo'[q] = Tail(todo[q]) /\ reading'[q] = reading[q] + 1 /\ todo[q] # <<>>
          /\ BL!Op(q) = "R"
      BY <1>1, <2>2 DEF BL!Op
    <3>2. /\ Paired(Tail(todo[q])) /\ Tail(todo[q]) \in Seq(LockOps) /\ reading[q] \in Nat
          /\ Closes(Tail(todo[q]), reading[q] + 1)
          /\ Tail(todo[q]) # <<>> => Head(Tail(todo[q])) # "w"
      BY <3>1, DoneStep
    <3>3. BL!Op(q)' # "w"
      BY <3>1, <3>2 DEF BL!Op
    <3>4. QED
      BY <3>1, <3>2, <3>3
  <2>3. CASE q # p /\ q \notin let
    <3>1. todo'[q] = todo[q] /\ reading'[q] = reading[q] /\ BL!Op(q)' = BL!Op(q)
      BY <1>1, <2>3 DEF BL!Op
    <3>2. QED
      BY <1>1, <2>3, <3>1 DEF LockInv
  <2>4. QED
    BY <2>1, <2>2, <2>3
<1>4. todo' \in [Processes -> Seq(LockOps)] /\ reading' \in [Processes -> Nat]
  <2>1. DOMAIN todo' = Processes /\ DOMAIN reading' = Processes
    BY <1>1
  <2>2. todo' = [q \in Processes |-> todo'[q]] /\ reading' = [q \in Processes |-> reading'[q]]
    BY <1>1
  <2>3. QED
    BY <1>3, <2>2
<1> HIDE DEF let
<1>5. QED
  BY <1>1, <1>2, <1>3, <1>4, ModerationAssumption DEF LockInv

\* What goroutines do with the lock.
LEMMA LockStep == LockInv /\ [BL!LockNext]_LockVars => LockInv'
<1> SUFFICES ASSUME LockInv, [BL!LockNext]_LockVars PROVE LockInv'
  OBVIOUS
<1>1. CASE UNCHANGED LockVars
  BY <1>1 DEF LockVars, LockInv, BL!Op, BL!Holders
<1>2. CASE BL!LockNext
  BY <1>2, BeginKeepsLock, RLockKeepsLock, RUnlockKeepsLock, WriterKeepsLock, UnlockKeepsLock
  DEF BL!LockNext, BL!Moves
<1>3. QED
  BY <1>1, <1>2

\* Whoever has the lock, or keeps readers out, goes on; so if all are stopped it is
\* the readers inside, or the locks left behind, that stop him.
LEMMA LockSafe == LockInv => OnlyNestedOrLeakedStop
<1> SUFFICES ASSUME LockInv, BL!Stopped, leaked = 0, \A p \in BL!Busy : ~BL!Nested(p)
             PROVE  FALSE
  BY DEF OnlyNestedOrLeakedStop, BL!OnlyNestedOrLeakedStop, LockInv
<1>1. \A p \in BL!Busy : BL!Op(p) \in {"R", "W"} /\ reading[p] = 0
  BY DEF BL!Stopped, BL!Blocked, BL!Nested, BL!Busy, LockInv
<1>2. \A p \in Processes : p \notin BL!Busy => reading[p] = 0
  BY NothingHeld DEF BL!Busy, LockInv
<1>3. BL!Holders = {}
  BY <1>1, <1>2 DEF BL!Holders, BL!Busy
<1>4. writer = "none" \/ writer \in BL!Busy
  BY DEF LockInv, BL!Op, BL!Busy
<1>5. writer \notin BL!Busy
  BY <1>1, <1>3 DEF BL!Stopped, BL!Blocked, LockInv, BL!Busy
<1>6. QED
  BY <1>1, <1>4, <1>5 DEF BL!Stopped, BL!Blocked

\* Goroutines stop for Bot.mu only through locks that are taken inside each other, or that a
\* panic of a guard has left behind.
THEOREM OnlyNestedOrLeakedLocks == ModerationSpec => []OnlyNestedOrLeakedStop
<1>1. ModerationInit => LockInv
  BY LockInit DEF ModerationInit
<1>2. LockInv /\ [ModerationNext]_moderationVars => LockInv'
  <2>1. [ModerationNext]_moderationVars => [BL!LockNext]_LockVars
    BY DEF ModerationNext, moderationVars, ChainMoves, GuardsMove, SettingsMove, WordsMove,
           DialogueMoves, LimitsMove, RoutingMoves, LockMoves, LimiterMoves
  <2>2. QED
    BY <2>1, LockStep
<1>3. QED
  BY <1>1, <1>2, LockSafe, PTL DEF ModerationSpec

-----------------------------------------------------------------------------
(***************************************************************************)
(* The dialogue about banned words.                                        *)
(***************************************************************************)
\* What the property speaks of no more.
Excused == owed \cup mingled

\* What the chat shows of the dialogue.
Shown == menus \cup prompts

\* The handlers that have deleted the prompt, or the menu, that is remembered.
PastPrompt == {h \in Workers : stage[h] \in {"forget", "prompt", "prompted", "drop", "clear", "reset", "retire"}}
PastMenu == {h \in Workers : stage[h] \in {"menu", "listed", "reset"}}

\* Messages have numbers, given one after the other.
NumbersInv ==
    /\ stage \in [Workers -> WD!Stages] /\ about \in [Workers -> 0..posts]
    /\ posts \in Nat /\ prompt \in 0..posts /\ menu \in 0..posts /\ seen \subseteq 0..posts
    /\ 0 \notin prompts /\ 0 \notin menus

\* Nobody else works beside a lone handler; what others have sent is excused.
LoneInv ==
    /\ \A h \in lone : WD!Alone(h)
    /\ \A h \in Workers : stage[h] \in {"prompted", "listed"} => h \in lone \/ about[h] \in mingled
    /\ \A h \in lone : stage[h] = "prompt" => state # "none"

\* m has been sent by a handler that is about to remember it.
Sent(m, at) == \E h \in Workers : stage[h] = at /\ about[h] = m

\* A prompt on display is remembered or about to be; who is to overwrite what is remembered
\* has deleted it; and none is on display when no answer is awaited.
PromptsInv ==
    /\ \A m \in prompts : m \in Excused \/ m = prompt \/ Sent(m, "prompted")
    /\ PastPrompt # {} /\ prompt \in prompts => prompt \in Excused
    /\ state = "none" => prompts \subseteq Excused

MenusInv ==
    /\ \A m \in menus : m \in Excused \/ m = menu \/ Sent(m, "listed")
    /\ PastMenu # {} /\ menu \in menus => menu \in Excused

DialogueInv == NumbersInv /\ LoneInv /\ PromptsInv /\ MenusInv

\* The chat is empty when the bot starts.
LEMMA DialogueInit == WD!InitDialogue => DialogueInv
<1> SUFFICES ASSUME WD!InitDialogue PROVE DialogueInv
  OBVIOUS
<1>1. NumbersInv
  BY DEF WD!InitDialogue, NumbersInv, WD!Stages
<1>2. LoneInv
  BY DEF WD!InitDialogue, LoneInv
<1>3. PromptsInv /\ MenusInv
  BY DEF WD!InitDialogue, PromptsInv, MenusInv
<1>4. QED
  BY <1>1, <1>2, <1>3 DEF DialogueInv

\* When h begins, those at work have their messages excused, and none of them is alone.
LEMMA BeginsWell ==
    ASSUME DialogueInv, NEW h \in Workers, NEW at \in {"forget", "drop", "retire", "menu"},
           NEW what \in 0..posts, WD!Begins(h, at, what), ~WD!Works(h), owed \cap Shown' \subseteq owed'
    PROVE  /\ stage' \in [Workers -> WD!Stages] /\ about' \in [Workers -> 0..posts]
           /\ LoneInv' /\ Excused \cap Shown' \subseteq Excused'
           /\ stage'[h] = at /\ \A g \in Workers : g # h => stage'[g] = stage[g]
           /\ \A m : Sent(m, "prompted") \/ Sent(m, "listed") => m \in Excused'
<1>1. /\ stage' = [stage EXCEPT ![h] = at] /\ about' = [about EXCEPT ![h] = what]
      /\ lone' = IF WD!Alone(h) THEN {h} ELSE {}
      /\ mingled \subseteq mingled'
      /\ \A g \in Workers : g # h /\ stage[g] \in {"prompted", "listed"} => about[g] \in mingled'
  BY DEF WD!Begins
<1>2. /\ stage' \in [Workers -> WD!Stages] /\ about' \in [Workers -> 0..posts]
      /\ stage'[h] = at /\ \A g \in Workers : g # h => stage'[g] = stage[g] /\ about'[g] = about[g]
  BY <1>1 DEF DialogueInv, NumbersInv, WD!Stages
<1>3. Excused \cap Shown' \subseteq Excused'
  BY <1>1 DEF Excused
<1>4. stage[h] \notin {"prompted", "listed"}
  BY DEF WD!Works
<1>5. \A g \in Workers : stage[g] \in {"prompted", "listed"} => about[g] \in mingled'
  BY <1>1, <1>4
<1>6. \A k \in lone' : k = h /\ WD!Alone(h)
  BY <1>1
<1>7. WD!Alone(h) => WD!Alone(h)'
  BY <1>2 DEF WD!Alone, WD!Works
<1>8. LoneInv'
  BY <1>2, <1>5, <1>6, <1>7 DEF LoneInv
<1>9. QED
  BY <1>2, <1>3, <1>5, <1>8 DEF Sent, Excused

\* A deletion takes messages off the display, or excuses them.
LEMMA DeletesWell ==
    ASSUME NEW gone, NEW more, WD!Delete(gone, more)
    PROVE  /\ owed \cap Shown' \subseteq owed' /\ menus' \subseteq menus /\ prompts' \subseteq prompts
           /\ \A m \in gone \cup more : m \in menus' \cup prompts' => m \in owed'
BY DEF WD!Delete, Shown

\* A handler goes on: who works is not more than before.
LEMMA GoesWell ==
    ASSUME DialogueInv, NEW h \in Workers, NEW at \in WD!Stages \ {"prompted", "listed"}, WD!Goes(h, at),
           owed \cap Shown' \subseteq owed', at \in {"free", "routed"} \/ WD!Works(h),
           at = "prompt" => state' # "none", state' = state \/ state' # "none"
    PROVE  /\ stage' \in [Workers -> WD!Stages] /\ about' \in [Workers -> 0..posts]
           /\ LoneInv' /\ Excused \cap Shown' \subseteq Excused'
           /\ stage'[h] = at /\ \A g \in Workers : g # h => stage'[g] = stage[g]
           /\ about' = about
<1>1. stage' = [stage EXCEPT ![h] = at] /\ UNCHANGED <<about, lone, mingled>>
  BY DEF WD!Goes
<1>2. /\ stage' \in [Workers -> WD!Stages] /\ about' \in [Workers -> 0..posts]
      /\ stage'[h] = at /\ \A g \in Workers : g # h => stage'[g] = stage[g]
  BY <1>1 DEF DialogueInv, NumbersInv
<1>3. Excused \cap Shown' \subseteq Excused'
  BY <1>1 DEF Excused
<1>4. \A k \in lone : WD!Alone(k)'
  BY <1>2 DEF DialogueInv, LoneInv, WD!Alone, WD!Works
<1>5. \A g \in Workers : stage'[g] \in {"prompted", "listed"} => g \in lone \/ about[g] \in mingled
  BY <1>2 DEF DialogueInv, LoneInv
<1>6. \A g \in lone : stage'[g] = "prompt" => state' # "none"
  <2>1. \A g \in lone : stage[g] = "prompt" => state' # "none"
    BY DEF DialogueInv, LoneInv
  <2>2. \A g \in lone : stage'[g] = "prompt" => stage[g] = "prompt" \/ at = "prompt"
    BY <1>1 DEF DialogueInv, NumbersInv
  <2>3. QED
    BY <2>1, <2>2
<1>7. QED
  BY <1>1, <1>2, <1>3, <1>4, <1>5, <1>6 DEF LoneInv

\* A handler is over: what was about to be remembered by others is so still.
LEMMA EndsWell ==
    ASSUME DialogueInv, NEW h \in Workers, WD!Ends(h), owed' = owed, WD!Works(h)
    PROVE  /\ stage' \in [Workers -> WD!Stages] /\ about' \in [Workers -> 0..posts]
           /\ LoneInv' /\ Excused' = Excused
           /\ PastPrompt' \subseteq PastPrompt /\ PastMenu' \subseteq PastMenu
           /\ \A m, at : Sent(m, at) => Sent(m, at)' \/ (stage[h] = at /\ m = about[h])
<1>1. /\ stage' = [stage EXCEPT ![h] = "free"] /\ about' = [about EXCEPT ![h] = 0]
      /\ lone' = lone \ {h} /\ mingled' = mingled
  BY DEF WD!Ends
<1>2. /\ stage' \in [Workers -> WD!Stages] /\ about' \in [Workers -> 0..posts]
      /\ stage'[h] = "free" /\ \A g \in Workers : g # h => stage'[g] = stage[g] /\ about'[g] = about[g]
  BY <1>1 DEF DialogueInv, NumbersInv, WD!Stages
<1>3. Excused' = Excused
  BY <1>1 DEF Excused
<1>4. lone' = {}
  BY <1>1 DEF DialogueInv, LoneInv, WD!Alone
<1>5. \A g \in Workers : stage'[g] \in {"prompted", "listed"} => about'[g] \in mingled'
  <2>1. \A g \in Workers : g # h /\ stage[g] \in {"prompted", "listed"} => g \notin lone
    BY DEF DialogueInv, LoneInv, WD!Alone
  <2>2. \A g \in Workers : g # h /\ stage[g] \in {"prompted", "listed"} => about[g] \in mingled
    BY <2>1 DEF DialogueInv, LoneInv
  <2>3. QED
    BY <1>1, <1>2, <2>2
<1>6. LoneInv'
  BY <1>4, <1>5 DEF LoneInv
<1>7. PastPrompt' \subseteq PastPrompt /\ PastMenu' \subseteq PastMenu
  BY <1>2 DEF PastPrompt, PastMenu
<1>8. \A m, at : Sent(m, at) => Sent(m, at)' \/ (stage[h] = at /\ m = about[h])
  BY <1>2 DEF Sent
<1>9. QED
  BY <1>2, <1>3, <1>6, <1>7, <1>8

\* The handlers that begin.
LEMMA BeginningsStep ==
    ASSUME DialogueInv, NEW h \in Workers,
           WD!BadWordsCommand(h) \/ WD!Choose(h) \/ WD!Close(h) \/ WD!AcceptAnswer(h)
    PROVE  DialogueInv'
<1>1. CASE WD!BadWordsCommand(h)
  <2>1. /\ WD!Begins(h, "menu", 0) /\ UNCHANGED <<state, prompt, menu, seen, posts>> /\ ~WD!Works(h)
        /\ owed \cap Shown' \subseteq owed' /\ menus' \subseteq menus /\ prompts' \subseteq prompts
        /\ menu \in menus' \cup prompts' => menu \in owed'
    BY <1>1, DeletesWell DEF WD!BadWordsCommand, WD!Free, WD!Works
  <2>2. /\ stage' \in [Workers -> WD!Stages] /\ about' \in [Workers -> 0..posts]
        /\ LoneInv' /\ Excused \cap Shown' \subseteq Excused'
        /\ stage'[h] = "menu" /\ \A g \in Workers : g # h => stage'[g] = stage[g]
        /\ \A m : Sent(m, "prompted") \/ Sent(m, "listed") => m \in Excused'
    <3>1. 0 \in 0..posts
      BY DEF DialogueInv, NumbersInv
    <3>2. QED
      BY <2>1, <3>1, BeginsWell
  <2>3. NumbersInv'
    BY <2>1, <2>2 DEF DialogueInv, NumbersInv
  <2>4. PastPrompt' \subseteq PastPrompt
    BY <2>2 DEF PastPrompt
  <2>5. PromptsInv'
    BY <2>1, <2>2, <2>4 DEF DialogueInv, PromptsInv, Shown
  <2>6. menu \in menus' => menu \in Excused'
    BY <2>1 DEF Excused
  <2>7. MenusInv'
    BY <2>1, <2>2, <2>6 DEF DialogueInv, MenusInv, Shown
  <2>8. QED
    BY <2>2, <2>3, <2>5, <2>7 DEF DialogueInv
<1>2. CASE WD!Choose(h) \/ WD!Close(h) \/ WD!AcceptAnswer(h)
  <2>1. /\ \E what \in 0..posts, at \in {"forget", "drop", "retire"} : WD!Begins(h, at, what)
        /\ WD!Delete({prompt}, {}) /\ UNCHANGED <<prompt, menu, seen, posts>> /\ ~WD!Works(h)
    BY <1>2 DEF WD!Choose, WD!Close, WD!AcceptAnswer, DialogueInv, NumbersInv, WD!Free, WD!Works
  <2>2. /\ owed \cap Shown' \subseteq owed' /\ menus' \subseteq menus /\ prompts' \subseteq prompts
        /\ prompt \in prompts' => prompt \in owed'
    BY <2>1, DeletesWell
  <2>3. /\ stage' \in [Workers -> WD!Stages] /\ about' \in [Workers -> 0..posts]
        /\ LoneInv' /\ Excused \cap Shown' \subseteq Excused'
        /\ stage'[h] \in {"forget", "drop", "retire"} /\ \A g \in Workers : g # h => stage'[g] = stage[g]
        /\ \A m : Sent(m, "prompted") \/ Sent(m, "listed") => m \in Excused'
    BY <2>1, <2>2, BeginsWell
  <2>4. NumbersInv'
    BY <2>1, <2>2, <2>3 DEF DialogueInv, NumbersInv
  <2>5. prompts' \subseteq Excused'
    <3>1. prompt \in prompts' => prompt \in Excused'
      BY <2>2 DEF Excused
    <3>2. QED
      BY <2>2, <2>3, <3>1 DEF DialogueInv, PromptsInv, Shown
  <2>6. PromptsInv'
    BY <2>5 DEF PromptsInv
  <2>7. PastMenu' \subseteq PastMenu
    BY <2>3 DEF PastMenu
  <2>8. MenusInv'
    BY <2>1, <2>2, <2>3, <2>7 DEF DialogueInv, MenusInv, Shown
  <2>9. QED
    BY <2>3, <2>4, <2>6, <2>8 DEF DialogueInv
<1>3. QED
  BY <1>1, <1>2

\* What others have sent and not yet remembered stays so while h goes on.
LEMMA SentStays ==
    ASSUME DialogueInv, NEW h \in Workers, stage[h] \notin {"prompted", "listed"}, about' = about,
           \A g \in Workers : g # h => stage'[g] = stage[g]
    PROVE  \A m : \A at \in {"prompted", "listed"} : Sent(m, at) => Sent(m, at)'
BY DEF Sent

\* The handlers that go on.
LEMMA GoingsStep ==
    ASSUME DialogueInv, NEW h \in Workers,
           WD!Forget(h) \/ WD!Drop(h) \/ WD!Clear(h) \/ WD!Retire(h) \/ WD!Route(h) \/ WD!Refuse(h)
    PROVE  DialogueInv'
<1>1. CASE WD!Route(h) \/ WD!Refuse(h)
  <2>1. /\ stage[h] \in {"free", "routed"} /\ UNCHANGED <<state, prompt, menu, menus, prompts, seen, posts, owed>>
        /\ \E at \in {"free", "routed"} : WD!Goes(h, at)
    BY <1>1 DEF WD!Route, WD!Refuse, WD!Free
  <2>2. /\ stage' \in [Workers -> WD!Stages] /\ about' \in [Workers -> 0..posts]
        /\ LoneInv' /\ Excused \cap Shown' \subseteq Excused' /\ stage'[h] \in {"free", "routed"} /\ about' = about
        /\ \A g \in Workers : g # h => stage'[g] = stage[g]
    BY <2>1, GoesWell DEF WD!Stages
  <2>3. \A m : \A at \in {"prompted", "listed"} : Sent(m, at) => Sent(m, at)'
    BY <2>1, <2>2, SentStays
  <2>4. PastPrompt' \subseteq PastPrompt /\ PastMenu' \subseteq PastMenu
    BY <2>2 DEF PastPrompt, PastMenu
  <2>5. NumbersInv'
    BY <2>1, <2>2 DEF DialogueInv, NumbersInv
  <2>6. PromptsInv'
    BY <2>1, <2>2, <2>3, <2>4 DEF DialogueInv, PromptsInv, Shown
  <2>7. MenusInv'
    BY <2>1, <2>2, <2>3, <2>4 DEF DialogueInv, MenusInv, Shown
  <2>8. QED
    BY <2>2, <2>5, <2>6, <2>7 DEF DialogueInv
<1>2. CASE WD!Forget(h) \/ WD!Drop(h)
  <2>1. /\ stage[h] \in {"forget", "drop"} /\ prompt' = 0
        /\ UNCHANGED <<menu, menus, prompts, seen, posts, owed>>
        /\ \/ WD!Goes(h, "prompt") /\ state' # "none"
           \/ WD!Goes(h, "clear") /\ state' = state
    BY <1>2 DEF WD!Forget, WD!Drop, WD!Acts
  <2>2. /\ stage' \in [Workers -> WD!Stages] /\ about' \in [Workers -> 0..posts]
        /\ LoneInv' /\ Excused \cap Shown' \subseteq Excused' /\ stage'[h] \in {"prompt", "clear"} /\ about' = about
        /\ \A g \in Workers : g # h => stage'[g] = stage[g]
    BY <2>1, GoesWell DEF WD!Stages, WD!Works
  <2>3. \A m : \A at \in {"prompted", "listed"} : Sent(m, at) => Sent(m, at)'
    BY <2>1, <2>2, SentStays
  <2>4. h \in PastPrompt
    BY <2>1 DEF PastPrompt
  <2>5. NumbersInv'
    BY <2>1, <2>2 DEF DialogueInv, NumbersInv
  <2>6. \A m \in prompts : m \in Excused' \/ Sent(m, "prompted")'
    BY <2>1, <2>2, <2>3, <2>4 DEF DialogueInv, PromptsInv, Shown
  <2>7. PromptsInv'
    <3>1. 0 \notin prompts /\ prompts' = prompts
      BY <2>1 DEF DialogueInv, NumbersInv
    <3>2. state' = "none" => prompts \subseteq Excused'
      BY <2>1, <2>2 DEF DialogueInv, PromptsInv, Shown
    <3>3. QED
      BY <2>1, <2>6, <3>1, <3>2 DEF PromptsInv
  <2>8. PastMenu' \subseteq PastMenu
    BY <2>2 DEF PastMenu
  <2>9. MenusInv'
    BY <2>1, <2>2, <2>3, <2>8 DEF DialogueInv, MenusInv, Shown
  <2>10. QED
    BY <2>2, <2>5, <2>7, <2>9 DEF DialogueInv
<1>3. CASE WD!Clear(h)
  <2>1. /\ stage[h] = "clear" /\ WD!Goes(h, "reset") /\ UNCHANGED <<state, prompt, menu, seen, posts>>
        /\ WD!Delete({prompt, about[h]}, {menu} \ {about[h]})
    BY <1>3 DEF WD!Clear
  <2>2. /\ owed \cap Shown' \subseteq owed' /\ menus' \subseteq menus /\ prompts' \subseteq prompts
        /\ \A m \in {prompt, menu} : m \in menus' \cup prompts' => m \in owed'
    BY <2>1, DeletesWell
  <2>3. /\ stage' \in [Workers -> WD!Stages] /\ about' \in [Workers -> 0..posts]
        /\ LoneInv' /\ Excused \cap Shown' \subseteq Excused' /\ about' = about
        /\ \A g \in Workers : g # h => stage'[g] = stage[g]
    BY <2>1, <2>2, GoesWell DEF WD!Stages, WD!Works
  <2>4. \A m : \A at \in {"prompted", "listed"} : Sent(m, at) => Sent(m, at)'
    BY <2>1, <2>3, SentStays
  <2>5. NumbersInv'
    BY <2>1, <2>2, <2>3 DEF DialogueInv, NumbersInv
  <2>6. \A m \in {prompt, menu} : m \in menus' \cup prompts' => m \in Excused'
    BY <2>2 DEF Excused
  <2>7. PromptsInv'
    BY <2>1, <2>2, <2>3, <2>4, <2>6 DEF DialogueInv, PromptsInv, Shown
  <2>8. MenusInv'
    BY <2>1, <2>2, <2>3, <2>4, <2>6 DEF DialogueInv, MenusInv, Shown
  <2>9. QED
    BY <2>3, <2>5, <2>7, <2>8 DEF DialogueInv
<1>4. CASE WD!Retire(h)
  <2>1. /\ stage[h] = "retire" /\ WD!Goes(h, "menu") /\ prompt' = 0
        /\ UNCHANGED <<state, menu, seen, posts>> /\ WD!Delete({menu}, {})
    BY <1>4 DEF WD!Retire
  <2>2. /\ owed \cap Shown' \subseteq owed' /\ menus' \subseteq menus /\ prompts' \subseteq prompts
        /\ menu \in menus' \cup prompts' => menu \in owed'
    BY <2>1, DeletesWell
  <2>3. /\ stage' \in [Workers -> WD!Stages] /\ about' \in [Workers -> 0..posts]
        /\ LoneInv' /\ Excused \cap Shown' \subseteq Excused' /\ about' = about
        /\ \A g \in Workers : g # h => stage'[g] = stage[g]
    BY <2>1, <2>2, GoesWell DEF WD!Stages, WD!Works
  <2>4. \A m : \A at \in {"prompted", "listed"} : Sent(m, at) => Sent(m, at)'
    BY <2>1, <2>3, SentStays
  <2>5. NumbersInv'
    BY <2>1, <2>2, <2>3 DEF DialogueInv, NumbersInv
  <2>6. h \in PastPrompt
    BY <2>1 DEF PastPrompt
  <2>7. PromptsInv'
    <3>1. \A m \in prompts' : m \in Excused' \/ Sent(m, "prompted")'
      BY <2>2, <2>3, <2>4, <2>6 DEF DialogueInv, PromptsInv, Shown
    <3>2. 0 \notin prompts'
      BY <2>5 DEF NumbersInv
    <3>3. QED
      BY <2>1, <2>2, <2>3, <3>1, <3>2 DEF DialogueInv, PromptsInv, Shown
  <2>8. menu \in menus' => menu \in Excused'
    BY <2>2 DEF Excused
  <2>9. MenusInv'
    BY <2>1, <2>2, <2>3, <2>4, <2>8 DEF DialogueInv, MenusInv, Shown
  <2>10. QED
    BY <2>3, <2>5, <2>7, <2>9 DEF DialogueInv
<1>5. QED
  BY <1>1, <1>2, <1>3, <1>4

\* The handlers that are over.
LEMMA EndingsStep ==
    ASSUME DialogueInv, NEW h \in Workers,
           WD!Reset(h) \/ WD!GiveUp(h) \/ WD!Remember(h)
    PROVE  DialogueInv'
<1>1. /\ WD!Ends(h) /\ UNCHANGED <<menus, prompts, seen, posts, owed>> /\ WD!Works(h)
  BY DEF WD!Reset, WD!GiveUp, WD!Remember, WD!Works
<1>2. /\ stage' \in [Workers -> WD!Stages] /\ about' \in [Workers -> 0..posts]
      /\ LoneInv' /\ Excused' = Excused
      /\ PastPrompt' \subseteq PastPrompt /\ PastMenu' \subseteq PastMenu
      /\ \A m, at : Sent(m, at) => Sent(m, at)' \/ (stage[h] = at /\ m = about[h])
  BY <1>1, EndsWell
<1>3. CASE WD!Reset(h)
  <2>1. stage[h] = "reset" /\ state' = "none" /\ prompt' = 0 /\ menu' = 0
    BY <1>3 DEF WD!Reset
  <2>2. h \in PastPrompt /\ h \in PastMenu
    BY <2>1 DEF PastPrompt, PastMenu
  <2>3. NumbersInv'
    BY <1>1, <1>2, <2>1 DEF DialogueInv, NumbersInv
  <2>4. \A m : \A at \in {"prompted", "listed"} : Sent(m, at) => m \in Excused
    <3>1. lone \subseteq {h}
      BY <1>1 DEF DialogueInv, LoneInv, WD!Alone
    <3>2. QED
      BY <2>1, <3>1 DEF DialogueInv, LoneInv, Sent, Excused
  <2>5. prompts \subseteq Excused /\ menus \subseteq Excused
    BY <2>2, <2>4 DEF DialogueInv, PromptsInv, MenusInv, Shown
  <2>6. PromptsInv' /\ MenusInv'
    BY <1>1, <1>2, <2>5 DEF PromptsInv, MenusInv
  <2>7. QED
    BY <1>2, <2>3, <2>6 DEF DialogueInv
<1>4. CASE WD!GiveUp(h)
  <2>1. /\ menu' = menu /\ state' = state
        /\ \/ stage[h] = "prompt" /\ prompt' = 0
           \/ stage[h] = "menu" /\ prompt' = prompt
    BY <1>4 DEF WD!GiveUp
  <2>2. \A m : \A at \in {"prompted", "listed"} : Sent(m, at) => Sent(m, at)'
    BY <1>2, <2>1
  <2>3. NumbersInv'
    BY <1>1, <1>2, <2>1 DEF DialogueInv, NumbersInv
  <2>4. stage[h] = "prompt" => h \in PastPrompt
    BY DEF PastPrompt
  <2>5. prompt' = prompt \/ \A m \in prompts : m \in Excused \/ Sent(m, "prompted")
    BY <2>1, <2>4 DEF DialogueInv, PromptsInv
  <2>6. 0 \notin prompts
    BY DEF DialogueInv, NumbersInv
  <2>7. PromptsInv'
    BY <1>1, <1>2, <2>1, <2>2, <2>5, <2>6 DEF DialogueInv, PromptsInv, Shown
  <2>8. MenusInv'
    BY <1>1, <1>2, <2>1, <2>2 DEF DialogueInv, MenusInv, Shown
  <2>9. QED
    BY <1>2, <2>3, <2>7, <2>8 DEF DialogueInv
<1>5. CASE WD!Remember(h)
  <2>1. /\ \/ stage[h] = "prompted" /\ prompt' = about[h] /\ menu' = menu
           \/ stage[h] = "listed" /\ menu' = about[h] /\ prompt' = prompt
        /\ state' = state
    BY <1>5 DEF WD!Remember
  <2>2. about[h] \in Excused \/ (PastPrompt' = {} /\ PastMenu' = {})
    <3>1. CASE h \in lone
      <4>1. \A g \in Workers : g # h => ~WD!Works(g)
        BY <3>1 DEF DialogueInv, LoneInv, WD!Alone
      <4>2. stage'[h] = "free" /\ \A g \in Workers : g # h => stage'[g] = stage[g]
        BY <1>1 DEF WD!Ends, DialogueInv, NumbersInv
      <4>3. QED
        BY <4>1, <4>2 DEF PastPrompt, PastMenu, WD!Works
    <3>2. CASE h \notin lone
      BY <2>1, <3>2 DEF DialogueInv, LoneInv, Excused
    <3>3. QED
      BY <3>1, <3>2
  <2>3. about[h] \in 0..posts
    BY DEF DialogueInv, NumbersInv
  <2>4. NumbersInv'
    BY <1>1, <1>2, <2>1, <2>3 DEF DialogueInv, NumbersInv
  <2>5. PromptsInv'
    <3>1. CASE stage[h] = "prompted" /\ prompt' = about[h]
      <4>1. h \in PastPrompt
        BY <3>1 DEF PastPrompt
      <4>2. \A m \in prompts : m \in Excused \/ Sent(m, "prompted")
        BY <4>1 DEF DialogueInv, PromptsInv
      <4>3. QED
        BY <1>1, <1>2, <2>1, <2>2, <3>1, <4>2 DEF DialogueInv, PromptsInv, Shown
    <3>2. CASE stage[h] = "listed" /\ prompt' = prompt
      BY <1>1, <1>2, <2>1, <3>2 DEF DialogueInv, PromptsInv
    <3>3. QED
      BY <2>1, <3>1, <3>2
  <2>6. MenusInv'
    <3>1. CASE stage[h] = "listed" /\ menu' = about[h]
      <4>1. h \in PastMenu
        BY <3>1 DEF PastMenu
      <4>2. \A m \in menus : m \in Excused \/ Sent(m, "listed")
        BY <4>1 DEF DialogueInv, MenusInv
      <4>3. QED
        BY <1>1, <1>2, <2>1, <2>2, <3>1, <4>2 DEF DialogueInv, MenusInv, Shown
    <3>2. CASE stage[h] = "prompted" /\ menu' = menu
      BY <1>1, <1>2, <2>1, <3>2 DEF DialogueInv, MenusInv
    <3>3. QED
      BY <2>1, <3>1, <3>2
  <2>7. QED
    BY <1>2, <2>4, <2>5, <2>6 DEF DialogueInv
<1>6. QED
  BY <1>3, <1>4, <1>5

\* The handlers that send: a handler that is not alone, or does not learn what it has sent,
\* leaves it excused.
LEMMA PostingsStep ==
    ASSUME DialogueInv, NEW h \in Workers, WD!Post(h) \/ WD!LoseAnswer(h)
    PROVE  DialogueInv'
<1>1. /\ stage[h] \in {"prompt", "menu"} /\ posts' = posts + 1 /\ UNCHANGED <<state, prompt, menu, lone>>
      /\ \/ stage[h] = "menu" /\ menus' = menus \cup {posts'} /\ seen' = seen \cup {posts'} /\ prompts' = prompts
         \/ stage[h] = "prompt" /\ prompts' = prompts \cup {posts'} /\ menus' = menus /\ seen' = seen
  BY DEF WD!Post, WD!LoseAnswer, WD!Shows
<1>2. /\ posts' \in Nat \ {0} /\ posts' # prompt /\ posts' # menu
      /\ 0..posts \subseteq 0..posts' /\ posts' \in 0..posts'
  BY <1>1 DEF DialogueInv, NumbersInv
<1>3. CASE WD!LoseAnswer(h)
  <2>1. owed' = owed \cup {posts'} /\ UNCHANGED <<stage, about, mingled>>
    BY <1>1, <1>3 DEF WD!LoseAnswer
  <2>2. Excused' = Excused \cup {posts'}
    BY <2>1 DEF Excused
  <2>3. NumbersInv'
    BY <1>1, <1>2, <2>1 DEF DialogueInv, NumbersInv
  <2>4. LoneInv'
    BY <1>1, <2>1, <2>2 DEF DialogueInv, LoneInv, WD!Alone, WD!Works
  <2>5. PromptsInv' /\ MenusInv'
    BY <1>1, <1>2, <2>1, <2>2 DEF DialogueInv, PromptsInv, MenusInv, PastPrompt, PastMenu, Sent
  <2>6. QED
    BY <2>3, <2>4, <2>5 DEF DialogueInv
<1>4. CASE WD!Post(h)
  <2>1. /\ stage' = [stage EXCEPT ![h] = IF @ = "menu" THEN "listed" ELSE "prompted"]
        /\ about' = [about EXCEPT ![h] = posts'] /\ owed' = owed
        /\ mingled' = IF h \in lone THEN mingled ELSE mingled \cup {posts'}
    BY <1>1, <1>4 DEF WD!Post
  <2>2. /\ stage[h] = "menu" => stage'[h] = "listed"
        /\ stage[h] = "prompt" => stage'[h] = "prompted"
        /\ about'[h] = posts'
        /\ \A g \in Workers : g # h => stage'[g] = stage[g] /\ about'[g] = about[g]
    BY <2>1 DEF DialogueInv, NumbersInv
  <2>3. Excused \subseteq Excused' /\ (h \in lone \/ posts' \in mingled') /\ mingled \subseteq mingled'
    BY <2>1 DEF Excused
  <2>4. NumbersInv'
    <3>1. stage' \in [Workers -> WD!Stages]
      BY <1>1, <2>1 DEF DialogueInv, NumbersInv, WD!Stages
    <3>2. about' \in [Workers -> 0..posts']
      BY <1>2, <2>1 DEF DialogueInv, NumbersInv
    <3>3. QED
      BY <1>1, <1>2, <3>1, <3>2 DEF DialogueInv, NumbersInv
  <2>5. LoneInv'
    <3>1. \A g \in Workers : WD!Works(g)' => WD!Works(g)
      BY <1>1, <2>2 DEF WD!Works
    <3>2. \A k \in lone' : WD!Alone(k)'
      BY <1>1, <3>1 DEF DialogueInv, LoneInv, WD!Alone
    <3>3. \A g \in Workers : stage'[g] \in {"prompted", "listed"} => g \in lone' \/ about'[g] \in mingled'
      BY <1>1, <2>2, <2>3 DEF DialogueInv, LoneInv
    <3>4. \A g \in lone' : stage'[g] = "prompt" => state' # "none"
      <4>1. stage'[h] # "prompt"
        BY <1>1, <2>2
      <4>2. \A g \in lone : g \in Workers /\ g # h => stage'[g] = stage[g]
        BY <2>2
      <4>3. \A g \in lone : stage'[g] = "prompt" => stage[g] = "prompt"
        BY <2>1, <4>1 DEF DialogueInv, NumbersInv
      <4>4. QED
        BY <1>1, <4>3 DEF DialogueInv, LoneInv
    <3>5. QED
      BY <3>2, <3>3, <3>4 DEF LoneInv
  <2>6. \A m : \A at \in {"prompted", "listed"} : Sent(m, at) => Sent(m, at)'
    BY <1>1, <2>2 DEF Sent
  <2>7. PastPrompt' \subseteq PastPrompt /\ PastMenu' \subseteq PastMenu
    BY <1>1, <2>2 DEF PastPrompt, PastMenu
  <2>8. PromptsInv'
    <3>1. \A m \in prompts' : m \in Excused' \/ m = prompt' \/ Sent(m, "prompted")'
      <4>1. \A m : stage[h] = "prompt" /\ m = posts' => Sent(m, "prompted")'
        BY <2>2 DEF Sent
      <4>2. \A m \in prompts : m \in Excused' \/ m = prompt' \/ Sent(m, "prompted")'
        BY <1>1, <2>3, <2>6 DEF DialogueInv, PromptsInv
      <4>3. QED
        BY <1>1, <4>1, <4>2
    <3>2. PastPrompt' # {} /\ prompt' \in prompts' => prompt' \in Excused'
      BY <1>1, <1>2, <2>3, <2>7 DEF DialogueInv, PromptsInv
    <3>3. state' = "none" => prompts' \subseteq Excused'
      <4>1. h \in lone /\ stage[h] = "prompt" => state # "none"
        BY DEF DialogueInv, LoneInv
      <4>2. QED
        BY <1>1, <2>3, <4>1 DEF DialogueInv, PromptsInv, Excused
    <3>4. QED
      BY <3>1, <3>2, <3>3 DEF PromptsInv
  <2>9. MenusInv'
    <3>1. \A m \in menus' : m \in Excused' \/ m = menu' \/ Sent(m, "listed")'
      <4>1. \A m : stage[h] = "menu" /\ m = posts' => Sent(m, "listed")'
        BY <2>2 DEF Sent
      <4>2. \A m \in menus : m \in Excused' \/ m = menu' \/ Sent(m, "listed")'
        BY <1>1, <2>3, <2>6 DEF DialogueInv, MenusInv
      <4>3. QED
        BY <1>1, <4>1, <4>2
    <3>2. PastMenu' # {} /\ menu' \in menus' => menu' \in Excused'
      BY <1>1, <1>2, <2>3, <2>7 DEF DialogueInv, MenusInv
    <3>3. QED
      BY <3>1, <3>2 DEF MenusInv
  <2>10. QED
    BY <2>4, <2>5, <2>8, <2>9 DEF DialogueInv
<1>5. QED
  BY <1>3, <1>4

\* What admins and the handlers of the dialogue do.
LEMMA DialogueStep ==
    ASSUME DialogueInv, [WD!DialogueNext]_DialogueVars
    PROVE  DialogueInv'
<1>1. CASE UNCHANGED DialogueVars
  BY <1>1 DEF DialogueVars, DialogueInv, NumbersInv, LoneInv, PromptsInv, MenusInv, PastPrompt, PastMenu,
              Excused, Sent, WD!Alone, WD!Works
<1>2. CASE WD!WordsCommand
  <2>1. /\ posts' = posts + 1 /\ menus' = menus \cup {posts'} /\ seen' = seen \cup {posts'}
        /\ owed' = owed \cup {posts'}
        /\ UNCHANGED <<state, prompt, menu, prompts, stage, about, lone, mingled>>
    BY <1>2 DEF WD!WordsCommand
  <2>2. Excused' = Excused \cup {posts'} /\ posts' \in Nat \ {0} /\ posts' # menu
    BY <2>1 DEF Excused, DialogueInv, NumbersInv
  <2>3. 0..posts \subseteq 0..posts' /\ posts' \in 0..posts'
    BY <2>1 DEF DialogueInv, NumbersInv
  <2>4. NumbersInv'
    BY <2>1, <2>2, <2>3 DEF DialogueInv, NumbersInv
  <2>5. LoneInv'
    BY <2>1, <2>2 DEF DialogueInv, LoneInv, WD!Alone, WD!Works
  <2>6. PromptsInv' /\ MenusInv'
    BY <2>1, <2>2 DEF DialogueInv, PromptsInv, MenusInv, PastPrompt, PastMenu, Sent
  <2>7. QED
    BY <2>4, <2>5, <2>6 DEF DialogueInv
<1>3. QED
  BY <1>1, <1>2, BeginningsStep, GoingsStep, EndingsStep, PostingsStep DEF WD!DialogueNext

\* The chat shows the menu and the prompt that the session remembers, and beside them only what
\* failed requests, overlapping handlers, other menus and late taps have left there.
THEOREM DialogueIsClean == ModerationSpec => []DialogueClean
<1>1. ModerationInit => DialogueInv
  BY DialogueInit DEF ModerationInit
<1>2. DialogueInv /\ [ModerationNext]_moderationVars => DialogueInv'
  <2>1. [ModerationNext]_moderationVars => [WD!DialogueNext]_DialogueVars
    BY DEF ModerationNext, moderationVars, DialogueMoves, ChainMoves, GuardsMove, SettingsMove, WordsMove,
           LimitsMove, RoutingMoves, LockMoves, LimiterMoves
  <2>2. QED
    BY <2>1, DialogueStep
<1>3. DialogueInv => DialogueClean
  <2>1. WD!Quiet => \A h \in Workers : stage[h] \notin {"prompted", "listed"}
    BY DEF WD!Quiet, WD!Works
  <2>2. DialogueInv /\ WD!Quiet => \A m : ~Sent(m, "prompted") /\ ~Sent(m, "listed")
    BY <2>1 DEF Sent
  <2>3. QED
    BY <2>2 DEF DialogueInv, PromptsInv, MenusInv, Excused, DialogueClean, WD!DialogueClean
<1>4. QED
  BY <1>1, <1>2, <1>3, PTL DEF ModerationSpec

-----------------------------------------------------------------------------
(***************************************************************************)
(* The routing of updates.                                                 *)
(***************************************************************************)
\* The chains that an update may be given to.
Routes == {"none", "state", "text", "any", "edit", "command", "_sys_join", "_sys_exit", "data", "prefix",
           "checkout"}

\* The updates that a worker may have in hand.
Jobs == [at : {"state", "route", "run"}, kind : RO!Kinds, of : Messages \cup {"other"}, version : Nat,
         state : {"", "asked"}, route : Routes, prev : Nat]

\* Worker w is at work on an update of message m.
InHand(w, m) == routed[w] # RO!Rest /\ routed[w].of = m

\* What a worker knows of the message whose update it has in hand: before the chain is
\* chosen the cache still has the text before, and afterwards its own.
Handling(j) ==
    /\ j \in Jobs
    /\ j.of = "other" <=> j.kind \notin {"text", "edit"}
    /\ j.route = "edit" => j.at = "run" /\ j.kind = "edit"
    /\ j.of \in Messages \ crossed =>
         /\ j.version = sent[j.of]
         /\ IF j.at = "run" THEN kept[j.of] = j.version ELSE kept[j.of] + 1 = j.version
         /\ j.kind = "edit" /\ j.at = "run" => j.prev = j.version - 1

\* Of a message whose updates never crossed only one is in hand, and the cache is as old as it.
RoutingInv ==
    /\ kept \in [Messages -> Nat] /\ sent \in [Messages -> Nat]
    /\ dialogue \in {"", "asked"}
    /\ routed \in [Workers -> Jobs \cup {RO!Rest}]
    /\ \A w \in Workers : routed[w] # RO!Rest => Handling(routed[w])
    /\ \A m \in Messages \ crossed :
          /\ \A v, w \in Workers : InHand(v, m) /\ InHand(w, m) => v = w
          /\ (\A w \in Workers : ~InHand(w, m)) => kept[m] = sent[m]
    /\ \A p \in prev : p[1] \notin crossed => p[3] = p[2] - 1

\* An update in hand is not the rest of a worker.
LEMMA JobsWork == \A j \in Jobs : j # RO!Rest
<1>1. ASSUME NEW j \in Jobs PROVE j # RO!Rest
  <2>1. j.at # "rest"
    BY DEF Jobs
  <2>2. RO!Rest.at = "rest"
    BY DEF RO!Rest
  <2>3. QED
    BY <2>1, <2>2
<1>2. QED
  BY <1>1

\* The elements of short sequences.
LEMMA ShortSequences ==
    ASSUME NEW S, NEW a \in S, NEW b \in S, NEW c \in S
    PROVE  /\ DOMAIN <<a>> \in SUBSET (1..3) /\ \A k \in DOMAIN <<a>> : <<a>>[k] \in S
           /\ DOMAIN <<a, b>> \in SUBSET (1..3) /\ \A k \in DOMAIN <<a, b>> : <<a, b>>[k] \in S
           /\ DOMAIN <<a, b, c>> \in SUBSET (1..3) /\ \A k \in DOMAIN <<a, b, c>> : <<a, b, c>>[k] \in S
<1>1. DOMAIN <<a>> \in SUBSET (1..3) /\ \A k \in DOMAIN <<a>> : <<a>>[k] \in S
  OBVIOUS
<1>2. DOMAIN <<a, b>> \in SUBSET (1..3) /\ \A k \in DOMAIN <<a, b>> : <<a, b>>[k] \in S
  OBVIOUS
<1>3. DOMAIN <<a, b, c>> \in SUBSET (1..3) /\ \A k \in DOMAIN <<a, b, c>> : <<a, b, c>>[k] \in S
  OBVIOUS
<1>4. QED
  BY <1>1, <1>2, <1>3

\* The first of up to three candidates.
LEMMA FirstOfThree ==
    ASSUME NEW S \in SUBSET (1..3), S # {}
    PROVE  \E k \in S : \A l \in S : k <= l
<1>1. \A k \in S : k = 1 \/ k = 2 \/ k = 3
  OBVIOUS
<1>2. CASE 1 \in S
  BY <1>1, <1>2
<1>3. CASE 1 \notin S /\ 2 \in S
  BY <1>1, <1>3
<1>4. CASE 1 \notin S /\ 2 \notin S
  <2>1. PICK k \in S : TRUE
    OBVIOUS
  <2>2. k = 3 /\ \A l \in S : k <= l
    BY <1>1, <1>4
  <2>3. QED
    BY <2>2
<1>5. QED
  BY <1>2, <1>3, <1>4

\* The route chosen for an update is one of the candidates, and that of edits is
\* chosen for edits only.
LEMMA ChosenRoute ==
    ASSUME NEW kind \in RO!Kinds, NEW st \in {"", "asked"}
    PROVE  /\ RO!Chosen(kind, st) \in Routes
           /\ RO!Chosen(kind, st) = "edit" => kind = "edit"
<1> DEFINE Fit == {r \in Routes \ {"none"} : r = "edit" => kind = "edit"}
           tried == RO!Candidates(kind, st)
           found == {k \in DOMAIN tried : tried[k] \in routes}
<1>1. /\ DOMAIN tried \in SUBSET (1..3)
      /\ \A k \in DOMAIN tried : tried[k] \in Fit
  <2> HIDE DEF Fit
  <2>1. CASE kind = "text" /\ st = ""
    <3>1. tried = <<"text", "any">>
      BY <2>1 DEF RO!Candidates
    <3>2. "text" \in Fit /\ "any" \in Fit
      BY <2>1 DEF Fit, Routes
    <3>3. QED
      BY <3>1, <3>2, ShortSequences
  <2>2. CASE kind = "text" /\ st # ""
    <3>1. tried = <<"state", "text", "any">>
      BY <2>2 DEF RO!Candidates
    <3>2. "state" \in Fit /\ "text" \in Fit /\ "any" \in Fit
      BY <2>2 DEF Fit, Routes
    <3>3. QED
      BY <3>1, <3>2, ShortSequences
  <2>3. CASE kind = "edit"
    <3>1. tried = <<"edit">>
      BY <2>3 DEF RO!Candidates
    <3>2. "edit" \in Fit
      BY <2>3 DEF Fit, Routes
    <3>3. QED
      BY <3>1, <3>2, ShortSequences
  <2>4. CASE kind = "command"
    <3>1. tried = <<"command", "any">>
      BY <2>4 DEF RO!Candidates
    <3>2. "command" \in Fit /\ "any" \in Fit
      BY <2>4 DEF Fit, Routes
    <3>3. QED
      BY <3>1, <3>2, ShortSequences
  <2>5. CASE kind = "join"
    <3>1. tried = <<"_sys_join">>
      BY <2>5 DEF RO!Candidates
    <3>2. "_sys_join" \in Fit
      BY <2>5 DEF Fit, Routes
    <3>3. QED
      BY <3>1, <3>2, ShortSequences
  <2>6. CASE kind = "exit"
    <3>1. tried = <<"_sys_exit">>
      BY <2>6 DEF RO!Candidates
    <3>2. "_sys_exit" \in Fit
      BY <2>6 DEF Fit, Routes
    <3>3. QED
      BY <3>1, <3>2, ShortSequences
  <2>7. CASE kind = "query"
    <3>1. tried = <<"data", "prefix">>
      BY <2>7 DEF RO!Candidates
    <3>2. "data" \in Fit /\ "prefix" \in Fit
      BY <2>7 DEF Fit, Routes
    <3>3. QED
      BY <3>1, <3>2, ShortSequences
  <2>8. CASE kind = "checkout"
    <3>1. tried = <<"checkout">>
      BY <2>8 DEF RO!Candidates
    <3>2. "checkout" \in Fit
      BY <2>8 DEF Fit, Routes
    <3>3. QED
      BY <3>1, <3>2, ShortSequences
  <2>9. QED
    BY <2>1, <2>2, <2>3, <2>4, <2>5, <2>6, <2>7, <2>8 DEF RO!Kinds
<1>2. CASE found = {}
  BY <1>2 DEF RO!Chosen, Routes
<1>3. CASE found # {}
  <2>1. \E k \in found : \A l \in found : k <= l
    BY <1>1, <1>3, FirstOfThree
  <2>2. PICK k \in found : RO!Chosen(kind, st) = tried[k]
    BY <1>3, <2>1 DEF RO!Chosen
  <2>3. QED
    BY <1>1, <2>2
<1>4. QED
  BY <1>2, <1>3

\* No message has arrived when the bot starts.
LEMMA RoutingInit == RO!InitRouting => RoutingInv
<1> SUFFICES ASSUME RO!InitRouting PROVE RoutingInv
  OBVIOUS
<1>1. /\ kept = [m \in Messages |-> 0] /\ sent = [m \in Messages |-> 0] /\ dialogue = ""
      /\ routed = [w \in Workers |-> RO!Rest] /\ prev = {}
  BY DEF RO!InitRouting
<1>2. \A w \in Workers : routed[w] = RO!Rest
  BY <1>1
<1>3. kept \in [Messages -> Nat] /\ sent \in [Messages -> Nat] /\ \A m \in Messages : kept[m] = sent[m]
  BY <1>1
<1>4. routed \in [Workers -> Jobs \cup {RO!Rest}]
  BY <1>1
<1>5. QED
  BY <1>1, <1>2, <1>3, <1>4 DEF RoutingInv, InHand

\* An update arrives.
LEMMA TakeKeeps ==
    ASSUME RoutingInv, NEW w \in Workers, RO!Take(w)
    PROVE  RoutingInv'
<1>1. /\ routed[w] = RO!Rest /\ kept' = kept /\ dialogue' = dialogue /\ prev' = prev
  BY DEF RO!Take
<1>2. CASE /\ \E kind \in RO!Kinds \ {"text", "edit"} :
                 routed' = [routed EXCEPT ![w] = RO!Update(kind, "other", 0)]
           /\ UNCHANGED <<sent, crossed>>
  <2>1. PICK kind \in RO!Kinds \ {"text", "edit"} : routed' = [routed EXCEPT ![w] = RO!Update(kind, "other", 0)]
    BY <1>2
  <2>2. PICK j : j = RO!Update(kind, "other", 0)
    OBVIOUS
  <2>3. j \in Jobs /\ j.of = "other" /\ j.route = "none" /\ j.kind = kind
    BY <2>2 DEF RO!Update, Jobs, Routes
  <2>4. routed' = [routed EXCEPT ![w] = j] /\ routed' \in [Workers -> Jobs \cup {RO!Rest}]
    BY <2>1, <2>2, <2>3 DEF RoutingInv
  <2>5. \A m \in Messages, v \in Workers : InHand(v, m)' <=> InHand(v, m)
    BY <1>1, <2>3, <2>4, ModerationAssumption DEF InHand, RoutingInv
  <2>6. ASSUME NEW v \in Workers, routed'[v] # RO!Rest PROVE Handling(routed[v])'
    <3>1. CASE v = w
      BY <1>2, <2>3, <2>4, <3>1, ModerationAssumption DEF Handling, RoutingInv
    <3>2. CASE v # w
      BY <1>1, <1>2, <2>4, <2>6, <3>2 DEF Handling, RoutingInv
    <3>3. QED
      BY <3>1, <3>2
  <2>7. QED
    BY <1>1, <1>2, <2>4, <2>5, <2>6 DEF RoutingInv
<1>3. CASE \E m \in Messages :
             /\ sent' = [sent EXCEPT ![m] = @ + 1]
             /\ routed' = [routed EXCEPT ![w] = RO!Update(IF sent[m] = 0 THEN "text" ELSE "edit", m, sent'[m])]
             /\ crossed' = IF \E v \in Workers : routed[v] # RO!Rest /\ routed[v].of = m
                           THEN crossed \cup {m} ELSE crossed
  <2>1. PICK m \in Messages :
             /\ sent' = [sent EXCEPT ![m] = @ + 1]
             /\ routed' = [routed EXCEPT ![w] = RO!Update(IF sent[m] = 0 THEN "text" ELSE "edit", m, sent'[m])]
             /\ crossed' = IF \E v \in Workers : InHand(v, m) THEN crossed \cup {m} ELSE crossed
    BY <1>3 DEF InHand
  <2>2. PICK j : j = RO!Update(IF sent[m] = 0 THEN "text" ELSE "edit", m, sent'[m])
    OBVIOUS
  <2>3. sent' \in [Messages -> Nat] /\ sent'[m] = sent[m] + 1 /\ sent[m] \in Nat /\ kept[m] \in Nat
    <3>1. sent[m] \in Nat /\ kept[m] \in Nat /\ sent \in [Messages -> Nat]
      BY DEF RoutingInv
    <3>2. PICK n \in Nat : n = sent[m] + 1
      BY <3>1
    <3>3. sent' = [sent EXCEPT ![m] = n]
      BY <2>1, <3>2
    <3>4. QED
      BY <3>1, <3>2, <3>3
  <2>4. /\ j \in Jobs /\ j.of = m /\ j.route = "none" /\ j.kind \in {"text", "edit"} /\ j.at = "state"
        /\ j.version = sent'[m] /\ m # "other"
    BY <2>2, <2>3, ModerationAssumption DEF RO!Update, Jobs, Routes, RO!Kinds
  <2>5. routed' = [routed EXCEPT ![w] = j] /\ routed' \in [Workers -> Jobs \cup {RO!Rest}]
    BY <2>1, <2>2, <2>4 DEF RoutingInv
  <2>6. m \notin crossed' => \A v \in Workers : ~InHand(v, m)
    BY <2>1
  <2>7. /\ \A v \in Workers : v # w => routed'[v] = routed[v]
        /\ routed'[w] = j /\ j # RO!Rest
    BY <2>4, <2>5, JobsWork DEF RoutingInv
  <2>8. ASSUME NEW v \in Workers, routed'[v] # RO!Rest PROVE Handling(routed[v])'
    <3>1. CASE v = w
      <4>1. m \notin crossed' => kept[m] = sent[m]
        BY <2>1, <2>6 DEF RoutingInv
      <4>2. QED
        BY <1>1, <2>3, <2>4, <2>7, <3>1, <4>1 DEF Handling
    <3>2. CASE v # w
      <4>1. Handling(routed[v]) /\ routed'[v] = routed[v] /\ crossed \subseteq crossed'
        BY <2>1, <2>7, <2>8, <3>2 DEF RoutingInv
      <4>2. routed[v].of \in Messages \ crossed' => sent'[routed[v].of] = sent[routed[v].of]
        BY <2>1, <2>6, <2>7, <2>8, <3>2 DEF InHand, RoutingInv
      <4>3. QED
        BY <1>1, <4>1, <4>2 DEF Handling
    <3>3. QED
      BY <3>1, <3>2
  <2>9. ASSUME NEW n \in Messages \ crossed'
        PROVE  /\ \A u, v \in Workers : InHand(u, n)' /\ InHand(v, n)' => u = v
               /\ (\A v \in Workers : ~InHand(v, n)') => kept'[n] = sent'[n]
    <3>1. CASE n = m
      BY <2>4, <2>6, <2>7, <3>1 DEF InHand
    <3>2. CASE n # m
      <4>1. \A v \in Workers : InHand(v, n)' <=> InHand(v, n)
        BY <1>1, <2>4, <2>7, <3>2 DEF InHand
      <4>2. n \in Messages \ crossed /\ sent'[n] = sent[n]
        BY <2>1, <3>2 DEF RoutingInv
      <4>3. QED
        BY <1>1, <4>1, <4>2 DEF RoutingInv
    <3>3. QED
      BY <3>1, <3>2
  <2>10. \A p \in prev' : p[1] \notin crossed' => p[3] = p[2] - 1
    BY <1>1, <2>1 DEF RoutingInv
  <2>11. QED
    BY <1>1, <2>3, <2>5, <2>8, <2>9, <2>10 DEF RoutingInv
<1>4. QED
  BY <1>2, <1>3 DEF RO!Take

\* A step of w with the update it has in hand, which it keeps.
LEMMA SameHands ==
    ASSUME RoutingInv, NEW w \in Workers, routed[w] # RO!Rest, NEW j \in Jobs, j.of = routed[w].of,
           routed' = [routed EXCEPT ![w] = j]
    PROVE  /\ routed' \in [Workers -> Jobs \cup {RO!Rest}]
           /\ \A v \in Workers : v # w => routed'[v] = routed[v]
           /\ routed'[w] = j
           /\ \A v \in Workers : \A m : InHand(v, m)' <=> InHand(v, m)
<1>1. /\ routed' \in [Workers -> Jobs \cup {RO!Rest}]
      /\ \A v \in Workers : v # w => routed'[v] = routed[v]
      /\ routed'[w] = j
  BY DEF RoutingInv
<1>2. QED
  BY <1>1, JobsWork DEF InHand

\* The worker reads the state of the sender's dialogue.
LEMMA LookKeeps ==
    ASSUME RoutingInv, NEW w \in Workers, RO!Look(w)
    PROVE  RoutingInv'
<1>1. /\ routed[w] # RO!Rest /\ routed[w].at = "state" /\ UNCHANGED <<kept, sent, crossed, prev, dialogue>>
      /\ Handling(routed[w])
  BY DEF RO!Look, RoutingInv
<1>2. PICK st \in {"", "asked"} : routed' = [routed EXCEPT ![w].at = "route", ![w].state = st]
  <2>1. "" \in {"", "asked"} /\ dialogue \in {"", "asked"}
    BY DEF RoutingInv
  <2>2. QED
    BY <2>1 DEF RO!Look
<1>3. PICK j : j = [routed[w] EXCEPT !.at = "route", !.state = st]
  OBVIOUS
<1>4. /\ j \in Jobs /\ j.of = routed[w].of /\ j.version = routed[w].version /\ j.kind = routed[w].kind
      /\ j.at = "route" /\ j.route = routed[w].route
  BY <1>1, <1>3 DEF Handling, Jobs
<1>5. routed' = [routed EXCEPT ![w] = j]
  BY <1>2, <1>3
<1>6. /\ routed' \in [Workers -> Jobs \cup {RO!Rest}]
      /\ \A v \in Workers : v # w => routed'[v] = routed[v]
      /\ routed'[w] = j
      /\ \A v \in Workers : \A m : InHand(v, m)' <=> InHand(v, m)
  BY <1>1, <1>4, <1>5, SameHands
<1>7. Handling(j)'
  BY <1>1, <1>4 DEF Handling
<1>8. ASSUME NEW v \in Workers, routed'[v] # RO!Rest PROVE Handling(routed[v])'
  <2>1. CASE v = w
    BY <1>6, <1>7, <2>1 DEF Handling
  <2>2. CASE v # w
    BY <1>1, <1>6, <1>8, <2>2 DEF Handling, RoutingInv
  <2>3. QED
    BY <2>1, <2>2
<1>9. QED
  BY <1>1, <1>6, <1>8 DEF RoutingInv

\* The worker chooses a chain and notes the text, which tells an edit what was before.
LEMMA ChooseKeeps ==
    ASSUME RoutingInv, NEW w \in Workers, RO!Choose(w)
    PROVE  RoutingInv'
<1>1. /\ routed[w] # RO!Rest /\ routed[w].at = "route" /\ UNCHANGED <<sent, crossed, prev, dialogue>>
      /\ Handling(routed[w]) /\ routed[w] \in Jobs
  BY DEF RO!Choose, RoutingInv, Handling
<1> DEFINE kind == routed[w].kind
           m == routed[w].of
<1>2. kind \in RO!Kinds /\ routed[w].state \in {"", "asked"}
  BY <1>1 DEF Jobs
<1>3. PICK r : r = RO!Chosen(kind, routed[w].state)
  OBVIOUS
<1>4. r \in Routes /\ (r = "edit" => kind = "edit")
  BY <1>2, <1>3, ChosenRoute
<1>5. PICK p : p = IF kind = "edit" THEN kept[m] ELSE 0
  OBVIOUS
<1>6. kind = "edit" => m \in Messages
  BY <1>1 DEF Handling, Jobs
<1>7. p \in Nat
  BY <1>5, <1>6 DEF RoutingInv
<1>8. PICK j : j = [routed[w] EXCEPT !.at = "run", !.route = r, !.prev = p]
  OBVIOUS
<1>9. /\ j \in Jobs /\ j.of = m /\ j.version = routed[w].version /\ j.kind = kind
      /\ j.at = "run" /\ j.route = r /\ j.prev = p
  BY <1>1, <1>4, <1>7, <1>8 DEF Jobs
<1>10. /\ routed' = [routed EXCEPT ![w] = j]
       /\ kept' = IF kind \in {"text", "edit"} THEN [kept EXCEPT ![m] = routed[w].version] ELSE kept
  BY <1>3, <1>5, <1>8 DEF RO!Choose
<1>11. /\ routed' \in [Workers -> Jobs \cup {RO!Rest}]
       /\ \A v \in Workers : v # w => routed'[v] = routed[v]
       /\ routed'[w] = j
       /\ \A v \in Workers : \A n : InHand(v, n)' <=> InHand(v, n)
  BY <1>1, <1>9, <1>10, SameHands
<1>12. /\ kept' \in [Messages -> Nat]
       /\ \A n \in Messages : n # m => kept'[n] = kept[n]
       /\ m \in Messages => kept'[m] = routed[w].version
  <2>1. routed[w].version \in Nat /\ (m \in Messages => kind \in {"text", "edit"})
    BY <1>1, ModerationAssumption DEF Jobs, Handling
  <2>2. QED
    BY <1>10, <2>1 DEF RoutingInv
<1>13. Handling(j)'
  <2>1. m \in Messages \ crossed => kept[m] + 1 = routed[w].version /\ routed[w].version = sent[m]
    BY <1>1 DEF Handling
  <2>2. ASSUME m \in Messages \ crossed, kind = "edit" PROVE p = routed[w].version - 1
    <3>1. p = kept[m] /\ kept[m] \in Nat /\ kept[m] + 1 = routed[w].version
      BY <1>5, <2>1, <2>2 DEF RoutingInv
    <3>2. QED
      BY <3>1
  <2>3. j.of = "other" <=> j.kind \notin {"text", "edit"}
    BY <1>1, <1>9 DEF Handling
  <2>4. QED
    BY <1>1, <1>4, <1>9, <1>12, <2>1, <2>2, <2>3 DEF Handling
<1>14. ASSUME NEW v \in Workers, routed'[v] # RO!Rest PROVE Handling(routed[v])'
  <2>1. CASE v = w
    BY <1>11, <1>13, <2>1 DEF Handling
  <2>2. CASE v # w
    <3>1. Handling(routed[v]) /\ routed'[v] = routed[v] /\ routed[v] # RO!Rest
      BY <1>11, <1>14, <2>2 DEF RoutingInv
    <3>2. routed[v].of \in Messages \ crossed => routed[v].of # m
      BY <1>1, <2>2, <3>1 DEF RoutingInv, InHand
    <3>3. routed[v].of \in Messages \ crossed => kept'[routed[v].of] = kept[routed[v].of]
      BY <1>12, <3>2
    <3>4. QED
      BY <1>1, <3>1, <3>3 DEF Handling
  <2>3. QED
    BY <2>1, <2>2
<1>15. ASSUME NEW n \in Messages \ crossed', \A v \in Workers : ~InHand(v, n)' PROVE kept'[n] = sent'[n]
  <2>1. \A v \in Workers : ~InHand(v, n)
    BY <1>11, <1>15
  <2>2. n # m
    BY <1>1, <2>1 DEF InHand
  <2>3. QED
    BY <1>1, <1>12, <2>1, <2>2 DEF RoutingInv
<1>16. \A n \in Messages \ crossed' : \A u, v \in Workers : InHand(u, n)' /\ InHand(v, n)' => u = v
  BY <1>1, <1>11 DEF RoutingInv
<1>17. QED
  BY <1>1, <1>11, <1>12, <1>14, <1>15, <1>16 DEF RoutingInv

\* The handlers of an update run, and the worker rests.
LEMMA RunKeeps ==
    ASSUME RoutingInv, NEW w \in Workers, RO!Run(w)
    PROVE  RoutingInv'
<1>1. /\ routed[w] # RO!Rest /\ routed[w].at = "run" /\ UNCHANGED <<kept, sent, crossed>>
      /\ Handling(routed[w]) /\ routed[w] \in Jobs
      /\ routed' = [routed EXCEPT ![w] = RO!Rest]
  BY DEF RO!Run, RoutingInv, Handling
<1>2. /\ routed' \in [Workers -> Jobs \cup {RO!Rest}] /\ routed'[w] = RO!Rest
      /\ \A v \in Workers : v # w => routed'[v] = routed[v]
  BY <1>1 DEF RoutingInv
<1>3. dialogue' \in {"", "asked"}
  BY DEF RO!Run, RoutingInv
<1>4. \A v \in Workers, n \in Messages : InHand(v, n)' <=> InHand(v, n) /\ v # w
  BY <1>2 DEF InHand
<1>5. ASSUME NEW p \in prev', p[1] \notin crossed' PROVE p[3] = p[2] - 1
  <2>1. CASE p \in prev
    BY <1>1, <1>5, <2>1 DEF RoutingInv
  <2>2. CASE p \notin prev
    <3>1. routed[w].route = "edit" /\ p = <<routed[w].of, routed[w].version, routed[w].prev>>
      BY <2>2 DEF RO!Run
    <3>2. routed[w].kind = "edit" /\ routed[w].of \in Messages
      BY <1>1, <3>1 DEF Handling, Jobs
    <3>3. routed[w].prev = routed[w].version - 1
      BY <1>1, <1>5, <3>1, <3>2 DEF Handling
    <3>4. QED
      BY <3>1, <3>3
  <2>3. QED
    BY <2>1, <2>2
<1>6. ASSUME NEW n \in Messages \ crossed', \A v \in Workers : ~InHand(v, n)' PROVE kept'[n] = sent'[n]
  <2>1. CASE InHand(w, n)
    BY <1>1, <1>6, <2>1 DEF InHand, Handling
  <2>2. CASE ~InHand(w, n)
    BY <1>1, <1>4, <1>6, <2>2, ZenonT(40) DEF RoutingInv
  <2>3. QED
    BY <2>1, <2>2
<1>7. ASSUME NEW v \in Workers, routed'[v] # RO!Rest PROVE Handling(routed[v])'
  BY <1>1, <1>2, <1>7 DEF Handling, RoutingInv
<1>8. \A n \in Messages \ crossed' : \A u, v \in Workers : InHand(u, n)' /\ InHand(v, n)' => u = v
  BY <1>1, <1>4 DEF RoutingInv
<1>9. QED
  BY <1>1, <1>2, <1>3, <1>5, <1>6, <1>7, <1>8 DEF RoutingInv

\* A message whose text the cache forgets is no longer vouched for.
LEMMA ForgetKeeps ==
    ASSUME RoutingInv, RO!Forget
    PROVE  RoutingInv'
<1>1. PICK m \in Messages : kept' = [kept EXCEPT ![m] = 0] /\ crossed' = crossed \cup {m}
  BY DEF RO!Forget
<1>2. UNCHANGED <<sent, routed, prev, dialogue>>
  BY DEF RO!Forget
<1>3. kept' \in [Messages -> Nat] /\ \A n \in Messages \ crossed' : n \notin crossed /\ kept'[n] = kept[n]
  BY <1>1 DEF RoutingInv
<1>4. ASSUME NEW v \in Workers, routed'[v] # RO!Rest PROVE Handling(routed[v])'
  BY <1>1, <1>2, <1>3, <1>4 DEF Handling, RoutingInv
<1>5. \A v \in Workers, n \in Messages : InHand(v, n)' <=> InHand(v, n)
  BY <1>2 DEF InHand
<1>6. QED
  BY <1>1, <1>2, <1>3, <1>4, <1>5 DEF RoutingInv

\* Every step of the routing keeps the invariant.
LEMMA RoutingStep ==
    ASSUME RoutingInv, [RO!RoutingNext]_RoutingVars
    PROVE  RoutingInv'
<1>1. CASE UNCHANGED RoutingVars \/ RO!Registered
  <2>1. UNCHANGED <<dialogue, kept, sent, routed, crossed, prev>>
    BY <1>1 DEF RoutingVars, RO!Registered
  <2>2. /\ \A w \in Workers : routed'[w] # RO!Rest => Handling(routed[w])'
        /\ \A w \in Workers, m \in Messages : InHand(w, m)' <=> InHand(w, m)
    BY <2>1 DEF RoutingInv, Handling, InHand
  <2>3. /\ kept' \in [Messages -> Nat] /\ sent' \in [Messages -> Nat] /\ dialogue' \in {"", "asked"}
        /\ routed' \in [Workers -> Jobs \cup {RO!Rest}]
        /\ \A p \in prev' : p[1] \notin crossed' => p[3] = p[2] - 1
    BY <2>1 DEF RoutingInv
  <2>4. \A m \in Messages \ crossed' :
          /\ \A v, w \in Workers : InHand(v, m)' /\ InHand(w, m)' => v = w
          /\ (\A w \in Workers : ~InHand(w, m)') => kept'[m] = sent'[m]
    BY <2>1, <2>2 DEF RoutingInv
  <2>5. QED
    BY <2>2, <2>3, <2>4 DEF RoutingInv
<1>2. CASE RO!Forget
  BY <1>2, ForgetKeeps
<1>3. ASSUME NEW w \in Workers, RO!Take(w) \/ RO!Look(w) \/ RO!Choose(w) \/ RO!Run(w) PROVE RoutingInv'
  BY <1>3, TakeKeeps, LookKeeps, ChooseKeeps, RunKeeps
<1>4. QED
  BY <1>1, <1>2, <1>3 DEF RO!RoutingNext

\* An edit that overlaps no other update of its message is told the text just before
\* it, and the cache has the last text of a message that no worker has in hand.
THEOREM EditsKnowTheText == ModerationSpec => []TextOfLatest
<1>1. ModerationInit => RoutingInv
  BY RoutingInit DEF ModerationInit
<1>2. RoutingInv /\ [ModerationNext]_moderationVars => RoutingInv'
  <2>1. [ModerationNext]_moderationVars => [RO!RoutingNext]_RoutingVars
    BY DEF ModerationNext, moderationVars, RoutingMoves, ChainMoves, GuardsMove, SettingsMove, WordsMove,
           DialogueMoves, LimitsMove, LockMoves, LimiterMoves
  <2>2. QED
    BY <2>1, RoutingStep
<1>3. RoutingInv => TextOfLatest
  BY DEF RoutingInv, TextOfLatest, RO!TextOfLatest, InHand
<1>4. QED
  BY <1>1, <1>2, <1>3, PTL DEF ModerationSpec

-----------------------------------------------------------------------------
(***************************************************************************)
(* Settings.                                                               *)
(***************************************************************************)
\* a is changing the key k.
Ongoing(a, k) == ops[a] # SE!Idle /\ ops[a].key = k
\* A change under way: a Toggle holds Bot.mu, a confirmed click is about a switch.
ChangeOK(a) ==
    /\ DOMAIN ops[a] = {"what", "key", "arg", "saw"}
    /\ ops[a].what \in {"flip", "set", "confirm", "block", "allow"}
    /\ ops[a].key \in SE!Keys
    /\ ops[a].what = "flip" => mutex = a
    /\ ops[a].what = "confirm" => ops[a].key \in Switches

\* A key of which no changes overlap has at most one under way, which saw the value
\* that is still there.
ChangesInv ==
    /\ DOMAIN store = SE!Keys /\ DOMAIN want = SE!Keys /\ DOMAIN ops = Workers
    /\ \A a \in Workers : ops[a] # SE!Idle => ChangeOK(a)
    /\ \A k \in SE!Keys \ overlaid :
          /\ store[k] = want[k]
          /\ \A a \in Workers : Ongoing(a, k) => ops[a].saw = store[k]
          /\ \A a, b \in Workers : Ongoing(a, k) /\ Ongoing(b, k) => a = b

\* Lights, and what a handler of a tap knows.
Lamps == [is : {"on", "off"}, of : Nat]
Tapping ==
    {SE!NoTap} \cup [at : {"no"}, key : {"none"}, layout : SE!Layouts]
    \cup [at : {"yes"}, key : Switches, layout : SE!Layouts]
    \cup [at : {"paint", "show"}, key : Switches, layout : SE!Layouts, light : Lamps]

\* The handler of a tap that switches k.
Tapped(a, k) == taps[a].at \in {"yes", "paint", "show"} /\ taps[a].key = k

\* The light tells what the switch counts for, unless the switch was written since.
Honest(k, light) == light.of <= writes[k] /\ (light.of = writes[k] => light.is = SE!Active(k, store[k]))

PanelShapes ==
    /\ writes \in [Switches -> Nat] /\ dialogs \subseteq Switches
    /\ captured \in SE!Layouts /\ layouts \in [SE!Layouts -> [Switches -> Lamps]]
    /\ panels \subseteq [Switches -> Lamps]
    /\ taps \in [Workers -> Tapping]

\* All lights are honest, those of the layouts, the panels, and those about to be painted.
AllHonest ==
    /\ \A k \in Switches : \A i \in SE!Layouts : Honest(k, layouts[i][k])
    /\ \A k \in Switches : \A lights \in panels : Honest(k, lights[k])
    /\ \A a \in Workers : taps[a].at = "paint" => Honest(taps[a].key, taps[a].light)

\* A change from a dialog is that of a tap; and who is alone with the switch has his light in
\* the layout that he displays.
TapsInv ==
    /\ \A a \in Workers : ops[a] # SE!Idle /\ ops[a].what = "confirm" => taps[a].at = "yes" /\ taps[a].key = ops[a].key
    /\ \A a, b \in Workers : \A k \in Switches \ crowded : Tapped(a, k) /\ Tapped(b, k) => a = b
    /\ \A a \in Workers : taps[a].at = "show" /\ taps[a].key \notin crowded =>
          layouts[taps[a].layout][taps[a].key] = taps[a].light

LightsInv == PanelShapes /\ AllHonest /\ TapsInv

\* A switch counts as on or off, and the lights that are read now are honest.
LEMMA LightsAreLamps ==
    ASSUME writes \in [Switches -> Nat]
    PROVE  SE!Lights \in [Switches -> Lamps] /\ \A k \in Switches : Honest(k, SE!Lights[k])
BY DEF SE!Lights, SE!Lit, SE!Active, SE!Light, Lamps, Honest

\* Nothing is changed when the bot starts.
LEMMA SettingsInit == SE!InitSettings => ChangesInv /\ LightsInv
<1> SUFFICES ASSUME SE!InitSettings PROVE ChangesInv /\ LightsInv
  OBVIOUS
<1>1. ChangesInv
  BY DEF SE!InitSettings, ChangesInv, Ongoing
<1>2. /\ writes = [k \in Switches |-> 0] /\ dialogs = {} /\ captured = 0
      /\ layouts = [i \in SE!Layouts |-> SE!Lights] /\ panels = {SE!Lights}
      /\ taps = [a \in Workers |-> SE!NoTap] /\ ops = [a \in Workers |-> SE!Idle]
  BY DEF SE!InitSettings
<1>3. writes \in [Switches -> Nat]
  BY <1>2
<1>4. SE!Lights \in [Switches -> Lamps] /\ \A k \in Switches : Honest(k, SE!Lights[k])
  BY <1>3, LightsAreLamps
<1>5. captured \in SE!Layouts
  BY <1>2 DEF SE!Layouts
<1>6. PanelShapes
  BY <1>2, <1>3, <1>4, <1>5 DEF PanelShapes, Tapping
<1>7. AllHonest /\ TapsInv
  BY <1>2, <1>4 DEF AllHonest, TapsInv, Tapped, SE!NoTap
<1>8. QED
  BY <1>1, <1>6, <1>7 DEF LightsInv

\* What a has to know of a change that it begins.
Begins(a, op) ==
    /\ DOMAIN op = {"what", "key", "arg", "saw"}
    /\ op.what \in {"flip", "set", "confirm", "block", "allow"}
    /\ op.key \in SE!Keys
    /\ op.saw = store[op.key]
    /\ op.what = "flip" => mutex = "free" /\ mutex' = a
    /\ op.what # "flip" => mutex' = mutex
    /\ op.what = "confirm" => op.key \in Switches

\* A change that reads its key is the only one of the key, or the key is overlaid.
LEMMA ReadKeeps ==
    ASSUME ChangesInv, NEW a \in Workers, NEW op, SE!Read(a, op), Begins(a, op)
    PROVE  /\ ChangesInv'
           /\ store' = store /\ ops[a] = SE!Idle /\ ops'[a] = op
           /\ \A b \in Workers : b # a => ops'[b] = ops[b]
<1>1. /\ ops[a] = SE!Idle /\ UNCHANGED <<store, want>> /\ ops' = [ops EXCEPT ![a] = op] /\ DOMAIN ops = Workers
      /\ overlaid' = overlaid \cup
            {k \in {op.key} : \E b \in Workers \ {a} :
                ops[b] # SE!Idle /\ ops[b].key = k /\ {op.what, ops[b].what} # {"flip"}}
  BY DEF SE!Read, ChangesInv
<1>2. /\ DOMAIN ops' = Workers /\ ops'[a] = op
      /\ \A b \in Workers : b # a => ops'[b] = ops[b]
  BY <1>1
<1>3. op # SE!Idle
  BY DEF Begins, SE!Idle
<1>4. ASSUME NEW b \in Workers, ops'[b] # SE!Idle PROVE ChangeOK(b)'
  <2>1. CASE b = a
    BY <1>2, <2>1 DEF ChangeOK, Begins
  <2>2. CASE b # a
    <3>1. ops'[b] = ops[b] /\ ChangeOK(b)
      BY <1>2, <1>4, <2>2 DEF ChangesInv
    <3>2. ops[b].what = "flip" => mutex # "free"
      BY <3>1, ModerationAssumption DEF ChangeOK
    <3>3. ops[b].what = "flip" => mutex' = mutex
      BY <3>2 DEF Begins
    <3>4. QED
      BY <3>1, <3>3 DEF ChangeOK
  <2>3. QED
    BY <2>1, <2>2
<1>5. ASSUME NEW b \in Workers, b # a, Ongoing(b, op.key) PROVE op.key \in overlaid'
  <2>1. ops[b] # SE!Idle /\ ops[b].key = op.key /\ ChangeOK(b)
    BY <1>5 DEF Ongoing, ChangesInv
  <2>2. ~(op.what = "flip" /\ ops[b].what = "flip")
    BY <2>1, ModerationAssumption DEF Begins, ChangeOK
  <2>3. {op.what, ops[b].what} # {"flip"}
    BY <2>2
  <2>4. QED
    BY <1>1, <1>5, <2>1, <2>3
<1>6. ASSUME NEW k \in SE!Keys \ overlaid'
      PROVE  /\ store'[k] = want'[k]
             /\ \A b \in Workers : Ongoing(b, k)' => ops'[b].saw = store'[k]
             /\ \A b, c \in Workers : Ongoing(b, k)' /\ Ongoing(c, k)' => b = c
  <2>1. k \in SE!Keys \ overlaid
    BY <1>1
  <2>2. \A b \in Workers : b # a => (Ongoing(b, k)' <=> Ongoing(b, k))
    BY <1>2 DEF Ongoing
  <2>3. Ongoing(a, k)' => k = op.key
    BY <1>2 DEF Ongoing
  <2>4. Ongoing(a, k)' => \A b \in Workers : b # a => ~Ongoing(b, k)
    BY <1>5, <2>3
  <2>5. \A b \in Workers : Ongoing(b, k)' => ops'[b].saw = store'[k]
    BY <1>1, <1>2, <2>1, <2>2, <2>3 DEF ChangesInv, Begins
  <2>6. \A b, c \in Workers : Ongoing(b, k)' /\ Ongoing(c, k)' => b = c
    BY <2>1, <2>2, <2>4 DEF ChangesInv
  <2>7. QED
    BY <1>1, <2>1, <2>5, <2>6 DEF ChangesInv
<1>7. QED
  BY <1>1, <1>2, <1>4, <1>6 DEF ChangesInv

\* A change that reads leaves the lights alone; if it is of a dialog, its tap is known.
LEMMA ReadKeepsLights ==
    ASSUME LightsInv, NEW a \in Workers, NEW op,
           op.what = "confirm" => taps[a].at = "yes" /\ taps[a].key = op.key,
           ops'[a] = op, \A b \in Workers : b # a => ops'[b] = ops[b],
           UNCHANGED <<store, writes, SE!panelVars>>
    PROVE  LightsInv'
<1>1. UNCHANGED <<store, writes, captured, layouts, taps, panels, dialogs, crowded>>
  BY DEF SE!panelVars
<1>2. PanelShapes' /\ AllHonest'
  BY <1>1 DEF LightsInv, PanelShapes, AllHonest, Honest
<1>3. TapsInv'
  <2>1. \A b \in Workers : ops'[b] # SE!Idle /\ ops'[b].what = "confirm" =>
            taps[b].at = "yes" /\ taps[b].key = ops'[b].key
    BY DEF LightsInv, TapsInv
  <2>2. QED
    BY <1>1, <2>1 DEF LightsInv, TapsInv, Tapped
<1>4. QED
  BY <1>2, <1>3 DEF LightsInv

\* What is written is counted: the lights there are stay honest.
LEMMA CountsWell ==
    ASSUME LightsInv, NEW k \in SE!Keys, SE!Counts(k), \A j \in SE!Keys : j # k => store'[j] = store[j]
    PROVE  /\ writes' \in [Switches -> Nat]
           /\ \A j \in Switches : writes'[j] = IF j = k THEN writes[j] + 1 ELSE writes[j]
           /\ \A j \in Switches, light \in Lamps : Honest(j, light) => Honest(j, light)'
<1>1. /\ writes' \in [Switches -> Nat] /\ writes \in [Switches -> Nat]
      /\ \A j \in Switches : writes'[j] = IF j = k THEN writes[j] + 1 ELSE writes[j]
  BY DEF LightsInv, PanelShapes, SE!Counts
<1>2. ASSUME NEW j \in Switches, NEW light \in Lamps, Honest(j, light) PROVE Honest(j, light)'
  <2>1. light.of \in Nat /\ light.of <= writes[j] /\ j \in SE!Keys
    BY <1>2 DEF Honest, Lamps, SE!Keys
  <2>2. CASE j = k
    BY <1>1, <2>1, <2>2 DEF Honest
  <2>3. CASE j # k
    BY <1>1, <1>2, <2>1, <2>3 DEF Honest
  <2>4. QED
    BY <2>2, <2>3
<1>3. QED
  BY <1>1, <1>2

\* A write without a read.
LEMMA WriteKeeps ==
    ASSUME ChangesInv, LightsInv, NEW k \in SE!Keys, NEW value, SE!Write(k, value),
           UNCHANGED <<mutex, SE!panelVars>>
    PROVE  ChangesInv' /\ LightsInv'
<1>1. /\ store' = [store EXCEPT ![k] = value] /\ want' = [want EXCEPT ![k] = value]
      /\ overlaid' = overlaid \cup {j \in {k} : \E b \in Workers : ops[b] # SE!Idle /\ ops[b].key = j}
      /\ ops' = ops /\ SE!Counts(k)
  BY DEF SE!Write
<1>2. /\ DOMAIN store' = SE!Keys /\ DOMAIN want' = SE!Keys /\ store'[k] = value /\ want'[k] = value
      /\ \A j \in SE!Keys : j # k => store'[j] = store[j] /\ want'[j] = want[j]
  BY <1>1 DEF ChangesInv
<1>3. ASSUME NEW j \in SE!Keys \ overlaid'
      PROVE  /\ store'[j] = want'[j]
             /\ \A b \in Workers : Ongoing(b, j)' => ops'[b].saw = store'[j]
             /\ \A b, c \in Workers : Ongoing(b, j)' /\ Ongoing(c, j)' => b = c
  <2>1. j \notin overlaid /\ \A b \in Workers : Ongoing(b, j)' <=> Ongoing(b, j)
    BY <1>1 DEF Ongoing
  <2>2. CASE j = k
    <3>1. \A b \in Workers : ~Ongoing(b, j)
      BY <1>1, <2>2 DEF Ongoing
    <3>2. QED
      BY <1>2, <2>1, <2>2, <3>1
  <2>3. CASE j # k
    BY <1>1, <1>2, <2>1, <2>3 DEF ChangesInv
  <2>4. QED
    BY <2>2, <2>3
<1>4. ChangesInv'
  BY <1>1, <1>2, <1>3 DEF ChangesInv, ChangeOK
<1>5. UNCHANGED <<captured, layouts, taps, panels, dialogs, crowded>>
  BY DEF SE!panelVars
<1>6. /\ writes' \in [Switches -> Nat]
      /\ \A j \in Switches, light \in Lamps : Honest(j, light) => Honest(j, light)'
  BY <1>1, <1>2, CountsWell
<1>7. PanelShapes'
  BY <1>5, <1>6 DEF LightsInv, PanelShapes
<1>8. AllHonest'
  <2>1. \A a \in Workers : taps[a].at = "paint" => taps[a].key \in Switches /\ taps[a].light \in Lamps
    BY DEF LightsInv, PanelShapes, Tapping, SE!NoTap
  <2>2. QED
    BY <1>5, <1>6, <2>1 DEF LightsInv, PanelShapes, AllHonest
<1>9. TapsInv'
  BY <1>1, <1>5 DEF LightsInv, TapsInv, Tapped
<1>10. QED
  BY <1>4, <1>7, <1>8, <1>9 DEF LightsInv

\* What a confirmed tap writes is a light.
LEMMA NotIsLight ==
    \A k, light : SE!Active(k, SE!Not(light)) = SE!Not(light) /\ SE!Not(light) \in {"on", "off"}
BY DEF SE!Active, SE!Not, SE!Light

\* The write of a change: for a key without overlap it is the one wanted.
LEMMA FinishKeeps ==
    ASSUME ChangesInv, NEW a \in Workers, SE!Finish(a)
    PROVE  ChangesInv'
<1>1. ops[a] # SE!Idle /\ ChangeOK(a) /\ DOMAIN ops = Workers
  BY DEF SE!Finish, ChangesInv
<1> DEFINE k == ops[a].key
<1>2. PICK value : value = SE!New(ops[a], ops[a].saw)
  OBVIOUS
<1>3. /\ store' = [store EXCEPT ![k] = value] /\ want' = [want EXCEPT ![k] = SE!New(ops[a], want[k])]
      /\ mutex' = IF ops[a].what = "flip" THEN "free" ELSE mutex
      /\ ops' = [ops EXCEPT ![a] = SE!Idle] /\ overlaid' = overlaid
  BY <1>2 DEF SE!Finish
<1>4. /\ DOMAIN ops' = Workers /\ ops'[a] = SE!Idle
      /\ \A b \in Workers : b # a => ops'[b] = ops[b]
  BY <1>1, <1>3
<1>5. /\ DOMAIN store' = SE!Keys /\ DOMAIN want' = SE!Keys
      /\ k \in SE!Keys /\ store'[k] = value /\ want'[k] = SE!New(ops[a], want[k])
      /\ \A j \in SE!Keys : j # k => store'[j] = store[j] /\ want'[j] = want[j]
  BY <1>1, <1>3 DEF ChangesInv, ChangeOK
<1>6. ASSUME NEW b \in Workers, ops'[b] # SE!Idle PROVE ChangeOK(b)'
  <2>1. b # a /\ ops'[b] = ops[b] /\ ChangeOK(b)
    BY <1>4, <1>6 DEF ChangesInv
  <2>2. ops[b].what = "flip" => mutex' = mutex
    BY <1>1, <1>3, <2>1 DEF ChangeOK
  <2>3. QED
    BY <2>1, <2>2 DEF ChangeOK
<1>7. ASSUME NEW j \in SE!Keys \ overlaid'
      PROVE  /\ store'[j] = want'[j]
             /\ \A b \in Workers : Ongoing(b, j)' => ops'[b].saw = store'[j]
             /\ \A b, c \in Workers : Ongoing(b, j)' /\ Ongoing(c, j)' => b = c
  <2>1. j \notin overlaid /\ \A b \in Workers : Ongoing(b, j)' <=> b # a /\ Ongoing(b, j)
    BY <1>3, <1>4 DEF Ongoing
  <2>2. CASE j = k
    <3>1. Ongoing(a, k)
      BY <1>1 DEF Ongoing
    <3>2. ops[a].saw = want[k] /\ \A b \in Workers : Ongoing(b, k) => b = a
      BY <1>5, <2>1, <2>2, <3>1 DEF ChangesInv
    <3>3. QED
      BY <1>2, <1>5, <2>1, <2>2, <3>2
  <2>3. CASE j # k
    BY <1>4, <1>5, <2>1, <2>3 DEF ChangesInv
  <2>4. QED
    BY <2>2, <2>3
<1>8. QED
  BY <1>4, <1>5, <1>6, <1>7 DEF ChangesInv

\* The write of a change, and the light that its tap is about to paint.
LEMMA FinishKeepsLights ==
    ASSUME ChangesInv, LightsInv, NEW a \in Workers, SE!Finish(a)
    PROVE  LightsInv'
<1>1. ops[a] # SE!Idle /\ ChangeOK(a) /\ DOMAIN ops = Workers
  BY DEF SE!Finish, ChangesInv
<1>0. PICK k : k = ops[a].key
  OBVIOUS
<1>2. PICK value : value = SE!New(ops[a], ops[a].saw)
  OBVIOUS
<1>3. /\ store' = [store EXCEPT ![k] = value] /\ SE!Counts(k)
      /\ ops' = [ops EXCEPT ![a] = SE!Idle]
      /\ UNCHANGED <<captured, layouts, panels, dialogs, crowded>>
      /\ taps' = IF ops[a].what = "confirm"
                 THEN [taps EXCEPT ![a] = [at |-> "paint", key |-> k, layout |-> @.layout,
                                           light |-> SE!Lit(value, writes'[k])]]
                 ELSE taps
  BY <1>0, <1>2 DEF SE!Finish
<1>4. /\ store'[k] = value /\ k \in SE!Keys
      /\ \A j \in SE!Keys : j # k => store'[j] = store[j]
  BY <1>0, <1>1, <1>3 DEF ChangesInv, ChangeOK
<1>5. /\ writes' \in [Switches -> Nat]
      /\ \A j \in Switches, light \in Lamps : Honest(j, light) => Honest(j, light)'
  BY <1>3, <1>4, CountsWell
<1>6. \A b \in Workers : taps[b].at = "paint" => taps[b].key \in Switches /\ taps[b].light \in Lamps
  BY DEF LightsInv, PanelShapes, Tapping, SE!NoTap
<1>7. \A b \in Workers : ops'[b] # SE!Idle => b # a /\ ops'[b] = ops[b]
  BY <1>1, <1>3
<1>8. CASE ops[a].what = "confirm"
  <2>1. k \in Switches /\ taps[a].at = "yes" /\ taps[a].key = k /\ taps[a].layout \in SE!Layouts
    BY <1>0, <1>1, <1>8 DEF ChangeOK, LightsInv, TapsInv, PanelShapes, Tapping, SE!NoTap
  <2>2. SE!Active(k, value) = value /\ value \in {"on", "off"}
    BY <1>2, <1>8, NotIsLight DEF SE!New
  <2>3. PICK light : light = SE!Lit(value, writes'[k])
    OBVIOUS
  <2>4. light \in Lamps /\ Honest(k, light)'
    <3>1. light.is = value /\ light.of = writes'[k] /\ light \in Lamps
      BY <1>5, <2>1, <2>2, <2>3 DEF SE!Lit, Lamps
    <3>2. writes'[k] \in Nat
      BY <1>5, <2>1
    <3>3. light.of <= writes'[k] /\ (light.of = writes'[k] => light.is = SE!Active(k, store'[k]))
      BY <1>4, <2>2, <3>1, <3>2
    <3>4. QED
      BY <3>1, <3>3 DEF Honest
  <2>5. /\ taps' \in [Workers -> Tapping]
        /\ taps'[a] = [at |-> "paint", key |-> k, layout |-> taps[a].layout, light |-> light]
        /\ \A b \in Workers : b # a => taps'[b] = taps[b]
    BY <1>3, <1>8, <2>1, <2>3, <2>4 DEF LightsInv, PanelShapes, Tapping
  <2>6. PanelShapes'
    BY <1>3, <1>5, <2>5 DEF LightsInv, PanelShapes
  <2>7. AllHonest'
    <3>1. ASSUME NEW b \in Workers, taps'[b].at = "paint" PROVE Honest(taps[b].key, taps[b].light)'
      <4>1. CASE b = a
        BY <2>4, <2>5, <4>1
      <4>2. CASE b # a
        <5>1. taps'[b] = taps[b] /\ Honest(taps[b].key, taps[b].light)
          BY <2>5, <3>1, <4>2 DEF LightsInv, AllHonest
        <5>2. \A j \in Switches, l \in Lamps : Honest(j, l) => Honest(j, l)'
          BY <1>5
        <5>3. PICK j \in Switches, l \in Lamps : taps[b].key = j /\ taps[b].light = l
          BY <1>6, <2>5, <3>1, <5>1
        <5>4. Honest(j, l)'
          BY <5>1, <5>2, <5>3
        <5>5. QED
          BY <5>1, <5>3, <5>4
      <4>3. QED
        BY <4>1, <4>2
    <3>2. QED
      BY <1>3, <1>5, <3>1 DEF LightsInv, PanelShapes, AllHonest
  <2>8. TapsInv'
    <3>1. \A b \in Workers, j \in Switches : Tapped(b, j)' => Tapped(b, j)
      BY <2>1, <2>5 DEF Tapped
    <3>2. \A b \in Workers : taps'[b].at = "show" => b # a /\ taps'[b] = taps[b]
      BY <2>5
    <3>3. \A b \in Workers : ops'[b] # SE!Idle /\ ops'[b].what = "confirm" =>
              taps'[b].at = "yes" /\ taps'[b].key = ops'[b].key
      BY <1>7, <2>5 DEF LightsInv, TapsInv
    <3>4. QED
      BY <1>3, <3>1, <3>2, <3>3 DEF LightsInv, TapsInv
  <2>9. QED
    BY <2>6, <2>7, <2>8 DEF LightsInv
<1>9. CASE ops[a].what # "confirm"
  <2>1. taps' = taps
    BY <1>3, <1>9
  <2>2. PanelShapes'
    BY <1>3, <1>5, <2>1 DEF LightsInv, PanelShapes
  <2>3. AllHonest'
    BY <1>3, <1>5, <1>6, <2>1 DEF LightsInv, PanelShapes, AllHonest
  <2>4. TapsInv'
    BY <1>3, <1>7, <2>1 DEF LightsInv, TapsInv, Tapped
  <2>5. QED
    BY <2>2, <2>3, <2>4 DEF LightsInv
<1>10. QED
  BY <1>8, <1>9

\* A change that a command or a dialog begins.
LEMMA BeginKeeps ==
    ASSUME ChangesInv, LightsInv, NEW a \in Workers,
           NEW what \in {"flip", "set", "confirm", "block", "allow"}, NEW k \in SE!Keys, NEW arg,
           SE!Read(a, SE!Op(what, k, arg)),
           IF what = "flip" THEN mutex = "free" /\ mutex' = a ELSE mutex' = mutex,
           what = "confirm" => taps[a].at = "yes" /\ taps[a].key = k /\ k \in Switches,
           UNCHANGED SE!panelVars
    PROVE  ChangesInv' /\ LightsInv'
<1>1. PICK op : op = SE!Op(what, k, arg)
  OBVIOUS
<1>2. SE!Read(a, op)
  BY <1>1
<1>3. Begins(a, op) /\ op.what = what /\ op.key = k
  BY <1>1 DEF Begins, SE!Op
<1>4. /\ ChangesInv'
      /\ store' = store /\ ops[a] = SE!Idle /\ ops'[a] = op
      /\ \A b \in Workers : b # a => ops'[b] = ops[b]
  BY <1>2, <1>3, ReadKeeps
<1>5. writes' = writes
  BY <1>2 DEF SE!Read
<1>6. LightsInv'
  BY <1>3, <1>4, <1>5, ReadKeepsLights
<1>7. QED
  BY <1>4, <1>6

\* The steps that change no key.
LEMMA ChangesStay ==
    ASSUME ChangesInv, UNCHANGED <<store, mutex, ops, want, overlaid>>
    PROVE  ChangesInv'
BY DEF ChangesInv, ChangeOK, Ongoing

\* What is honest stays so while no key is written.
LEMMA HonestStays ==
    ASSUME UNCHANGED <<store, writes>>, NEW k, NEW light, Honest(k, light)
    PROVE  Honest(k, light)'
BY DEF Honest

\* A new panel shows the present lights.
LEMMA SendKeeps ==
    ASSUME LightsInv, SE!SendSettings
    PROVE  LightsInv'
<1>1. /\ panels' = panels \cup {SE!Lights}
      /\ UNCHANGED <<store, ops, captured, layouts, taps, dialogs, writes, crowded>>
  BY DEF SE!SendSettings
<1>2. SE!Lights \in [Switches -> Lamps] /\ \A k \in Switches : Honest(k, SE!Lights[k])
  BY LightsAreLamps DEF LightsInv, PanelShapes
<1>3. PanelShapes'
  BY <1>1, <1>2 DEF LightsInv, PanelShapes
<1>4. AllHonest'
  <2>1. \A k \in Switches : \A lights \in panels' : Honest(k, lights[k])
    BY <1>1, <1>2 DEF LightsInv, AllHonest
  <2>2. \A k \in Switches : \A lights \in panels' : Honest(k, lights[k])'
    BY <1>1, <2>1 DEF Honest
  <2>3. QED
    BY <1>1, <2>2 DEF LightsInv, AllHonest, Honest
<1>5. TapsInv'
  BY <1>1 DEF LightsInv, TapsInv, Tapped
<1>6. QED
  BY <1>3, <1>4, <1>5 DEF LightsInv

\* A tap on a panel puts its lights into a layout that nobody uses.
LEMMA ClickKeeps ==
    ASSUME LightsInv, SE!Click
    PROVE  LightsInv'
<1>1. PICK i \in SE!Layouts, lights \in panels :
          i \notin SE!InUse /\ layouts' = [layouts EXCEPT ![i] = lights] /\ captured' = i
  BY DEF SE!Click
<1>2. (\E k \in Switches : dialogs' = dialogs \cup {k}) /\ UNCHANGED <<store, ops, taps, panels, writes, crowded>>
  BY DEF SE!Click
<1>3. lights \in [Switches -> Lamps]
  BY DEF LightsInv, PanelShapes
<1>4. PanelShapes'
  BY <1>1, <1>2, <1>3 DEF LightsInv, PanelShapes
<1>5. AllHonest'
  <2>1. \A j \in SE!Layouts : layouts'[j] = IF j = i THEN lights ELSE layouts[j]
    BY <1>1 DEF LightsInv, PanelShapes
  <2>2. \A k \in Switches : \A j \in SE!Layouts : Honest(k, layouts'[j][k])
    BY <2>1 DEF LightsInv, AllHonest
  <2>3. \A k \in Switches : \A j \in SE!Layouts : Honest(k, layouts[j][k])'
    BY <1>2, <2>2 DEF Honest
  <2>4. QED
    BY <1>2, <2>3 DEF LightsInv, AllHonest, Honest
<1>6. TapsInv'
  <2>1. \A a \in Workers : taps[a].at = "show" => taps[a].layout \in SE!Layouts /\ taps[a].layout # i
    BY <1>1 DEF SE!InUse, SE!NoTap, LightsInv, PanelShapes, Tapping
  <2>2. \A a \in Workers : taps[a].at = "show" => layouts'[taps[a].layout] = layouts[taps[a].layout]
    BY <1>1, <2>1 DEF LightsInv, PanelShapes
  <2>3. QED
    BY <1>2, <2>2 DEF LightsInv, TapsInv, Tapped
<1>7. QED
  BY <1>4, <1>5, <1>6 DEF LightsInv

\* A tap on a dialog: if another of the same switch is under way, they are a crowd.
LEMMA ConfirmKeeps ==
    ASSUME LightsInv, NEW a \in Workers, SE!Confirm(a)
    PROVE  LightsInv'
<1>1. PICK k \in dialogs :
          \/ /\ taps' = [taps EXCEPT ![a] = SE!Tap("yes", k, captured)]
             /\ crowded' = crowded \cup
                    {j \in {k} : \E b \in Workers \ {a} : taps[b] # SE!NoTap /\ taps[b].key = j}
          \/ taps' = [taps EXCEPT ![a] = SE!Tap("no", "none", captured)] /\ crowded' = crowded
  BY DEF SE!Confirm
<1>2. ops[a] = SE!Idle /\ UNCHANGED <<store, ops, captured, layouts, panels, dialogs, writes>>
  BY DEF SE!Confirm, SE!Free
<1>3. /\ taps' \in [Workers -> Tapping] /\ \A b \in Workers : b # a => taps'[b] = taps[b]
      /\ taps'[a].at \in {"yes", "no"} /\ k \in Switches
      /\ taps'[a].at = "yes" => taps'[a].key = k /\ crowded' = crowded \cup
                    {j \in {k} : \E b \in Workers \ {a} : taps[b] # SE!NoTap /\ taps[b].key = j}
  <2>1. k \in Switches /\ captured \in SE!Layouts /\ taps \in [Workers -> Tapping]
    BY DEF LightsInv, PanelShapes
  <2>2. /\ SE!Tap("yes", k, captured) \in Tapping /\ SE!Tap("no", "none", captured) \in Tapping
        /\ SE!Tap("yes", k, captured).at = "yes" /\ SE!Tap("yes", k, captured).key = k
        /\ SE!Tap("no", "none", captured).at = "no"
    BY <2>1 DEF SE!Tap, Tapping
  <2>3. QED
    BY <1>1, <2>1, <2>2
<1>4. PanelShapes'
  BY <1>2, <1>3 DEF LightsInv, PanelShapes
<1>5. AllHonest'
  BY <1>2, <1>3 DEF LightsInv, AllHonest, Honest
<1>6. TapsInv'
  <2>1. crowded \subseteq crowded'
    BY <1>1
  <2>2. ASSUME NEW b \in Workers, b # a, NEW j \in Switches, Tapped(a, j)', Tapped(b, j) PROVE j \in crowded'
    BY <1>3, <2>2 DEF Tapped, SE!NoTap
  <2>3. \A b \in Workers, j \in Switches : b # a /\ Tapped(b, j)' => Tapped(b, j)
    BY <1>3 DEF Tapped
  <2>4. \A b, c \in Workers : \A j \in Switches \ crowded' : Tapped(b, j)' /\ Tapped(c, j)' => b = c
    BY <2>1, <2>2, <2>3 DEF LightsInv, TapsInv
  <2>5. \A b \in Workers : ops'[b] # SE!Idle /\ ops'[b].what = "confirm" =>
            taps'[b].at = "yes" /\ taps'[b].key = ops'[b].key
    BY <1>2, <1>3 DEF LightsInv, TapsInv
  <2>6. \A b \in Workers : taps'[b].at = "show" => taps'[b] = taps[b]
    BY <1>3
  <2>7. QED
    BY <1>2, <2>1, <2>4, <2>5, <2>6 DEF LightsInv, TapsInv
<1>7. QED
  BY <1>4, <1>5, <1>6 DEF LightsInv

\* The light is painted into the layout: only a crowd can lose it again.
LEMMA PaintKeeps ==
    ASSUME LightsInv, NEW a \in Workers, SE!Paint(a)
    PROVE  LightsInv'
<1>1. /\ taps[a].at = "paint" /\ taps' = [taps EXCEPT ![a].at = "show"]
      /\ layouts' = [layouts EXCEPT ![taps[a].layout][taps[a].key] = taps[a].light]
      /\ UNCHANGED <<store, ops, captured, panels, dialogs, writes, crowded>>
  BY DEF SE!Paint
<1>2. taps[a] \in [at : {"paint"}, key : Switches, layout : SE!Layouts, light : Lamps]
  BY <1>1 DEF LightsInv, PanelShapes, Tapping, SE!NoTap
<1>3. PICK k \in Switches, l \in SE!Layouts, light \in Lamps :
          taps[a] = [at |-> "paint", key |-> k, layout |-> l, light |-> light]
  BY <1>2
<1>4. /\ taps'[a] = [at |-> "show", key |-> k, layout |-> l, light |-> light]
      /\ taps' \in [Workers -> Tapping]
      /\ \A b \in Workers : b # a => taps'[b] = taps[b]
  <2>1. [at |-> "show", key |-> k, layout |-> l, light |-> light] \in Tapping
    BY DEF Tapping
  <2>2. [taps[a] EXCEPT !.at = "show"] = [at |-> "show", key |-> k, layout |-> l, light |-> light]
    BY <1>3
  <2>3. QED
    BY <1>1, <2>1, <2>2 DEF LightsInv, PanelShapes
<1>5. layouts' = [layouts EXCEPT ![l][k] = light]
  BY <1>1, <1>3
<1>6. /\ layouts' \in [SE!Layouts -> [Switches -> Lamps]] /\ layouts'[l][k] = light
      /\ \A i \in SE!Layouts, j \in Switches : i # l \/ j # k => layouts'[i][j] = layouts[i][j]
  BY <1>5 DEF LightsInv, PanelShapes
<1>7. PanelShapes'
  BY <1>1, <1>4, <1>6 DEF LightsInv, PanelShapes
<1>8. AllHonest'
  <2>1. Honest(k, light)
    BY <1>1, <1>3 DEF LightsInv, AllHonest
  <2>2. \A j \in Switches : \A i \in SE!Layouts : Honest(j, layouts'[i][j])
    BY <1>6, <2>1 DEF LightsInv, AllHonest
  <2>3. \A j \in Switches : \A i \in SE!Layouts : Honest(j, layouts[i][j])'
    BY <1>1, <2>2 DEF Honest
  <2>4. \A b \in Workers : taps'[b].at = "paint" => taps'[b] = taps[b]
    BY <1>4
  <2>5. QED
    BY <1>1, <2>3, <2>4 DEF LightsInv, AllHonest, Honest
<1>9. TapsInv'
  <2>1. \A b \in Workers, j \in Switches : Tapped(b, j)' <=> Tapped(b, j)
    BY <1>3, <1>4 DEF Tapped
  <2>2. \A b \in Workers : ops'[b] # SE!Idle /\ ops'[b].what = "confirm" =>
            taps'[b].at = "yes" /\ taps'[b].key = ops'[b].key
    BY <1>1, <1>4 DEF LightsInv, TapsInv
  <2>3. ASSUME NEW b \in Workers, taps'[b].at = "show", taps'[b].key \notin crowded
        PROVE  layouts'[taps'[b].layout][taps'[b].key] = taps'[b].light
    <3>1. CASE b = a
      BY <1>4, <1>6, <3>1
    <3>2. CASE b # a
      <4>1. /\ taps'[b] = taps[b] /\ taps[b].key \in Switches /\ taps[b].layout \in SE!Layouts
            /\ layouts[taps[b].layout][taps[b].key] = taps[b].light
        BY <1>4, <2>3, <3>2 DEF LightsInv, TapsInv, PanelShapes, Tapping, SE!NoTap
      <4>2. taps[b].key # k
        BY <1>3, <2>3, <3>2, <4>1 DEF LightsInv, TapsInv, Tapped
      <4>3. QED
        BY <1>6, <4>1, <4>2
    <3>3. QED
      BY <3>1, <3>2
  <2>4. QED
    BY <1>1, <2>1, <2>2, <2>3 DEF LightsInv, TapsInv
<1>10. QED
  BY <1>7, <1>8, <1>9 DEF LightsInv

\* The layout is displayed, and the handler of the tap is over.
LEMMA ShowKeeps ==
    ASSUME LightsInv, NEW a \in Workers, SE!Show(a)
    PROVE  LightsInv'
<1>1. /\ taps[a].at \in {"show", "no"} /\ taps' = [taps EXCEPT ![a] = SE!NoTap]
      /\ panels' \in {panels, panels \cup {layouts[taps[a].layout]}}
      /\ UNCHANGED <<store, ops, captured, layouts, dialogs, writes, crowded>>
  BY DEF SE!Show
<1>2. taps[a].layout \in SE!Layouts
  BY <1>1 DEF LightsInv, PanelShapes, Tapping, SE!NoTap
<1>3. /\ taps'[a] = SE!NoTap /\ taps' \in [Workers -> Tapping]
      /\ \A b \in Workers : b # a => taps'[b] = taps[b]
  BY <1>1 DEF LightsInv, PanelShapes, Tapping
<1>4. PanelShapes'
  BY <1>1, <1>2, <1>3 DEF LightsInv, PanelShapes
<1>5. AllHonest'
  <2>1. \A j \in Switches : \A lights \in panels' : Honest(j, lights[j])
    BY <1>1, <1>2 DEF LightsInv, AllHonest
  <2>2. \A j \in Switches : \A lights \in panels' : Honest(j, lights[j])'
    BY <1>1, <2>1 DEF Honest
  <2>3. \A b \in Workers : taps'[b].at = "paint" => taps'[b] = taps[b]
    BY <1>3 DEF SE!NoTap
  <2>4. QED
    BY <1>1, <2>2, <2>3 DEF LightsInv, AllHonest, Honest
<1>6. TapsInv'
  <2>1. \A b \in Workers, j \in Switches : Tapped(b, j)' => Tapped(b, j)
    BY <1>3 DEF Tapped, SE!NoTap
  <2>2. \A b \in Workers : ops'[b] # SE!Idle /\ ops'[b].what = "confirm" =>
            taps'[b].at = "yes" /\ taps'[b].key = ops'[b].key
    BY <1>1, <1>3 DEF LightsInv, TapsInv
  <2>3. \A b \in Workers : taps'[b].at = "show" => taps'[b] = taps[b]
    BY <1>3 DEF SE!NoTap
  <2>4. QED
    BY <1>1, <2>1, <2>2, <2>3 DEF LightsInv, TapsInv
<1>7. QED
  BY <1>4, <1>5, <1>6 DEF LightsInv

\* Every step of the settings keeps the invariants.
LEMMA SettingsStep ==
    ASSUME ChangesInv, LightsInv, [SE!SettingsNext]_SettingVars
    PROVE  ChangesInv' /\ LightsInv'
<1>1. CASE UNCHANGED SettingVars
  <2>1. UNCHANGED <<store, mutex, ops, captured, layouts, taps, panels, dialogs, writes, want, overlaid, crowded>>
    BY <1>1 DEF SettingVars
  <2>2. ChangesInv'
    BY <2>1, ChangesStay
  <2>3. LightsInv'
    BY <2>1 DEF LightsInv, PanelShapes, AllHonest, Honest, TapsInv, Tapped
  <2>4. QED
    BY <2>2, <2>3
<1>2. Switches \subseteq SE!Keys /\ Scopes \subseteq SE!Keys
  BY DEF SE!Keys
<1>3. ASSUME NEW a \in Workers, SE!Toggle(a) PROVE ChangesInv' /\ LightsInv'
  BY <1>2, <1>3, BeginKeeps DEF SE!Toggle
<1>4. ASSUME NEW a \in Workers, SE!ToggleSetting(a) PROVE ChangesInv' /\ LightsInv'
  BY <1>2, <1>4, BeginKeeps DEF SE!ToggleSetting
<1>5. ASSUME NEW a \in Workers, SE!Press(a) PROVE ChangesInv' /\ LightsInv'
  <2>1. PICK k : k = taps[a].key
    OBVIOUS
  <2>2. taps[a].at = "yes" /\ k \in Switches
    <3>1. taps[a].at = "yes"
      BY <1>5 DEF SE!Press
    <3>2. QED
      BY <2>1, <3>1 DEF LightsInv, PanelShapes, Tapping, SE!NoTap
  <2>3. PICK arg : SE!Read(a, SE!Op("confirm", taps[a].key, arg))
    <3>1. SE!Read(a, SE!Op("confirm", taps[a].key, ""))
      BY <1>5 DEF SE!Press
    <3>2. QED
      BY <3>1, Zenon
  <2>4. SE!Read(a, SE!Op("confirm", k, arg))
    BY <2>1, <2>3
  <2>5. mutex' = mutex /\ UNCHANGED SE!panelVars
    BY <1>5 DEF SE!Press
  <2>6. k \in SE!Keys /\ taps[a].key = k
    BY <1>2, <2>1, <2>2
  <2>7. QED
    BY <2>2, <2>4, <2>5, <2>6, BeginKeeps
<1>6. ASSUME NEW a \in Workers, SE!Restrict(a) PROVE ChangesInv' /\ LightsInv'
  <2>1. PICK s \in Scopes : \E arg : SE!Read(a, SE!Op("block", s, arg))
    BY <1>6 DEF SE!Restrict
  <2>2. PICK arg : SE!Read(a, SE!Op("block", s, arg))
    BY <2>1
  <2>3. UNCHANGED <<mutex, SE!panelVars>>
    BY <1>6 DEF SE!Restrict
  <2>4. QED
    BY <1>2, <2>2, <2>3, BeginKeeps
<1>7. ASSUME NEW a \in Workers, SE!Unrestrict(a) PROVE ChangesInv' /\ LightsInv'
  <2>1. UNCHANGED <<mutex, SE!panelVars>>
    BY <1>7 DEF SE!Unrestrict
  <2>2. ASSUME NEW s \in Scopes, NEW arg, SE!Read(a, SE!Op("allow", s, arg))
        PROVE  ChangesInv' /\ LightsInv'
    BY <1>2, <2>1, <2>2, BeginKeeps
  <2>3. ASSUME NEW s \in Scopes, SE!Write(s, {})
        PROVE  ChangesInv' /\ LightsInv'
    BY <1>2, <2>1, <2>3, WriteKeeps
  <2>4. QED
    BY <1>7, <2>2, <2>3 DEF SE!Unrestrict
<1>8. ASSUME NEW a \in Workers, SE!Finish(a) PROVE ChangesInv' /\ LightsInv'
  BY <1>8, FinishKeeps, FinishKeepsLights
<1>9. ASSUME NEW a \in Workers, SE!Confirm(a) \/ SE!Paint(a) \/ SE!Show(a) PROVE ChangesInv' /\ LightsInv'
  <2>1. UNCHANGED <<store, mutex, ops, want, overlaid>>
    BY <1>9 DEF SE!Confirm, SE!Paint, SE!Show
  <2>2. QED
    BY <1>9, <2>1, ChangesStay, ConfirmKeeps, PaintKeeps, ShowKeeps
<1>10. CASE SE!SendSettings \/ SE!Click
  <2>1. UNCHANGED <<store, mutex, ops, want, overlaid>>
    BY <1>10 DEF SE!SendSettings, SE!Click
  <2>2. QED
    BY <1>10, <2>1, ChangesStay, SendKeeps, ClickKeeps
<1>11. CASE SE!Revert
  BY <1>2, <1>11, WriteKeeps DEF SE!Revert
<1>12. QED
  BY <1>1, <1>3, <1>4, <1>5, <1>6, <1>7, <1>8, <1>9, <1>10, <1>11 DEF SE!SettingsNext

\* The settings in every behaviour.
LEMMA SettingsInvariant == ModerationSpec => [](ChangesInv /\ LightsInv)
<1>1. ModerationInit => ChangesInv /\ LightsInv
  BY SettingsInit DEF ModerationInit
<1>2. ChangesInv /\ LightsInv /\ [ModerationNext]_moderationVars => (ChangesInv /\ LightsInv)'
  <2>1. [ModerationNext]_moderationVars => [SE!SettingsNext]_SettingVars
    BY DEF ModerationNext, moderationVars, RoutingMoves, ChainMoves, GuardsMove, SettingsMove, WordsMove,
           DialogueMoves, LimitsMove, LockMoves, LimiterMoves
  <2>2. QED
    BY <2>1, SettingsStep
<1>3. QED
  BY <1>1, <1>2, PTL DEF ModerationSpec

\* A key of which no changes overlapped holds what they say one after the other.
THEOREM LoneChangesAreKept == ModerationSpec => []LoneChangesHold
<1>1. ChangesInv => LoneChangesHold
  BY DEF ChangesInv, LoneChangesHold, SE!LoneChangesHold
<1>2. QED
  BY <1>1, SettingsInvariant, PTL

\* A light that tells of the last write of its switch tells what the switch counts for, on all
\* panels; and who confirms a tap alone displays the light of his own write.
THEOREM LightsAreTrue == ModerationSpec => []LightsTellTruth
<1>1. LightsInv => LightsTellTruth
  BY DEF LightsInv, AllHonest, Honest, TapsInv, LightsTellTruth, SE!LightsTellTruth
<1>2. QED
  BY <1>1, SettingsInvariant, PTL

-----------------------------------------------------------------------------
(***************************************************************************)
(* Banned words.                                                           *)
(***************************************************************************)
\* The messages that a handler may be at work on.
WordJobs ==
    [at : {"load", "fill", "go", "write", "swap", "show"}, does : {"add", "edit", "delete", "scan"},
     chat : Chats, list : Nat, map : [Chats -> Nat], next : Nat, word : BadWords \cup {""}, excused : BOOLEAN]

\* Handler h is at work, at that place.
At(h, where) == jobs[h] # BW!Rest /\ jobs[h].at = where
\* Handler h is there to change words.
Changes(h) == jobs[h] # BW!Rest /\ jobs[h].does # "scan"

\* The shapes of files, arrays, cache and handlers; who is past loading has a list.
WordShapes ==
    /\ file \in [Chats -> Seq(BadWords)] /\ lists \in Seq(Seq(BadWords)) /\ cache \in [Chats -> Nat]
    /\ jobs \in [Workers -> WordJobs \cup {BW!Rest}]
    /\ \A h \in Workers : jobs[h] # BW!Rest =>
          /\ jobs[h].at = "load" \/ jobs[h].list # 0
          /\ jobs[h].at \in {"write", "swap", "show"} => jobs[h].does # "scan"

\* Someone reaches array n as the list of chat c.
Refers(c, n) ==
    /\ n # 0
    /\ \/ cache[c] = n
       \/ \E h \in Workers : jobs[h] # BW!Rest /\ (jobs[h].map[c] = n \/ (jobs[h].chat = c /\ jobs[h].list = n))

\* Every array is the list of a single chat: a change in place is seen in no other.
ListsApart ==
    /\ \A c \in Chats, n \in Nat : Refers(c, n) => n <= Len(lists)
    /\ \A c, d \in Chats, n \in Nat : Refers(c, n) /\ Refers(d, n) => c = d

\* The array n, if there is one, holds what is on disk for c.
Saved(n, c) == n # 0 => lists[n] = file[c]

\* Handlers that change words are alone, also with those that put a loaded list into the map.
Alone ==
    \A g, h \in Workers : Changes(g) /\ (Changes(h) \/ At(h, "fill")) => g = h

\* The cache holds what is on disk, but for the chat of which the words are changed.
CacheSaved ==
    \A c \in Chats \ unsaved :
        (\A h \in Workers : At(h, "write") \/ At(h, "swap") => jobs[h].chat # c) => Saved(cache[c], c)

\* So does a map that is about to become the cache.
MapSaved(h) ==
    /\ jobs[h].chat \notin unsaved => lists[jobs[h].list] = file[jobs[h].chat]
    /\ \A c \in Chats \ unsaved : c # jobs[h].chat => Saved(jobs[h].map[c], c)

\* As long as changes do not overlap nothing else than what is on disk is or becomes the cache.
CacheInv ==
    ~mixed => Alone /\ CacheSaved /\ \A h \in Workers : At(h, "fill") \/ At(h, "swap") => MapSaved(h)

\* A scan that has not come to its word yet has it ahead.
WordAhead(h) ==
    \/ jobs[h].excused
    \/ \E i \in 1..Len(lists[jobs[h].list]) : i >= jobs[h].next /\ lists[jobs[h].list][i] = jobs[h].word

\* No scan has missed its word, and none has passed it by.
ScansInv ==
    /\ ~missed
    /\ \A h \in Workers : jobs[h] # BW!Rest =>
          /\ jobs[h].word = "" => jobs[h].next = 1
          /\ jobs[h].word # "" => jobs[h].does = "scan" /\ jobs[h].at = "go" /\ WordAhead(h)

\* A handler in a step of another: it only may get its excuse.
GoesOn(g) ==
    /\ jobs'[g] # BW!Rest <=> jobs[g] # BW!Rest
    /\ jobs[g] # BW!Rest =>
          /\ jobs'[g].at = jobs[g].at /\ jobs'[g].does = jobs[g].does /\ jobs'[g].chat = jobs[g].chat
          /\ jobs'[g].list = jobs[g].list /\ jobs'[g].map = jobs[g].map
          /\ jobs'[g].next = jobs[g].next /\ jobs'[g].word = jobs[g].word
          /\ jobs[g].excused => jobs'[g].excused

\* A message at work is not the rest of a handler.
LEMMA WordJobsWork == \A j \in WordJobs : j # BW!Rest
<1>1. ASSUME NEW j \in WordJobs PROVE j # BW!Rest
  <2>1. j.at # "rest"
    BY DEF WordJobs
  <2>2. BW!Rest.at = "rest"
    BY DEF BW!Rest
  <2>3. QED
    BY <2>1, <2>2
<1>2. QED
  BY <1>1

\* A step of one handler.
LEMMA Turns ==
    ASSUME WordShapes, NEW h \in Workers, NEW j \in WordJobs \cup {BW!Rest}, jobs' = [jobs EXCEPT ![h] = j]
    PROVE  /\ jobs' \in [Workers -> WordJobs \cup {BW!Rest}]
           /\ jobs'[h] = j
           /\ \A g \in Workers \ {h} : GoesOn(g)
<1>1. /\ jobs' \in [Workers -> WordJobs \cup {BW!Rest}] /\ jobs'[h] = j
      /\ \A g \in Workers \ {h} : jobs'[g] = jobs[g]
  BY DEF WordShapes
<1>2. QED
  BY <1>1 DEF GoesOn

\* The arrays that are referred to exist.
LEMMA Bounded ==
    ASSUME WordShapes, ListsApart
    PROVE  /\ Len(lists) \in Nat
           /\ \A c \in Chats : cache[c] \in 0..Len(lists)
           /\ \A h \in Workers : jobs[h] # BW!Rest =>
                 /\ jobs[h] \in WordJobs
                 /\ jobs[h].list \in 0..Len(lists) /\ (jobs[h].at # "load" => jobs[h].list \in 1..Len(lists))
                 /\ \A c \in Chats : jobs[h].map[c] \in 0..Len(lists)
<1>1. Len(lists) \in Nat
  BY LenProperties DEF WordShapes
<1>2. ASSUME NEW c \in Chats PROVE cache[c] \in 0..Len(lists)
  <2>1. cache[c] \in Nat
    BY DEF WordShapes
  <2>2. cache[c] # 0 => Refers(c, cache[c])
    BY DEF Refers
  <2>3. cache[c] # 0 => cache[c] <= Len(lists)
    BY <2>1, <2>2 DEF ListsApart
  <2>4. QED
    BY <1>1, <2>1, <2>3
<1>3. ASSUME NEW h \in Workers, jobs[h] # BW!Rest
      PROVE  /\ jobs[h] \in WordJobs
             /\ jobs[h].list \in 0..Len(lists) /\ (jobs[h].at # "load" => jobs[h].list \in 1..Len(lists))
             /\ \A c \in Chats : jobs[h].map[c] \in 0..Len(lists)
  <2>1. jobs[h] \in WordJobs
    BY <1>3 DEF WordShapes
  <2>2. jobs[h].chat \in Chats /\ jobs[h].list \in Nat /\ jobs[h].map \in [Chats -> Nat]
    BY <2>1 DEF WordJobs
  <2>3. jobs[h].list # 0 => Refers(jobs[h].chat, jobs[h].list)
    BY <1>3 DEF Refers
  <2>4. jobs[h].list # 0 => jobs[h].list <= Len(lists)
    BY <2>2, <2>3 DEF ListsApart
  <2>5. ASSUME NEW c \in Chats PROVE jobs[h].map[c] \in 0..Len(lists)
    <3>1. jobs[h].map[c] \in Nat
      BY <2>2
    <3>2. jobs[h].map[c] # 0 => Refers(c, jobs[h].map[c])
      BY <1>3 DEF Refers
    <3>3. jobs[h].map[c] # 0 => jobs[h].map[c] <= Len(lists)
      BY <3>1, <3>2 DEF ListsApart
    <3>4. QED
      BY <1>1, <3>1, <3>3
  <2>6. jobs[h].at # "load" => jobs[h].list # 0
    BY <1>3 DEF WordShapes
  <2>7. QED
    BY <1>1, <2>1, <2>2, <2>4, <2>5, <2>6
<1>4. QED
  BY <1>1, <1>2, <1>3

\* The shapes after a step of h.
LEMMA ShapesKeep ==
    ASSUME WordShapes, NEW h \in Workers, \A g \in Workers \ {h} : GoesOn(g),
           file' \in [Chats -> Seq(BadWords)], lists' \in Seq(Seq(BadWords)), cache' \in [Chats -> Nat],
           jobs' \in [Workers -> WordJobs \cup {BW!Rest}],
           jobs'[h] # BW!Rest =>
              /\ jobs'[h].at = "load" \/ jobs'[h].list # 0
              /\ jobs'[h].at \in {"write", "swap", "show"} => jobs'[h].does # "scan"
    PROVE  WordShapes'
<1>1. ASSUME NEW g \in Workers, jobs'[g] # BW!Rest
      PROVE  /\ jobs'[g].at = "load" \/ jobs'[g].list # 0
             /\ jobs'[g].at \in {"write", "swap", "show"} => jobs'[g].does # "scan"
  <2>1. CASE g = h
    BY <1>1, <2>1
  <2>2. CASE g # h
    <3>1. GoesOn(g)
      BY <2>2
    <3>2. QED
      BY <1>1, <3>1 DEF GoesOn, WordShapes
  <2>3. QED
    BY <2>1, <2>2
<1>2. QED
  BY <1>1 DEF WordShapes

\* A step of h that only makes references of a chat to arrays that the chat already
\* refers to, or to one that is new, keeps the lists apart.
LEMMA ApartKeep ==
    ASSUME WordShapes, ListsApart, NEW h \in Workers, NEW e \in Chats,
           \A g \in Workers \ {h} : GoesOn(g),
           Len(lists') \in Nat, Len(lists') >= Len(lists),
           \A c \in Chats : cache'[c] # 0 => Refers(c, cache'[c]),
           jobs'[h] # BW!Rest =>
              /\ \A c \in Chats : jobs'[h].map[c] # 0 => Refers(c, jobs'[h].map[c])
              /\ \/ jobs'[h].list = 0
                 \/ Refers(jobs'[h].chat, jobs'[h].list)
                 \/ jobs'[h].chat = e /\ jobs'[h].list = Len(lists') /\ Len(lists') > Len(lists)
    PROVE  ListsApart'
<1>1. ASSUME NEW c \in Chats, NEW n \in Nat, Refers(c, n)'
      PROVE  Refers(c, n) \/ (c = e /\ n = Len(lists') /\ Len(lists') > Len(lists))
  <2>1. CASE cache'[c] = n
    BY <1>1, <2>1 DEF Refers
  <2>2. CASE cache'[c] # n
    <3>1. PICK g \in Workers :
             n # 0 /\ jobs'[g] # BW!Rest /\ (jobs'[g].map[c] = n \/ (jobs'[g].chat = c /\ jobs'[g].list = n))
      BY <1>1, <2>2 DEF Refers
    <3>2. CASE g = h
      BY <3>1, <3>2
    <3>3. CASE g # h
      <4>1. GoesOn(g)
        BY <3>3
      <4>2. QED
        BY <3>1, <4>1 DEF GoesOn, Refers
    <3>4. QED
      BY <3>2, <3>3
  <2>3. QED
    BY <2>1, <2>2
<1>2. Len(lists) \in Nat
  BY LenProperties DEF WordShapes
<1>3. \A c \in Chats, n \in Nat : Refers(c, n)' => n <= Len(lists')
  BY <1>1, <1>2 DEF ListsApart
<1>4. \A c, d \in Chats, n \in Nat : Refers(c, n)' /\ Refers(d, n)' => c = d
  <2>1. ASSUME NEW c \in Chats, NEW d \in Chats, NEW n \in Nat, Refers(c, n)', Refers(d, n)' PROVE c = d
    <3>1. CASE n <= Len(lists)
      <4>1. Refers(c, n) /\ Refers(d, n)
        BY <1>1, <1>2, <2>1, <3>1
      <4>2. QED
        BY <4>1 DEF ListsApart
    <3>2. CASE ~(n <= Len(lists))
      <4>1. ~Refers(c, n) /\ ~Refers(d, n)
        BY <3>2 DEF ListsApart
      <4>2. QED
        BY <1>1, <2>1, <4>1
    <3>3. QED
      BY <3>1, <3>2
  <2>2. QED
    BY <2>1
<1>5. QED
  BY <1>3, <1>4 DEF ListsApart

\* A step of h that leaves words, files and cache, and begins or ends no write or fill,
\* keeps the cache saved.
LEMMA CacheQuiet ==
    ASSUME WordShapes, CacheInv, NEW h \in Workers,
           \A g \in Workers \ {h} : GoesOn(g),
           UNCHANGED <<file, lists, cache, unsaved>>,
           ~mixed' => ~mixed /\ Alone',
           ~At(h, "write") /\ ~At(h, "swap"),
           ~At(h, "write")' /\ ~At(h, "swap")' /\ ~At(h, "fill")'
    PROVE  CacheInv'
<1>1. \A g \in Workers, where \in {"write", "swap", "fill"} : At(g, where)' => At(g, where) /\ g # h
  BY DEF GoesOn, At
<1>2. \A g \in Workers, where \in {"write", "swap"} : At(g, where)' <=> At(g, where)
  BY DEF GoesOn, At
<1>3. SUFFICES ASSUME ~mixed'
               PROVE  Alone' /\ CacheSaved' /\ \A g \in Workers : At(g, "fill")' \/ At(g, "swap")' => MapSaved(g)'
  BY DEF CacheInv
<1>4. CacheSaved /\ \A g \in Workers : At(g, "fill") \/ At(g, "swap") => MapSaved(g)
  BY <1>3 DEF CacheInv
<1>5. \A g \in Workers : At(g, "write") \/ At(g, "swap") => jobs'[g].chat = jobs[g].chat
  BY DEF GoesOn, At
<1>6. ASSUME NEW c \in Chats \ unsaved', \A g \in Workers : At(g, "write")' \/ At(g, "swap")' => jobs'[g].chat # c
      PROVE  Saved(cache[c], c)'
  <2>1. \A g \in Workers : At(g, "write") \/ At(g, "swap") => jobs[g].chat # c
    BY <1>2, <1>5, <1>6
  <2>2. Saved(cache[c], c)
    BY <1>4, <1>6, <2>1 DEF CacheSaved
  <2>3. QED
    BY <2>2 DEF Saved
<1>7. ASSUME NEW g \in Workers, At(g, "fill")' \/ At(g, "swap")' PROVE MapSaved(g)'
  <2>1. g # h /\ (At(g, "fill") \/ At(g, "swap"))
    BY <1>1, <1>7
  <2>2. MapSaved(g) /\ GoesOn(g) /\ jobs[g] # BW!Rest
    BY <1>4, <2>1 DEF At
  <2>3. QED
    BY <2>2 DEF MapSaved, Saved, GoesOn
<1>8. QED
  BY <1>3, <1>6, <1>7 DEF CacheSaved

\* A step of h after which every array that there was has the words it had keeps the
\* words of the other scans ahead.
LEMMA ScansQuiet ==
    ASSUME WordShapes, ListsApart, ScansInv, NEW h \in Workers,
           \A g \in Workers \ {h} : GoesOn(g),
           \A n \in 1..Len(lists) : lists'[n] = lists[n],
           ~missed',
           jobs'[h] # BW!Rest =>
              /\ jobs'[h].word = "" => jobs'[h].next = 1
              /\ jobs'[h].word # "" => jobs'[h].does = "scan" /\ jobs'[h].at = "go" /\ WordAhead(h)'
    PROVE  ScansInv'
<1>1. ASSUME NEW g \in Workers, jobs'[g] # BW!Rest
      PROVE  /\ jobs'[g].word = "" => jobs'[g].next = 1
             /\ jobs'[g].word # "" => jobs'[g].does = "scan" /\ jobs'[g].at = "go" /\ WordAhead(g)'
  <2>1. CASE g = h
    BY <1>1, <2>1
  <2>2. CASE g # h
    <3>1. GoesOn(g) /\ jobs[g] # BW!Rest
      BY <1>1, <2>2 DEF GoesOn
    <3>2. ASSUME jobs'[g].word # ""
          PROVE  jobs'[g].does = "scan" /\ jobs'[g].at = "go" /\ WordAhead(g)'
      <4>1. jobs[g].does = "scan" /\ jobs[g].at = "go" /\ WordAhead(g)
        BY <3>1, <3>2 DEF GoesOn, ScansInv
      <4>2. jobs[g].list \in 1..Len(lists)
        BY <3>1, <4>1, Bounded
      <4>3. lists'[jobs'[g].list] = lists[jobs[g].list]
        BY <3>1, <4>2 DEF GoesOn
      <4>4. WordAhead(g)'
        BY <3>1, <4>1, <4>3, ZenonT(40) DEF GoesOn, WordAhead
      <4>5. QED
        BY <3>1, <4>1, <4>4 DEF GoesOn
    <3>3. QED
      BY <3>1, <3>2 DEF GoesOn, ScansInv
  <2>3. QED
    BY <2>1, <2>2
<1>2. QED
  BY <1>1 DEF ScansInv

\* What the steps keep.
WordsInv == WordShapes /\ ListsApart /\ CacheInv /\ ScansInv

\* The step of a handler that leaves words, files and cache.
LEMMA QuietStep ==
    ASSUME WordsInv, NEW h \in Workers, NEW j \in WordJobs \cup {BW!Rest},
           jobs' = [jobs EXCEPT ![h] = j], UNCHANGED <<file, lists, cache, unsaved>>, ~missed',
           ~mixed' => ~mixed /\ Alone',
           jobs[h] # BW!Rest => jobs[h].at \notin {"write", "swap"},
           j # BW!Rest =>
              /\ j.at \in {"load", "go"} /\ (j.at = "load" \/ j.list # 0)
              /\ \A c \in Chats : j.map[c] # 0 => Refers(c, j.map[c])
              /\ j.list = 0 \/ Refers(j.chat, j.list)
              /\ j.word = "" => j.next = 1
              /\ j.word # "" => j.does = "scan" /\ j.at = "go" /\ WordAhead(h)'
    PROVE  WordsInv'
<1>1. WordShapes /\ ListsApart /\ CacheInv /\ ScansInv
  BY DEF WordsInv
<1>2. /\ jobs' \in [Workers -> WordJobs \cup {BW!Rest}] /\ jobs'[h] = j
      /\ \A g \in Workers \ {h} : GoesOn(g)
  BY <1>1, Turns
<1>3. WordShapes'
  <2>1. /\ file' \in [Chats -> Seq(BadWords)] /\ lists' \in Seq(Seq(BadWords)) /\ cache' \in [Chats -> Nat]
    BY <1>1 DEF WordShapes
  <2>2. QED
    BY <1>1, <1>2, <2>1, ShapesKeep
<1>4. CacheInv'
  <2>1. /\ ~At(h, "write") /\ ~At(h, "swap")
        /\ ~At(h, "write")' /\ ~At(h, "swap")' /\ ~At(h, "fill")'
    BY <1>2 DEF At
  <2>2. QED
    BY <1>1, <1>2, <2>1, CacheQuiet
<1>5. ScansInv'
  BY <1>1, <1>2, ScansQuiet
<1>7. ListsApart'
  <2>1. CASE Chats = {}
    BY <2>1 DEF ListsApart
  <2>2. ASSUME NEW e \in Chats PROVE ListsApart'
    <3>1. Len(lists') = Len(lists) /\ Len(lists) \in Nat
      BY <1>1, Bounded
    <3>2. \A c \in Chats : cache'[c] # 0 => Refers(c, cache'[c])
      BY DEF Refers
    <3>3. jobs'[h] # BW!Rest =>
             /\ \A c \in Chats : jobs'[h].map[c] # 0 => Refers(c, jobs'[h].map[c])
             /\ \/ jobs'[h].list = 0
                \/ Refers(jobs'[h].chat, jobs'[h].list)
                \/ jobs'[h].chat = e /\ jobs'[h].list = Len(lists') /\ Len(lists') > Len(lists)
      BY <1>2
    <3>4. Len(lists') \in Nat /\ Len(lists') >= Len(lists)
      BY ONLY <3>1
    <3>5. QED
      BY <1>1, <1>2, <3>2, <3>3, <3>4, ApartKeep
  <2>3. QED
    BY <2>1, <2>2
<1>8. QED
  BY <1>3, <1>4, <1>5, <1>7 DEF WordsInv

\* The references of a handler at work.
LEMMA OwnReferences ==
    ASSUME NEW h \in Workers, jobs[h] # BW!Rest
    PROVE  /\ \A c \in Chats : jobs[h].map[c] # 0 => Refers(c, jobs[h].map[c])
           /\ jobs[h].list = 0 \/ Refers(jobs[h].chat, jobs[h].list)
           /\ \A c \in Chats : cache[c] # 0 => Refers(c, cache[c])
BY DEF Refers

\* A handler begins.
LEMMA BeginKeepsWords ==
    ASSUME WordsInv, NEW h \in Workers, NEW does \in {"add", "edit", "delete", "scan"}, NEW c \in Chats,
           BW!Begin(h, does, c)
    PROVE  WordsInv'
<1>1. PICK j : j = [at |-> "load", does |-> does, chat |-> c,
                    list |-> 0, map |-> BW!FreshMap, next |-> 1, word |-> "", excused |-> FALSE]
  OBVIOUS
<1>2. /\ jobs[h] = BW!Rest /\ jobs' = [jobs EXCEPT ![h] = j] /\ UNCHANGED <<file, lists, cache, unsaved>>
      /\ ~missed'
      /\ mixed' = (mixed \/ (does # "scan" /\ \E g \in Workers :
                                 Changes(g) \/ (jobs[g] # BW!Rest /\ jobs[g].at = "fill")))
  BY <1>1 DEF BW!Begin, BW!Busy, BW!Changing, Changes, WordsInv, ScansInv
<1>3. j \in WordJobs
  <2>1. BW!FreshMap \in [Chats -> Nat]
    BY DEF BW!FreshMap
  <2>2. QED
    BY <1>1, <2>1 DEF WordJobs
<1>4. /\ jobs'[h] = j /\ j # BW!Rest /\ \A g \in Workers \ {h} : GoesOn(g)
  BY <1>2, <1>3, Turns, WordJobsWork DEF WordsInv
<1>5. \A g \in Workers \ {h} : (Changes(g)' <=> Changes(g)) /\ (At(g, "fill")' <=> At(g, "fill"))
  BY <1>4 DEF GoesOn, Changes, At
<1>6. ~At(h, "fill")' /\ (Changes(h)' <=> does # "scan") /\ ~Changes(h)
  <2>1. jobs'[h].at = "load" /\ jobs'[h].does = does /\ jobs'[h] # BW!Rest
    <3>1. j.at = "load" /\ j.does = does
      BY <1>1
    <3>2. QED
      BY <1>4, <3>1, Zenon
  <2>2. QED
    BY <1>2, <2>1 DEF At, Changes
<1>7. ASSUME ~mixed' PROVE ~mixed /\ Alone'
  <2>1. ~mixed /\ Alone
    BY <1>2, <1>7 DEF WordsInv, CacheInv
  <2>2. does # "scan" => \A g \in Workers : ~Changes(g) /\ ~At(g, "fill")
    BY <1>2, <1>7 DEF At
  <2>3. QED
    BY <1>5, <1>6, <2>1, <2>2 DEF Alone
<1>8. \A d \in Chats : j.map[d] = 0
  BY <1>1 DEF BW!FreshMap
<1>9. j.at = "load" /\ j.list = 0 /\ j.word = "" /\ j.next = 1
  BY <1>1
<1>10. QED
  BY <1>2, <1>3, <1>7, <1>8, <1>9, QuietStep

\* A handler that neither fills, writes nor swaps ends.
LEMMA EndKeepsWords ==
    ASSUME WordsInv, NEW h \in Workers, jobs[h] # BW!Rest, jobs[h].at \in {"go", "show"},
           jobs' = [jobs EXCEPT ![h] = BW!Rest], UNCHANGED <<file, lists, cache, mixed, unsaved>>, ~missed'
    PROVE  WordsInv'
<1>1. /\ jobs'[h] = BW!Rest /\ \A g \in Workers \ {h} : GoesOn(g)
  BY Turns DEF WordsInv
<1>2. \A g \in Workers : (Changes(g)' => Changes(g)) /\ (At(g, "fill")' => At(g, "fill"))
  BY <1>1 DEF GoesOn, Changes, At
<1>3. ~mixed' => ~mixed /\ Alone'
  BY <1>2 DEF WordsInv, CacheInv, Alone
<1>4. QED
  BY <1>3, QuietStep

\* A scan looks at its next word.
LEMMA LookKeepsWords ==
    ASSUME WordsInv, NEW h \in Workers, BW!Look(h)
    PROVE  WordsInv'
<1>1. /\ jobs[h] # BW!Rest /\ jobs[h].at = "go" /\ jobs[h].does = "scan"
      /\ UNCHANGED <<file, lists, cache, mixed, unsaved>> /\ jobs[h] \in WordJobs
  BY DEF BW!Look, BW!Busy, WordsInv, WordShapes
<1>2. PICK list : list = lists[jobs[h].list]
  OBVIOUS
<1>3. list \in Seq(BadWords) /\ Len(list) \in Nat /\ DOMAIN list = 1..Len(list)
  <2>1. jobs[h].list \in 1..Len(lists)
    BY <1>1, Bounded DEF WordsInv
  <2>2. list \in Seq(BadWords)
    BY <1>2, <2>1, ElementOfSeq DEF WordsInv, WordShapes
  <2>3. QED
    BY <2>2, LenProperties
<1>4. ASSUME NEW j \in WordJobs, jobs' = [jobs EXCEPT ![h] = j], ~missed',
             j.at = "go", j.does = "scan", j.list = jobs[h].list, j.chat = jobs[h].chat, j.map = jobs[h].map,
             j.word # "", WordAhead(h)'
      PROVE  WordsInv'
  <2>1. jobs'[h] = j /\ j # BW!Rest /\ \A g \in Workers \ {h} : GoesOn(g)
    BY <1>4, Turns, WordJobsWork DEF WordsInv
  <2>2. \A g \in Workers : (Changes(g)' => Changes(g)) /\ (At(g, "fill")' => At(g, "fill"))
    BY <1>4, <2>1 DEF GoesOn, Changes, At
  <2>3. ~mixed' => ~mixed /\ Alone'
    BY <1>1, <2>2 DEF WordsInv, CacheInv, Alone
  <2>4. j.list # 0 /\ Refers(j.chat, j.list) /\ \A c \in Chats : j.map[c] # 0 => Refers(c, j.map[c])
    BY <1>1, <1>4, OwnReferences DEF WordsInv, WordShapes
  <2>5. QED
    BY <1>1, <1>4, <2>3, <2>4, QuietStep
<1>5. CASE jobs[h].word = ""
  <2>1. PICK i \in DOMAIN list : jobs' = [jobs EXCEPT ![h].word = list[i]]
    <3>1. PICK w \in {list[i] : i \in DOMAIN list} : jobs' = [jobs EXCEPT ![h].word = w]
      BY <1>2, <1>5, ZenonT(40) DEF BW!Look
    <3>2. PICK i \in DOMAIN list : w = list[i]
      BY <3>1
    <3>3. QED
      BY <3>1, <3>2
  <2>2. ~missed'
    BY <1>5 DEF BW!Look, WordsInv, ScansInv
  <2>3. list[i] \in BadWords
    BY <1>3, <2>1, ElementOfSeq
  <2>4. PICK j : j = [jobs[h] EXCEPT !.word = list[i]]
    OBVIOUS
  <2>5. /\ j \in WordJobs /\ j.at = "go" /\ j.does = "scan" /\ j.list = jobs[h].list /\ j.chat = jobs[h].chat
        /\ j.map = jobs[h].map /\ j.word = list[i] /\ j.next = jobs[h].next
    BY <1>1, <2>3, <2>4 DEF WordJobs
  <2>6. jobs' = [jobs EXCEPT ![h] = j] /\ jobs'[h] = j
    BY <2>1, <2>4 DEF WordsInv, WordShapes
  <2>7. j.next = 1
    BY <1>1, <1>5, <2>5 DEF WordsInv, ScansInv
  <2>8. CASE j.word # ""
    <3>1. WordAhead(h)'
      BY <1>1, <1>2, <1>3, <2>5, <2>6, <2>7 DEF WordAhead
    <3>2. QED
      BY <1>4, <2>2, <2>5, <2>6, <2>8, <3>1
  <2>9. CASE j.word = ""
    <3>1. j = jobs[h]
      BY <1>1, <1>5, <2>4, <2>5, <2>9 DEF WordJobs
    <3>2. jobs' = jobs
      BY <2>6, <3>1 DEF WordsInv, WordShapes
    <3>3. ~mixed' => ~mixed /\ Alone'
      BY <1>1, <3>2 DEF WordsInv, CacheInv, Alone, Changes, At
    <3>4. j.list # 0 /\ Refers(j.chat, j.list) /\ \A c \in Chats : j.map[c] # 0 => Refers(c, j.map[c])
      BY <1>1, <2>5, OwnReferences DEF WordsInv, WordShapes
    <3>5. QED
      BY <1>1, <2>2, <2>5, <2>6, <2>7, <2>9, <3>3, <3>4, QuietStep
  <2>10. QED
    BY <2>8, <2>9
<1>6. CASE jobs[h].word # "" /\ jobs[h].next > Len(list)
  <2>1. WordAhead(h) /\ jobs[h].next \in Nat
    BY <1>1, <1>6 DEF WordsInv, ScansInv, WordJobs
  <2>2. jobs[h].excused
    <3>1. ASSUME NEW i \in 1..Len(list), i >= jobs[h].next PROVE FALSE
      <4>1. jobs[h].next \in Nat /\ jobs[h].next > Len(list) /\ Len(list) \in Nat
        BY <1>3, <1>6, <2>1
      <4>2. QED
        BY ONLY <3>1, <4>1
    <3>2. jobs[h].excused \/ \E i \in 1..Len(list) : i >= jobs[h].next
      BY <1>2, <2>1 DEF WordAhead
    <3>3. QED
      BY <3>1, <3>2
  <2>3. /\ jobs' = [jobs EXCEPT ![h] = BW!Rest]
        /\ missed' = (missed \/ (BW!Has(list, jobs[h].word) /\ ~jobs[h].excused))
    BY <1>2, <1>6 DEF BW!Look
  <2>4. ~missed'
    BY <2>2, <2>3 DEF WordsInv, ScansInv
  <2>5. QED
    BY <1>1, <2>3, <2>4, EndKeepsWords
<1>7. CASE jobs[h].word # "" /\ ~(jobs[h].next > Len(list))
  <2>1. /\ ~missed'
        /\ jobs' = [jobs EXCEPT ![h] = IF list[jobs[h].next] = jobs[h].word THEN BW!Rest
                                       ELSE [jobs[h] EXCEPT !.next = @ + 1]]
    BY <1>2, <1>7 DEF BW!Look, WordsInv, ScansInv
  <2>2. CASE list[jobs[h].next] = jobs[h].word
    BY <1>1, <2>1, <2>2, EndKeepsWords
  <2>3. CASE list[jobs[h].next] # jobs[h].word
    <3>1. jobs[h].next \in Nat
      BY <1>1 DEF WordJobs
    <3>2. PICK n : n = jobs[h].next + 1
      OBVIOUS
    <3>3. n \in Nat
      BY <3>1, <3>2
    <3>4. PICK j : j = [jobs[h] EXCEPT !.next = n]
      OBVIOUS
    <3>5. /\ j \in WordJobs /\ j.at = "go" /\ j.does = "scan" /\ j.list = jobs[h].list /\ j.chat = jobs[h].chat
          /\ j.map = jobs[h].map /\ j.word = jobs[h].word /\ j.next = n /\ j.excused = jobs[h].excused
      BY <1>1, <3>3, <3>4 DEF WordJobs
    <3>6. jobs' = [jobs EXCEPT ![h] = j]
      BY <2>1, <2>3, <3>2, <3>4
    <3>7. jobs'[h] = j
      BY <3>6 DEF WordsInv, WordShapes
    <3>8. WordAhead(h)
      BY <1>1, <1>7 DEF WordsInv, ScansInv
    <3>9. WordAhead(h)'
      <4>1. CASE jobs[h].excused
        BY <3>5, <3>7, <4>1 DEF WordAhead
      <4>2. CASE ~jobs[h].excused
        <5>1. PICK i \in 1..Len(list) : i >= jobs[h].next /\ list[i] = jobs[h].word
          BY <1>2, <3>8, <4>2 DEF WordAhead
        <5>2. i >= n
          BY <1>3, <2>3, <3>1, <3>2, <5>1
        <5>3. QED
          BY <1>1, <1>2, <3>5, <3>7, <5>1, <5>2 DEF WordAhead
      <4>3. QED
        BY <4>1, <4>2
    <3>10. QED
      BY <1>4, <1>7, <2>1, <3>5, <3>6, <3>9
  <2>4. QED
    BY <2>2, <2>3
<1>8. QED
  BY <1>5, <1>6, <1>7

\* A list that is appended to the arrays.
LEMMA ArrayAdded ==
    ASSUME WordShapes, NEW list \in Seq(BadWords), lists' = Append(lists, list)
    PROVE  /\ lists' \in Seq(Seq(BadWords)) /\ Len(lists') \in Nat /\ Len(lists) \in Nat
           /\ Len(lists') > Len(lists) /\ Len(lists') # 0
           /\ \A n \in 1..Len(lists) : lists'[n] = lists[n]
           /\ lists'[Len(lists')] = list
<1>1. lists \in Seq(Seq(BadWords)) /\ Len(lists) \in Nat
  BY LenProperties DEF WordShapes
<1>2. /\ lists' \in Seq(Seq(BadWords)) /\ Len(lists') = Len(lists) + 1
      /\ \A n \in 1..Len(lists) : lists'[n] = lists[n]
      /\ lists'[Len(lists) + 1] = list
  BY <1>1, AppendProperties
<1>3. QED
  BY <1>1, <1>2

\* The map of a handler that goes on stays saved when arrays are only added.
LEMMA MapStays ==
    ASSUME WordShapes, ListsApart, NEW g \in Workers, GoesOn(g), jobs[g] # BW!Rest, jobs[g].at # "load",
           MapSaved(g),
           UNCHANGED <<file, unsaved>>, \A n \in 1..Len(lists) : lists'[n] = lists[n]
    PROVE  MapSaved(g)'
<1>1. /\ jobs[g].list \in 1..Len(lists) /\ \A c \in Chats : jobs[g].map[c] \in 0..Len(lists)
      /\ jobs[g].chat \in Chats /\ Len(lists) \in Nat
  BY Bounded DEF WordJobs
<1>2. /\ jobs'[g].list = jobs[g].list /\ jobs'[g].map = jobs[g].map /\ jobs'[g].chat = jobs[g].chat
  BY DEF GoesOn
<1>3. \A c \in Chats : jobs[g].map[c] # 0 => lists'[jobs[g].map[c]] = lists[jobs[g].map[c]]
  BY <1>1
<1>4. QED
  BY <1>1, <1>2, <1>3 DEF MapSaved, Saved

\* Nobody but the handlers that change words writes or swaps.
LEMMA WritersChange ==
    ASSUME WordShapes, NEW g \in Workers, At(g, "write") \/ At(g, "swap")
    PROVE  Changes(g)
BY DEF WordShapes, At, Changes

\* A list is loaded from its file.
LEMMA LoadKeepsWords ==
    ASSUME WordsInv, NEW h \in Workers, BW!Load(h)
    PROVE  WordsInv'
<1> DEFINE c == jobs[h].chat
<1>1. /\ jobs[h] # BW!Rest /\ jobs[h].at = "load" /\ UNCHANGED <<file, cache, unsaved>> /\ ~missed'
      /\ jobs[h] \in WordJobs /\ jobs[h].word = "" /\ jobs[h].next = 1 /\ c \in Chats
  BY DEF BW!Load, BW!Busy, WordsInv, WordShapes, ScansInv, WordJobs
<1>2. /\ WordShapes /\ ListsApart /\ CacheInv /\ ScansInv
      /\ cache \in [Chats -> Nat] /\ file[c] \in Seq(BadWords)
  BY <1>1 DEF WordsInv, WordShapes
<1>3. CASE cache[c] # 0
  <2>1. PICK n : n = cache[c]
    OBVIOUS
  <2>2. jobs' = [jobs EXCEPT ![h].at = "go", ![h].list = n] /\ UNCHANGED <<lists, mixed>>
    BY <1>3, <2>1 DEF BW!Load
  <2>3. PICK j : j = [jobs[h] EXCEPT !.at = "go", !.list = n]
    OBVIOUS
  <2>4. n \in Nat /\ n # 0
    BY <1>1, <1>2, <1>3, <2>1
  <2>5. /\ j \in WordJobs /\ j.at = "go" /\ j.list = n /\ j.chat = c /\ j.map = jobs[h].map
        /\ j.word = "" /\ j.next = 1 /\ j.does = jobs[h].does
    BY <1>1, <2>3, <2>4 DEF WordJobs
  <2>6. jobs' = [jobs EXCEPT ![h] = j]
    BY <2>2, <2>3
  <2>7. jobs'[h] = j /\ j # BW!Rest /\ \A g \in Workers \ {h} : GoesOn(g)
    BY <1>2, <2>5, <2>6, Turns, WordJobsWork
  <2>8. \A g \in Workers : (Changes(g)' => Changes(g)) /\ (At(g, "fill")' => At(g, "fill"))
    BY <1>1, <2>5, <2>7 DEF GoesOn, Changes, At
  <2>9. ~mixed' => ~mixed /\ Alone'
    BY <1>2, <2>2, <2>8 DEF CacheInv, Alone
  <2>10. Refers(c, n) /\ \A d \in Chats : j.map[d] # 0 => Refers(d, j.map[d])
    BY <1>1, <2>1, <2>4, <2>5, OwnReferences
  <2>11. QED
    BY <1>1, <2>2, <2>4, <2>5, <2>6, <2>9, <2>10, QuietStep
<1>4. CASE cache[c] = 0
  <2>1. PICK n : n = Len(lists')
    OBVIOUS
  <2>2. /\ lists' = Append(lists, file[c])
        /\ jobs' = [jobs EXCEPT ![h].at = "fill", ![h].list = n, ![h].map = cache]
        /\ mixed' = (mixed \/ \E g \in Workers \ {h} : Changes(g))
    BY <1>4, <2>1 DEF BW!Load, BW!Changing, BW!Busy, Changes
  <2>3. /\ lists' \in Seq(Seq(BadWords)) /\ n \in Nat /\ Len(lists) \in Nat /\ n > Len(lists) /\ n # 0
        /\ \A m \in 1..Len(lists) : lists'[m] = lists[m]
        /\ lists'[n] = file[c]
    BY <1>2, <2>1, <2>2, ArrayAdded
  <2>4. PICK j : j = [jobs[h] EXCEPT !.at = "fill", !.list = n, !.map = cache]
    OBVIOUS
  <2>5. /\ j \in WordJobs /\ j.at = "fill" /\ j.list = n /\ j.chat = c /\ j.map = cache
        /\ j.word = "" /\ j.next = 1 /\ j.does = jobs[h].does
    BY <1>1, <1>2, <2>3, <2>4 DEF WordJobs
  <2>6. jobs' = [jobs EXCEPT ![h] = j]
    BY <2>2, <2>4
  <2>7. /\ jobs'[h] = j /\ j # BW!Rest /\ \A g \in Workers \ {h} : GoesOn(g)
        /\ jobs' \in [Workers -> WordJobs \cup {BW!Rest}]
    BY <1>2, <2>5, <2>6, Turns, WordJobsWork
  <2>8. WordShapes'
    <3>1. file' \in [Chats -> Seq(BadWords)] /\ cache' \in [Chats -> Nat]
      BY <1>1, <1>2 DEF WordShapes
    <3>2. QED
      BY <1>2, <2>3, <2>5, <2>7, <3>1, ShapesKeep
  <2>9. ListsApart'
    <3>1. \A d \in Chats : cache[d] # 0 => Refers(d, cache[d])
      BY DEF Refers
    <3>2. /\ \A d \in Chats : jobs'[h].map[d] # 0 => Refers(d, jobs'[h].map[d])
          /\ jobs'[h].chat = c /\ jobs'[h].list = Len(lists')
      BY <2>1, <2>5, <2>7, <3>1
    <3>3. Len(lists') \in Nat /\ Len(lists') >= Len(lists) /\ Len(lists') > Len(lists)
      BY <2>1, <2>3
    <3>4. \A d \in Chats : cache'[d] # 0 => Refers(d, cache'[d])
      BY <1>1, <3>1
    <3>5. QED
      BY <1>1, <1>2, <2>7, <3>2, <3>3, <3>4, ApartKeep
  <2>10. ScansInv'
    BY <1>1, <1>2, <2>3, <2>5, <2>7, ScansQuiet
  <2>11. ASSUME ~mixed'
         PROVE  Alone' /\ CacheSaved' /\ \A g \in Workers : At(g, "fill")' \/ At(g, "swap")' => MapSaved(g)'
    <3>1. /\ ~mixed /\ \A g \in Workers \ {h} : ~Changes(g)
      BY <2>2, <2>11
    <3>2. Alone /\ CacheSaved /\ \A g \in Workers : At(g, "fill") \/ At(g, "swap") => MapSaved(g)
      BY <1>2, <3>1 DEF CacheInv
    <3>3. /\ \A g \in Workers : Changes(g)' <=> Changes(g)
          /\ \A g \in Workers \ {h}, where \in {"fill", "write", "swap"} : At(g, where)' <=> At(g, where)
      BY <1>1, <2>5, <2>7, ZenonT(40) DEF GoesOn, Changes, At
    <3>4. Alone'
      BY <3>1, <3>2, <3>3 DEF Alone
    <3>5. \A g \in Workers : ~At(g, "write") /\ ~At(g, "swap")
      BY <1>1, <1>2, <3>1, WritersChange DEF At
    <3>6. \A d \in Chats \ unsaved : Saved(cache[d], d)
      BY <3>2, <3>5 DEF CacheSaved
    <3>7. \A d \in Chats \ unsaved : Saved(cache[d], d)'
      <4>1. \A d \in Chats : cache[d] \in 0..Len(lists)
        BY <1>2, Bounded
      <4>2. \A d \in Chats : cache[d] # 0 => lists'[cache[d]] = lists[cache[d]]
        <5>1. \A d \in Chats : cache[d] # 0 => cache[d] \in 1..Len(lists)
          BY <2>3, <4>1
        <5>2. \A m \in 1..Len(lists) : lists'[m] = lists[m]
          BY <2>3
        <5>3. QED
          BY <5>1, <5>2, Zenon
      <4>3. ASSUME NEW d \in Chats \ unsaved PROVE Saved(cache[d], d)'
        <5>1. cache'[d] = cache[d] /\ file'[d] = file[d]
          BY <1>1
        <5>2. cache[d] # 0 => lists[cache[d]] = file[d] /\ lists'[cache[d]] = lists[cache[d]]
          BY <3>6, <4>2 DEF Saved
        <5>3. QED
          BY <5>1, <5>2 DEF Saved
      <4>4. QED
        BY <4>3
    <3>8. ASSUME NEW g \in Workers, At(g, "fill")' \/ At(g, "swap")' PROVE MapSaved(g)'
      <4>1. CASE g = h
        <5>1. jobs'[g].chat = c /\ jobs'[g].list = n /\ jobs'[g].map = cache'
          BY <1>1, <2>5, <2>7, <4>1
        <5>2. lists'[n] = file'[c]
          BY <1>1, <2>3
        <5>3. QED
          BY <1>1, <3>7, <5>1, <5>2 DEF MapSaved, Saved
      <4>2. CASE g # h
        <5>1. At(g, "fill") \/ At(g, "swap")
          BY <3>3, <3>8, <4>2
        <5>2. jobs[g] # BW!Rest /\ jobs[g].at # "load" /\ MapSaved(g) /\ GoesOn(g)
          BY <2>7, <3>2, <4>2, <5>1 DEF At
        <5>3. QED
          BY <1>1, <1>2, <2>3, <5>2, MapStays
      <4>3. QED
        BY <4>1, <4>2
    <3>9. QED
      BY <1>1, <3>4, <3>7, <3>8 DEF CacheSaved
  <2>12. QED
    BY <2>8, <2>9, <2>10, <2>11 DEF WordsInv, CacheInv
<1>5. QED
  BY <1>3, <1>4

\* A list that is put into the cache, by a copy of the map that was loaded before.
LEMMA PutKeepsWords ==
    ASSUME WordsInv, NEW h \in Workers, At(h, "fill") \/ At(h, "swap"), NEW at \in {"go", "show"},
           at = "show" => At(h, "swap"),
           cache' = [jobs[h].map EXCEPT ![jobs[h].chat] = jobs[h].list],
           jobs' = [jobs EXCEPT ![h].at = at, ![h].map = BW!FreshMap],
           UNCHANGED <<file, lists, mixed, unsaved, missed>>
    PROVE  WordsInv'
<1> DEFINE c == jobs[h].chat
<1>1. /\ jobs[h] # BW!Rest /\ jobs[h].at \in {"fill", "swap"}
      /\ jobs[h] \in WordJobs /\ c \in Chats /\ jobs[h].list \in Nat /\ jobs[h].list # 0
      /\ jobs[h].map \in [Chats -> Nat]
      /\ jobs[h].word = "" /\ jobs[h].next = 1
  BY DEF At, WordsInv, WordShapes, ScansInv, WordJobs
<1>2. WordShapes /\ ListsApart /\ CacheInv /\ ScansInv
  BY DEF WordsInv
<1>3. PICK j : j = [jobs[h] EXCEPT !.at = at, !.map = BW!FreshMap]
  OBVIOUS
<1>4. /\ j \in WordJobs /\ j.at = at /\ j.list = jobs[h].list /\ j.chat = c /\ j.map = BW!FreshMap
      /\ j.word = "" /\ j.next = 1 /\ j.does = jobs[h].does
  <2>1. BW!FreshMap \in [Chats -> Nat]
    BY DEF BW!FreshMap
  <2>2. QED
    BY <1>1, <1>3, <2>1 DEF WordJobs
<1>5. jobs' = [jobs EXCEPT ![h] = j]
  BY <1>3
<1>6. /\ jobs'[h] = j /\ j # BW!Rest /\ \A g \in Workers \ {h} : GoesOn(g)
      /\ jobs' \in [Workers -> WordJobs \cup {BW!Rest}]
  BY <1>2, <1>4, <1>5, Turns, WordJobsWork
<1>7. /\ cache' \in [Chats -> Nat] /\ cache'[c] = jobs[h].list
      /\ \A d \in Chats : d # c => cache'[d] = jobs[h].map[d]
  BY <1>1
<1>8. WordShapes'
  <2>1. file' \in [Chats -> Seq(BadWords)] /\ lists' \in Seq(Seq(BadWords))
    BY <1>2 DEF WordShapes
  <2>2. at = "show" => j.does # "scan"
    BY <1>2, <1>4, WritersChange DEF Changes
  <2>3. QED
    BY <1>1, <1>2, <1>4, <1>6, <1>7, <2>1, <2>2, ShapesKeep
<1>9. ListsApart'
  <2>1. \A d \in Chats : cache'[d] # 0 => Refers(d, cache'[d])
    BY <1>1, <1>7, OwnReferences
  <2>2. Refers(c, j.list)
    BY <1>1, <1>4, OwnReferences
  <2>3. Len(lists') = Len(lists) /\ Len(lists) \in Nat
    BY <1>2, Bounded
  <2>4. Len(lists') \in Nat /\ Len(lists') >= Len(lists)
    BY ONLY <2>3
  <2>5. \A d \in Chats : j.map[d] = 0
    BY <1>4 DEF BW!FreshMap
  <2>6. /\ \A d \in Chats : jobs'[h].map[d] # 0 => Refers(d, jobs'[h].map[d])
        /\ Refers(jobs'[h].chat, jobs'[h].list)
    BY <1>4, <1>6, <2>2, <2>5
  <2>7. QED
    BY <1>1, <1>2, <1>6, <2>1, <2>4, <2>6, ApartKeep
<1>10. ScansInv'
  <2>1. ~missed'
    BY <1>2 DEF ScansInv
  <2>2. QED
    BY <1>2, <1>4, <1>6, <2>1, ScansQuiet
<1>11. ASSUME ~mixed'
       PROVE  Alone' /\ CacheSaved' /\ \A g \in Workers : At(g, "fill")' \/ At(g, "swap")' => MapSaved(g)'
  <2>1. Alone /\ CacheSaved /\ \A g \in Workers : At(g, "fill") \/ At(g, "swap") => MapSaved(g)
    BY <1>2, <1>11 DEF CacheInv
  <2>2. /\ \A g \in Workers : Changes(g)' <=> Changes(g)
        /\ \A g \in Workers \ {h}, where \in {"fill", "write", "swap"} : At(g, where)' <=> At(g, where)
        /\ ~At(h, "fill")' /\ ~At(h, "write")' /\ ~At(h, "swap")'
    <3>1. jobs'[h].does = jobs[h].does /\ jobs'[h].at = at /\ jobs'[h] # BW!Rest
      BY <1>4, <1>6
    <3>2. ~At(h, "fill")' /\ ~At(h, "write")' /\ ~At(h, "swap")'
      BY <3>1 DEF At
    <3>3. Changes(h)' <=> Changes(h)
      BY <1>1, <3>1 DEF Changes
    <3>4. \A g \in Workers \ {h} : Changes(g)' <=> Changes(g)
      BY <1>6 DEF GoesOn, Changes
    <3>5. \A g \in Workers \ {h}, where \in {"fill", "write", "swap"} : At(g, where)' <=> At(g, where)
      BY <1>6 DEF GoesOn, At
    <3>6. QED
      BY <3>2, <3>3, <3>4, <3>5
  <2>3. Alone'
    BY <2>1, <2>2 DEF Alone
  <2>4. MapSaved(h)
    BY <2>1
  <2>5. \A d \in Chats \ unsaved : Saved(cache'[d], d)
    BY <1>7, <2>4 DEF MapSaved, Saved
  <2>6. CacheSaved'
    BY <2>5 DEF CacheSaved, Saved
  <2>7. ASSUME NEW g \in Workers, At(g, "fill")' \/ At(g, "swap")' PROVE MapSaved(g)'
    <3>1. g # h /\ (At(g, "fill") \/ At(g, "swap"))
      BY <2>2, <2>7
    <3>2. jobs[g] # BW!Rest /\ jobs[g].at # "load" /\ MapSaved(g) /\ GoesOn(g)
      BY <1>6, <2>1, <3>1 DEF At
    <3>3. \A n \in 1..Len(lists) : lists'[n] = lists[n]
      OBVIOUS
    <3>4. QED
      BY <1>2, <3>2, <3>3, MapStays
  <2>8. QED
    BY <2>3, <2>6, <2>7
<1>12. QED
  BY <1>8, <1>9, <1>10, <1>11 DEF WordsInv, CacheInv

\* The file is written, or the write fails.
LEMMA WriteKeepsWords ==
    ASSUME WordsInv, NEW h \in Workers, BW!WriteFile(h)
    PROVE  WordsInv'
<1> DEFINE c == jobs[h].chat
<1>1. /\ jobs[h] # BW!Rest /\ jobs[h].at = "write" /\ UNCHANGED <<lists, cache, mixed, missed>>
      /\ jobs[h] \in WordJobs /\ jobs[h].word = "" /\ jobs[h].next = 1 /\ c \in Chats
  BY DEF BW!WriteFile, BW!Busy, WordsInv, WordShapes, ScansInv, WordJobs
<1>2. /\ WordShapes /\ ListsApart /\ CacheInv /\ ScansInv
      /\ cache \in [Chats -> Nat] /\ file \in [Chats -> Seq(BadWords)]
  BY DEF WordsInv, WordShapes
<1>3. PICK j : j = [jobs[h] EXCEPT !.at = "swap", !.map = cache]
  OBVIOUS
<1>4. /\ j \in WordJobs /\ j.at = "swap" /\ j.list = jobs[h].list /\ j.chat = c /\ j.map = cache
      /\ j.word = "" /\ j.next = 1 /\ j.does = jobs[h].does
  BY <1>1, <1>2, <1>3 DEF WordJobs
<1>5. jobs' = [jobs EXCEPT ![h] = j]
  BY <1>3 DEF BW!WriteFile
<1>6. /\ jobs'[h] = j /\ j # BW!Rest /\ \A g \in Workers \ {h} : GoesOn(g)
      /\ jobs' \in [Workers -> WordJobs \cup {BW!Rest}]
  BY <1>2, <1>4, <1>5, Turns, WordJobsWork
<1>7. \/ file' = [file EXCEPT ![c] = lists[jobs[h].list]] /\ unsaved' = unsaved \ {c}
      \/ file' = file /\ unsaved' = unsaved \cup {c}
  BY DEF BW!WriteFile
<1>8. jobs[h].list \in 1..Len(lists) /\ lists[jobs[h].list] \in Seq(BadWords)
  <2>1. jobs[h].list \in 1..Len(lists)
    BY <1>1, <1>2, Bounded
  <2>2. QED
    BY <1>2, <2>1, ElementOfSeq DEF WordShapes
<1>9. /\ file' \in [Chats -> Seq(BadWords)]
      /\ \A d \in Chats : d # c => file'[d] = file[d]
      /\ c \notin unsaved' => file'[c] = lists[jobs[h].list]
      /\ \A d \in Chats \ unsaved' : d # c => d \notin unsaved
  BY <1>1, <1>2, <1>7, <1>8
<1>10. Changes(h)
  BY <1>1, <1>2, WritersChange DEF At
<1>11. WordShapes'
  <2>1. lists' \in Seq(Seq(BadWords)) /\ cache' \in [Chats -> Nat] /\ j.list # 0 /\ j.does # "scan"
    BY <1>1, <1>2, <1>4, <1>10 DEF WordShapes, Changes
  <2>2. QED
    BY <1>2, <1>4, <1>6, <1>9, <2>1, ShapesKeep
<1>12. ListsApart'
  <2>1. \A d \in Chats : cache'[d] # 0 => Refers(d, cache'[d])
    BY <1>1 DEF Refers
  <2>2. Len(lists') = Len(lists) /\ Len(lists) \in Nat
    BY <1>1, <1>2, Bounded
  <2>3. Len(lists') \in Nat /\ Len(lists') >= Len(lists)
    BY ONLY <2>2
  <2>4. /\ \A d \in Chats : jobs'[h].map[d] # 0 => Refers(d, jobs'[h].map[d])
        /\ jobs'[h].list = 0 \/ Refers(jobs'[h].chat, jobs'[h].list)
    BY <1>1, <1>4, <1>6, OwnReferences
  <2>5. QED
    BY <1>1, <1>2, <1>6, <2>1, <2>3, <2>4, ApartKeep
<1>13. ScansInv'
  <2>1. ~missed' /\ \A n \in 1..Len(lists) : lists'[n] = lists[n]
    BY <1>1, <1>2 DEF ScansInv
  <2>2. QED
    BY <1>2, <1>4, <1>6, <2>1, ScansQuiet
<1>14. ASSUME ~mixed'
       PROVE  Alone' /\ CacheSaved' /\ \A g \in Workers : At(g, "fill")' \/ At(g, "swap")' => MapSaved(g)'
  <2>1. ~mixed /\ Alone /\ CacheSaved
    BY <1>1, <1>2, <1>14 DEF CacheInv
  <2>2. \A g \in Workers \ {h} : ~Changes(g) /\ ~At(g, "fill")
    BY <1>10, <2>1 DEF Alone
  <2>3. \A g \in Workers \ {h} : ~At(g, "write") /\ ~At(g, "swap")
    BY <1>2, <2>2, WritersChange
  <2>4. /\ \A g \in Workers \ {h} : ~Changes(g)' /\ ~At(g, "fill")' /\ ~At(g, "swap")'
        /\ ~At(h, "fill")' /\ At(h, "swap")'
    <3>1. \A g \in Workers \ {h} : ~Changes(g)' /\ ~At(g, "fill")' /\ ~At(g, "swap")'
      BY <1>6, <2>2, <2>3 DEF GoesOn, Changes, At
    <3>2. jobs'[h] # BW!Rest /\ jobs'[h].at = "swap"
      BY <1>4, <1>6
    <3>3. QED
      BY <3>1, <3>2 DEF At
  <2>5. Alone'
    BY <2>4 DEF Alone
  <2>6. ASSUME NEW d \in Chats \ unsaved', d # c PROVE cache[d] # 0 => lists[cache[d]] = file'[d]
    <3>1. d \in Chats \ unsaved /\ file'[d] = file[d]
      BY <1>9, <2>6
    <3>2. \A g \in Workers : At(g, "write") \/ At(g, "swap") => jobs[g].chat # d
      BY <2>3, <2>6
    <3>3. QED
      BY <2>1, <3>1, <3>2 DEF CacheSaved, Saved
  <2>7. CacheSaved'
    <3>1. ASSUME NEW d \in Chats \ unsaved', \A g \in Workers : At(g, "write")' \/ At(g, "swap")' => jobs'[g].chat # d
          PROVE  Saved(cache[d], d)'
      <4>1. d # c
        BY <1>4, <1>6, <2>4, <3>1
      <4>2. QED
        BY <1>1, <2>6, <4>1 DEF Saved
    <3>2. QED
      BY <3>1 DEF CacheSaved
  <2>8. MapSaved(h)'
    <3>1. jobs'[h].chat = c /\ jobs'[h].list = jobs[h].list /\ jobs'[h].map = cache
      BY <1>4, <1>6
    <3>2. c \notin unsaved' => lists'[jobs[h].list] = file'[c]
      BY <1>1, <1>9
    <3>3. \A d \in Chats \ unsaved' : d # c => Saved(cache[d], d)'
      BY <1>1, <2>6 DEF Saved
    <3>4. QED
      BY <1>1, <3>1, <3>2, <3>3 DEF MapSaved, Saved
  <2>9. QED
    BY <2>4, <2>5, <2>7, <2>8
<1>15. QED
  BY <1>11, <1>12, <1>13, <1>14 DEF WordsInv, CacheInv

\* An answer that is accepted: it adds an array, or changes the one of its chat.
LEMMA AcceptKeeps ==
    ASSUME WordsInv, NEW h \in Workers, jobs[h] # BW!Rest, jobs[h].at = "go", jobs[h].does # "scan",
           NEW n, n = jobs[h].list \/ (n = Len(lists') /\ Len(lists') > Len(lists)),
           NEW j \in WordJobs, jobs'[h] = j,
           j.at = "write", j.list = n, j.chat = jobs[h].chat, j.does = jobs[h].does, j.map = jobs[h].map,
           jobs' \in [Workers -> WordJobs \cup {BW!Rest}], \A g \in Workers \ {h} : GoesOn(g),
           lists' \in Seq(Seq(BadWords)), Len(lists') >= Len(lists),
           \A m \in 1..Len(lists) : m # jobs[h].list => lists'[m] = lists[m],
           UNCHANGED <<file, cache, mixed, unsaved, missed>>
    PROVE  WordShapes' /\ ListsApart' /\ CacheInv'
<1> DEFINE c == jobs[h].chat
<1>1. WordShapes /\ ListsApart /\ CacheInv /\ ScansInv
  BY DEF WordsInv
<1>2. /\ jobs[h] \in WordJobs /\ c \in Chats /\ jobs[h].list \in 1..Len(lists)
      /\ Len(lists) \in Nat /\ Len(lists') \in Nat
  <2>1. jobs[h] \in WordJobs /\ c \in Chats
    BY <1>1 DEF WordShapes, WordJobs
  <2>2. Len(lists') \in Nat
    BY LenProperties
  <2>3. QED
    BY <1>1, <2>1, <2>2, Bounded
<1>3. j # BW!Rest
  BY WordJobsWork
<1>4. WordShapes'
  <2>1. file' \in [Chats -> Seq(BadWords)] /\ cache' \in [Chats -> Nat]
    BY <1>1 DEF WordShapes
  <2>2. n # 0
    BY <1>2
  <2>3. QED
    BY <1>1, <1>3, <2>1, <2>2, ShapesKeep
<1>5. ListsApart'
  <2>1. \A d \in Chats : cache'[d] # 0 => Refers(d, cache'[d])
    BY DEF Refers
  <2>2. \A d \in Chats : jobs'[h].map[d] # 0 => Refers(d, jobs'[h].map[d])
    BY OwnReferences
  <2>3. \/ Refers(jobs'[h].chat, jobs'[h].list)
        \/ jobs'[h].chat = c /\ jobs'[h].list = Len(lists') /\ Len(lists') > Len(lists)
    <3>1. Refers(c, jobs[h].list)
      BY <1>2, OwnReferences
    <3>2. jobs'[h].chat = c /\ jobs'[h].list = n
      OBVIOUS
    <3>3. CASE n = jobs[h].list
      BY <3>1, <3>2, <3>3, Zenon
    <3>4. CASE n = Len(lists') /\ Len(lists') > Len(lists)
      BY <3>2, <3>4, Zenon
    <3>5. QED
      BY <3>3, <3>4
  <2>4. QED
    BY <1>1, <1>2, <2>1, <2>2, <2>3, ApartKeep
<1>6. ASSUME ~mixed'
      PROVE  Alone' /\ CacheSaved' /\ \A g \in Workers : At(g, "fill")' \/ At(g, "swap")' => MapSaved(g)'
  <2>1. ~mixed /\ Alone /\ CacheSaved /\ Changes(h)
    BY <1>1, <1>6 DEF CacheInv, Changes
  <2>2. \A g \in Workers \ {h} : ~Changes(g) /\ ~At(g, "fill")
    BY <2>1 DEF Alone
  <2>3. \A g \in Workers : ~At(g, "write") /\ ~At(g, "swap")
    <3>1. ~At(h, "write") /\ ~At(h, "swap")
      BY DEF At
    <3>2. ASSUME NEW g \in Workers, g # h PROVE ~At(g, "write") /\ ~At(g, "swap")
      <4>1. ~Changes(g)
        BY <2>2, <3>2
      <4>2. QED
        BY <1>1, <4>1, WritersChange
    <3>3. QED
      BY <3>1, <3>2
  <2>4. /\ \A g \in Workers \ {h} : ~Changes(g)' /\ ~At(g, "fill")' /\ ~At(g, "swap")'
        /\ ~At(h, "fill")' /\ ~At(h, "swap")' /\ At(h, "write")'
    <3>1. ASSUME NEW g \in Workers, g # h PROVE ~Changes(g)' /\ ~At(g, "fill")' /\ ~At(g, "swap")'
      <4>1. GoesOn(g) /\ ~Changes(g) /\ ~At(g, "fill") /\ ~At(g, "swap")
        BY <2>2, <2>3, <3>1
      <4>2. QED
        BY <4>1 DEF GoesOn, Changes, At
    <3>2. jobs'[h] # BW!Rest /\ jobs'[h].at = "write"
      BY <1>3
    <3>3. QED
      BY <3>1, <3>2 DEF At
  <2>5. Alone'
    BY <2>4 DEF Alone
  <2>6. ASSUME NEW d \in Chats \ unsaved, d # c, cache[d] # 0 PROVE lists'[cache[d]] = file[d]
    <3>1. lists[cache[d]] = file[d]
      BY <2>1, <2>3, <2>6 DEF CacheSaved, Saved
    <3>2. Refers(d, cache[d]) /\ Refers(c, jobs[h].list)
      BY <1>2, <2>6, OwnReferences
    <3>3. cache[d] \in 1..Len(lists)
      BY <1>1, <1>2, <2>6, Bounded
    <3>4. cache[d] # jobs[h].list
      BY <1>1, <1>2, <2>6, <3>2, <3>3 DEF ListsApart
    <3>5. QED
      BY <3>1, <3>3, <3>4
  <2>7. CacheSaved'
    <3>1. ASSUME NEW d \in Chats \ unsaved', \A g \in Workers : At(g, "write")' \/ At(g, "swap")' => jobs'[g].chat # d
          PROVE  Saved(cache[d], d)'
      <4>1. d # c
        BY <2>4, <3>1
      <4>2. QED
        BY <2>6, <3>1, <4>1 DEF Saved
    <3>2. QED
      BY <3>1 DEF CacheSaved
  <2>8. QED
    BY <2>4, <2>5, <2>7
<1>7. QED
  BY <1>4, <1>5, <1>6 DEF CacheInv

\* A change in place that leaves the scans of its array their words, or excuses them,
\* keeps the words of all scans ahead.
LEMMA ScansExcused ==
    ASSUME WordsInv, NEW h \in Workers, NEW n \in 1..Len(lists), \A g \in Workers \ {h} : GoesOn(g),
           Len(lists'[n]) = Len(lists[n]),
           \A m \in 1..Len(lists) : m # n => lists'[m] = lists[m],
           \A g \in Workers \ {h} :
              jobs[g] # BW!Rest /\ jobs[g].does = "scan" /\ jobs[g].list = n /\ jobs[g].word # "" =>
                 \/ jobs'[g].excused
                 \/ \A i \in 1..Len(lists[n]) : lists[n][i] = jobs[g].word => lists'[n][i] = jobs[g].word,
           jobs'[h] # BW!Rest, jobs'[h].word = "", jobs'[h].next = 1, missed' = missed
    PROVE  ScansInv'
<1>1. WordShapes /\ ListsApart /\ ScansInv
  BY DEF WordsInv
<1>2. ASSUME NEW g \in Workers, g # h, jobs'[g] # BW!Rest
      PROVE  /\ jobs'[g].word = "" => jobs'[g].next = 1
             /\ jobs'[g].word # "" => jobs'[g].does = "scan" /\ jobs'[g].at = "go" /\ WordAhead(g)'
  <2>1. GoesOn(g) /\ jobs[g] # BW!Rest
    BY <1>2 DEF GoesOn
  <2>2. ASSUME jobs'[g].word # ""
        PROVE  jobs'[g].does = "scan" /\ jobs'[g].at = "go" /\ WordAhead(g)'
    <3>1. jobs[g].does = "scan" /\ jobs[g].at = "go" /\ WordAhead(g) /\ jobs[g].word # ""
      BY <1>1, <2>1, <2>2 DEF GoesOn, ScansInv
    <3>2. jobs[g].list \in 1..Len(lists)
      BY <1>1, <2>1, <3>1, Bounded
    <3>3. /\ jobs'[g].list = jobs[g].list /\ jobs'[g].word = jobs[g].word /\ jobs'[g].next = jobs[g].next
          /\ jobs'[g].does = "scan" /\ jobs'[g].at = "go" /\ (jobs[g].excused => jobs'[g].excused)
      BY <2>1, <3>1 DEF GoesOn
    <3>4. WordAhead(g)'
      <4>1. CASE jobs[g].list # n
        <5>1. lists'[jobs[g].list] = lists[jobs[g].list]
          BY <3>2, <4>1
        <5>2. CASE jobs[g].excused
          BY <3>3, <5>2 DEF WordAhead
        <5>3. CASE ~jobs[g].excused
          <6>1. PICK i \in 1..Len(lists[jobs[g].list]) :
                   i >= jobs[g].next /\ lists[jobs[g].list][i] = jobs[g].word
            BY <3>1, <5>3 DEF WordAhead
          <6>2. lists'[jobs'[g].list] = lists[jobs[g].list]
            BY <3>3, <5>1
          <6>3. /\ i \in 1..Len(lists'[jobs'[g].list]) /\ i >= jobs'[g].next
                /\ lists'[jobs'[g].list][i] = jobs'[g].word
            BY <3>3, <6>1, <6>2
          <6>4. QED
            BY <6>3 DEF WordAhead
        <5>4. QED
          BY <5>2, <5>3
      <4>2. CASE jobs[g].list = n
        <5>1. CASE jobs'[g].excused
          BY <5>1 DEF WordAhead
        <5>2. CASE ~jobs'[g].excused
          <6>1. \A i \in 1..Len(lists[n]) : lists[n][i] = jobs[g].word => lists'[n][i] = jobs[g].word
            BY <1>2, <2>1, <3>1, <4>2, <5>2
          <6>2. PICK i \in 1..Len(lists[n]) : i >= jobs[g].next /\ lists[n][i] = jobs[g].word
            BY <3>1, <3>3, <4>2, <5>2 DEF WordAhead
          <6>3. i \in 1..Len(lists'[n]) /\ lists'[n][i] = jobs[g].word
            BY <6>1, <6>2
          <6>4. QED
            BY <3>3, <4>2, <6>2, <6>3 DEF WordAhead
        <5>3. QED
          BY <5>1, <5>2
      <4>3. QED
        BY <4>1, <4>2
    <3>5. QED
      BY <3>3, <3>4
  <2>3. QED
    BY <1>1, <2>1, <2>2 DEF GoesOn, ScansInv
<1>3. QED
  BY <1>1, <1>2 DEF ScansInv

\* The handlers while an array is changed.
LEMMA Excusing ==
    ASSUME WordShapes, NEW h \in Workers, NEW j \in WordJobs, j.does # "scan", NEW n, NEW words,
           jobs' = BW!Excuse([jobs EXCEPT ![h] = j], n, words)
    PROVE  /\ jobs' \in [Workers -> WordJobs \cup {BW!Rest}] /\ jobs'[h] = j
           /\ \A g \in Workers \ {h} :
                 /\ GoesOn(g)
                 /\ jobs[g] # BW!Rest /\ jobs[g].does = "scan" /\ jobs[g].list = n /\ jobs[g].word \in words =>
                       jobs'[g].excused
<1>1. PICK js : js = [jobs EXCEPT ![h] = j]
  OBVIOUS
<1>2. js[h] = j /\ \A g \in Workers \ {h} : js[g] = jobs[g]
  BY <1>1 DEF WordShapes
<1>3. jobs' = [g \in Workers |-> IF js[g] # BW!Rest /\ js[g].does = "scan" /\ js[g].list = n /\ js[g].word \in words
                                 THEN [js[g] EXCEPT !.excused = TRUE] ELSE js[g]]
  BY <1>1 DEF BW!Excuse
<1>4. jobs'[h] = j
  BY <1>2, <1>3
<1>5. ASSUME NEW g \in Workers \ {h}
      PROVE  /\ jobs'[g] \in WordJobs \cup {BW!Rest}
             /\ GoesOn(g)
             /\ jobs[g] # BW!Rest /\ jobs[g].does = "scan" /\ jobs[g].list = n /\ jobs[g].word \in words =>
                   jobs'[g].excused
  <2>1. jobs[g] \in WordJobs \cup {BW!Rest}
    BY DEF WordShapes
  <2>2. CASE jobs[g] # BW!Rest /\ jobs[g].does = "scan" /\ jobs[g].list = n /\ jobs[g].word \in words
    <3>1. jobs'[g] = [jobs[g] EXCEPT !.excused = TRUE] /\ jobs[g] \in WordJobs
      BY <1>2, <1>3, <2>1, <2>2
    <3>2. PICK k : k = jobs'[g]
      OBVIOUS
    <3>3. /\ k \in WordJobs /\ k.at = jobs[g].at /\ k.does = jobs[g].does /\ k.chat = jobs[g].chat
          /\ k.list = jobs[g].list /\ k.map = jobs[g].map /\ k.next = jobs[g].next /\ k.word = jobs[g].word
          /\ k.excused = TRUE
      BY <3>1, <3>2 DEF WordJobs
    <3>4. k # BW!Rest
      BY <3>3, WordJobsWork
    <3>5. QED
      BY <2>2, <3>2, <3>3, <3>4 DEF GoesOn
  <2>3. CASE ~(jobs[g] # BW!Rest /\ jobs[g].does = "scan" /\ jobs[g].list = n /\ jobs[g].word \in words)
    <3>1. jobs'[g] = jobs[g]
      BY <1>2, <1>3, <2>3
    <3>2. QED
      BY <2>1, <2>3, <3>1 DEF GoesOn
  <2>4. QED
    BY <2>2, <2>3
<1>6. DOMAIN jobs' = Workers /\ jobs' = [g \in Workers |-> jobs'[g]]
  BY <1>3
<1>7. jobs' \in [Workers -> WordJobs \cup {BW!Rest}]
  <2>1. \A g \in Workers : jobs'[g] \in WordJobs \cup {BW!Rest}
    BY <1>4, <1>5
  <2>2. QED
    BY <1>6, <2>1
<1>8. QED
  BY <1>4, <1>5, <1>7

\* Shifted leaves a list of words as long as it was, and without its last word it is one.
LEMMA ShiftedList ==
    ASSUME NEW list \in Seq(BadWords), NEW i \in DOMAIN list
    PROVE  /\ BW!Shifted(list, i) \in Seq(BadWords)
           /\ Len(BW!Shifted(list, i)) = Len(list)
           /\ BW!Shorter(BW!Shifted(list, i)) \in Seq(BadWords)
<1>1. Len(list) \in Nat /\ DOMAIN list = 1..Len(list) /\ \A k \in 1..Len(list) : list[k] \in BadWords
  BY LenProperties, ElementOfSeq
<1>2. PICK s : s = BW!Shifted(list, i)
  OBVIOUS
<1>3. s = [k \in 1..Len(list) |-> IF k >= i /\ k < Len(list) THEN list[k + 1] ELSE list[k]]
  BY <1>1, <1>2 DEF BW!Shifted
<1>4. ASSUME NEW k \in 1..Len(list) PROVE s[k] \in BadWords
  <2>1. CASE k < Len(list)
    <3>1. k + 1 \in 1..Len(list)
      BY <1>1, <2>1
    <3>2. QED
      BY <1>1, <1>3, <3>1
  <2>2. CASE ~(k < Len(list))
    BY <1>1, <1>3, <2>2
  <2>3. QED
    BY <2>1, <2>2
<1>5. s \in [1..Len(list) -> BadWords]
  BY <1>3, <1>4
<1>6. s \in Seq(BadWords)
  BY <1>1, <1>5, SeqDef
<1>7. Len(s) = Len(list)
  <2>1. DOMAIN s = 1..Len(list)
    BY <1>5
  <2>2. QED
    BY <1>1, <1>6, <2>1, LenProperties
<1>8. SubSeq(s, 1, Len(s) - 1) \in Seq(BadWords)
  <2>1. PICK m : m = Len(s) - 1
    OBVIOUS
  <2>2. m \in Int /\ 1 \in Int /\ \A k \in 1..m : k \in 1..Len(list)
    BY <1>1, <1>7, <2>1
  <2>3. \A k \in 1..m : s[k] \in BadWords
    BY <1>4, <2>2
  <2>4. SubSeq(s, 1, m) \in Seq(BadWords)
    BY <2>2, <2>3, SubSeqProperties
  <2>5. QED
    BY <2>1, <2>4
<1>9. QED
  BY <1>2, <1>6, <1>7, <1>8 DEF BW!Shorter

\* An array that is replaced.
LEMMA ArrayReplaced ==
    ASSUME lists \in Seq(Seq(BadWords)), NEW n \in 1..Len(lists), NEW list \in Seq(BadWords)
    PROVE  /\ [lists EXCEPT ![n] = list] \in Seq(Seq(BadWords))
           /\ Len([lists EXCEPT ![n] = list]) = Len(lists) /\ [lists EXCEPT ![n] = list][n] = list
           /\ \A m \in 1..Len(lists) : m # n => [lists EXCEPT ![n] = list][m] = lists[m]
BY ExceptSeq

\* An answer is accepted.
LEMMA AcceptKeepsWords ==
    ASSUME WordsInv, NEW h \in Workers, BW!Accept(h)
    PROVE  WordsInv'
<1> DEFINE number == jobs[h].list
           list == lists[number]
<1>1. /\ jobs[h] # BW!Rest /\ jobs[h].at = "go" /\ jobs[h].does # "scan"
      /\ UNCHANGED <<file, cache, mixed, unsaved, missed>>
  BY DEF BW!Accept, BW!Busy, BW!Changing, BW!history
<1>2. /\ WordShapes /\ ListsApart /\ ScansInv /\ jobs[h] \in WordJobs
      /\ jobs[h].word = "" /\ jobs[h].next = 1
  BY <1>1 DEF WordsInv, WordShapes, ScansInv
<1>3. /\ number \in 1..Len(lists) /\ Len(lists) \in Nat /\ number \in Nat
      /\ list \in Seq(BadWords) /\ lists \in Seq(Seq(BadWords))
  <2>1. number \in 1..Len(lists) /\ Len(lists) \in Nat
    BY <1>1, <1>2, Bounded
  <2>2. lists \in Seq(Seq(BadWords))
    BY <1>2 DEF WordShapes
  <2>3. list \in Seq(BadWords)
    BY <2>1, <2>2, ElementOfSeq
  <2>4. QED
    BY <2>1, <2>2, <2>3
<1>4. ASSUME NEW n \in Nat
      PROVE  \E j \in WordJobs :
                /\ j = [jobs[h] EXCEPT !.at = "write", !.list = n]
                /\ j.at = "write" /\ j.list = n /\ j.chat = jobs[h].chat /\ j.does = jobs[h].does
                /\ j.map = jobs[h].map /\ j.word = "" /\ j.next = 1
  <2>1. PICK j : j = [jobs[h] EXCEPT !.at = "write", !.list = n]
    OBVIOUS
  <2>2. /\ j \in WordJobs
        /\ j.at = "write" /\ j.list = n /\ j.chat = jobs[h].chat /\ j.does = jobs[h].does
        /\ j.map = jobs[h].map /\ j.word = "" /\ j.next = 1
    BY <1>2, <2>1 DEF WordJobs
  <2>3. QED
    BY <2>1, <2>2
<1>5. CASE jobs[h].does = "add"
  <2>1. PICK w \in BadWords : lists' = Append(lists, Append(list, w))
    BY <1>5 DEF BW!Accept
  <2>2. PICK n : n = Len(lists')
    OBVIOUS
  <2>3. jobs' = [jobs EXCEPT ![h].at = "write", ![h].list = n]
    BY <1>5, <2>2 DEF BW!Accept
  <2>4. PICK longer : longer = Append(list, w)
    OBVIOUS
  <2>5. longer \in Seq(BadWords)
    BY <1>3, <2>4, AppendProperties
  <2>6. /\ lists' \in Seq(Seq(BadWords)) /\ n \in Nat /\ n > Len(lists)
        /\ \A m \in 1..Len(lists) : lists'[m] = lists[m]
    BY <1>2, <2>1, <2>2, <2>4, <2>5, ArrayAdded
  <2>7. PICK j \in WordJobs :
           /\ j = [jobs[h] EXCEPT !.at = "write", !.list = n]
           /\ j.at = "write" /\ j.list = n /\ j.chat = jobs[h].chat /\ j.does = jobs[h].does
           /\ j.map = jobs[h].map /\ j.word = "" /\ j.next = 1
    BY <1>4, <2>6
  <2>8. jobs' = [jobs EXCEPT ![h] = j]
    BY <2>3, <2>7
  <2>9. /\ jobs'[h] = j /\ j # BW!Rest /\ \A g \in Workers \ {h} : GoesOn(g)
        /\ jobs' \in [Workers -> WordJobs \cup {BW!Rest}]
    BY <1>2, <2>8, Turns, WordJobsWork
  <2>10. Len(lists') > Len(lists) /\ Len(lists') >= Len(lists)
    BY <1>3, <2>2, <2>6
  <2>11. WordShapes' /\ ListsApart' /\ CacheInv'
    <3>1. n = jobs[h].list \/ (n = Len(lists') /\ Len(lists') > Len(lists))
      BY <2>2, <2>10
    <3>2. \A m \in 1..Len(lists) : m # jobs[h].list => lists'[m] = lists[m]
      BY <2>6
    <3>3. /\ lists' \in Seq(Seq(BadWords)) /\ jobs' \in [Workers -> WordJobs \cup {BW!Rest}]
          /\ \A g \in Workers \ {h} : GoesOn(g)
          /\ Len(lists') >= Len(lists) /\ jobs'[h] = j
      BY <2>6, <2>9, <2>10
    <3>4. j.at = "write" /\ j.list = n /\ j.chat = jobs[h].chat /\ j.does = jobs[h].does /\ j.map = jobs[h].map
      BY <2>7
    <3>5. QED
      BY <1>1, <3>1, <3>2, <3>3, <3>4, AcceptKeeps
  <2>12. ScansInv'
    <3>1. ~missed'
      BY <1>1, <1>2 DEF ScansInv
    <3>2. QED
      BY <1>2, <2>6, <2>7, <2>9, <3>1, ScansQuiet
  <2>13. QED
    BY <2>11, <2>12 DEF WordsInv
<1>6. CASE jobs[h].does = "edit"
  <2>1. PICK i \in DOMAIN list, w \in BadWords :
           /\ lists' = [lists EXCEPT ![number][i] = w]
           /\ jobs' = BW!Excuse([jobs EXCEPT ![h].at = "write"], number, {list[i]})
    BY <1>6 DEF BW!Accept
  <2>2. PICK j \in WordJobs :
           /\ j = [jobs[h] EXCEPT !.at = "write", !.list = number]
           /\ j.at = "write" /\ j.list = number /\ j.chat = jobs[h].chat /\ j.does = jobs[h].does
           /\ j.map = jobs[h].map /\ j.word = "" /\ j.next = 1
    BY <1>3, <1>4
  <2>3. j = [jobs[h] EXCEPT !.at = "write"]
    BY <1>2, <2>2 DEF WordJobs
  <2>4. jobs' = BW!Excuse([jobs EXCEPT ![h] = j], number, {list[i]})
    BY <2>1, <2>3
  <2>5. /\ jobs' \in [Workers -> WordJobs \cup {BW!Rest}] /\ jobs'[h] = j
        /\ \A g \in Workers \ {h} :
              /\ GoesOn(g)
              /\ jobs[g] # BW!Rest /\ jobs[g].does = "scan" /\ jobs[g].list = number /\ jobs[g].word \in {list[i]} =>
                    jobs'[g].excused
    BY <1>1, <1>2, <2>2, <2>4, Excusing
  <2>6. PICK edited : edited = [list EXCEPT ![i] = w]
    OBVIOUS
  <2>7. i \in 1..Len(list)
    BY <1>3, <2>1, LenProperties
  <2>8. /\ edited \in Seq(BadWords) /\ Len(edited) = Len(list)
        /\ \A k \in 1..Len(list) : k # i => edited[k] = list[k]
    BY <1>3, <2>6, <2>7, ExceptSeq
  <2>9. lists' = [lists EXCEPT ![number] = edited]
    BY <2>1, <2>6
  <2>10. /\ lists' \in Seq(Seq(BadWords)) /\ Len(lists') = Len(lists) /\ lists'[number] = edited
         /\ \A m \in 1..Len(lists) : m # number => lists'[m] = lists[m]
    <3>1. number \in 1..Len(lists) /\ edited \in Seq(BadWords)
      BY <1>3, <2>8
    <3>2. QED
      BY <1>3, <2>9, <3>1, ArrayReplaced
  <2>11. Len(lists') >= Len(lists)
    BY <1>3, <2>10
  <2>12. WordShapes' /\ ListsApart' /\ CacheInv'
    <3>1. \A m \in 1..Len(lists) : m # jobs[h].list => lists'[m] = lists[m]
      BY <2>10
    <3>2. /\ lists' \in Seq(Seq(BadWords)) /\ jobs' \in [Workers -> WordJobs \cup {BW!Rest}]
          /\ \A g \in Workers \ {h} : GoesOn(g)
          /\ jobs'[h] = j
      BY <2>5, <2>10
    <3>3. /\ j.at = "write" /\ j.list = jobs[h].list /\ j.chat = jobs[h].chat /\ j.does = jobs[h].does
          /\ j.map = jobs[h].map
      BY <2>2
    <3>4. PICK n : n = jobs[h].list
      OBVIOUS
    <3>5. (n = jobs[h].list \/ (n = Len(lists') /\ Len(lists') > Len(lists))) /\ j.list = n
      BY <3>3, <3>4
    <3>6. QED
      BY <1>1, <2>11, <3>1, <3>2, <3>3, <3>5, AcceptKeeps
  <2>13. ASSUME NEW g \in Workers \ {h}, jobs[g] # BW!Rest, jobs[g].does = "scan", jobs[g].list = number
         PROVE  \/ jobs'[g].excused
                \/ \A k \in 1..Len(list) : list[k] = jobs[g].word => lists'[number][k] = jobs[g].word
    <3>1. CASE jobs[g].word = list[i]
      BY <2>5, <2>13, <3>1
    <3>2. CASE jobs[g].word # list[i]
      BY <2>8, <2>10, <3>2
    <3>3. QED
      BY <3>1, <3>2
  <2>14. ScansInv'
    <3>1. jobs'[h] # BW!Rest /\ jobs'[h].word = "" /\ jobs'[h].next = 1
      BY <2>2, <2>5, WordJobsWork
    <3>2. Len(lists'[number]) = Len(lists[number])
      BY <2>8, <2>10
    <3>3. QED
      BY <1>1, <1>3, <2>5, <2>10, <2>13, <3>1, <3>2, ScansExcused
  <2>15. QED
    BY <2>12, <2>14 DEF WordsInv
<1>7. CASE jobs[h].does = "delete"
  <2>1. PICK i \in DOMAIN list :
           lists' = Append([lists EXCEPT ![number] = BW!Shifted(list, i)], BW!Shorter(BW!Shifted(list, i)))
    BY <1>7 DEF BW!Accept
  <2>2. PICK n : n = Len(lists')
    OBVIOUS
  <2>3. jobs' = BW!Excuse([jobs EXCEPT ![h].at = "write", ![h].list = n], number, BadWords)
    BY <1>7, <2>2 DEF BW!Accept
  <2>4. PICK shifted : shifted = BW!Shifted(list, i)
    OBVIOUS
  <2>5. PICK shorter : shorter = BW!Shorter(shifted)
    OBVIOUS
  <2>6. shifted \in Seq(BadWords) /\ Len(shifted) = Len(list) /\ shorter \in Seq(BadWords)
    BY <1>3, <2>1, <2>4, <2>5, ShiftedList
  <2>7. PICK arrays : arrays = [lists EXCEPT ![number] = shifted]
    OBVIOUS
  <2>8. /\ arrays \in Seq(Seq(BadWords)) /\ Len(arrays) = Len(lists) /\ arrays[number] = shifted
        /\ \A m \in 1..Len(lists) : m # number => arrays[m] = lists[m]
    <3>1. number \in 1..Len(lists) /\ shifted \in Seq(BadWords)
      BY <1>3, <2>6
    <3>2. QED
      BY <1>3, <2>7, <3>1, ArrayReplaced
  <2>9. lists' = Append(arrays, shorter)
    BY <2>1, <2>4, <2>5, <2>7
  <2>10. /\ lists' \in Seq(Seq(BadWords)) /\ n = Len(arrays) + 1
         /\ \A m \in 1..Len(arrays) : lists'[m] = arrays[m]
    <3>1. /\ Append(arrays, shorter) \in Seq(Seq(BadWords)) /\ Len(Append(arrays, shorter)) = Len(arrays) + 1
          /\ \A m \in 1..Len(arrays) : Append(arrays, shorter)[m] = arrays[m]
      <4>1. arrays \in Seq(Seq(BadWords)) /\ shorter \in Seq(BadWords)
        BY <2>6, <2>8
      <4>2. QED
        BY <4>1, AppendProperties
    <3>2. QED
      BY <2>2, <2>9, <3>1
  <2>11. /\ n \in Nat /\ Len(lists') > Len(lists) /\ Len(lists') >= Len(lists)
         /\ lists'[number] = shifted
         /\ \A m \in 1..Len(lists) : m # number => lists'[m] = lists[m]
    <3>1. n = Len(lists) + 1 /\ Len(lists) \in Nat
      BY <1>3, <2>8, <2>10
    <3>2. n \in Nat /\ n > Len(lists) /\ n >= Len(lists)
      BY ONLY <3>1
    <3>3. \A m \in 1..Len(lists) : lists'[m] = arrays[m]
      BY <2>8, <2>10, Zenon
    <3>4. lists'[number] = shifted
      BY <1>3, <2>8, <3>3, Zenon
    <3>5. \A m \in 1..Len(lists) : m # number => lists'[m] = lists[m]
      BY <2>8, <3>3, Zenon
    <3>6. QED
      BY <2>2, <3>2, <3>4, <3>5, Zenon
  <2>12. PICK j \in WordJobs :
           /\ j = [jobs[h] EXCEPT !.at = "write", !.list = n]
           /\ j.at = "write" /\ j.list = n /\ j.chat = jobs[h].chat /\ j.does = jobs[h].does
           /\ j.map = jobs[h].map /\ j.word = "" /\ j.next = 1
    BY <1>4, <2>11
  <2>13. jobs' = BW!Excuse([jobs EXCEPT ![h] = j], number, BadWords)
    BY <2>3, <2>12
  <2>14. /\ jobs' \in [Workers -> WordJobs \cup {BW!Rest}] /\ jobs'[h] = j
         /\ \A g \in Workers \ {h} :
               /\ GoesOn(g)
               /\ jobs[g] # BW!Rest /\ jobs[g].does = "scan" /\ jobs[g].list = number /\ jobs[g].word \in BadWords =>
                     jobs'[g].excused
    BY <1>1, <1>2, <2>12, <2>13, Excusing
  <2>15. WordShapes' /\ ListsApart' /\ CacheInv'
    <3>1. n = jobs[h].list \/ (n = Len(lists') /\ Len(lists') > Len(lists))
      BY <2>2, <2>11
    <3>2. \A m \in 1..Len(lists) : m # jobs[h].list => lists'[m] = lists[m]
      BY <2>11
    <3>3. /\ lists' \in Seq(Seq(BadWords)) /\ jobs' \in [Workers -> WordJobs \cup {BW!Rest}]
          /\ \A g \in Workers \ {h} : GoesOn(g)
          /\ Len(lists') >= Len(lists) /\ jobs'[h] = j
      BY <2>10, <2>11, <2>14
    <3>4. j.at = "write" /\ j.list = n /\ j.chat = jobs[h].chat /\ j.does = jobs[h].does /\ j.map = jobs[h].map
      BY <2>12
    <3>5. QED
      BY <1>1, <3>1, <3>2, <3>3, <3>4, AcceptKeeps
  <2>16. \A g \in Workers : jobs[g] # BW!Rest /\ jobs[g].word # "" => jobs[g].word \in BadWords
    BY <1>2 DEF WordShapes, WordJobs
  <2>17. ScansInv'
    <3>1. jobs'[h] # BW!Rest /\ jobs'[h].word = "" /\ jobs'[h].next = 1
      BY <2>12, <2>14, WordJobsWork
    <3>2. Len(lists'[number]) = Len(lists[number])
      BY <2>6, <2>11
    <3>3. QED
      BY <1>1, <1>3, <2>11, <2>14, <2>16, <3>1, <3>2, ScansExcused
  <2>18. QED
    BY <2>15, <2>17 DEF WordsInv
<1>8. QED
  BY <1>1, <1>2, <1>5, <1>6, <1>7 DEF WordJobs

\* The files of the chats when the bot starts.
LEMMA WordsInit == BW!InitWords => WordsInv
<1> SUFFICES ASSUME BW!InitWords PROVE WordsInv
  OBVIOUS
<1>1. /\ file = BW!FirstFile /\ lists = <<>> /\ cache = [c \in Chats |-> 0]
      /\ jobs = [h \in Workers |-> BW!Rest] /\ mixed = FALSE /\ missed = FALSE
  BY DEF BW!InitWords, BW!FreshMap
<1>2. BW!Shorter(BW!InOrder) \in Seq(BadWords)
  <2>1. PICK n : n = Cardinality(BadWords)
    OBVIOUS
  <2>2. n \in Nat /\ ExistsBijection(1..n, BadWords)
    BY <2>1, FS_CardinalityType, ModerationAssumption
  <2>3. PICK s \in Bijection(1..n, BadWords) : TRUE
    BY <2>2 DEF ExistsBijection
  <2>4. s \in [1..n -> BadWords] /\ \A i, j \in DOMAIN s : s[i] = s[j] => i = j
    BY <2>3 DEF Bijection, Injection, Surjection, IsInjective
  <2>5. BW!InOrder = CHOOSE f \in [1..n -> BadWords] : \A i, j \in DOMAIN f : f[i] = f[j] => i = j
    BY <2>1 DEF BW!InOrder, BW!Cardinality, Cardinality
  <2>6. PICK t : t = BW!InOrder
    OBVIOUS
  <2>7. t \in [1..n -> BadWords]
    BY <2>4, <2>5, <2>6
  <2>8. t \in Seq(BadWords) /\ Len(t) = n
    BY <2>2, <2>7, SeqDef, LenProperties
  <2>9. PICK m : m = n - 1
    OBVIOUS
  <2>10. m \in Int /\ 1 \in Int /\ \A k \in 1..m : k \in 1..n
    BY <2>2, <2>9
  <2>11. \A k \in 1..m : t[k] \in BadWords
    BY <2>7, <2>10
  <2>12. SubSeq(t, 1, m) \in Seq(BadWords)
    BY <2>10, <2>11, SubSeqProperties
  <2>13. QED
    BY <2>6, <2>8, <2>9, <2>12 DEF BW!Shorter
<1>3. WordShapes
  <2>1. file \in [Chats -> Seq(BadWords)]
    BY <1>1, <1>2 DEF BW!FirstFile
  <2>2. lists \in Seq(Seq(BadWords))
    BY <1>1, EmptySeq
  <2>3. QED
    BY <1>1, <2>1, <2>2 DEF WordShapes
<1>4. ListsApart
  BY <1>1 DEF ListsApart, Refers
<1>5. CacheInv
  BY <1>1 DEF CacheInv, Alone, CacheSaved, Saved, Changes, At
<1>6. ScansInv
  BY <1>1 DEF ScansInv
<1>7. QED
  BY <1>3, <1>4, <1>5, <1>6 DEF WordsInv

\* Every step of the banned words keeps the invariant.
LEMMA WordsStep ==
    ASSUME WordsInv, [BW!WordsNext]_WordVars
    PROVE  WordsInv'
<1>1. CASE UNCHANGED WordVars
  <2>1. UNCHANGED <<file, lists, cache, jobs, mixed, unsaved, missed>>
    BY <1>1 DEF WordVars
  <2>2. WordShapes' /\ ListsApart'
    BY <2>1 DEF WordsInv, WordShapes, ListsApart, Refers
  <2>3. CacheInv'
    BY <2>1 DEF WordsInv, CacheInv, Alone, CacheSaved, MapSaved, Saved, Changes, At
  <2>4. ScansInv'
    BY <2>1 DEF WordsInv, ScansInv, WordAhead
  <2>5. QED
    BY <2>2, <2>3, <2>4 DEF WordsInv
<1>2. ASSUME NEW h \in Workers, BW!Answer(h) \/ BW!Scan(h) PROVE WordsInv'
  BY <1>2, BeginKeepsWords DEF BW!Answer, BW!Scan
<1>3. ASSUME NEW h \in Workers, BW!Load(h) PROVE WordsInv'
  BY <1>3, LoadKeepsWords
<1>4. ASSUME NEW h \in Workers, BW!Fill(h) PROVE WordsInv'
  <2>1. At(h, "fill") /\ "go" \in {"go", "show"}
    BY <1>4 DEF BW!Fill, BW!Busy, At
  <2>2. QED
    BY <1>4, <2>1, PutKeepsWords DEF BW!Fill, BW!history
<1>5. ASSUME NEW h \in Workers, BW!Swap(h) PROVE WordsInv'
  <2>1. At(h, "swap") /\ "show" \in {"go", "show"}
    BY <1>5 DEF BW!Swap, BW!Busy, At
  <2>2. QED
    BY <1>5, <2>1, PutKeepsWords DEF BW!Swap, BW!history
<1>6. ASSUME NEW h \in Workers, BW!Refuse(h) \/ BW!Show(h) PROVE WordsInv'
  <2>1. ~missed
    BY DEF WordsInv, ScansInv
  <2>2. QED
    BY <1>6, <2>1, EndKeepsWords DEF BW!Refuse, BW!Show, BW!Busy, BW!history
<1>7. ASSUME NEW h \in Workers, BW!Look(h) PROVE WordsInv'
  BY <1>7, LookKeepsWords
<1>8. ASSUME NEW h \in Workers, BW!Accept(h) PROVE WordsInv'
  BY <1>8, AcceptKeepsWords
<1>9. ASSUME NEW h \in Workers, BW!WriteFile(h) PROVE WordsInv'
  BY <1>9, WriteKeepsWords
<1>10. QED
  BY <1>1, <1>2, <1>3, <1>4, <1>5, <1>6, <1>7, <1>8, <1>9 DEF BW!WordsNext

\* What messages are scanned for is what was saved last, unless changes overlapped or
\* a write failed, and a scan finds its word although the list is changed meanwhile.
THEOREM WordsAreKept == ModerationSpec => []WordsKept
<1>1. ModerationInit => WordsInv
  BY WordsInit DEF ModerationInit
<1>2. WordsInv /\ [ModerationNext]_moderationVars => WordsInv'
  <2>1. [ModerationNext]_moderationVars => [BW!WordsNext]_WordVars
    BY DEF ModerationNext, moderationVars, RoutingMoves, ChainMoves, GuardsMove, SettingsMove, WordsMove,
           DialogueMoves, LimitsMove, LockMoves, LimiterMoves
  <2>2. QED
    BY <2>1, WordsStep
<1>3. WordsInv => WordsKept
  <2> SUFFICES ASSUME WordsInv PROVE BW!CacheIsFile /\ BW!ScansFind
    BY DEF WordsKept, BW!WordsKept
  <2>2. BW!ScansFind
    BY DEF WordsInv, ScansInv, BW!ScansFind
  <2>3. ASSUME ~mixed, NEW c \in Chats \ unsaved, cache[c] # 0,
               \A h \in Workers : BW!Changing(h) => jobs[h].chat # c
        PROVE  lists[cache[c]] = file[c]
    <3>1. \A h \in Workers : At(h, "write") \/ At(h, "swap") => jobs[h].chat # c
      <4>1. \A h \in Workers : At(h, "write") \/ At(h, "swap") => Changes(h)
        BY WritersChange DEF WordsInv
      <4>2. \A h \in Workers : Changes(h) => BW!Changing(h)
        BY DEF Changes, BW!Changing, BW!Busy
      <4>3. QED
        BY <2>3, <4>1, <4>2
    <3>2. QED
      <4>1. CacheSaved
        BY <2>3 DEF WordsInv, CacheInv
      <4>2. QED
        BY <2>3, <3>1, <4>1 DEF CacheSaved, Saved
  <2>4. QED
    BY <2>2, <2>3 DEF BW!CacheIsFile
<1>4. QED
  BY <1>1, <1>2, <1>3, PTL DEF ModerationSpec

-----------------------------------------------------------------------------
(***************************************************************************)
(* Limits over time.  What passed in a stretch of time is counted by its   *)
(* window (AntiSpam), by what is left in the bucket, or by the record that *)
(* every later message is compared with; and the record that a handler has *)
(* found is still the map's when it decides, although entries expire.      *)
(***************************************************************************)
\* The counts of the instanced module are those of the standard one.
LEMMA LICounts == ASSUME NEW S PROVE LI!Cardinality(S) = Cardinality(S) /\ (LI!IsFiniteSet(S) <=> IsFiniteSet(S))
BY DEF LI!Cardinality, Cardinality, LI!IsFiniteSet, IsFiniteSet

\* A set of places of a sequence is finite, and a further place adds one to it.
LEMMA Places ==
    ASSUME NEW n \in Nat, NEW A \in SUBSET (1..n)
    PROVE  /\ LI!IsFiniteSet(A) /\ LI!Cardinality(A) \in Nat
           /\ LI!Cardinality(A \cup {n + 1}) = LI!Cardinality(A) + 1
<1>1. LI!IsFiniteSet(1..n)
  BY FS_Interval, LICounts
<1>2. LI!IsFiniteSet(A)
  BY <1>1, FS_Subset, LICounts
<1>3. n + 1 \notin A
  OBVIOUS
<1>4. QED
  BY <1>2, <1>3, FS_AddElement, FS_CardinalityType, LICounts

\* Places of which no two differ are one place at most.
LEMMA OnePlace ==
    ASSUME NEW n \in Nat, NEW A \in SUBSET (1..n), \A j, k \in A : j = k
    PROVE  LI!Cardinality(A) \in Nat /\ LI!Cardinality(A) <= 1
<1>1. CASE A = {}
  BY <1>1, FS_EmptySet, LICounts
<1>2. CASE A # {}
  <2>1. PICK k \in A : TRUE
    BY <1>2
  <2>2. A = {k}
    BY <2>1
  <2>3. LI!Cardinality({k}) = 1
    BY FS_Singleton, LICounts
  <2>4. QED
    BY <2>2, <2>3
<1>3. QED
  BY <1>1, <1>2

\* What the messages decided so far are.
LEMMA DecidedMessages ==
    ASSUME LI!LimitShapes
    PROVE  /\ now \in Nat /\ Len(outcomes) \in Nat /\ DOMAIN outcomes = 1..Len(outcomes)
           /\ outcomes # <<>> <=> Len(outcomes) # 0
           /\ \A k \in 1..Len(outcomes) :
                 outcomes[k] \in [time : Nat, what : LI!Whats, passed : BOOLEAN] /\ outcomes[k].time <= now
<1>1. outcomes \in Seq([time : Nat, what : LI!Whats, passed : BOOLEAN]) /\ now \in Nat
  BY DEF LI!LimitShapes
<1>2. \A k \in 1..Len(outcomes) : outcomes[k] \in [time : Nat, what : LI!Whats, passed : BOOLEAN]
  BY <1>1, ElementOfSeq
<1>3. DOMAIN outcomes = 1..Len(outcomes) /\ Len(outcomes) \in Nat /\ (outcomes # <<>> <=> Len(outcomes) # 0)
  BY <1>1
<1>4. QED
  BY <1>1, <1>2, <1>3 DEF LI!LimitShapes

\* As long as the middleware is the same, records and messages look the same.
LEMMA SameShape == guard' = guard => LI!Shape' = LI!Shape /\ LI!Whats' = LI!Whats
BY DEF LI!Shape, LI!Whats, LI!Buckets

\* A handler that is not at rest, and the record it has found.
LEMMA LimitWorker ==
    ASSUME LI!LimitShapes, LI!Held, NEW w \in Workers, ~LI!Resting(w)
    PROVE  /\ counted[w] \in [at : {"find", "first", "decide"}, time : Nat, what : LI!Whats, number : Nat]
           /\ counted[w].time <= now /\ now <= counted[w].time + 1
           /\ counted[w].at # "find" =>
                 /\ entry # LI!Absent /\ counted[w].number = entry.number
                 /\ entry \in [number : 1..Len(records), until : Nat]
                 /\ guard \in LI!Cached => counted[w].time + 2 * Window <= entry.until
<1>1. counted[w] \in {LI!Rest} \cup [at : {"find", "first", "decide"}, time : Nat, what : LI!Whats, number : Nat]
  BY DEF LI!LimitShapes
<1>2. counted[w] # LI!Rest
  BY DEF LI!Resting
<1>3. QED
  BY <1>1, <1>2 DEF LI!LimitShapes, LI!Held

\* A decision appends what became of the message.
LEMMA Appended ==
    ASSUME LI!LimitShapes, NEW o \in [time : Nat, what : LI!Whats, passed : BOOLEAN], outcomes' = Append(outcomes, o)
    PROVE  /\ outcomes' \in Seq([time : Nat, what : LI!Whats, passed : BOOLEAN])
           /\ Len(outcomes) \in Nat /\ Len(outcomes') = Len(outcomes) + 1
           /\ DOMAIN outcomes = 1..Len(outcomes) /\ DOMAIN outcomes' = 1..(Len(outcomes) + 1)
           /\ \A k \in DOMAIN outcomes : outcomes'[k] = outcomes[k]
           /\ outcomes'[Len(outcomes) + 1] = o
<1> DEFINE S == [time : Nat, what : LI!Whats, passed : BOOLEAN]
<1>1. outcomes \in Seq(S)
  BY DEF LI!LimitShapes
<1> HIDE DEF S
<1>2. QED
  BY <1>1, AppendProperties DEF S

\* What the map holds.
LEMMA MapsRecord ==
    ASSUME LI!LimitShapes, entry # LI!Absent
    PROVE  /\ entry \in [number : 1..Len(records), until : Nat] /\ Len(records) \in Nat
           /\ LI!Current \in LI!Shape /\ DOMAIN records = 1..Len(records)
<1>1. records \in Seq(LI!Shape) /\ entry \in [number : 1..Len(records), until : Nat]
  BY DEF LI!LimitShapes
<1>2. \A i \in 1..Len(records) : records[i] \in LI!Shape
  BY <1>1, ElementOfSeq
<1>3. QED
  BY <1>1, <1>2 DEF LI!Current

\* A decision leaves the shapes, and the map's record becomes the one decided on.
LEMMA Deciding ==
    ASSUME LI!LimitShapes, LI!Held, NEW w \in Workers, NEW time, NEW passed \in BOOLEAN, NEW rec \in LI!Shape,
           LI!Decided(w, time, passed), LI!Becomes(w, rec), time \in {now, counted[w].time},
           UNCHANGED <<guard, now, entry>>
    PROVE  /\ LI!LimitShapes' /\ LI!Held' /\ LI!Current' = rec
           /\ \A v \in Workers : counted'[v].at = "first" => counted[v].at = "first"
<1> DEFINE o == [time |-> time, what |-> counted[w].what, passed |-> passed]
           S == [time : Nat, what : LI!Whats, passed : BOOLEAN]
           J == [at : {"find", "first", "decide"}, time : Nat, what : LI!Whats, number : Nat]
<1>1. /\ ~LI!Resting(w) /\ counted[w].at = "decide"
      /\ outcomes' = Append(outcomes, o) /\ counted' = [counted EXCEPT ![w] = LI!Rest]
  BY DEF LI!Decided
<1>2. /\ counted[w] \in J /\ counted[w].time <= now /\ now \in Nat
      /\ entry # LI!Absent /\ counted[w].number = entry.number /\ entry.number \in 1..Len(records)
  BY <1>1, LimitWorker DEF LI!LimitShapes
<1>3. o \in S /\ o.time <= now
  BY <1>2
<1>4. /\ outcomes' \in Seq(S) /\ Len(outcomes) \in Nat /\ DOMAIN outcomes' = 1..(Len(outcomes) + 1)
      /\ \A k \in 1..Len(outcomes) : outcomes'[k] = outcomes[k] /\ outcomes[k].time <= now
      /\ outcomes'[Len(outcomes) + 1] = o
  <2> HIDE DEF o
  <2>1. QED
    BY <1>1, <1>3, Appended DEF LI!LimitShapes
<1>5. \A k \in DOMAIN outcomes' : outcomes'[k].time <= now
  <2> HIDE DEF o
  <2>1. \A k \in 1..(Len(outcomes) + 1) : k \in 1..Len(outcomes) \/ k = Len(outcomes) + 1
    BY <1>4
  <2>2. QED
    BY <1>3, <1>4, <2>1
<1>6. records' \in Seq(LI!Shape) /\ Len(records') = Len(records) /\ records'[entry.number] = rec
  <2>1. records \in Seq(LI!Shape) /\ records' = [records EXCEPT ![entry.number] = rec]
    BY <1>2 DEF LI!LimitShapes, LI!Becomes
  <2>2. QED
    BY <1>2, <2>1, ExceptSeq
<1>7. counted \in [Workers -> {LI!Rest} \cup J]
  BY DEF LI!LimitShapes
<1>8. /\ counted' \in [Workers -> {LI!Rest} \cup J]
      /\ \A v \in Workers : v # w => counted'[v] = counted[v]
      /\ counted'[w] = LI!Rest
  BY <1>1, <1>7
<1>9. LI!Shape' = LI!Shape /\ LI!Whats' = LI!Whats
  BY SameShape
<1>10. guard # "none"
  BY <1>1 DEF LI!LimitShapes
<1>11. LI!LimitShapes'
  <2> HIDE DEF o
  <2>1. outcomes' \in Seq([time : Nat, what : LI!Whats', passed : BOOLEAN])
    BY <1>4, <1>9
  <2>2. counted' \in [Workers -> {LI!Rest} \cup
                 [at : {"find", "first", "decide"}, time : Nat, what : LI!Whats', number : Nat]]
    BY <1>8, <1>9
  <2>3. records' \in Seq(LI!Shape')
    BY <1>6, <1>9
  <2>4. entry' = LI!Absent \/ entry' \in [number : 1..Len(records'), until : Nat]
    BY <1>6 DEF LI!LimitShapes
  <2>5. now' \in Nat /\ guard' \in {"none", "Cooldown"} \cup LI!Cached \cup LI!Buckets
    BY DEF LI!LimitShapes
  <2>6. QED
    BY <1>5, <1>10, <2>1, <2>2, <2>3, <2>4, <2>5 DEF LI!LimitShapes
<1>12. LI!Held'
  BY <1>8 DEF LI!Held, LI!Resting
<1>13. QED
  BY <1>6, <1>8, <1>11, <1>12 DEF LI!Current, LI!Rest

\* Time passes.
LEMMA TickShapes ==
    ASSUME LI!LimitShapes, LI!Held, LI!Tick, ~late'
    PROVE  /\ LI!LimitShapes' /\ LI!Held' /\ now' = now + 1 /\ LI!Current' = LI!Current
           /\ UNCHANGED <<guard, entry, records, counted, outcomes>>
<1>1. /\ guard # "none" /\ now' = now + 1 /\ UNCHANGED <<guard, entry, records, counted, outcomes>>
      /\ \A w \in Workers : ~LI!Resting(w) => ~(counted[w].time < now)
  BY DEF LI!Tick
<1>2. LI!Shape' = LI!Shape /\ LI!Whats' = LI!Whats
  BY <1>1, SameShape
<1>3. now \in Nat /\ now' \in Nat /\ \A k \in DOMAIN outcomes : outcomes[k].time <= now'
  <2>1. now \in Nat
    BY DecidedMessages
  <2>2. \A k \in DOMAIN outcomes : outcomes[k].time \in Nat /\ outcomes[k].time <= now
    BY DecidedMessages
  <2>3. QED
    BY <1>1, <2>1, <2>2
<1>4. LI!LimitShapes'
  BY <1>1, <1>2, <1>3 DEF LI!LimitShapes
<1>5. ASSUME NEW w \in Workers, ~LI!Resting(w)
      PROVE  counted[w].time <= now' /\ now' <= counted[w].time + 1
  <2>1. counted[w].time \in Nat /\ counted[w].time <= now /\ ~(counted[w].time < now)
    BY <1>1, <1>5, LimitWorker
  <2>2. QED
    BY <1>1, <1>3, <2>1
<1>6. LI!Held'
  BY <1>1, <1>5 DEF LI!Held, LI!Resting
<1>7. QED
  BY <1>1, <1>4, <1>6 DEF LI!Current

\* A message arrives.
LEMMA ArriveShapes ==
    ASSUME LI!LimitShapes, LI!Held, NEW w \in Workers, LI!Arrive(w)
    PROVE  /\ LI!LimitShapes' /\ LI!Held' /\ LI!Current' = LI!Current
           /\ UNCHANGED <<guard, now, entry, records, outcomes>>
           /\ \A v \in Workers : counted'[v].at = "first" => counted[v].at = "first"
<1> DEFINE J == [at : {"find", "first", "decide"}, time : Nat, what : LI!Whats, number : Nat]
<1>1. PICK what \in LI!Whats :
          counted' = [counted EXCEPT ![w] = [at |-> "find", time |-> now, what |-> what, number |-> 0]]
  BY DEF LI!Arrive
<1>2. guard # "none" /\ UNCHANGED <<guard, now, entry, records, outcomes>>
  BY DEF LI!Arrive
<1>3. now \in Nat /\ counted \in [Workers -> {LI!Rest} \cup J]
  BY DEF LI!LimitShapes
<1>4. /\ counted' \in [Workers -> {LI!Rest} \cup J]
      /\ counted'[w] = [at |-> "find", time |-> now, what |-> what, number |-> 0]
      /\ \A v \in Workers : v # w => counted'[v] = counted[v]
  BY <1>1, <1>3
<1>5. LI!Shape' = LI!Shape /\ LI!Whats' = LI!Whats
  BY <1>2, SameShape
<1>6. LI!LimitShapes'
  BY <1>2, <1>4, <1>5 DEF LI!LimitShapes
<1>7. LI!Held'
  BY <1>2, <1>3, <1>4 DEF LI!Held, LI!Resting
<1>8. QED
  BY <1>2, <1>4, <1>6, <1>7 DEF LI!Current

\* An entry goes; no handler has its record, as far as nothing is excused.
LEMMA CleanupShapes ==
    ASSUME LI!LimitShapes, LI!Held, LI!Cleanup, ~late'
    PROVE  /\ LI!LimitShapes' /\ LI!Held' /\ entry # LI!Absent /\ entry' = LI!Absent
           /\ UNCHANGED <<guard, now, records, counted, outcomes>>
           /\ \A w \in Workers : LI!Resting(w) \/ counted[w].at = "find"
           /\ \/ guard \in LI!Cached /\ entry.until < now
              \/ guard \in LI!Buckets /\ now - LI!Current.refilled > Limit
<1>1. /\ entry # LI!Absent /\ (LI!Expired \/ LI!Swept) /\ entry' = LI!Absent
      /\ UNCHANGED <<guard, now, records, counted, outcomes>>
      /\ guard \notin LI!Cached => \A w \in Workers : LI!Resting(w)
  BY DEF LI!Cleanup
<1>2. now \in Nat /\ entry.until \in Nat
  BY <1>1, MapsRecord DEF LI!LimitShapes
<1>3. (guard \in LI!Cached /\ entry.until < now) \/ (guard \in LI!Buckets /\ now - LI!Current.refilled > Limit)
  BY <1>1, <1>2 DEF LI!Expired, LI!Swept, LI!Current, LI!Buckets
<1>4. ASSUME NEW w \in Workers, ~LI!Resting(w) PROVE counted[w].at = "find"
  <2>1. guard \in LI!Cached /\ entry.until < now
    BY <1>1, <1>3, <1>4 DEF LI!Cached, LI!Buckets
  <2>2. /\ counted[w].time \in Nat /\ now <= counted[w].time + 1
        /\ counted[w].at # "find" => counted[w].time + 2 * Window <= entry.until
    BY <1>4, <2>1, LimitWorker
  <2>3. Window \in Nat \ {0}
    BY LimitsAssumption
  <2>4. QED
    BY <1>2, <2>1, <2>2, <2>3
<1>5. LI!Shape' = LI!Shape /\ LI!Whats' = LI!Whats
  BY <1>1, SameShape
<1>6. LI!LimitShapes'
  BY <1>1, <1>5 DEF LI!LimitShapes
<1>7. LI!Held'
  BY <1>1, <1>4 DEF LI!Held, LI!Resting
<1>8. QED
  BY <1>1, <1>3, <1>4, <1>6, <1>7

\* A look-up finds the map's record or puts a fresh one there.
LEMMA FreshShape == ASSUME LI!LimitShapes, guard # "none" PROVE LI!Fresh \in LI!Shape
<1>1. /\ now \in Nat /\ Window \in Nat /\ Limit \in Nat
      /\ guard \in {"AntiSpam", "AntiRepeat", "AntiRaid", "Cooldown"} \cup LI!Buckets
  BY LimitsAssumption DEF LI!LimitShapes, LI!Cached
<1>2. CASE guard = "AntiSpam"
  BY <1>1, <1>2 DEF LI!Fresh, LI!Shape, LI!Buckets
<1>3. CASE guard = "AntiRepeat"
  BY <1>1, <1>3 DEF LI!Fresh, LI!Shape, LI!Buckets
<1>4. CASE guard \in LI!Buckets
  <2>1. LI!Fresh = [tokens |-> Limit, refilled |-> now] /\ LI!Shape = [tokens : 0..Limit, refilled : Nat]
    BY <1>4 DEF LI!Fresh, LI!Shape, LI!Buckets
  <2>2. Limit \in 0..Limit
    BY <1>1
  <2>3. QED
    BY <1>1, <2>1, <2>2
<1>5. CASE guard = "Cooldown"
  BY <1>1, <1>5 DEF LI!Fresh, LI!Shape, LI!Buckets
<1>6. CASE guard = "AntiRaid"
  BY <1>6 DEF LI!Fresh, LI!Shape, LI!Buckets
<1>7. QED
  BY <1>1, <1>2, <1>3, <1>4, <1>5, <1>6

\* What a look-up does to the map's record and to its handler.
LEMMA Finding ==
    ASSUME LI!LimitShapes, LI!Held, NEW w \in Workers, LI!Find(w)
    PROVE  /\ LI!LimitShapes' /\ LI!Held' /\ entry' # LI!Absent /\ entry'.until = now + 2 * Window
           /\ UNCHANGED <<guard, now, outcomes>>
           /\ entry # LI!Absent => entry.until \in Nat
           /\ \/ entry # LI!Absent /\ LI!Current' = LI!Current
              \/ entry = LI!Absent /\ LI!Current' = LI!Fresh
              \/ guard \in LI!Cached /\ entry # LI!Absent /\ entry.until <= now /\ LI!Current' = LI!Fresh
           /\ \A v \in Workers : counted'[v].at = "first" => counted[v].at = "first" \/ (v = w /\ entry = LI!Absent)
           /\ counted'[w].time <= now
<1> DEFINE J == [at : {"find", "first", "decide"}, time : Nat, what : LI!Whats, number : Nat]
           at == IF guard = "Cooldown" /\ entry = LI!Absent THEN "first" ELSE "decide"
<1>1. /\ ~LI!Resting(w) /\ counted[w].at = "find" /\ UNCHANGED <<guard, now, outcomes>>
      /\ counted' = [counted EXCEPT ![w].at = at, ![w].number = entry'.number]
      /\ \/ LI!Live /\ entry' = [entry EXCEPT !.until = now + 2 * Window] /\ records' = records
         \/ /\ ~LI!Live /\ records' = Append(records, LI!Fresh)
            /\ entry' = [number |-> Len(records'), until |-> now + 2 * Window]
  BY DEF LI!Find
<1>2. now \in Nat /\ Window \in Nat \ {0} /\ now + 2 * Window \in Nat /\ guard # "none"
  BY <1>1, LimitsAssumption DEF LI!LimitShapes
<1>3. counted[w] \in J /\ counted[w].time \in Nat /\ counted[w].time <= now /\ now <= counted[w].time + 1
  BY <1>1, LimitWorker
<1>4. records \in Seq(LI!Shape) /\ Len(records) \in Nat
  BY DEF LI!LimitShapes
<1>5. /\ records' \in Seq(LI!Shape) /\ Len(records) <= Len(records') /\ Len(records') \in Nat
      /\ entry' \in [number : 1..Len(records'), until : Nat] /\ entry'.until = now + 2 * Window
      /\ LI!Live => entry # LI!Absent /\ entry'.number = entry.number /\ LI!Current' = LI!Current
      /\ ~LI!Live => LI!Current' = LI!Fresh
  <2>1. CASE LI!Live
    <3>1. entry # LI!Absent /\ entry \in [number : 1..Len(records), until : Nat]
      BY <2>1, MapsRecord DEF LI!Live
    <3>2. entry' = [entry EXCEPT !.until = now + 2 * Window] /\ records' = records
      BY <1>1, <2>1
    <3>3. entry' \in [number : 1..Len(records), until : Nat] /\ entry'.number = entry.number
          /\ entry'.until = now + 2 * Window
      BY <1>2, <3>1, <3>2
    <3>4. QED
      BY <1>4, <2>1, <3>1, <3>2, <3>3 DEF LI!Current
  <2>2. CASE ~LI!Live
    <3>1. /\ records' = Append(records, LI!Fresh)
          /\ entry' = [number |-> Len(records'), until |-> now + 2 * Window]
      BY <1>1, <2>2
    <3>2. /\ records' \in Seq(LI!Shape) /\ Len(records') = Len(records) + 1
          /\ records'[Len(records) + 1] = LI!Fresh
      BY <1>2, <1>4, <3>1, FreshShape, AppendProperties
    <3>3. Len(records') \in 1..Len(records') /\ entry'.number = Len(records) + 1
      BY <1>4, <3>1, <3>2
    <3>4. QED
      BY <1>2, <1>4, <2>2, <3>1, <3>2, <3>3 DEF LI!Current
  <2>3. QED
    BY <2>1, <2>2
<1>6. entry' # LI!Absent
  BY <1>5 DEF LI!Absent
<1>7. ~LI!Live => entry = LI!Absent \/ (guard \in LI!Cached /\ entry # LI!Absent /\ entry.until <= now)
  BY <1>2, MapsRecord DEF LI!Live
<1>8. /\ counted' \in [Workers -> {LI!Rest} \cup J]
      /\ \A v \in Workers : v # w => counted'[v] = counted[v]
      /\ counted'[w].at = at /\ counted'[w].number = entry'.number /\ counted'[w].time = counted[w].time
      /\ counted'[w] \in J
  <2>1. PICK n \in Nat : n = entry'.number
    BY <1>5
  <2>2. PICK j : j = [counted[w] EXCEPT !.at = at, !.number = n]
    OBVIOUS
  <2>3. at \in {"find", "first", "decide"}
    OBVIOUS
  <2>4. j \in J /\ j.at = at /\ j.number = n /\ j.time = counted[w].time
    <3> HIDE DEF at
    <3>1. QED
      BY <1>3, <2>2, <2>3
  <2>5. counted \in [Workers -> {LI!Rest} \cup J]
    BY DEF LI!LimitShapes
  <2>6. counted' = [counted EXCEPT ![w] = j]
    BY <1>1, <2>1, <2>2, <2>5
  <2>7. QED
    BY <2>1, <2>4, <2>5, <2>6
<1>9. LI!Shape' = LI!Shape /\ LI!Whats' = LI!Whats
  BY <1>1, SameShape
<1>10. LI!LimitShapes'
  BY <1>1, <1>2, <1>5, <1>8, <1>9 DEF LI!LimitShapes
<1>11. ASSUME NEW v \in Workers, v # w, ~LI!Resting(v), counted[v].at # "find"
       PROVE  LI!Live /\ (guard \in LI!Cached => counted[v].time + 2 * Window <= now + 2 * Window)
  <2>1. /\ counted[v].time \in Nat /\ counted[v].time <= now /\ now <= counted[v].time + 1 /\ entry # LI!Absent
        /\ entry.until \in Nat /\ (guard \in LI!Cached => counted[v].time + 2 * Window <= entry.until)
    BY <1>11, LimitWorker
  <2>2. QED
    BY <1>2, <2>1 DEF LI!Live
<1>12. ASSUME NEW v \in Workers, ~LI!Resting(v)'
       PROVE  /\ counted'[v].time <= now /\ now <= counted'[v].time + 1
              /\ counted'[v].at # "find" =>
                    /\ counted'[v].number = entry'.number
                    /\ guard \in LI!Cached => counted'[v].time + 2 * Window <= entry'.until
              /\ counted'[v].at = "first" => guard = "Cooldown"
  <2>1. CASE v = w
    <3>1. counted[w].time + 2 * Window <= now + 2 * Window
      BY <1>2, <1>3
    <3>2. QED
      BY <1>3, <1>5, <1>8, <2>1, <3>1
  <2>2. CASE v # w
    <3>1. counted'[v] = counted[v] /\ ~LI!Resting(v)
      BY <1>8, <1>12, <2>2 DEF LI!Resting
    <3>2. QED
      BY <1>5, <1>11, <2>2, <3>1 DEF LI!Held
  <2>3. QED
    BY <2>1, <2>2
<1>13. LI!Held'
  BY <1>1, <1>6, <1>12 DEF LI!Held
<1>14. QED
  <2>1. \/ entry # LI!Absent /\ LI!Current' = LI!Current
        \/ entry = LI!Absent /\ LI!Current' = LI!Fresh
        \/ guard \in LI!Cached /\ entry # LI!Absent /\ entry.until <= now /\ LI!Current' = LI!Fresh
    BY <1>5, <1>7
  <2>2. \A v \in Workers : counted'[v].at = "first" => counted[v].at = "first" \/ (v = w /\ entry = LI!Absent)
    BY <1>8
  <2>3. entry # LI!Absent => entry.until \in Nat
    BY MapsRecord
  <2>4. QED
    BY <1>1, <1>3, <1>5, <1>6, <1>8, <1>10, <1>13, <2>1, <2>2, <2>3

\* What the maps of the messages to their windows are.
LEMMA WindowOf ==
    ASSUME LI!LimitShapes, NEW win \in [DOMAIN outcomes -> 0..now]
    PROVE  /\ now \in Nat /\ Len(outcomes) \in Nat /\ DOMAIN outcomes = 1..Len(outcomes)
           /\ \A k \in DOMAIN outcomes :
                 /\ win[k] \in 0..now /\ win[k] \in Nat
                 /\ outcomes[k] \in [time : Nat, what : LI!Whats, passed : BOOLEAN] /\ outcomes[k].time <= now
           /\ \A s : LI!OfWindow(win, s) \in SUBSET (1..Len(outcomes)) /\ LI!Cardinality(LI!OfWindow(win, s)) \in Nat
<1>1. outcomes \in Seq([time : Nat, what : LI!Whats, passed : BOOLEAN]) /\ now \in Nat
  BY DEF LI!LimitShapes
<1>2. Len(outcomes) \in Nat /\ DOMAIN outcomes = 1..Len(outcomes)
  BY <1>1
<1>3. \A k \in DOMAIN outcomes : outcomes[k] \in [time : Nat, what : LI!Whats, passed : BOOLEAN]
  BY <1>1, <1>2, ElementOfSeq
<1>4. \A s : LI!OfWindow(win, s) \in SUBSET (1..Len(outcomes))
  BY <1>2 DEF LI!OfWindow
<1>5. \A s : LI!Cardinality(LI!OfWindow(win, s)) \in Nat
  BY <1>2, <1>4, Places
<1>6. \A k \in DOMAIN outcomes : win[k] \in 0..now /\ win[k] \in Nat
  BY <1>1
<1>7. QED
  BY <1>1, <1>2, <1>3, <1>4, <1>5, <1>6 DEF LI!LimitShapes

\* The windows of AntiSpam stay when nothing is decided.
LEMMA SpamStays ==
    ASSUME LI!LimitShapes, guard = "AntiSpam", LI!SpamInv, outcomes' = outcomes, now' \in {now, now + 1},
           entry # LI!Absent => entry.until \in Nat,
           \/ entry' = entry /\ LI!Current' = LI!Current
           \/ entry # LI!Absent /\ entry' = LI!Absent /\ entry.until < now
           \/ /\ entry' # LI!Absent /\ entry'.until = now + 2 * Window /\ now' = now
              /\ \/ entry # LI!Absent /\ LI!Current' = LI!Current
                 \/ entry = LI!Absent /\ LI!Current' = LI!Fresh
                 \/ entry # LI!Absent /\ entry.until <= now /\ LI!Current' = LI!Fresh
    PROVE  LI!SpamInv'
<1>1. PICK win \in [DOMAIN outcomes -> 0..now] : LI!Windows(win)
  BY DEF LI!SpamInv
<1>2. /\ now \in Nat /\ now' \in Nat /\ now <= now' /\ Window \in Nat \ {0} /\ Limit \in Nat
      /\ \A k \in DOMAIN outcomes : win[k] \in 0..now /\ win[k] \in Nat /\ outcomes[k].time \in Nat
  BY WindowOf, LimitsAssumption
<1>3. win \in [DOMAIN outcomes' -> 0..now']
  BY <1>2
<1>4. \A s : LI!OfWindow(win, s)' = LI!OfWindow(win, s)
  BY DEF LI!OfWindow
<1>5. /\ \A k \in DOMAIN outcomes : win[k] <= outcomes[k].time + 1 /\ outcomes[k].time < win[k] + Window
      /\ \A j, k \in DOMAIN outcomes : win[j] < win[k] => win[j] + Window <= win[k]
  BY <1>1 DEF LI!Windows
<1>6. ASSUME NEW s \in 0..now' PROVE LI!Cardinality(LI!OfWindow(win, s)) <= Limit
  <2>1. CASE s \in 0..now
    BY <1>1, <2>1 DEF LI!Windows
  <2>2. CASE s \notin 0..now
    <3>1. \A k \in DOMAIN outcomes : win[k] # s
      BY <1>2, <2>2
    <3>2. LI!OfWindow(win, s) = {}
      BY <3>1 DEF LI!OfWindow
    <3>3. QED
      BY <1>2, <3>2, FS_EmptySet, LICounts
  <2>3. QED
    BY <2>1, <2>2
<1>7. entry' = LI!Absent => \A k \in DOMAIN outcomes : win[k] + 2 * Window <= now'
  <2>1. entry' = LI!Absent => entry = LI!Absent \/ entry.until < now
    OBVIOUS
  <2>2. ASSUME entry' = LI!Absent, NEW k \in DOMAIN outcomes PROVE win[k] + 2 * Window <= now'
    <3>1. CASE entry = LI!Absent
      <4>1. win[k] + 2 * Window <= now
        BY <1>1, <3>1 DEF LI!Windows
      <4>2. QED
        BY <1>2, <4>1
    <3>2. CASE entry # LI!Absent
      <4>1. win[k] + 2 * Window <= entry.until /\ entry.until < now /\ entry.until \in Nat
        BY <1>1, <2>1, <2>2, <3>2 DEF LI!Windows
      <4>2. QED
        BY <1>2, <4>1
    <3>3. QED
      BY <3>1, <3>2
  <2>3. QED
    BY <2>2
<1> DEFINE Young(c, until, n) ==
             /\ \A k \in DOMAIN outcomes : win[k] + 2 * Window <= until
             /\ \/ /\ c = [start |-> -Window, count |-> 0]
                   /\ \A k \in DOMAIN outcomes : win[k] + 2 * Window <= n
                \/ /\ c.start \in 0..n /\ c.start + 2 * Window <= until
                   /\ \A k \in DOMAIN outcomes : win[k] = c.start \/ win[k] + Window <= c.start
                   /\ LI!Cardinality(LI!OfWindow(win, c.start)) <= c.count
<1>8. entry # LI!Absent => Young(LI!Current, entry.until, now)
  BY <1>1 DEF LI!Windows
<1>9. entry' # LI!Absent => Young(LI!Current', entry'.until, now')
  <2> SUFFICES ASSUME entry' # LI!Absent PROVE Young(LI!Current', entry'.until, now')
    OBVIOUS
  <2>1. CASE entry' = entry /\ LI!Current' = LI!Current
    <3>1. Young(LI!Current, entry.until, now)
      BY <1>8, <2>1
    <3>2. \A k \in DOMAIN outcomes : win[k] + 2 * Window <= now => win[k] + 2 * Window <= now'
      BY <1>2
    <3>3. \A c : c \in 0..now => c \in 0..now'
      BY <1>2
    <3>4. Young(LI!Current, entry.until, now')
      BY <3>1, <3>2, <3>3
    <3>5. QED
      BY <2>1, <3>4
  <2>2. CASE entry'.until = now + 2 * Window /\ now' = now /\ entry # LI!Absent /\ LI!Current' = LI!Current
    <3>1. Young(LI!Current, entry.until, now)
      BY <1>8, <2>2
    <3>2. \A k \in DOMAIN outcomes : win[k] + 2 * Window <= now + 2 * Window
      BY <1>2
    <3>3. \A c \in 0..now : c + 2 * Window <= now + 2 * Window
      BY <1>2
    <3>4. Young(LI!Current, now + 2 * Window, now)
      BY <3>1, <3>2, <3>3
    <3>5. QED
      BY <2>2, <3>4
  <2>3. CASE /\ entry'.until = now + 2 * Window /\ now' = now /\ LI!Current' = LI!Fresh
             /\ entry = LI!Absent \/ entry.until <= now
    <3>1. ASSUME NEW k \in DOMAIN outcomes
          PROVE  win[k] + 2 * Window <= now /\ win[k] + 2 * Window <= now + 2 * Window
      <4>1. CASE entry = LI!Absent
        <5>1. win[k] + 2 * Window <= now
          BY <1>1, <4>1 DEF LI!Windows
        <5>2. QED
          BY <1>2, <5>1
      <4>2. CASE entry # LI!Absent
        <5>1. win[k] + 2 * Window <= entry.until /\ entry.until <= now /\ entry.until \in Nat
          BY <1>1, <2>3, <4>2 DEF LI!Windows
        <5>2. QED
          BY <1>2, <5>1
      <4>3. QED
        BY <4>1, <4>2
    <3>2. LI!Fresh = [start |-> -Window, count |-> 0]
      BY DEF LI!Fresh, LI!Buckets
    <3>3. Young(LI!Fresh, now + 2 * Window, now)
      BY <3>1, <3>2
    <3>4. QED
      BY <2>3, <3>3
  <2>4. QED
    BY <2>1, <2>2, <2>3
<1>10. LI!Windows(win)'
  <2> HIDE DEF Young
  <2>1. entry' # LI!Absent => Young(LI!Current', entry'.until, now')
    BY <1>9
  <2> USE DEF Young
  <2>2. QED
    BY <1>4, <1>5, <1>6, <1>7, <2>1 DEF LI!Windows
<1>11. QED
  BY <1>3, <1>10 DEF LI!SpamInv

\* AntiSpam counts a message into the record's window, or begins one.
LEMMA SpamDecides ==
    ASSUME LI!LimitShapes, LI!Held, guard = "AntiSpam", LI!SpamInv, NEW w \in Workers, LI!AntiSpam(w)
    PROVE  LI!LimitShapes' /\ LI!Held' /\ LI!SpamInv'
<1>1. PICK shield \in BOOLEAN :
          LET job == counted[w]
              rec == IF job.time - LI!Its(w).start < Window THEN [LI!Its(w) EXCEPT !.count = @ + 1]
                     ELSE [start |-> job.time, count |-> 1]
          IN  /\ LI!Decided(w, job.time, rec.count <= LI!Active(shield))
              /\ LI!Becomes(w, rec)
  BY DEF LI!AntiSpam
<1>2. UNCHANGED <<guard, now, entry>>
  BY DEF LI!AntiSpam
<1>3. /\ ~LI!Resting(w) /\ counted[w].time \in Nat /\ counted[w].time <= now /\ now <= counted[w].time + 1
      /\ counted[w].what \in LI!Whats /\ entry # LI!Absent /\ counted[w].number = entry.number
      /\ entry.until \in Nat /\ counted[w].time + 2 * Window <= entry.until
  <2>1. ~LI!Resting(w) /\ counted[w].at = "decide"
    BY <1>1 DEF LI!Decided
  <2>2. QED
    BY <2>1, LimitWorker DEF LI!Cached
<1>4. LI!Its(w) = LI!Current /\ LI!Shape = [start : Int, count : Nat] /\ LI!Current \in [start : Int, count : Nat]
  <2>1. LI!Shape = [start : Int, count : Nat]
    BY DEF LI!Shape, LI!Buckets
  <2>2. LI!Current \in LI!Shape
    BY <1>3, MapsRecord
  <2>3. QED
    BY <1>3, <2>1, <2>2 DEF LI!Its, LI!Current
<1>5. PICK t, c : t = counted[w].time /\ c = LI!Current
  OBVIOUS
<1>6. PICK rec : rec = IF t - c.start < Window THEN [c EXCEPT !.count = @ + 1] ELSE [start |-> t, count |-> 1]
  OBVIOUS
<1>7. PICK passed : passed = (rec.count <= LI!Active(shield))
  OBVIOUS
<1>8. LI!Decided(w, t, passed) /\ LI!Becomes(w, rec)
  BY <1>1, <1>4, <1>5, <1>6, <1>7
<1>9. /\ t \in Nat /\ c.start \in Int /\ c.count \in Nat /\ c.count + 1 \in Nat /\ now \in Nat
      /\ Window \in Nat \ {0} /\ Limit \in Nat \ {0}
  BY <1>3, <1>4, <1>5, LimitsAssumption, DecidedMessages
<1>10. /\ rec \in [start : Int, count : Nat]
       /\ t - c.start < Window => rec.start = c.start /\ rec.count = c.count + 1
       /\ ~(t - c.start < Window) => rec.start = t /\ rec.count = 1
  <2>1. CASE t - c.start < Window
    <3>1. rec = [c EXCEPT !.count = c.count + 1] /\ c \in [start : Int, count : Nat]
      BY <1>4, <1>5, <1>6, <2>1
    <3>2. QED
      BY <1>9, <2>1, <3>1
  <2>2. CASE ~(t - c.start < Window)
    BY <1>6, <1>9, <2>2
  <2>3. QED
    BY <2>1, <2>2
<1>11. LI!Active(shield) \in Nat /\ LI!Active(shield) <= Limit
  BY <1>9 DEF LI!Active
<1>12. passed \in BOOLEAN /\ (passed => rec.count <= Limit)
  <2>1. rec.count <= LI!Active(shield) => rec.count <= Limit
    BY <1>9, <1>10, <1>11
  <2>2. passed \in BOOLEAN
    BY <1>7, <1>10, <1>11
  <2>3. QED
    BY <1>7, <2>1, <2>2, Zenon
<1>13. LI!LimitShapes' /\ LI!Held' /\ LI!Current' = rec
  BY <1>2, <1>4, <1>5, <1>8, <1>10, <1>12, Deciding
<1>14. PICK n \in Nat :
          /\ n = Len(outcomes) /\ DOMAIN outcomes = 1..n /\ DOMAIN outcomes' = 1..(n + 1)
          /\ \A k \in 1..n : outcomes'[k] = outcomes[k]
          /\ outcomes'[n + 1] = [time |-> t, what |-> counted[w].what, passed |-> passed]
  <2>1. outcomes' = Append(outcomes, [time |-> t, what |-> counted[w].what, passed |-> passed])
    BY <1>8 DEF LI!Decided
  <2>2. [time |-> t, what |-> counted[w].what, passed |-> passed] \in [time : Nat, what : LI!Whats, passed : BOOLEAN]
    BY <1>3, <1>9, <1>12
  <2>3. QED
    BY <2>1, <2>2, Appended
<1>15. PICK win \in [DOMAIN outcomes -> 0..now] : LI!Windows(win)
  BY DEF LI!SpamInv
<1>16. /\ \A k \in 1..n : win[k] \in 0..now /\ win[k] \in Nat
       /\ \A s : LI!OfWindow(win, s) \in SUBSET (1..n) /\ LI!Cardinality(LI!OfWindow(win, s)) \in Nat
  BY <1>14, <1>15, WindowOf
<1>17. \A k \in 1..n : win[k] + 2 * Window <= entry.until
  BY <1>3, <1>14, <1>15 DEF LI!Windows
<1>18. PICK s : s = rec.start
  OBVIOUS
<1>19. /\ s \in 0..now /\ s <= t + 1 /\ t < s + Window /\ s + 2 * Window <= entry.until
       /\ \A k \in 1..n : win[k] = s \/ win[k] + Window <= s
       /\ LI!Cardinality(LI!OfWindow(win, s)) + 1 <= rec.count
  <2>1. CASE t - c.start < Window
    <3>1. s = c.start /\ rec.count = c.count + 1
      BY <1>10, <1>18, <2>1
    <3>2. c # [start |-> -Window, count |-> 0]
      BY <1>9, <2>1
    <3>3. /\ c.start \in 0..now /\ c.start + 2 * Window <= entry.until
          /\ \A k \in 1..n : win[k] = c.start \/ win[k] + Window <= c.start
          /\ LI!Cardinality(LI!OfWindow(win, c.start)) <= c.count
      BY <1>3, <1>5, <1>14, <1>15, <3>2 DEF LI!Windows
    <3>4. s \in 0..now /\ s <= t + 1 /\ t < s + Window /\ s + 2 * Window <= entry.until
      BY <1>3, <1>5, <1>9, <2>1, <3>1, <3>3
    <3>5. LI!Cardinality(LI!OfWindow(win, s)) + 1 <= rec.count
      BY <1>9, <1>16, <3>1, <3>3
    <3>6. QED
      BY <3>1, <3>3, <3>4, <3>5
  <2>2. CASE ~(t - c.start < Window)
    <3>1. s = t /\ rec.count = 1
      BY <1>10, <1>18, <2>2
    <3>2. ASSUME NEW k \in 1..n PROVE win[k] + Window <= s
      <4>1. CASE \A j \in 1..n : win[j] + 2 * Window <= now
        <5>1. win[k] + 2 * Window <= now /\ now <= t + 1 /\ win[k] \in Nat
          BY <1>3, <1>5, <1>16, <4>1
        <5>2. QED
          BY <1>9, <3>1, <5>1
      <4>2. CASE c.start \in 0..now /\ (win[k] = c.start \/ win[k] + Window <= c.start)
        <5>1. win[k] \in Nat /\ c.start \in Int
          BY <1>9, <1>16
        <5>2. c.start + Window <= t
          BY <1>9, <2>2
        <5>3. QED
          BY <1>9, <3>1, <4>2, <5>1, <5>2
      <4>3. QED
        BY <1>3, <1>5, <1>14, <1>15, <4>1, <4>2 DEF LI!Windows
    <3>3. \A k \in 1..n : win[k] # s
      BY <1>9, <1>16, <3>1, <3>2
    <3>4. LI!OfWindow(win, s) = {}
      BY <1>14, <3>3 DEF LI!OfWindow
    <3>5. LI!Cardinality(LI!OfWindow(win, s)) = 0
      BY <3>4, FS_EmptySet, LICounts
    <3>6. s \in 0..now /\ s <= t + 1 /\ t < s + Window /\ s + 2 * Window <= entry.until
      BY <1>3, <1>5, <1>9, <3>1
    <3>7. QED
      BY <3>1, <3>2, <3>5, <3>6
  <2>3. QED
    BY <2>1, <2>2
<1> DEFINE more == [k \in 1..(n + 1) |-> IF k = n + 1 THEN s ELSE win[k]]
<1>20. /\ more \in [DOMAIN outcomes' -> 0..now'] /\ more[n + 1] = s
       /\ \A k \in 1..n : more[k] = win[k] /\ k \in 1..(n + 1) /\ k # n + 1
       /\ \A k \in 1..(n + 1) : k \in 1..n \/ k = n + 1
  BY <1>2, <1>14, <1>16, <1>19
<1> HIDE DEF more
<1>21. /\ \A x : x # s => LI!OfWindow(more, x)' = LI!OfWindow(win, x)
       /\ passed => LI!OfWindow(more, s)' = LI!OfWindow(win, s) \cup {n + 1}
       /\ ~passed => LI!OfWindow(more, s)' = LI!OfWindow(win, s)
  <2>1. outcomes'[n + 1].passed = passed
    BY <1>14
  <2>2. \A x : LI!OfWindow(more, x)' = {k \in 1..(n + 1) : outcomes'[k].passed /\ more[k] = x}
    BY <1>14 DEF LI!OfWindow
  <2>3. \A x : LI!OfWindow(win, x) = {k \in 1..n : outcomes[k].passed /\ win[k] = x}
    BY <1>14 DEF LI!OfWindow
  <2>4. \A x : \A k \in 1..n : (outcomes'[k].passed /\ more[k] = x) <=> (outcomes[k].passed /\ win[k] = x)
    BY <1>14, <1>20
  <2>5. n + 1 \notin 1..n /\ n + 1 \in 1..(n + 1)
    OBVIOUS
  <2>6. ASSUME NEW x, ~(x = s /\ passed) PROVE LI!OfWindow(more, x)' = LI!OfWindow(win, x)
    <3>1. \A k \in 1..(n + 1) : outcomes'[k].passed /\ more[k] = x => k \in 1..n
      BY <1>20, <2>1, <2>6
    <3>2. \A k : k \in LI!OfWindow(win, x) <=> k \in 1..n /\ outcomes'[k].passed /\ more[k] = x
      BY <2>3, <2>4
    <3>3. \A k : k \in LI!OfWindow(more, x)' <=> k \in 1..(n + 1) /\ outcomes'[k].passed /\ more[k] = x
      BY <2>2
    <3>4. \A k : k \in LI!OfWindow(more, x)' <=> k \in LI!OfWindow(win, x)
      BY <1>20, <3>1, <3>2, <3>3
    <3>5. QED
      BY <3>4
  <2>7. ASSUME passed PROVE LI!OfWindow(more, s)' = LI!OfWindow(win, s) \cup {n + 1}
    <3>1. outcomes'[n + 1].passed /\ more[n + 1] = s
      BY <1>20, <2>1, <2>7
    <3>2. \A k : k \in LI!OfWindow(win, s) <=> k \in 1..n /\ outcomes'[k].passed /\ more[k] = s
      BY <2>3, <2>4
    <3>3. \A k : k \in LI!OfWindow(more, s)' <=> k \in 1..(n + 1) /\ outcomes'[k].passed /\ more[k] = s
      BY <2>2
    <3>4. \A k : k \in LI!OfWindow(more, s)' <=> k \in LI!OfWindow(win, s) \/ k = n + 1
      BY <1>20, <2>5, <3>1, <3>2, <3>3
    <3>5. QED
      BY <3>4
  <2>8. QED
    BY <2>6, <2>7
<1>22. /\ LI!Cardinality(LI!OfWindow(more, s)') \in Nat /\ LI!Cardinality(LI!OfWindow(more, s)') <= rec.count
       /\ LI!Cardinality(LI!OfWindow(more, s)') <= Limit
  <2>1. LI!Cardinality(LI!OfWindow(win, s) \cup {n + 1}) = LI!Cardinality(LI!OfWindow(win, s)) + 1
    BY <1>16, Places
  <2>2. LI!Cardinality(LI!OfWindow(win, s)) \in Nat /\ LI!Cardinality(LI!OfWindow(win, s)) <= Limit
    BY <1>15, <1>16, <1>19 DEF LI!Windows
  <2>3. rec.count \in Nat
    BY <1>10
  <2>4. CASE passed
    <3>1. LI!Cardinality(LI!OfWindow(more, s)') = LI!Cardinality(LI!OfWindow(win, s)) + 1
      BY <1>21, <2>1, <2>4
    <3>2. QED
      BY <1>9, <1>12, <1>19, <2>2, <2>3, <2>4, <3>1
  <2>5. CASE ~passed
    <3>1. LI!Cardinality(LI!OfWindow(more, s)') = LI!Cardinality(LI!OfWindow(win, s))
      BY <1>21, <2>5
    <3>2. QED
      BY <1>9, <1>19, <2>2, <2>3, <3>1
  <2>6. QED
    BY <2>4, <2>5
<1>23. LI!Windows(more)'
  <2>1. \A k \in DOMAIN outcomes' : more[k] <= outcomes'[k].time + 1 /\ outcomes'[k].time < more[k] + Window
    <3>1. \A k \in 1..n : win[k] <= outcomes[k].time + 1 /\ outcomes[k].time < win[k] + Window
      BY <1>14, <1>15 DEF LI!Windows
    <3>2. outcomes'[n + 1].time = t
      BY <1>14
    <3>3. QED
      BY <1>14, <1>19, <1>20, <3>1, <3>2
  <2>2. \A j, k \in DOMAIN outcomes' : more[j] < more[k] => more[j] + Window <= more[k]
    <3>1. \A j, k \in 1..n : win[j] < win[k] => win[j] + Window <= win[k]
      BY <1>14, <1>15 DEF LI!Windows
    <3>2. \A k \in 1..n : ~(s < win[k]) /\ (win[k] < s => win[k] + Window <= s)
      BY <1>9, <1>16, <1>19
    <3>3. ~(s < s)
      BY <1>9, <1>19
    <3>4. QED
      BY <1>14, <1>20, <3>1, <3>2, <3>3
  <2>3. \A x \in 0..now' : LI!Cardinality(LI!OfWindow(more, x)') <= Limit
    <3>1. \A x \in 0..now : LI!Cardinality(LI!OfWindow(win, x)) <= Limit
      BY <1>15 DEF LI!Windows
    <3>2. QED
      BY <1>2, <1>21, <1>22, <3>1
  <2>4. \A k \in DOMAIN outcomes' : more[k] + 2 * Window <= entry'.until
    BY <1>2, <1>14, <1>17, <1>19, <1>20
  <2>5. \A k \in DOMAIN outcomes' : more[k] = rec.start \/ more[k] + Window <= rec.start
    BY <1>14, <1>18, <1>19, <1>20
  <2>6. rec.start \in 0..now' /\ rec.start + 2 * Window <= entry'.until
    BY <1>2, <1>18, <1>19
  <2>7. LI!Cardinality(LI!OfWindow(more, rec.start)') <= rec.count
    BY <1>18, <1>22
  <2>8. entry' # LI!Absent
    BY <1>2, <1>3
  <2>9. QED
    BY <1>13, <2>1, <2>2, <2>3, <2>4, <2>5, <2>6, <2>7, <2>8 DEF LI!Windows
<1>24. QED
  BY <1>13, <1>20, <1>23 DEF LI!SpamInv

\* No three windows touch a stretch as long as a window.
LEMMA TwoWindows ==
    ASSUME LI!LimitShapes, LI!SpamInv, NEW t \in Int
    PROVE  LI!Cardinality(LI!PassedIn(t, t + Window - 1)) <= 2 * Limit
<1>1. PICK win \in [DOMAIN outcomes -> 0..now] : LI!Windows(win)
  BY DEF LI!SpamInv
<1>2. PICK n \in Nat : n = Len(outcomes) /\ DOMAIN outcomes = 1..n
  BY <1>1, WindowOf
<1>3. /\ \A k \in 1..n : win[k] \in 0..now /\ win[k] \in Nat /\ outcomes[k].time \in Nat
      /\ \A s : LI!OfWindow(win, s) \in SUBSET (1..n) /\ LI!Cardinality(LI!OfWindow(win, s)) \in Nat
      /\ now \in Nat /\ Window \in Nat \ {0} /\ Limit \in Nat \ {0}
  BY <1>1, <1>2, WindowOf, LimitsAssumption
<1> DEFINE P == LI!PassedIn(t, t + Window - 1)
<1>4. P \in SUBSET (1..n) /\ \A k \in P : outcomes[k].passed /\ t <= outcomes[k].time /\ outcomes[k].time < t + Window
  BY <1>2, <1>3 DEF LI!PassedIn
<1>5. \A k \in P : win[k] \in Nat /\ win[k] <= t + Window /\ t - Window < win[k]
  <2>1. \A k \in 1..n : win[k] <= outcomes[k].time + 1 /\ outcomes[k].time < win[k] + Window
    BY <1>1, <1>2 DEF LI!Windows
  <2> HIDE DEF P
  <2>2. QED
    BY <1>3, <1>4, <2>1
<1>6. \A j, k \in P : win[j] < win[k] => win[j] + Window <= win[k]
  BY <1>1, <1>2, <1>4 DEF LI!Windows
<1>7. \A s \in 0..now : LI!Cardinality(LI!OfWindow(win, s)) <= Limit
  BY <1>1 DEF LI!Windows
<1> HIDE DEF P
<1>8. \E a, b \in 0..now : P \subseteq LI!OfWindow(win, a) \cup LI!OfWindow(win, b)
  <2>1. CASE P = {}
    BY <1>3, <2>1
  <2>2. CASE P # {}
    <3>1. PICK i \in P : TRUE
      BY <2>2
    <3>2. CASE \A k \in P : win[k] = win[i]
      <4>1. P \subseteq LI!OfWindow(win, win[i])
        BY <1>2, <1>4, <3>2 DEF LI!OfWindow
      <4>2. win[i] \in 0..now
        BY <1>3, <1>4, <3>1
      <4>3. QED
        BY <4>1, <4>2
    <3>3. CASE \E j \in P : win[j] # win[i]
      <4>1. PICK j \in P : win[j] # win[i]
        BY <3>3
      <4>2. ASSUME NEW k \in P, win[k] # win[i], win[k] # win[j] PROVE FALSE
        <5>1. /\ win[i] \in Nat /\ win[i] <= t + Window /\ t - Window < win[i]
              /\ win[j] \in Nat /\ win[j] <= t + Window /\ t - Window < win[j]
              /\ win[k] \in Nat /\ win[k] <= t + Window /\ t - Window < win[k]
          BY <1>5, <3>1
        <5>2. /\ win[i] < win[j] => win[i] + Window <= win[j]
              /\ win[j] < win[i] => win[j] + Window <= win[i]
              /\ win[i] < win[k] => win[i] + Window <= win[k]
              /\ win[k] < win[i] => win[k] + Window <= win[i]
              /\ win[j] < win[k] => win[j] + Window <= win[k]
              /\ win[k] < win[j] => win[k] + Window <= win[j]
          BY <1>6, <3>1
        <5>3. \A x, y, z \in Nat :
                 /\ x <= t + Window /\ t - Window < x /\ y <= t + Window /\ t - Window < y
                 /\ z <= t + Window /\ t - Window < z
                 /\ x # y /\ y # z /\ x # z
                 /\ (x < y => x + Window <= y) /\ (y < x => y + Window <= x)
                 /\ (x < z => x + Window <= z) /\ (z < x => z + Window <= x)
                 /\ (y < z => y + Window <= z) /\ (z < y => z + Window <= y)
                 => FALSE
          BY <1>3
        <5>4. QED
          BY <4>1, <4>2, <5>1, <5>2, <5>3
      <4>3. P \subseteq LI!OfWindow(win, win[i]) \cup LI!OfWindow(win, win[j])
        BY <1>2, <1>4, <4>2 DEF LI!OfWindow
      <4>4. win[i] \in 0..now /\ win[j] \in 0..now
        BY <1>3, <1>4, <3>1, <4>1
      <4>5. QED
        BY <4>3, <4>4
    <3>4. QED
      BY <3>2, <3>3
  <2>3. QED
    BY <2>1, <2>2
<1>9. PICK a, b : a \in 0..now /\ b \in 0..now /\ P \subseteq LI!OfWindow(win, a) \cup LI!OfWindow(win, b)
  BY <1>8
<1> DEFINE A == LI!OfWindow(win, a)
           B == LI!OfWindow(win, b)
<1>10. /\ A \in SUBSET (1..n) /\ B \in SUBSET (1..n) /\ A \cap B \in SUBSET (1..n) /\ A \cup B \in SUBSET (1..n)
       /\ LI!Cardinality(A) <= Limit /\ LI!Cardinality(B) <= Limit /\ P \subseteq A \cup B
  BY <1>3, <1>7, <1>9
<1> HIDE DEF A, B
<1>11. /\ LI!IsFiniteSet(A) /\ LI!IsFiniteSet(B) /\ LI!IsFiniteSet(A \cup B)
       /\ LI!Cardinality(A) \in Nat /\ LI!Cardinality(B) \in Nat /\ LI!Cardinality(A \cap B) \in Nat
       /\ LI!Cardinality(P) \in Nat /\ LI!Cardinality(A \cup B) \in Nat
  BY <1>4, <1>10, Places
<1>12. LI!Cardinality(A \cup B) = LI!Cardinality(A) + LI!Cardinality(B) - LI!Cardinality(A \cap B)
  BY <1>11, FS_Union, LICounts
<1>13. LI!Cardinality(P) <= LI!Cardinality(A \cup B)
  <2>1. IsFiniteSet(A \cup B)
    BY <1>11, LICounts
  <2>2. Cardinality(P) <= Cardinality(A \cup B)
    BY <1>10, <2>1, FS_Subset
  <2>3. QED
    BY <2>2, LICounts
<1>14. LI!Cardinality(P) <= 2 * Limit
  BY <1>3, <1>10, <1>11, <1>12, <1>13
<1>15. QED
  BY <1>14 DEF P

\* The record of the last message stays, or that one is a minute old.
LEMMA RepeatStays ==
    ASSUME LI!LimitShapes, LI!RepeatInv, outcomes' = outcomes, now' \in {now, now + 1},
           entry # LI!Absent => entry.until \in Nat,
           \/ entry' = entry /\ LI!Current' = LI!Current
           \/ entry # LI!Absent /\ entry' = LI!Absent /\ entry.until < now
           \/ /\ entry' # LI!Absent /\ entry'.until = now + 2 * Window /\ now' = now
              /\ \/ entry # LI!Absent /\ LI!Current' = LI!Current
                 \/ entry = LI!Absent
                 \/ entry # LI!Absent /\ entry.until <= now
    PROVE  LI!RepeatInv'
<1>1. CASE outcomes = <<>>
  BY <1>1, DecidedMessages DEF LI!RepeatInv
<1>2. CASE outcomes # <<>>
  <2>1. PICK last : last = outcomes[Len(outcomes)]
    OBVIOUS
  <2>2. last.time \in Nat /\ last.time <= now /\ now \in Nat /\ Window \in Nat \ {0}
    BY <1>2, <2>1, DecidedMessages, LimitsAssumption
  <2>3. /\ entry # LI!Absent => last.time + Window <= entry.until
        /\ \/ last.time + Window <= now
           \/ entry # LI!Absent /\ LI!Current = [text |-> last.what, time |-> last.time]
    BY <1>2, <2>1 DEF LI!RepeatInv
  <2>4. last.time + Window <= now => last.time + Window <= now'
    BY <2>2
  <2>5. entry' # LI!Absent => last.time + Window <= entry'.until
    <3>1. last.time + Window <= now + 2 * Window
      BY <2>2
    <3>2. QED
      BY <2>3, <3>1
  <2>6. \/ last.time + Window <= now'
        \/ entry' # LI!Absent /\ LI!Current' = [text |-> last.what, time |-> last.time]
    <3>1. CASE entry' = entry /\ LI!Current' = LI!Current
      BY <2>3, <2>4, <3>1
    <3>2. CASE entry # LI!Absent /\ entry.until <= now
      <4>1. last.time + Window <= entry.until /\ entry.until \in Nat
        BY <2>3, <3>2
      <4>2. QED
        BY <2>2, <2>4, <3>2, <4>1
    <3>3. CASE entry # LI!Absent /\ entry.until < now
      <4>1. last.time + Window <= entry.until /\ entry.until \in Nat
        BY <2>3, <3>3
      <4>2. QED
        BY <2>2, <2>4, <3>3, <4>1
    <3>4. CASE entry = LI!Absent
      BY <2>3, <2>4, <3>4
    <3>5. CASE entry # LI!Absent /\ entry' # LI!Absent /\ LI!Current' = LI!Current
      BY <2>3, <2>4, <3>5
    <3>6. QED
      BY <3>1, <3>2, <3>3, <3>4, <3>5
  <2>7. QED
    BY <1>2, <2>1, <2>5, <2>6 DEF LI!RepeatInv
<1>3. QED
  BY <1>1, <1>2

\* AntiRepeat compares a message with the record, which it replaces.
LEMMA RepeatDecides ==
    ASSUME LI!LimitShapes, LI!Held, guard = "AntiRepeat", LI!RepeatInv, NEW w \in Workers, LI!AntiRepeat(w)
    PROVE  LI!LimitShapes' /\ LI!Held' /\ LI!RepeatInv'
<1>1. PICK what, c, passed :
          /\ what = counted[w].what /\ c = LI!Current
          /\ passed = ~(c.text = what /\ now - c.time < Window)
  OBVIOUS
<1>2. passed \in BOOLEAN
  BY <1>1
<1>3. /\ LI!Decided(w, now, ~(LI!Its(w).text = counted[w].what /\ now - LI!Its(w).time < Window))
      /\ LI!Becomes(w, [text |-> counted[w].what, time |-> now]) /\ UNCHANGED <<guard, now, entry>>
  BY DEF LI!AntiRepeat
<1>4. /\ counted[w].time \in Nat /\ counted[w].time <= now /\ now <= counted[w].time + 1 /\ now \in Nat
      /\ what \in LI!Whats /\ entry # LI!Absent /\ counted[w].number = entry.number
      /\ entry.until \in Nat /\ counted[w].time + 2 * Window <= entry.until
  <2>1. ~LI!Resting(w) /\ counted[w].at = "decide"
    BY <1>3 DEF LI!Decided
  <2>2. QED
    BY <1>1, <2>1, LimitWorker DEF LI!Cached, LI!LimitShapes
<1>5. LI!Its(w) = LI!Current
  BY <1>4 DEF LI!Its, LI!Current
<1>6. LI!Decided(w, now, passed)
  BY <1>1, <1>3, <1>5
<1>7. what \in Texts /\ LI!Shape = [text : Texts \cup {""}, time : Int]
  BY <1>4 DEF LI!Whats, LI!Shape, LI!Buckets
<1>8. [text |-> what, time |-> now] \in LI!Shape
  <2>1. now \in Int
    BY <1>4
  <2>2. what \in Texts \cup {""}
    BY <1>7, Zenon
  <2>3. QED
    BY <1>7, <2>1, <2>2
<1>9. LI!LimitShapes' /\ LI!Held' /\ LI!Current' = [text |-> what, time |-> now]
  BY <1>1, <1>2, <1>3, <1>6, <1>8, Deciding
<1>10. PICK n \in Nat :
          /\ n = Len(outcomes) /\ Len(outcomes') = n + 1 /\ outcomes' # <<>>
          /\ \A k \in 1..n : outcomes'[k] = outcomes[k]
          /\ outcomes'[n + 1].time = now /\ outcomes'[n + 1].what = what /\ outcomes'[n + 1].passed = passed
  <2>1. outcomes' = Append(outcomes, [time |-> now, what |-> what, passed |-> passed])
    BY <1>1, <1>6 DEF LI!Decided
  <2>2. PICK o : o = [time |-> now, what |-> what, passed |-> passed]
    OBVIOUS
  <2>3. o \in [time : Nat, what : LI!Whats, passed : BOOLEAN] /\ o.time = now /\ o.what = what /\ o.passed = passed
    BY <1>2, <1>4, <2>2
  <2>4. /\ Len(outcomes) \in Nat /\ Len(outcomes') = Len(outcomes) + 1
        /\ \A k \in DOMAIN outcomes : outcomes'[k] = outcomes[k]
        /\ outcomes'[Len(outcomes) + 1] = o
    BY <2>1, <2>2, <2>3, Appended
  <2>5. outcomes' # <<>>
    BY <2>4
  <2>6. QED
    BY <2>3, <2>4, <2>5, DecidedMessages
<1>11. Window \in Nat \ {0}
  BY LimitsAssumption
<1>12. ASSUME n # 0, outcomes[n].what = what, now - outcomes[n].time < Window
       PROVE  ~passed
  <2>1. outcomes[n].time \in Nat
    BY <1>10, <1>12, DecidedMessages
  <2>2. ~(outcomes[n].time + Window <= now)
    BY <1>4, <1>11, <1>12, <2>1
  <2>3. c = [text |-> outcomes[n].what, time |-> outcomes[n].time]
    BY <1>1, <1>10, <1>12, <2>2, DecidedMessages DEF LI!RepeatInv
  <2>4. c.text = outcomes[n].what /\ c.time = outcomes[n].time
    BY <2>3
  <2>5. QED
    BY <1>1, <1>12, <2>4
<1>13. \A k \in 2..Len(outcomes') :
          outcomes'[k].what = outcomes'[k - 1].what /\ outcomes'[k].time - outcomes'[k - 1].time < Window
              => ~outcomes'[k].passed
  <2> SUFFICES ASSUME NEW k \in 2..(n + 1), outcomes'[k].what = outcomes'[k - 1].what,
                      outcomes'[k].time - outcomes'[k - 1].time < Window
               PROVE  ~outcomes'[k].passed
    BY <1>10
  <2>1. PICK j : j = k - 1
    OBVIOUS
  <2>2. j \in 1..n /\ outcomes'[j] = outcomes[j]
    BY <1>10, <2>1
  <2>3. CASE k \in 2..n
    <3>1. outcomes'[k] = outcomes[k]
      BY <1>10, <2>3
    <3>2. \A i \in 2..n : outcomes[i].what = outcomes[i - 1].what /\ outcomes[i].time - outcomes[i - 1].time < Window
              => ~outcomes[i].passed
      BY <1>10 DEF LI!RepeatInv
    <3>3. QED
      BY <2>1, <2>2, <2>3, <3>1, <3>2
  <2>4. CASE k = n + 1
    <3>1. j = n /\ n # 0
      BY <2>1, <2>2, <2>4
    <3>2. QED
      BY <1>10, <1>12, <2>1, <2>2, <2>4, <3>1
  <2>5. QED
    BY <2>3, <2>4
<1>14. now + Window <= entry.until
  BY <1>4, <1>11
<1>15. QED
  BY <1>3, <1>4, <1>9, <1>10, <1>13, <1>14 DEF LI!RepeatInv

\* The record of a cooldown stays as long as no message passes.
LEMMA CooldownStays ==
    ASSUME LI!LimitShapes, LI!CooldownInv, outcomes' = outcomes,
           LI!Current' = LI!Current, entry # LI!Absent => entry' # LI!Absent,
           \A v \in Workers : counted'[v].at = "first" => counted[v].at = "first" /\ counted'[v] = counted[v]
    PROVE  LI!CooldownInv'
BY DEF LI!CooldownInv

\* The first message of all makes the record.
LEMMA CooldownFinds ==
    ASSUME LI!LimitShapes, LI!Held, guard = "Cooldown", LI!CooldownInv, NEW w \in Workers, LI!Find(w)
    PROVE  LI!CooldownInv'
<1>1. /\ entry' # LI!Absent /\ UNCHANGED <<guard, now, outcomes>>
      /\ (entry # LI!Absent /\ LI!Current' = LI!Current) \/ (entry = LI!Absent /\ LI!Current' = LI!Fresh)
      /\ \A v \in Workers : counted'[v].at = "first" => counted[v].at = "first" \/ (v = w /\ entry = LI!Absent)
      /\ counted'[w].time <= now
  BY Finding DEF LI!Cached
<1>2. \A v \in Workers : v # w => counted'[v] = counted[v]
  <2>1. DOMAIN counted = Workers
    BY DEF LI!LimitShapes
  <2>2. QED
    BY <2>1 DEF LI!Find
<1>3. counted[w].at # "first"
  BY DEF LI!Find
<1>4. CASE entry # LI!Absent
  <2>1. \A v \in Workers : counted'[v].at = "first" => counted[v].at = "first" /\ counted'[v] = counted[v]
    BY <1>1, <1>2, <1>3, <1>4
  <2>2. QED
    BY <1>1, <1>4, <2>1, CooldownStays
<1>5. CASE entry = LI!Absent
  <2>1. LI!Fresh = [last |-> now]
    BY DEF LI!Fresh, LI!Buckets
  <2>2. \A k \in DOMAIN outcomes : ~outcomes[k].passed
    BY <1>5 DEF LI!CooldownInv
  <2>3. \A v \in Workers : counted[v].at # "first"
    <3>1. ASSUME NEW v \in Workers, counted[v].at = "first" PROVE FALSE
      <4>1. ~LI!Resting(v)
        BY <3>1 DEF LI!Resting, LI!Rest
      <4>2. QED
        BY <1>5, <3>1, <4>1, LimitWorker
    <3>2. QED
      BY <3>1
  <2>4. \A v \in Workers : counted'[v].at = "first" => v = w
    BY <1>1, <2>3
  <2>5. LI!Current'.last = now
    BY <1>1, <1>5, <2>1
  <2>6. QED
    BY <1>1, <2>2, <2>4, <2>5 DEF LI!CooldownInv
<1>6. QED
  BY <1>4, <1>5

\* A message passes a cooldown, or is stopped.
LEMMA CooldownDecides ==
    ASSUME LI!LimitShapes, LI!Held, LI!CooldownInv, NEW w \in Workers, LI!Cooldown(w), ~late'
    PROVE  LI!LimitShapes' /\ LI!Held' /\ LI!CooldownInv'
<1> DEFINE S == [time : Nat, what : LI!Whats, passed : BOOLEAN]
           J == [at : {"find", "first", "decide"}, time : Nat, what : LI!Whats, number : Nat]
<1>1. PICK t, c, passed :
          /\ t = counted[w].time /\ c = LI!Its(w)
          /\ passed = (counted[w].at = "first" \/ (counted[w].at = "decide" /\ t - c.last >= Window))
  OBVIOUS
<1>2. passed \in BOOLEAN
  BY <1>1
<1>3. /\ guard = "Cooldown" /\ ~LI!Resting(w) /\ counted[w].at \in {"first", "decide"}
      /\ outcomes' = Append(outcomes, [time |-> t, what |-> counted[w].what, passed |-> passed])
      /\ counted' = [counted EXCEPT ![w] = LI!Rest]
      /\ IF passed /\ counted[w].at = "decide"
         THEN records' = Append(records, [last |-> t]) /\ entry' = [entry EXCEPT !.number = Len(records')]
         ELSE UNCHANGED <<records, entry>>
      /\ \A v \in Workers : v # w /\ passed => LI!Resting(v)
      /\ UNCHANGED <<guard, now>>
  BY <1>1 DEF LI!Cooldown
<1>4. /\ counted[w] \in J /\ t \in Nat /\ t <= now /\ now \in Nat /\ Window \in Nat \ {0}
      /\ entry # LI!Absent /\ counted[w].number = entry.number /\ entry \in [number : 1..Len(records), until : Nat]
  BY <1>1, <1>3, LimitWorker, LimitsAssumption DEF LI!LimitShapes
<1>5. c = LI!Current /\ LI!Shape = [last : Nat] /\ c.last \in Nat /\ records \in Seq([last : Nat])
  <2>1. LI!Shape = [last : Nat]
    BY <1>3 DEF LI!Shape, LI!Buckets
  <2>2. c = LI!Current /\ LI!Current \in [last : Nat]
    BY <1>1, <1>4, <2>1, MapsRecord DEF LI!Its, LI!Current
  <2>3. QED
    BY <2>1, <2>2 DEF LI!LimitShapes
<1>6. PICK n \in Nat :
          /\ n = Len(outcomes) /\ outcomes' \in Seq(S) /\ DOMAIN outcomes' = 1..(n + 1) /\ DOMAIN outcomes = 1..n
          /\ \A k \in 1..n : outcomes'[k] = outcomes[k]
          /\ outcomes'[n + 1].time = t /\ outcomes'[n + 1].passed = passed
  <2>1. PICK o : o = [time |-> t, what |-> counted[w].what, passed |-> passed]
    OBVIOUS
  <2>2. o \in S /\ o.time = t /\ o.passed = passed
    BY <1>2, <1>4, <2>1
  <2>3. outcomes' = Append(outcomes, o)
    BY <1>3, <2>1
  <2>4. QED
    BY <2>2, <2>3, Appended
<1>7. \A k \in 1..(n + 1) : k \in 1..n \/ k = n + 1
  BY <1>6
<1>8. /\ records' \in Seq([last : Nat]) /\ entry' \in [number : 1..Len(records'), until : Nat] /\ entry' # LI!Absent
      /\ LI!Current' \in [last : Nat]
      /\ IF passed /\ counted[w].at = "decide" THEN LI!Current'.last = t
         ELSE LI!Current' = LI!Current /\ entry' = entry
  <2>1. CASE passed /\ counted[w].at = "decide"
    <3>1. records' = Append(records, [last |-> t]) /\ entry' = [entry EXCEPT !.number = Len(records')]
      BY <1>3, <2>1
    <3>2. [last |-> t] \in [last : Nat] /\ Len(records) \in Nat
      BY <1>4, <1>5
    <3>3. /\ records' \in Seq([last : Nat]) /\ Len(records') = Len(records) + 1
          /\ records'[Len(records) + 1] = [last |-> t]
      BY <1>5, <3>1, <3>2, AppendProperties
    <3>4. Len(records') \in 1..Len(records') /\ Len(records') # 0
      BY <3>2, <3>3
    <3>5. entry' \in [number : 1..Len(records'), until : Nat] /\ entry'.number = Len(records')
      BY <1>4, <3>1, <3>4
    <3>6. entry' # LI!Absent
      BY <3>4, <3>5 DEF LI!Absent
    <3>7. LI!Current' = [last |-> t]
      BY <3>3, <3>5 DEF LI!Current
    <3>8. QED
      BY <1>4, <2>1, <3>3, <3>5, <3>6, <3>7
  <2>2. CASE ~(passed /\ counted[w].at = "decide")
    <3>1. UNCHANGED <<records, entry>>
      BY <1>3, <2>2
    <3>2. LI!Current \in [last : Nat]
      BY <1>4, <1>5, MapsRecord
    <3>3. QED
      BY <1>4, <1>5, <2>2, <3>1, <3>2 DEF LI!Current
  <2>3. QED
    BY <2>1, <2>2
<1>9. /\ counted' \in [Workers -> {LI!Rest} \cup J] /\ counted'[w] = LI!Rest
      /\ \A v \in Workers : v # w => counted'[v] = counted[v]
  BY <1>3 DEF LI!LimitShapes
<1>10. LI!Shape' = LI!Shape /\ LI!Whats' = LI!Whats
  BY <1>3, SameShape
<1>11. \A k \in DOMAIN outcomes' : outcomes'[k].time <= now
  BY <1>4, <1>6, <1>7, DecidedMessages
<1>12. LI!LimitShapes'
  <2>1. outcomes' \in Seq([time : Nat, what : LI!Whats', passed : BOOLEAN])
    BY <1>6, <1>10
  <2>2. counted' \in [Workers -> {LI!Rest} \cup
                 [at : {"find", "first", "decide"}, time : Nat, what : LI!Whats', number : Nat]]
    BY <1>9, <1>10
  <2>3. records' \in Seq(LI!Shape')
    BY <1>5, <1>8, <1>10
  <2>4. QED
    BY <1>3, <1>4, <1>8, <1>11, <2>1, <2>2, <2>3 DEF LI!LimitShapes
<1>13. LI!Held'
  <2>1. ASSUME NEW v \in Workers, ~LI!Resting(v)' PROVE v # w /\ counted'[v] = counted[v] /\ ~LI!Resting(v) /\ ~passed
    BY <1>3, <1>9, <2>1 DEF LI!Resting
  <2>2. ~passed => entry' = entry
    BY <1>3
  <2>3. QED
    BY <1>3, <1>4, <1>8, <2>1, <2>2 DEF LI!Held, LI!Cached
<1>14. \A k \in 1..n : outcomes[k].passed => outcomes[k].time \in Nat /\ outcomes[k].time <= c.last
  BY <1>5, <1>6, DecidedMessages DEF LI!CooldownInv
<1>15. counted[w].at = "first" => t <= c.last /\ \A k \in 1..n : ~outcomes[k].passed
  BY <1>1, <1>5, <1>6 DEF LI!CooldownInv
<1>16. passed /\ counted[w].at = "decide" => c.last + Window <= t
  <2>1. passed /\ counted[w].at = "decide" => t - c.last >= Window
    BY <1>1
  <2>2. QED
    BY <1>4, <1>5, <2>1
<1>17. \A j, k \in DOMAIN outcomes' :
          j < k /\ outcomes'[j].passed /\ outcomes'[k].passed => outcomes'[j].time + Window <= outcomes'[k].time
  <2> SUFFICES ASSUME NEW j \in 1..(n + 1), NEW k \in 1..(n + 1), j < k, outcomes'[j].passed, outcomes'[k].passed
               PROVE  outcomes'[j].time + Window <= outcomes'[k].time
    BY <1>6
  <2>1. j \in 1..n
    BY <1>6
  <2>2. CASE k \in 1..n
    BY <1>6, <2>1, <2>2 DEF LI!CooldownInv
  <2>3. CASE k = n + 1
    <3>1. outcomes[j].passed /\ outcomes'[j] = outcomes[j] /\ passed /\ outcomes'[k].time = t
      BY <1>6, <2>1, <2>3
    <3>2. counted[w].at = "decide"
      BY <1>3, <1>15, <2>1, <3>1
    <3>3. c.last + Window <= t /\ outcomes[j].time \in Nat /\ outcomes[j].time <= c.last
      BY <1>14, <1>16, <2>1, <3>1, <3>2
    <3>4. QED
      BY <1>4, <1>5, <3>1, <3>3
  <2>4. QED
    BY <1>7, <2>2, <2>3
<1>18. \A k \in DOMAIN outcomes' : outcomes'[k].passed => entry' # LI!Absent /\ outcomes'[k].time <= LI!Current'.last
  <2> SUFFICES ASSUME NEW k \in 1..(n + 1), outcomes'[k].passed PROVE outcomes'[k].time <= LI!Current'.last
    BY <1>6, <1>8
  <2>1. CASE passed /\ counted[w].at = "decide"
    <3>1. LI!Current'.last = t /\ c.last + Window <= t
      BY <1>8, <1>16, <2>1
    <3>2. CASE k = n + 1
      BY <1>4, <1>6, <3>1, <3>2
    <3>3. CASE k \in 1..n
      <4>1. outcomes'[k] = outcomes[k] /\ outcomes[k].time \in Nat /\ outcomes[k].time <= c.last
        BY <1>6, <1>14, <3>3
      <4>2. QED
        BY <1>4, <1>5, <3>1, <4>1
    <3>4. QED
      BY <1>7, <3>2, <3>3
  <2>2. CASE ~(passed /\ counted[w].at = "decide")
    <3>1. LI!Current' = c
      BY <1>5, <1>8, <2>2
    <3>2. CASE k = n + 1
      BY <1>3, <1>6, <1>15, <2>2, <3>1, <3>2
    <3>3. CASE k \in 1..n
      BY <1>6, <1>14, <3>1, <3>3
    <3>4. QED
      BY <1>7, <3>2, <3>3
  <2>3. QED
    BY <2>1, <2>2
<1>19. ASSUME NEW v \in Workers, counted'[v].at = "first"
       PROVE  counted'[v].time <= LI!Current'.last /\ \A k \in DOMAIN outcomes' : ~outcomes'[k].passed
  <2>1. v # w /\ counted'[v] = counted[v]
    BY <1>9, <1>19 DEF LI!Rest
  <2>2. counted[v].at = "first" /\ ~LI!Resting(v)
    BY <1>19, <2>1 DEF LI!Resting, LI!Rest
  <2>3. ~passed
    BY <1>3, <2>1, <2>2
  <2>4. LI!Current' = LI!Current /\ counted[v].time <= LI!Current.last /\ \A k \in 1..n : ~outcomes[k].passed
    BY <1>6, <1>8, <2>2, <2>3 DEF LI!CooldownInv
  <2>5. QED
    BY <1>6, <1>7, <2>1, <2>3, <2>4
<1>20. QED
  BY <1>12, <1>13, <1>17, <1>18, <1>19 DEF LI!CooldownInv

\* Within a window's length at most one message passes a cooldown.
LEMMA OnePasses ==
    ASSUME LI!LimitShapes, LI!CooldownInv, NEW t \in Int
    PROVE  LI!Cardinality(LI!PassedIn(t, t + Window - 1)) <= 1
<1> DEFINE P == LI!PassedIn(t, t + Window - 1)
<1>1. PICK n \in Nat : n = Len(outcomes) /\ DOMAIN outcomes = 1..n
  BY DecidedMessages
<1>2. P \in SUBSET (1..n) /\ \A k \in P : outcomes[k].passed /\ outcomes[k].time \in t..(t + Window - 1)
  BY <1>1 DEF LI!PassedIn
<1>3. Window \in Nat \ {0}
  BY LimitsAssumption
<1> HIDE DEF P
<1>4. ASSUME NEW j \in P, NEW k \in P, j < k PROVE FALSE
  <2>1. outcomes[j].time + Window <= outcomes[k].time
    BY <1>1, <1>2, <1>4 DEF LI!CooldownInv
  <2>2. /\ outcomes[j].time \in Int /\ t <= outcomes[j].time
        /\ outcomes[k].time \in Int /\ outcomes[k].time <= t + Window - 1
    BY <1>2, <1>3
  <2>3. QED
    BY <1>3, <2>1, <2>2
<1>5. \A j, k \in P : j = k
  <2>1. \A j, k \in 1..n : j = k \/ j < k \/ k < j
    OBVIOUS
  <2>2. QED
    BY <1>2, <1>4, <2>1
<1>6. LI!Cardinality(P) <= 1
  BY <1>2, <1>5, OnePlace
<1>7. QED
  BY <1>6 DEF P

\* The messages that passed in a stretch of time can be counted.
LEMMA PassedCount ==
    ASSUME LI!LimitShapes, NEW t, NEW u
    PROVE  /\ LI!PassedIn(t, u) \in SUBSET (1..Len(outcomes))
           /\ LI!IsFiniteSet(LI!PassedIn(t, u)) /\ LI!Cardinality(LI!PassedIn(t, u)) \in Nat
<1>1. Len(outcomes) \in Nat /\ LI!PassedIn(t, u) \in SUBSET (1..Len(outcomes))
  BY DecidedMessages DEF LI!PassedIn
<1>2. QED
  BY <1>1, Places

\* What is left in the bucket.
LEMMA LeftOf ==
    ASSUME LI!LimitShapes, LI!BucketInv, guard \in LI!Buckets
    PROVE  /\ LI!Left \in Nat /\ LI!Left <= Limit /\ Limit \in Nat
           /\ entry = LI!Absent => LI!Left = Limit
           /\ entry # LI!Absent =>
                 /\ LI!Current \in [tokens : 0..Limit, refilled : Nat]
                 /\ LI!Current.tokens \in Nat /\ LI!Current.refilled \in Nat /\ LI!Current.refilled <= now
                 /\ LI!Left =
                       IF LI!Current.tokens + now - LI!Current.refilled > Limit THEN Limit
                       ELSE LI!Current.tokens + now - LI!Current.refilled
<1>1. Limit \in Nat /\ now \in Nat
  BY LimitsAssumption DEF LI!LimitShapes
<1>2. entry # LI!Absent =>
         /\ LI!Current \in [tokens : 0..Limit, refilled : Nat]
         /\ LI!Current.tokens \in Nat /\ LI!Current.refilled \in Nat /\ LI!Current.refilled <= now
  <2>1. LI!Shape = [tokens : 0..Limit, refilled : Nat]
    BY DEF LI!Shape, LI!Buckets
  <2>2. entry # LI!Absent => LI!Current \in [tokens : 0..Limit, refilled : Nat] /\ LI!Current.refilled <= now
    BY <2>1, MapsRecord DEF LI!BucketInv
  <2>3. QED
    BY <1>1, <2>2
<1>3. CASE entry = LI!Absent
  BY <1>1, <1>3 DEF LI!Left
<1>4. CASE entry # LI!Absent
  <2>1. PICK x, y : x = LI!Current.tokens /\ y = LI!Current.refilled /\ x \in Nat /\ y \in Nat /\ y <= now
    BY <1>2, <1>4
  <2>2. LI!Left = IF x + now - y > Limit THEN Limit ELSE x + now - y
    BY <1>4, <2>1 DEF LI!Left
  <2>3. LI!Left \in Nat /\ LI!Left <= Limit
    BY <1>1, <2>1, <2>2
  <2>4. QED
    BY <1>1, <1>2, <1>4, <2>1, <2>2, <2>3
<1>5. QED
  BY <1>3, <1>4

\* A tick adds a token, and nothing passes in it yet.
LEMMA BucketTicks ==
    ASSUME LI!LimitShapes, LI!Held, guard \in LI!Buckets, LI!BucketInv, LI!Tick, ~late'
    PROVE  LI!BucketInv'
<1>1. /\ LI!LimitShapes' /\ now' = now + 1 /\ LI!Current' = LI!Current
      /\ UNCHANGED <<guard, entry, records, counted, outcomes>>
  BY TickShapes
<1>2. now \in Nat /\ now' \in Nat /\ 0..now' = (0..now) \cup {now'}
  <2>1. now \in Nat
    BY DecidedMessages
  <2>2. QED
    BY <1>1, <2>1
<1>3. /\ LI!Left \in Nat /\ LI!Left <= Limit /\ Limit \in Nat
      /\ entry = LI!Absent => LI!Left = Limit
      /\ entry # LI!Absent =>
            /\ LI!Current.tokens \in Nat /\ LI!Current.refilled \in Nat /\ LI!Current.refilled <= now
            /\ LI!Left =
                  IF LI!Current.tokens + now - LI!Current.refilled > Limit THEN Limit
                  ELSE LI!Current.tokens + now - LI!Current.refilled
  BY LeftOf
<1>4. entry' # LI!Absent => LI!Current'.refilled <= now'
  BY <1>1, <1>2, <1>3
<1>5. LI!Left' \in Nat /\ LI!Left' <= LI!Left + 1 /\ LI!Left' <= Limit
  <2>1. CASE entry = LI!Absent
    BY <1>1, <1>3, <2>1 DEF LI!Left
  <2>2. CASE entry # LI!Absent
    <3>1. PICK x, y : x = LI!Current.tokens /\ y = LI!Current.refilled /\ x \in Nat /\ y \in Nat /\ y <= now
      BY <1>3, <2>2
    <3>2. LI!Left = IF x + now - y > Limit THEN Limit ELSE x + now - y
      BY <1>3, <2>2, <3>1
    <3>3. LI!Left' = IF x + now' - y > Limit THEN Limit ELSE x + now' - y
      BY <1>1, <2>2, <3>1 DEF LI!Left
    <3>4. QED
      BY <1>1, <1>2, <1>3, <3>1, <3>2, <3>3
  <2>3. QED
    BY <2>1, <2>2
<1>6. \A t, u : LI!PassedIn(t, u)' = LI!PassedIn(t, u)
  BY <1>1 DEF LI!PassedIn
<1>7. \A t : LI!PassedIn(t, now') = LI!PassedIn(t, now) \/ t \notin 0..now
  <2>1. \A k \in DOMAIN outcomes : outcomes[k].time \in Nat /\ outcomes[k].time <= now
    BY DecidedMessages
  <2>2. \A t \in 0..now : \A k \in DOMAIN outcomes : outcomes[k].time \in t..now <=> outcomes[k].time \in t..now'
    BY <1>1, <1>2, <2>1
  <2>3. QED
    BY <2>2 DEF LI!PassedIn
<1>8. LI!PassedIn(now', now') = {}
  <2>1. \A k \in DOMAIN outcomes : outcomes[k].time \in Nat /\ outcomes[k].time <= now
    BY DecidedMessages
  <2>2. \A k \in DOMAIN outcomes : outcomes[k].time \notin now'..now'
    BY <1>1, <1>2, <2>1
  <2>3. QED
    BY <2>2 DEF LI!PassedIn
<1>9. LI!Cardinality(LI!PassedIn(now', now')) = 0
  BY <1>8, FS_EmptySet, LICounts
<1>10. ASSUME NEW t \in 0..now' PROVE LI!Cardinality(LI!PassedIn(t, now')) + LI!Left' <= Limit + now' - t
  <2>1. CASE t = now'
    <3>1. 0 + LI!Left' <= Limit + now' - now'
      BY <1>2, <1>5, LeftOf
    <3>2. QED
      BY <1>9, <2>1, <3>1
  <2>2. CASE t \in 0..now
    <3>1. LI!Cardinality(LI!PassedIn(t, now)) + LI!Left <= Limit + now - t
      BY <2>2 DEF LI!BucketInv
    <3>2. LI!PassedIn(t, now') = LI!PassedIn(t, now) /\ LI!Cardinality(LI!PassedIn(t, now)) \in Nat
      BY <1>7, <2>2, PassedCount
    <3>3. PICK c \in Nat : c = LI!Cardinality(LI!PassedIn(t, now)) /\ c = LI!Cardinality(LI!PassedIn(t, now'))
      BY <3>2
    <3>4. c + LI!Left <= Limit + now - t
      BY <3>1, <3>3
    <3>5. c + LI!Left' <= Limit + now' - t
      <4>1. PICK l, left, m : l = LI!Left' /\ left = LI!Left /\ m = now'
        OBVIOUS
      <4>2. l \in Nat /\ left \in Nat /\ l <= left + 1 /\ m = now + 1 /\ now \in Nat /\ t \in Nat /\ Limit \in Nat
        BY <1>1, <1>2, <1>3, <1>5, <2>2, <4>1
      <4>3. c + left <= Limit + now - t
        BY <3>4, <4>1
      <4>4. c + l <= Limit + m - t
        BY <4>2, <4>3
      <4>5. QED
        BY <4>1, <4>4
    <3>6. QED
      BY <3>3, <3>5
  <2>3. QED
    BY <1>2, <2>1, <2>2
<1>11. ASSUME NEW u \in 0..now', NEW t \in 0..u PROVE LI!Cardinality(LI!PassedIn(t, u)) <= Limit + u - t
  <2>1. CASE u \in 0..now
    BY <2>1 DEF LI!BucketInv
  <2>2. CASE u = now'
    <3>1. t \in 0..now'
      BY <2>2
    <3>2. PICK c \in Nat : c = LI!Cardinality(LI!PassedIn(t, now'))
      BY PassedCount
    <3>3. c + LI!Left' <= Limit + now' - t
      BY <1>10, <3>1, <3>2
    <3>4. c <= Limit + now' - t
      <4>1. PICK l, m : l = LI!Left' /\ m = now'
        OBVIOUS
      <4>2. l \in Nat /\ Limit \in Nat /\ m \in Nat /\ t \in Nat
        BY <1>2, <1>3, <1>5, <3>1, <4>1
      <4>3. c + l <= Limit + m - t
        BY <3>3, <4>1
      <4>4. c <= Limit + m - t
        BY <4>2, <4>3
      <4>5. QED
        BY <4>1, <4>4
    <3>5. QED
      BY <2>2, <3>2, <3>4
  <2>3. QED
    BY <1>2, <2>1, <2>2
<1>12. QED
  BY <1>4, <1>6, <1>10, <1>11 DEF LI!BucketInv

\* A bucket that is dropped was full, and one that is made is.
LEMMA BucketStays ==
    ASSUME LI!LimitShapes, guard \in LI!Buckets, LI!BucketInv, UNCHANGED <<guard, now, outcomes>>,
           \/ entry' = entry /\ LI!Current' = LI!Current
           \/ entry' # LI!Absent /\ entry # LI!Absent /\ LI!Current' = LI!Current
           \/ entry' # LI!Absent /\ entry = LI!Absent /\ LI!Current' = LI!Fresh
           \/ entry' = LI!Absent /\ entry # LI!Absent /\ now - LI!Current.refilled > Limit
    PROVE  LI!BucketInv'
<1>1. /\ LI!Left \in Nat /\ LI!Left <= Limit /\ Limit \in Nat
      /\ entry = LI!Absent => LI!Left = Limit
      /\ entry # LI!Absent =>
            /\ LI!Current.tokens \in Nat /\ LI!Current.refilled \in Nat /\ LI!Current.refilled <= now
            /\ LI!Left =
                  IF LI!Current.tokens + now - LI!Current.refilled > Limit THEN Limit
                  ELSE LI!Current.tokens + now - LI!Current.refilled
  BY LeftOf
<1>2. now \in Nat
  BY DecidedMessages
<1>3. LI!Left' = LI!Left /\ (entry' # LI!Absent => LI!Current'.refilled <= now')
  <2>1. CASE entry' = entry /\ LI!Current' = LI!Current
    BY <1>1, <2>1 DEF LI!Left
  <2>2. CASE entry' # LI!Absent /\ entry # LI!Absent /\ LI!Current' = LI!Current
    BY <1>1, <2>2 DEF LI!Left
  <2>3. CASE entry' # LI!Absent /\ entry = LI!Absent /\ LI!Current' = LI!Fresh
    <3>1. LI!Fresh = [tokens |-> Limit, refilled |-> now]
      BY DEF LI!Fresh, LI!Buckets
    <3>2. LI!Current'.tokens = Limit /\ LI!Current'.refilled = now
      BY <2>3, <3>1
    <3>3. LI!Left' = IF Limit + now - now > Limit THEN Limit ELSE Limit + now - now
      BY <2>3, <3>2 DEF LI!Left
    <3>4. LI!Left' = Limit
      BY <1>1, <1>2, <3>3
    <3>5. now <= now
      BY <1>2
    <3>6. QED
      BY <1>1, <2>3, <3>2, <3>4, <3>5
  <2>4. CASE entry' = LI!Absent /\ entry # LI!Absent /\ now - LI!Current.refilled > Limit
    <3>1. PICK x, y : x = LI!Current.tokens /\ y = LI!Current.refilled /\ x \in Nat /\ y \in Nat /\ now - y > Limit
      BY <1>1, <2>4
    <3>2. x + now - y > Limit
      BY <1>1, <1>2, <3>1
    <3>3. QED
      BY <1>1, <2>4, <3>1, <3>2 DEF LI!Left
  <2>5. QED
    BY <2>1, <2>2, <2>3, <2>4
<1>4. \A t, u : LI!PassedIn(t, u)' = LI!PassedIn(t, u)
  BY DEF LI!PassedIn
<1>5. QED
  BY <1>3, <1>4 DEF LI!BucketInv

\* A message that passes takes a token.
LEMMA BucketDecides ==
    ASSUME LI!LimitShapes, LI!Held, guard \in LI!Buckets, LI!BucketInv, NEW w \in Workers, LI!Allow(w)
    PROVE  LI!LimitShapes' /\ LI!Held' /\ LI!BucketInv'
<1>1. LET refilled == LI!Its(w).tokens + now - LI!Its(w).refilled
          full == IF refilled > Limit THEN Limit ELSE refilled
      IN  /\ LI!Decided(w, now, full >= 1)
          /\ LI!Becomes(w, [tokens |-> IF full >= 1 THEN full - 1 ELSE full, refilled |-> now])
  BY DEF LI!Allow
<1>2. UNCHANGED <<guard, now, entry>>
  BY DEF LI!Allow
<1>3. now \in Nat /\ counted[w].what \in LI!Whats /\ entry # LI!Absent /\ counted[w].number = entry.number
  <2>1. ~LI!Resting(w) /\ counted[w].at = "decide"
    BY <1>1 DEF LI!Decided
  <2>2. QED
    BY <2>1, LimitWorker, DecidedMessages
<1>4. /\ LI!Its(w) = LI!Current /\ LI!Left \in Nat /\ LI!Left <= Limit /\ Limit \in Nat
      /\ LI!Left =
            IF LI!Current.tokens + now - LI!Current.refilled > Limit THEN Limit
            ELSE LI!Current.tokens + now - LI!Current.refilled
  BY <1>3, LeftOf DEF LI!Its, LI!Current
<1>5. PICK full : full = LI!Left
  OBVIOUS
<1>6. PICK passed : passed = (full >= 1)
  OBVIOUS
<1>7. PICK rest : rest = IF full >= 1 THEN full - 1 ELSE full
  OBVIOUS
<1>8. LI!Decided(w, now, passed) /\ LI!Becomes(w, [tokens |-> rest, refilled |-> now])
  BY <1>1, <1>4, <1>5, <1>6, <1>7
<1>9. /\ full \in Nat /\ rest \in 0..Limit /\ rest \in Nat
      /\ passed \in BOOLEAN /\ (passed => full = rest + 1) /\ (~passed => full = rest)
  <2>1. full \in Nat /\ full <= Limit /\ Limit \in Nat
    BY <1>4, <1>5
  <2>2. rest \in 0..Limit /\ rest \in Nat /\ (full >= 1 => full = rest + 1) /\ (~(full >= 1) => full = rest)
    BY <1>7, <2>1
  <2>3. passed \in BOOLEAN
    BY <1>6, <2>1
  <2>4. QED
    BY <1>6, <2>1, <2>2, <2>3, Zenon
<1>10. [tokens |-> rest, refilled |-> now] \in LI!Shape
  <2>1. LI!Shape = [tokens : 0..Limit, refilled : Nat]
    BY DEF LI!Shape, LI!Buckets
  <2>2. QED
    BY <1>3, <1>9, <2>1
<1>11. LI!LimitShapes' /\ LI!Held' /\ LI!Current' = [tokens |-> rest, refilled |-> now]
  BY <1>2, <1>8, <1>9, <1>10, Deciding
<1>12. LI!Left' = rest /\ LI!Current'.refilled <= now'
  <2>1. LI!Current'.tokens = rest /\ LI!Current'.refilled = now
    BY <1>11
  <2>2. LI!Left' = IF rest + now - now > Limit THEN Limit ELSE rest + now - now
    BY <1>2, <1>3, <2>1 DEF LI!Left
  <2>3. rest + now - now = rest /\ ~(rest > Limit) /\ now <= now
    BY <1>3, <1>4, <1>9
  <2>4. QED
    BY <1>2, <2>1, <2>2, <2>3
<1>13. PICK n \in Nat :
          /\ n = Len(outcomes) /\ DOMAIN outcomes = 1..n /\ DOMAIN outcomes' = 1..(n + 1)
          /\ \A k \in 1..n : outcomes'[k] = outcomes[k]
          /\ outcomes'[n + 1].time = now /\ outcomes'[n + 1].passed = passed
  <2>1. PICK o : o = [time |-> now, what |-> counted[w].what, passed |-> passed]
    OBVIOUS
  <2>2. /\ o \in [time : Nat, what : LI!Whats, passed : BOOLEAN] /\ o.time = now /\ o.passed = passed
        /\ outcomes' = Append(outcomes, o)
    BY <1>3, <1>8, <1>9, <2>1 DEF LI!Decided
  <2>3. QED
    BY <2>2, Appended
<1>14. \A t, u : LI!PassedIn(t, u)' =
          IF passed /\ now \in t..u THEN LI!PassedIn(t, u) \cup {n + 1} ELSE LI!PassedIn(t, u)
  <2>1. \A t, u : LI!PassedIn(t, u)' = {k \in 1..(n + 1) : outcomes'[k].passed /\ outcomes'[k].time \in t..u}
    BY <1>13 DEF LI!PassedIn
  <2>2. \A t, u : LI!PassedIn(t, u) = {k \in 1..n : outcomes[k].passed /\ outcomes[k].time \in t..u}
    BY <1>13 DEF LI!PassedIn
  <2>3. n + 1 \in 1..(n + 1) /\ \A k \in 1..(n + 1) : k \in 1..n \/ k = n + 1
    OBVIOUS
  <2>4. \A k \in 1..n : k \in 1..(n + 1) /\ k # n + 1
    OBVIOUS
  <2>5. QED
    BY <1>13, <2>1, <2>2, <2>3, <2>4
<1>15. ASSUME NEW t, NEW u
       PROVE  /\ LI!Cardinality(LI!PassedIn(t, u)) \in Nat
              /\ LI!Cardinality(LI!PassedIn(t, u) \cup {n + 1}) = LI!Cardinality(LI!PassedIn(t, u)) + 1
  BY <1>13, PassedCount, Places
<1>16. ASSUME NEW t, NEW u
       PROVE  LI!Cardinality(LI!PassedIn(t, u)') =
                 IF passed /\ now \in t..u THEN LI!Cardinality(LI!PassedIn(t, u)) + 1
                 ELSE LI!Cardinality(LI!PassedIn(t, u))
  <2>1. CASE passed /\ now \in t..u
    <3>1. LI!PassedIn(t, u)' = LI!PassedIn(t, u) \cup {n + 1}
      BY <1>14, <2>1
    <3>2. QED
      BY <1>15, <2>1, <3>1
  <2>2. CASE ~(passed /\ now \in t..u)
    <3>1. LI!PassedIn(t, u)' = LI!PassedIn(t, u)
      BY <1>14, <2>2
    <3>2. QED
      BY <2>2, <3>1
  <2>3. QED
    BY <2>1, <2>2
<1>17. ASSUME NEW t \in 0..now
       PROVE  /\ LI!Cardinality(LI!PassedIn(t, now)') + LI!Left' <= Limit + now - t
              /\ LI!Cardinality(LI!PassedIn(t, now)') <= Limit + now - t
  <2>1. PICK c : c = LI!Cardinality(LI!PassedIn(t, now))
    OBVIOUS
  <2>2. PICK d : d = LI!Cardinality(LI!PassedIn(t, now)')
    OBVIOUS
  <2>3. PICK u : u = now /\ now \in t..u
    BY <1>3
  <2>4. d = IF passed THEN c + 1 ELSE c
    <3>1. LI!PassedIn(t, now)' = LI!PassedIn(t, u)' /\ LI!PassedIn(t, now) = LI!PassedIn(t, u)
      BY <1>2, <2>3 DEF LI!PassedIn
    <3>2. LI!Cardinality(LI!PassedIn(t, u)') =
             IF passed THEN LI!Cardinality(LI!PassedIn(t, u)) + 1 ELSE LI!Cardinality(LI!PassedIn(t, u))
      BY <1>16, <2>3
    <3>3. QED
      BY <2>1, <2>2, <3>1, <3>2
  <2>5. c + full <= Limit + now - t
    BY <1>5, <2>1 DEF LI!BucketInv
  <2>6. c \in Nat
    BY <1>15, <2>1
  <2>7. d + rest <= Limit + now - t /\ d <= Limit + now - t
    BY <1>3, <1>4, <1>9, <2>4, <2>5, <2>6
  <2>8. QED
    BY <1>12, <2>2, <2>7
<1>18. ASSUME NEW u \in 0..now, NEW t \in 0..u PROVE LI!Cardinality(LI!PassedIn(t, u)') <= Limit + u - t
  <2>1. CASE u = now
    <3>1. LI!PassedIn(t, now)' = LI!PassedIn(t, u)'
      BY <1>2, <2>1 DEF LI!PassedIn
    <3>2. QED
      BY <1>17, <2>1, <3>1
  <2>2. CASE u # now
    <3>1. now \notin t..u
      BY <1>3, <2>2
    <3>2. LI!Cardinality(LI!PassedIn(t, u)') = LI!Cardinality(LI!PassedIn(t, u))
      BY <1>16, <3>1
    <3>3. QED
      BY <3>2 DEF LI!BucketInv
  <2>3. QED
    BY <2>1, <2>2
<1>19. LI!BucketInv'
  BY <1>2, <1>12, <1>17, <1>18 DEF LI!BucketInv
<1>20. QED
  BY <1>11, <1>19

\* The bounds of a bucket, also for stretches that end later.
LEMMA BucketBound ==
    ASSUME LI!LimitShapes, guard \in LI!Buckets, LI!BucketInv, NEW t \in Nat, NEW u \in Int, t <= u
    PROVE  LI!Cardinality(LI!PassedIn(t, u)) <= Limit + u - t
<1>1. now \in Nat /\ \A k \in DOMAIN outcomes : outcomes[k].time \in Nat /\ outcomes[k].time <= now
  BY DecidedMessages
<1>2. LI!Left \in Nat /\ Limit \in Nat
  BY LeftOf
<1>3. CASE u \in 0..now
  BY <1>3 DEF LI!BucketInv
<1>4. CASE u \notin 0..now /\ t \in 0..now
  <2>1. now <= u
    BY <1>1, <1>4
  <2>2. \A k \in DOMAIN outcomes : outcomes[k].time \in t..u <=> outcomes[k].time \in t..now
    BY <1>1, <2>1
  <2>3. LI!PassedIn(t, u) = LI!PassedIn(t, now)
    BY <2>2 DEF LI!PassedIn
  <2>4. PICK c \in Nat : c = LI!Cardinality(LI!PassedIn(t, now))
    BY PassedCount
  <2>5. c + LI!Left <= Limit + now - t
    BY <1>4, <2>4 DEF LI!BucketInv
  <2>6. c <= Limit + u - t
    BY <1>1, <1>2, <2>1, <2>5
  <2>7. QED
    BY <2>3, <2>4, <2>6
<1>5. CASE t \notin 0..now
  <2>1. \A k \in DOMAIN outcomes : outcomes[k].time \notin t..u
    BY <1>1, <1>5
  <2>2. LI!PassedIn(t, u) = {}
    BY <2>1 DEF LI!PassedIn
  <2>3. LI!Cardinality(LI!PassedIn(t, u)) = 0
    BY <2>2, FS_EmptySet, LICounts
  <2>4. QED
    BY <1>2, <2>3
<1>6. QED
  BY <1>1, <1>3, <1>4, <1>5

\* The members that one message names are finitely many.
LEMMA MembersFinite == ASSUME NEW t, NEW m, NEW n \in Nat PROVE LI!IsFiniteSet(LI!Members(t, m, n))
<1>1. PICK f, T : f = [i \in 1..n |-> [time |-> t, message |-> m, member |-> i]] /\ T = LI!Members(t, m, n)
  OBVIOUS
<1>2. f \in Surjection(1..n, T)
  BY <1>1 DEF Surjection, LI!Members
<1>3. QED
  BY <1>1, <1>2, FS_Interval, FS_Surjection, LICounts

\* While nothing is decided, a member leaves the record only when the join is old.
LEMMA RaidStays ==
    ASSUME LI!LimitShapes, ~late, guard = "AntiRaid", LI!RaidInv, outcomes' = outcomes, now' \in {now, now + 1},
           UNCHANGED <<locked, opened>> \/ opened' = Len(outcomes),
           entry # LI!Absent => entry.until \in Nat,
           \/ entry' = entry /\ LI!Current' = LI!Current
           \/ entry # LI!Absent /\ entry' = LI!Absent /\ entry.until < now
           \/ /\ entry' # LI!Absent /\ entry'.until = now + 2 * Window /\ now' = now
              /\ \/ entry # LI!Absent /\ LI!Current' = LI!Current
                 \/ entry = LI!Absent /\ LI!Current' = LI!Fresh
                 \/ entry # LI!Absent /\ entry.until <= now /\ LI!Current' = LI!Fresh
    PROVE  LI!RaidInv'
<1>1. /\ now \in Nat /\ Len(outcomes) \in Nat /\ DOMAIN outcomes = 1..Len(outcomes) /\ Window \in Nat \ {0}
      /\ \A i \in DOMAIN outcomes : outcomes[i].time \in Nat /\ outcomes[i].time <= now
  BY DecidedMessages, LimitsAssumption
<1>2. opened' \in 0..Len(outcomes') /\ LI!RaidLocks'
  <2>1. opened' \in 0..Len(outcomes)
    BY <1>1 DEF LI!RaidInv
  <2>2. \A k : LI!Joined(k)' = LI!Joined(k)
    BY DEF LI!Joined
  <2>3. ASSUME NEW k \in DOMAIN outcomes, LI!Cardinality(LI!Joined(k)) > Limit,
               \A i \in 2..k : outcomes[i - 1].time <= outcomes[i].time
        PROVE  ~outcomes[k].passed /\ (locked' \/ opened' >= k)
    <3>1. ~outcomes[k].passed /\ (locked \/ opened >= k)
      BY <2>3 DEF LI!RaidInv, LI!RaidLocks
    <3>2. opened' = Len(outcomes) => opened' >= k
      BY <1>1
    <3>3. QED
      BY <3>1, <3>2
  <2>4. LI!RaidLocks'
    BY <2>2, <2>3 DEF LI!RaidLocks
  <2>5. QED
    BY <2>1, <2>4
<1>3. entry' # LI!Absent => LI!IsFiniteSet(LI!Current'.joins)
  <2>1. LI!Fresh.joins = {}
    BY DEF LI!Fresh, LI!Buckets
  <2>2. QED
    BY <2>1, FS_EmptySet, LICounts DEF LI!RaidInv
<1>4. ASSUME \A i \in 2..Len(outcomes) : outcomes[i - 1].time <= outcomes[i].time, NEW i \in DOMAIN outcomes
      PROVE  /\ entry' # LI!Absent => outcomes[i].time + 2 * Window <= entry'.until
             /\ \/ outcomes[i].time + 2 * Window <= now'
                \/ outcomes[i].time + Window <= outcomes[Len(outcomes)].time
                \/ entry' # LI!Absent /\ LI!Members(outcomes[i].time, i, outcomes[i].what) \subseteq LI!Current'.joins
  <2>1. PICK t \in Nat : t = outcomes[i].time /\ t <= now
    BY <1>1
  <2>2. /\ entry # LI!Absent => t + 2 * Window <= entry.until
        /\ \/ t + 2 * Window <= now
           \/ t + Window <= outcomes[Len(outcomes)].time
           \/ entry # LI!Absent /\ LI!Members(t, i, outcomes[i].what) \subseteq LI!Current.joins
    BY <1>4, <2>1 DEF LI!RaidInv
  <2>3. t + 2 * Window <= now + 2 * Window /\ (t + 2 * Window <= now => t + 2 * Window <= now')
    BY <1>1, <2>1
  <2>4. entry # LI!Absent /\ entry.until <= now => t + 2 * Window <= now
    BY <1>1, <2>1, <2>2
  <2>5. entry # LI!Absent /\ entry.until < now => t + 2 * Window <= now
    BY <1>1, <2>1, <2>2
  <2>6. entry' # LI!Absent => t + 2 * Window <= entry'.until
    BY <2>2, <2>3
  <2>7. \/ t + 2 * Window <= now'
        \/ t + Window <= outcomes[Len(outcomes)].time
        \/ entry' # LI!Absent /\ LI!Members(t, i, outcomes[i].what) \subseteq LI!Current'.joins
    BY <2>2, <2>3, <2>4, <2>5
  <2>8. QED
    BY <2>1, <2>6, <2>7
<1>5. \A i : LI!Members(outcomes[i].time, i, outcomes[i].what)' = LI!Members(outcomes[i].time, i, outcomes[i].what)
  BY DEF LI!Members
<1>6. QED
  BY <1>2, <1>3, <1>4, <1>5 DEF LI!RaidInv

\* AntiRaid drops the joins that are a window old, and adds those of the message.
LEMMA RaidDecides ==
    ASSUME LI!LimitShapes, LI!Held, ~late, guard = "AntiRaid", LI!RaidInv, NEW w \in Workers, LI!AntiRaid(w)
    PROVE  LI!LimitShapes' /\ LI!Held' /\ LI!RaidInv'
<1>1. PICK t, what, n, had : /\ t = counted[w].time /\ what = counted[w].what
                             /\ n = Len(outcomes) /\ had = LI!Current.joins
  OBVIOUS
<1>2. PICK joins : joins = {j \in had : t - j.time < Window} \cup LI!Members(t, n + 1, what)
  OBVIOUS
<1>3. PICK passed : passed = (LI!Cardinality(joins) <= Limit)
  OBVIOUS
<1>4. /\ ~LI!Resting(w) /\ t \in Nat /\ t <= now /\ now <= t + 1 /\ now \in Nat
      /\ what \in Nat /\ what \in LI!Whats /\ n \in Nat /\ entry # LI!Absent /\ counted[w].number = entry.number
      /\ entry.until \in Nat /\ t + 2 * Window <= entry.until /\ Window \in Nat \ {0} /\ Limit \in Nat
  <2>1. ~LI!Resting(w) /\ counted[w].at = "decide"
    BY DEF LI!AntiRaid, LI!Decided
  <2>2. /\ counted[w].time \in Nat /\ counted[w].time <= now /\ now <= counted[w].time + 1
        /\ counted[w].what \in LI!Whats
        /\ entry # LI!Absent /\ counted[w].number = entry.number /\ entry.until \in Nat
        /\ counted[w].time + 2 * Window <= entry.until
    BY <2>1, LimitWorker DEF LI!Cached
  <2>3. LI!Whats \subseteq Nat
    BY LimitsAssumption DEF LI!Whats
  <2>4. QED
    BY <1>1, <2>1, <2>2, <2>3, DecidedMessages, LimitsAssumption
<1>5. LI!Its(w) = LI!Current
  BY <1>4 DEF LI!Its, LI!Current
<1>6. /\ LI!Decided(w, t, passed) /\ LI!Becomes(w, [joins |-> joins])
      /\ locked' = (locked \/ LI!Cardinality(joins) > Limit) /\ UNCHANGED <<guard, now, entry, opened, late>>
  BY <1>1, <1>2, <1>3, <1>5 DEF LI!AntiRaid
<1> DEFINE J == [time : Nat, message : Nat, member : Nat]
<1>7. LI!Shape = [joins : SUBSET J] /\ had \in SUBSET J /\ LI!IsFiniteSet(had)
  <2>1. LI!Shape = [joins : SUBSET J]
    BY DEF LI!Shape, LI!Buckets
  <2>2. LI!Current \in LI!Shape
    BY <1>4, MapsRecord
  <2>3. LI!IsFiniteSet(LI!Current.joins)
    BY <1>4 DEF LI!RaidInv
  <2>4. QED
    BY <1>1, <2>1, <2>2, <2>3
<1>8. joins \in SUBSET J
  <2>1. LI!Members(t, n + 1, what) \in SUBSET J
    BY <1>4 DEF LI!Members
  <2> HIDE DEF J
  <2>2. QED
    BY <1>2, <1>7, <2>1
<1>9. LI!IsFiniteSet(joins) /\ LI!Cardinality(joins) \in Nat
  <2>1. LI!IsFiniteSet({j \in had : t - j.time < Window})
    BY <1>7, FS_Subset, LICounts
  <2>2. LI!IsFiniteSet(LI!Members(t, n + 1, what))
    BY <1>4, MembersFinite
  <2>3. LI!IsFiniteSet(joins)
    BY <1>2, <2>1, <2>2, FS_Union, LICounts
  <2>4. QED
    BY <2>3, FS_CardinalityType, LICounts
<1>10. passed \in BOOLEAN /\ (LI!Cardinality(joins) > Limit => ~passed)
  <2>1. LI!Cardinality(joins) > Limit => ~(LI!Cardinality(joins) <= Limit)
    BY <1>4, <1>9
  <2>2. passed \in BOOLEAN
    BY <1>3, <1>4, <1>9
  <2>3. QED
    BY <1>3, <2>1, <2>2, Zenon
<1>11. LI!LimitShapes' /\ LI!Held' /\ LI!Current' = [joins |-> joins]
  <2>1. [joins |-> joins] \in LI!Shape
    BY <1>7, <1>8
  <2>2. QED
    BY <1>1, <1>6, <1>10, <2>1, Deciding
<1>12. /\ DOMAIN outcomes = 1..n /\ DOMAIN outcomes' = 1..(n + 1) /\ Len(outcomes') = n + 1
       /\ \A k \in 1..n : outcomes'[k] = outcomes[k]
       /\ outcomes'[n + 1] = [time |-> t, what |-> what, passed |-> passed]
  <2>1. outcomes' = Append(outcomes, [time |-> t, what |-> what, passed |-> passed])
    BY <1>1, <1>6 DEF LI!Decided
  <2>2. [time |-> t, what |-> what, passed |-> passed] \in [time : Nat, what : LI!Whats, passed : BOOLEAN]
    BY <1>4, <1>10
  <2>3. QED
    BY <1>1, <2>1, <2>2, Appended
<1>13. /\ outcomes'[n + 1].time = t /\ outcomes'[n + 1].what = what /\ outcomes'[n + 1].passed = passed
       /\ \A k \in 1..(n + 1) : k \in 1..n \/ k = n + 1
       /\ \A k \in 1..n : k \in 1..(n + 1) /\ k # n + 1 /\ 1..k \subseteq 1..n
       /\ \A k \in 1..n : outcomes[k].time \in Nat /\ outcomes[k].time <= now
  BY <1>1, <1>4, <1>12, DecidedMessages
<1> DEFINE Ordered(k) == \A i \in 2..k : outcomes[i - 1].time <= outcomes[i].time
<1>14. ASSUME Ordered(n + 1)', NEW i \in 1..(n + 1), t - outcomes'[i].time < Window
       PROVE  LI!Members(outcomes'[i].time, i, outcomes'[i].what) \subseteq joins
  <2>1. CASE i = n + 1
    BY <1>2, <1>13, <2>1
  <2>2. CASE i \in 1..n
    <3>1. PICK s \in Nat : s = outcomes[i].time /\ s <= now /\ outcomes'[i] = outcomes[i]
      BY <1>12, <1>13, <2>2
    <3>2. \A k \in 2..n : k \in 2..(n + 1) /\ k \in 1..n /\ k - 1 \in 1..n
      BY <1>4
    <3>3. Ordered(n)
      BY <1>12, <1>14, <3>2
    <3>4. n \in 1..n /\ n + 1 \in 2..(n + 1) /\ (n + 1) - 1 = n
      BY <1>4, <2>2
    <3>5. outcomes[n].time <= t /\ outcomes[n].time \in Nat
      BY <1>12, <1>13, <1>14, <3>4
    <3>6. \/ s + 2 * Window <= now
          \/ s + Window <= outcomes[n].time
          \/ LI!Members(s, i, outcomes[i].what) \subseteq had
      BY <1>1, <1>12, <2>2, <3>1, <3>3 DEF LI!RaidInv
    <3>7. ~(s + 2 * Window <= now) /\ ~(s + Window <= outcomes[n].time)
      BY <1>4, <1>14, <3>1, <3>5
    <3>8. \A j \in LI!Members(s, i, outcomes[i].what) : j.time = s
      BY DEF LI!Members
    <3>9. QED
      BY <1>2, <1>14, <3>1, <3>6, <3>7, <3>8
  <2>3. QED
    BY <1>13, <2>1, <2>2
<1>15. opened' \in 0..Len(outcomes')
  <2>1. opened \in 0..n
    BY <1>1 DEF LI!RaidInv
  <2>2. opened' = opened /\ Len(outcomes') = n + 1
    BY <1>6, <1>12
  <2>3. QED
    BY <1>4, <2>1, <2>2
<1>16. ASSUME NEW k \in 1..(n + 1), LI!Cardinality(LI!Joined(k)') > Limit, Ordered(k)'
       PROVE  ~outcomes'[k].passed /\ (locked' \/ opened' >= k)
  <2>1. CASE k = n + 1
    <3>1. LI!Joined(k)' \subseteq joins
      <4>1. ASSUME NEW j \in LI!Joined(k)' PROVE j \in joins
        <5>1. PICK i \in 1..(n + 1) : /\ t - outcomes'[i].time < Window
                                     /\ j \in LI!Members(outcomes'[i].time, i, outcomes'[i].what)
          BY <1>13, <2>1, <4>1 DEF LI!Joined, LI!Members
        <5>2. QED
          BY <1>14, <1>16, <2>1, <5>1
      <4>2. QED
        BY <4>1
    <3>2. LI!Cardinality(LI!Joined(k)') \in Nat /\ LI!Cardinality(LI!Joined(k)') <= LI!Cardinality(joins)
      <4>1. LI!IsFiniteSet(LI!Joined(k)')
        BY <1>9, <3>1, FS_Subset, LICounts
      <4>2. QED
        BY <1>9, <3>1, <4>1, FS_Subset, FS_CardinalityType, LICounts
    <3>3. LI!Cardinality(joins) > Limit
      BY <1>4, <1>9, <1>16, <3>2
    <3>4. QED
      BY <1>6, <1>10, <1>13, <2>1, <3>3
  <2>2. CASE k \in 1..n
    <3>1. LI!Joined(k)' = LI!Joined(k)
      <4>1. outcomes'[k] = outcomes[k] /\ \A i \in 1..k : outcomes'[i] = outcomes[i]
        BY <1>12, <1>13, <2>2
      <4>2. ASSUME NEW j
            PROVE  j \in LI!Joined(k)' <=> \E i \in 1..k : /\ outcomes[k].time - outcomes[i].time < Window
                                                         /\ j \in LI!Members(outcomes[i].time, i, outcomes[i].what)
        BY <4>1 DEF LI!Joined, LI!Members
      <4>3. ASSUME NEW j
            PROVE  j \in LI!Joined(k) <=> \E i \in 1..k : /\ outcomes[k].time - outcomes[i].time < Window
                                                        /\ j \in LI!Members(outcomes[i].time, i, outcomes[i].what)
        BY DEF LI!Joined
      <4>4. QED
        BY <4>2, <4>3
    <3>2. \A i \in 2..k : i \in 1..n /\ i - 1 \in 1..n
      BY <1>4, <2>2
    <3>3. Ordered(k)
      BY <1>12, <1>16, <3>2
    <3>4. ~outcomes[k].passed /\ (locked \/ opened >= k)
      BY <1>12, <1>16, <2>2, <3>1, <3>3 DEF LI!RaidInv, LI!RaidLocks
    <3>5. QED
      BY <1>6, <1>12, <2>2, <3>4
  <2>3. QED
    BY <1>13, <2>1, <2>2
<1>17. LI!RaidLocks'
  BY <1>12, <1>16 DEF LI!RaidLocks
<1>18. ASSUME Ordered(n + 1)', NEW i \in 1..(n + 1)
       PROVE  /\ outcomes'[i].time + 2 * Window <= entry.until
              /\ \/ outcomes'[i].time + Window <= t
                 \/ LI!Members(outcomes'[i].time, i, outcomes'[i].what) \subseteq joins
  <2>1. outcomes'[i].time \in Nat
    BY <1>4, <1>12, <1>13
  <2>2. outcomes'[i].time + 2 * Window <= entry.until
    <3>1. CASE i = n + 1
      BY <1>4, <1>13, <3>1
    <3>2. CASE i \in 1..n
      <4>1. \A k \in 2..n : k \in 2..(n + 1) /\ k \in 1..n /\ k - 1 \in 1..n
        BY <1>4
      <4>2. Ordered(n)
        BY <1>12, <1>18, <4>1
      <4>3. QED
        BY <1>1, <1>4, <1>12, <3>2, <4>2 DEF LI!RaidInv
    <3>3. QED
      BY <1>13, <3>1, <3>2
  <2>3. t - outcomes'[i].time < Window \/ outcomes'[i].time + Window <= t
    BY <1>4, <2>1
  <2>4. QED
    BY <1>14, <1>18, <2>2, <2>3
<1>19. LI!RaidInv'
  <2>1. entry' # LI!Absent /\ entry' = entry /\ LI!Current'.joins = joins
    BY <1>4, <1>6, <1>11
  <2>2. \A i : LI!Members(outcomes[i].time, i, outcomes[i].what)' =
                 LI!Members(outcomes'[i].time, i, outcomes'[i].what)
    BY DEF LI!Members
  <2>3. outcomes'[Len(outcomes')].time = t
    BY <1>12
  <2>4. (\A i \in 2..Len(outcomes') : outcomes'[i - 1].time <= outcomes'[i].time) => Ordered(n + 1)'
    BY <1>12
  <2> HIDE DEF Ordered
  <2>5. QED
    BY <1>9, <1>12, <1>15, <1>17, <1>18, <2>1, <2>2, <2>3, <2>4 DEF LI!RaidInv
<1>20. QED
  BY <1>11, <1>19

\* No middleware is registered when the program starts.
LEMMA LimitsInit == LI!InitLimits => LI!LimitsInv
<1> SUFFICES ASSUME LI!InitLimits PROVE LI!LimitsInv
  OBVIOUS
<1>1. guard = "none" /\ now = 0 /\ entry = LI!Absent /\ records = <<>> /\ outcomes = <<>> /\ opened = 0
  BY DEF LI!InitLimits
<1>2. records \in Seq(LI!Shape) /\ outcomes \in Seq([time : Nat, what : LI!Whats, passed : BOOLEAN])
  BY <1>1
<1>3. counted = [w \in Workers |-> LI!Rest] /\ \A w \in Workers : LI!Resting(w)
  BY DEF LI!InitLimits, LI!Resting
<1>4. LI!LimitShapes
  BY <1>1, <1>2, <1>3 DEF LI!LimitShapes
<1>5. LI!Held
  BY <1>3 DEF LI!Held
<1>6. QED
  BY <1>1, <1>4, <1>5 DEF LI!LimitsInv, LI!Buckets

\* Nothing has been decided when a middleware is registered.
LEMMA RegisterKeeps ==
    ASSUME LI!LimitShapes, LI!Held, LI!Register
    PROVE  /\ LI!LimitShapes' /\ LI!Held'
           /\ LI!SpamInv' /\ LI!RepeatInv' /\ LI!RaidInv' /\ LI!BucketInv' /\ LI!CooldownInv'
<1>1. /\ guard = "none" /\ guard' \in LI!Cached \cup LI!Buckets \cup {"Cooldown"}
      /\ UNCHANGED <<now, entry, records, counted, outcomes, opened>>
  BY DEF LI!Register
<1>2. entry = LI!Absent /\ records = <<>> /\ outcomes = <<>> /\ opened = 0 /\ \A w \in Workers : counted[w] = LI!Rest
  BY <1>1 DEF LI!LimitShapes, LI!Resting
<1>3. now \in Nat /\ Limit \in Nat /\ DOMAIN outcomes = {} /\ guard' # "none"
  BY <1>1, <1>2, LimitsAssumption DEF LI!LimitShapes, LI!Buckets, LI!Cached
<1>4. /\ records' \in Seq(LI!Shape') /\ outcomes' \in Seq([time : Nat, what : LI!Whats', passed : BOOLEAN])
      /\ counted' \in [Workers -> {LI!Rest} \cup
                  [at : {"find", "first", "decide"}, time : Nat, what : LI!Whats', number : Nat]]
  <2>1. \A S : records' \in Seq(S) /\ outcomes' \in Seq(S)
    BY <1>1, <1>2, EmptySeq
  <2>2. \A S : counted' \in [Workers -> {LI!Rest} \cup S]
    BY <1>1, <1>2 DEF LI!LimitShapes
  <2>3. QED
    BY <2>1, <2>2
<1>5. LI!LimitShapes'
  BY <1>1, <1>2, <1>3, <1>4 DEF LI!LimitShapes
<1>6. LI!Held'
  BY <1>1, <1>2 DEF LI!Held, LI!Resting
<1>7. LI!SpamInv'
  <2>1. PICK win : win = [k \in {} |-> 0]
    OBVIOUS
  <2>2. win \in [DOMAIN outcomes' -> 0..now']
    BY <1>1, <1>3, <2>1
  <2>3. \A s : LI!OfWindow(win, s)' = {}
    BY <1>1, <1>3 DEF LI!OfWindow
  <2>4. \A s : LI!Cardinality(LI!OfWindow(win, s)') <= Limit
    BY <1>3, <2>3, FS_EmptySet, LICounts
  <2>5. LI!Windows(win)'
    BY <1>1, <1>2, <1>3, <2>4 DEF LI!Windows
  <2>6. QED
    BY <2>2, <2>5 DEF LI!SpamInv
<1>8. LI!RepeatInv'
  BY <1>1, <1>2 DEF LI!RepeatInv
<1>9. LI!BucketInv'
  <2>1. \A t, u : LI!PassedIn(t, u)' = {}
    BY <1>1, <1>3 DEF LI!PassedIn
  <2>2. LI!Left' = Limit
    BY <1>1, <1>2 DEF LI!Left
  <2>3. \A t, u : LI!Cardinality(LI!PassedIn(t, u)') = 0
    BY <2>1, FS_EmptySet, LICounts
  <2>4. \A t \in 0..now : 0 + Limit <= Limit + now - t
    BY <1>3
  <2>5. \A u \in 0..now : \A t \in 0..u : 0 <= Limit + u - t
    BY <1>3
  <2>6. QED
    BY <1>1, <1>2, <2>2, <2>3, <2>4, <2>5 DEF LI!BucketInv
<1>10. LI!CooldownInv'
  BY <1>1, <1>2, <1>3 DEF LI!CooldownInv, LI!Rest
<1>11. LI!RaidInv'
  <2>1. opened' \in 0..Len(outcomes')
    BY <1>1, <1>2
  <2>2. DOMAIN outcomes' = {} /\ entry' = LI!Absent
    BY <1>1, <1>2
  <2>3. QED
    BY <2>1, <2>2 DEF LI!RaidInv, LI!RaidLocks
<1>12. QED
  BY <1>5, <1>6, <1>7, <1>8, <1>9, <1>10, <1>11

\* A step of which the middleware sees nothing.
LEMMA UnseenKeeps ==
    ASSUME LI!LimitShapes, LI!Held, ~late, UNCHANGED <<guard, now, entry, records, counted, outcomes>>,
           UNCHANGED <<locked, opened>> \/ opened' = Len(outcomes)
    PROVE  /\ LI!LimitShapes' /\ LI!Held'
           /\ guard = "AntiSpam" /\ LI!SpamInv => LI!SpamInv'
           /\ LI!RepeatInv => LI!RepeatInv'
           /\ guard = "AntiRaid" /\ LI!RaidInv => LI!RaidInv'
           /\ guard \in LI!Buckets /\ LI!BucketInv => LI!BucketInv'
           /\ LI!CooldownInv => LI!CooldownInv'
<1>1. /\ LI!Shape' = LI!Shape /\ LI!Whats' = LI!Whats /\ LI!Current' = LI!Current
      /\ entry # LI!Absent => entry.until \in Nat
  BY SameShape, MapsRecord DEF LI!Current
<1>2. LI!LimitShapes' /\ LI!Held'
  <2>1. guard = "none" => opened' = 0
    BY DEF LI!LimitShapes
  <2>2. QED
    BY <1>1, <2>1 DEF LI!LimitShapes, LI!Held, LI!Resting
<1>3. guard = "AntiSpam" /\ LI!SpamInv => LI!SpamInv'
  BY <1>1, SpamStays
<1>4. LI!RepeatInv => LI!RepeatInv'
  BY <1>1, RepeatStays
<1>5. guard \in LI!Buckets /\ LI!BucketInv => LI!BucketInv'
  BY <1>1, BucketStays
<1>6. LI!CooldownInv => LI!CooldownInv'
  BY <1>1, CooldownStays
<1>7. guard = "AntiRaid" /\ LI!RaidInv => LI!RaidInv'
  BY <1>1, RaidStays
<1>8. QED
  BY <1>2, <1>3, <1>4, <1>5, <1>6, <1>7

\* A step keeps the invariant.
LEMMA LimitsStep == LI!LimitsInv /\ [LI!LimitsNext]_(LI!limitVars) => LI!LimitsInv'
<1> DEFINE Together ==
             /\ LI!LimitShapes /\ LI!Held
             /\ guard = "AntiSpam" => LI!SpamInv
             /\ guard = "AntiRepeat" => LI!RepeatInv
             /\ guard = "AntiRaid" => LI!RaidInv
             /\ guard \in LI!Buckets => LI!BucketInv
             /\ guard = "Cooldown" => LI!CooldownInv
<1> SUFFICES ASSUME LI!LimitsInv, [LI!LimitsNext]_(LI!limitVars), ~late' PROVE Together'
  BY DEF LI!LimitsInv
<1>1. CASE UNCHANGED LI!limitVars
  <2>1. ~late
    BY <1>1 DEF LI!limitVars
  <2>2. Together
    BY <2>1 DEF LI!LimitsInv
  <2>3. UNCHANGED <<guard, now, entry, records, counted, outcomes>> /\ UNCHANGED <<locked, opened>>
    BY <1>1 DEF LI!limitVars
  <2>4. QED
    BY <2>1, <2>2, <2>3, UnseenKeeps
<1>2. CASE LI!LimitsNext
  <2>1. ~late
    BY <1>2 DEF LI!LimitsNext, LI!Register, LI!Tick, LI!Cleanup, LI!Unlock, LI!Arrive, LI!Find, LI!AntiSpam,
       LI!AntiRepeat, LI!AntiRaid, LI!Allow,
                LI!Cooldown
  <2>2. Together
    BY <2>1 DEF LI!LimitsInv
  <2>3. LI!LimitShapes /\ LI!Held
    BY <2>2
  <2>4. CASE LI!Register
    BY <2>3, <2>4, RegisterKeeps
  <2>5. CASE LI!Tick
    <3>1. /\ LI!LimitShapes' /\ LI!Held' /\ now' = now + 1 /\ LI!Current' = LI!Current
          /\ UNCHANGED <<guard, entry, records, counted, outcomes>>
      BY <2>3, <2>5, TickShapes
    <3>2. entry # LI!Absent => entry.until \in Nat
      BY <2>3, MapsRecord
    <3>3. guard = "AntiSpam" => LI!SpamInv'
      BY <2>2, <2>3, <3>1, <3>2, SpamStays
    <3>4. guard = "AntiRepeat" => LI!RepeatInv'
      BY <2>2, <2>3, <3>1, <3>2, RepeatStays
    <3>5. guard \in LI!Buckets => LI!BucketInv'
      BY <2>2, <2>3, <2>5, BucketTicks
    <3>6. guard = "Cooldown" => LI!CooldownInv'
      BY <2>2, <2>3, <3>1, CooldownStays
    <3>7. guard = "AntiRaid" => LI!RaidInv'
      <4>1. UNCHANGED <<locked, opened>>
        BY <2>5 DEF LI!Tick
      <4>2. QED
        BY <2>1, <2>2, <2>3, <3>1, <3>2, <4>1, RaidStays
    <3>8. QED
      BY <3>1, <3>3, <3>4, <3>5, <3>6, <3>7
  <2>6. CASE LI!Cleanup
    <3>1. /\ LI!LimitShapes' /\ LI!Held' /\ entry # LI!Absent /\ entry' = LI!Absent
          /\ UNCHANGED <<guard, now, records, counted, outcomes>>
          /\ (guard \in LI!Cached /\ entry.until < now) \/ (guard \in LI!Buckets /\ now - LI!Current.refilled > Limit)
      BY <2>3, <2>6, CleanupShapes
    <3>2. entry.until \in Nat
      BY <2>3, <3>1, MapsRecord
    <3>3. guard = "AntiSpam" => LI!SpamInv'
      BY <2>2, <2>3, <3>1, <3>2, SpamStays DEF LI!Buckets
    <3>4. guard = "AntiRepeat" => LI!RepeatInv'
      BY <2>2, <2>3, <3>1, <3>2, RepeatStays DEF LI!Buckets
    <3>5. guard \in LI!Buckets => LI!BucketInv'
      BY <2>2, <2>3, <3>1, BucketStays DEF LI!Buckets, LI!Cached
    <3>6. guard # "Cooldown"
      BY <3>1 DEF LI!Buckets, LI!Cached
    <3>7. guard = "AntiRaid" => LI!RaidInv'
      <4>1. UNCHANGED <<locked, opened>>
        BY <2>6 DEF LI!Cleanup
      <4>2. QED
        BY <2>1, <2>2, <2>3, <3>1, <3>2, <4>1, RaidStays DEF LI!Buckets
    <3>8. QED
      BY <3>1, <3>3, <3>4, <3>5, <3>6, <3>7
  <2>7. CASE LI!Unlock
    <3>1. UNCHANGED <<guard, now, entry, records, counted, outcomes>> /\ opened' = Len(outcomes)
      BY <2>7 DEF LI!Unlock
    <3>2. QED
      BY <2>1, <2>2, <3>1, UnseenKeeps
  <2>8. ASSUME NEW w \in Workers, LI!Arrive(w) PROVE Together'
    <3>1. /\ LI!LimitShapes' /\ LI!Held' /\ LI!Current' = LI!Current
          /\ UNCHANGED <<guard, now, entry, records, outcomes>>
          /\ \A v \in Workers : counted'[v].at = "first" => counted[v].at = "first"
      BY <2>3, <2>8, ArriveShapes
    <3>2. entry # LI!Absent => entry.until \in Nat
      BY <2>3, MapsRecord
    <3>3. guard = "AntiSpam" => LI!SpamInv'
      BY <2>2, <2>3, <3>1, <3>2, SpamStays
    <3>4. guard = "AntiRepeat" => LI!RepeatInv'
      BY <2>2, <2>3, <3>1, <3>2, RepeatStays
    <3>5. guard \in LI!Buckets => LI!BucketInv'
      BY <2>2, <2>3, <3>1, BucketStays
    <3>6. \A v \in Workers : counted'[v].at = "first" => counted'[v] = counted[v]
      <4>1. DOMAIN counted = Workers /\ counted[w] = LI!Rest
        BY <2>3, <2>8 DEF LI!LimitShapes, LI!Arrive, LI!Resting
      <4>2. \A v \in Workers : v # w => counted'[v] = counted[v]
        BY <2>8, <4>1 DEF LI!Arrive
      <4>3. counted[w].at # "first"
        BY <4>1 DEF LI!Rest
      <4>4. QED
        BY <3>1, <4>2, <4>3
    <3>7. guard = "Cooldown" => LI!CooldownInv'
      BY <2>2, <2>3, <3>1, <3>6, CooldownStays
    <3>8. guard = "AntiRaid" => LI!RaidInv'
      <4>1. UNCHANGED <<locked, opened>>
        BY <2>8 DEF LI!Arrive
      <4>2. QED
        BY <2>1, <2>2, <2>3, <3>1, <3>2, <4>1, RaidStays
    <3>9. QED
      BY <3>1, <3>3, <3>4, <3>5, <3>7, <3>8
  <2>9. ASSUME NEW w \in Workers, LI!Find(w) PROVE Together'
    <3>1. /\ LI!LimitShapes' /\ LI!Held' /\ entry' # LI!Absent /\ entry'.until = now + 2 * Window
          /\ UNCHANGED <<guard, now, outcomes>>
          /\ entry # LI!Absent => entry.until \in Nat
          /\ \/ entry # LI!Absent /\ LI!Current' = LI!Current
             \/ entry = LI!Absent /\ LI!Current' = LI!Fresh
             \/ guard \in LI!Cached /\ entry # LI!Absent /\ entry.until <= now /\ LI!Current' = LI!Fresh
      BY <2>3, <2>9, Finding
    <3>2. guard = "AntiSpam" => LI!SpamInv'
      BY <2>2, <2>3, <3>1, SpamStays
    <3>3. guard = "AntiRepeat" => LI!RepeatInv'
      BY <2>2, <2>3, <3>1, RepeatStays
    <3>4. guard \in LI!Buckets => LI!BucketInv'
      BY <2>2, <2>3, <3>1, BucketStays DEF LI!Buckets, LI!Cached
    <3>5. guard = "Cooldown" => LI!CooldownInv'
      BY <2>2, <2>3, <2>9, CooldownFinds
    <3>6. guard = "AntiRaid" => LI!RaidInv'
      <4>1. UNCHANGED <<locked, opened>>
        BY <2>9 DEF LI!Find
      <4>2. QED
        BY <2>1, <2>2, <2>3, <3>1, <4>1, RaidStays
    <3>7. QED
      BY <3>1, <3>2, <3>3, <3>4, <3>5, <3>6
  <2>10. ASSUME NEW w \in Workers, LI!AntiSpam(w) PROVE Together'
    <3>1. guard = "AntiSpam" /\ guard' = guard
      BY <2>10 DEF LI!AntiSpam
    <3>2. LI!LimitShapes' /\ LI!Held' /\ LI!SpamInv'
      BY <2>2, <2>3, <2>10, <3>1, SpamDecides
    <3>3. QED
      BY <3>1, <3>2 DEF LI!Buckets
  <2>11. ASSUME NEW w \in Workers, LI!AntiRepeat(w) PROVE Together'
    <3>1. guard = "AntiRepeat" /\ guard' = guard
      BY <2>11 DEF LI!AntiRepeat
    <3>2. LI!LimitShapes' /\ LI!Held' /\ LI!RepeatInv'
      BY <2>2, <2>3, <2>11, <3>1, RepeatDecides
    <3>3. QED
      BY <3>1, <3>2 DEF LI!Buckets
  <2>12. ASSUME NEW w \in Workers, LI!AntiRaid(w) PROVE Together'
    <3>1. guard = "AntiRaid" /\ guard' = guard
      BY <2>12 DEF LI!AntiRaid
    <3>2. LI!LimitShapes' /\ LI!Held' /\ LI!RaidInv'
      BY <2>1, <2>2, <2>3, <2>12, <3>1, RaidDecides
    <3>3. QED
      BY <3>1, <3>2 DEF LI!Buckets
  <2>13. ASSUME NEW w \in Workers, LI!Allow(w) PROVE Together'
    <3>1. guard \in LI!Buckets /\ guard' = guard
      BY <2>13 DEF LI!Allow
    <3>2. LI!LimitShapes' /\ LI!Held' /\ LI!BucketInv'
      BY <2>2, <2>3, <2>13, <3>1, BucketDecides
    <3>3. QED
      BY <3>1, <3>2 DEF LI!Buckets
  <2>14. ASSUME NEW w \in Workers, LI!Cooldown(w) PROVE Together'
    <3>1. guard = "Cooldown" /\ guard' = guard
      BY <2>14 DEF LI!Cooldown
    <3>2. LI!LimitShapes' /\ LI!Held' /\ LI!CooldownInv'
      BY <2>2, <2>3, <2>14, <3>1, CooldownDecides
    <3>3. QED
      BY <3>1, <3>2 DEF LI!Buckets
  <2>15. QED
    BY <1>2, <2>4, <2>5, <2>6, <2>7, <2>8, <2>9, <2>10, <2>11, <2>12, <2>13, <2>14 DEF LI!LimitsNext
<1>3. QED
  BY <1>1, <1>2

\* The invariant implies the bounds.
LEMMA InvBounds == LI!LimitsInv => LI!BurstsBounded
<1> SUFFICES ASSUME LI!LimitsInv, ~late, NEW t \in 0..MaxTime
             PROVE  /\ guard = "AntiSpam" => LI!Cardinality(LI!PassedIn(t, t + Window - 1)) <= 2 * Limit
                    /\ guard \in LI!Buckets =>
                          \A u \in t..MaxTime : LI!Cardinality(LI!PassedIn(t, u)) <= Limit + u - t
                    /\ guard = "Cooldown" => LI!Cardinality(LI!PassedIn(t, t + Window - 1)) <= 1
  BY DEF LI!BurstsBounded
<1>1. t \in Nat
  OBVIOUS
<1>2. guard = "AntiSpam" => LI!Cardinality(LI!PassedIn(t, t + Window - 1)) <= 2 * Limit
  BY <1>1, TwoWindows DEF LI!LimitsInv
<1>3. guard \in LI!Buckets => \A u \in t..MaxTime : LI!Cardinality(LI!PassedIn(t, u)) <= Limit + u - t
  <2> SUFFICES ASSUME guard \in LI!Buckets, NEW u \in t..MaxTime
               PROVE  LI!Cardinality(LI!PassedIn(t, u)) <= Limit + u - t
    OBVIOUS
  <2>1. u \in Int /\ t <= u
    BY <1>1
  <2>2. QED
    BY <1>1, <2>1, BucketBound DEF LI!LimitsInv
<1>4. guard = "Cooldown" => LI!Cardinality(LI!PassedIn(t, t + Window - 1)) <= 1
  BY <1>1, OnePasses DEF LI!LimitsInv
<1>5. QED
  BY <1>2, <1>3, <1>4

\* And that a repetition does not pass.
LEMMA InvRepeats == LI!LimitsInv => LI!RepeatsStopped
BY DEF LI!LimitsInv, LI!RepeatInv, LI!RepeatsStopped

\* And that more joins than the limit lock the chat.
LEMMA InvRaids == LI!LimitsInv => LI!RaidLocks
BY DEF LI!LimitsInv, LI!RaidInv, LI!RaidLocks

\* The limits in every behaviour.
LEMMA LimitsInvariant == ModerationSpec => []LI!LimitsInv
<1>1. ModerationInit => LI!LimitsInv
  BY LimitsInit DEF ModerationInit
<1>2. LI!LimitsInv /\ [ModerationNext]_moderationVars => LI!LimitsInv'
  <2>1. [ModerationNext]_moderationVars => [LI!LimitsNext]_LimitVars
    BY DEF ModerationNext, moderationVars, RoutingMoves, ChainMoves, GuardsMove, SettingsMove, WordsMove,
           DialogueMoves, LimitsMove, LockMoves, LimiterMoves
  <2>2. LimitVars = LI!limitVars
    BY DEF LimitVars, LI!limitVars
  <2>3. QED
    BY <2>1, <2>2, LimitsStep DEF LimitVars, LI!limitVars
<1>3. QED
  BY <1>1, <1>2, PTL DEF ModerationSpec

\* In a window's length AntiSpam lets pass at most twice its limit and a cooldown one
\* message, and in any stretch of time a bucket its limit and one more for each tick; a
\* text that is repeated within the window does not pass AntiRepeat; and AntiRaid locks
\* the chat on more joins than its limit: whichever worker handles a message, and however
\* records expire and are swept.
THEOREM LimitsAreKept == ModerationSpec => []LimitsKept
<1>1. LI!LimitsInv => BurstsBounded
  BY InvBounds DEF BurstsBounded
<1>2. LI!LimitsInv => RepeatsStopped
  BY InvRepeats DEF RepeatsStopped
<1>3. LI!LimitsInv => RaidLocks
  BY InvRaids DEF RaidLocks
<1>4. LI!LimitsInv => LimitsKept
  BY <1>1, <1>2, <1>3 DEF LimitsKept
<1>5. QED
  BY <1>4, LimitsInvariant, PTL

-----------------------------------------------------------------------------
(***************************************************************************)
(* The rate limiter.  The token bucket of client.go keeps its rate for     *)
(* callers that do not sleep in it at the same time.  Balance is the       *)
(* inductive invariant: an account of what was let through, what may be    *)
(* taken and what a sleeper has reserved.                                  *)
(***************************************************************************)
\* The types, and the account.
IInv == TypeOK /\ Balance

\* A new limiter is full and owes nothing.
LEMMA InitHasInv == Init => IInv
<1>1. ASSUME Init
      PROVE  TypeOK
  <2>1. 0 \in 0..Refill /\ Capacity \in 0..Capacity /\ 0 <= Capacity
    BY LimiterAssumption
  <2>2. timer \in [Callers -> 0..Refill] /\ slept \in [Callers -> 0..Refill]
    BY <1>1, <2>1 DEF Init
  <2>3. /\ tokens \in 0..Capacity /\ lag \in Int /\ lag <= Capacity
        /\ level \in Nat /\ overlap \in BOOLEAN
    <3>1. tokens = Capacity /\ lag = 0 /\ level = 0 /\ overlap = FALSE
      BY <1>1 DEF Init
    <3>2. overlap \in BOOLEAN
      BY <3>1
    <3>3. QED
      BY <2>1, <3>1, <3>2, LimiterAssumption
  <2>4. waiting \in SUBSET Callers /\ old \in SUBSET waiting
    BY <1>1 DEF Init
  <2>5. QED
    BY <2>2, <2>3, <2>4 DEF TypeOK
<1>2. Init => Balance
  BY LimiterAssumption DEF Init, Balance, Refilled, Lesser, Greater
<1>3. QED
  BY <1>1, <1>2 DEF IInv

\* Taking a token moves it from what is there to what was let through; that
\* cannot happen while another caller sleeps, for then there is none.
LEMMA TakeKeepsInv ==
    ASSUME IInv, NEW c \in Callers, Take(c)
    PROVE  IInv'
<1>1. TypeOK'
  BY LimiterAssumption DEF IInv, TypeOK, Take, Refilled, Lesser, Greater
<1>2. Balance'
  <2> SUFFICES ASSUME ~overlap
               PROVE  Balance'
    BY DEF Balance, Take
  <2>1. waiting = {}
    BY LimiterAssumption DEF IInv, TypeOK, Balance, Take, Refilled, Lesser, Greater
  <2>2. QED
    BY <2>1, LimiterAssumption DEF IInv, TypeOK, Balance, Take, Refilled, Lesser, Greater
<1>3. QED
  BY <1>1, <1>2 DEF IInv

\* Whoever sleeps reserves exactly what is missing.
LEMMA ReserveKeepsInv ==
    ASSUME IInv, NEW c \in Callers, Reserve(c)
    PROVE  IInv'
<1>1. Refilled \in Nat /\ Refilled < Refill
  BY LimiterAssumption DEF IInv, TypeOK, Reserve, Refilled, Lesser, Greater
<1>2. TypeOK'
  BY <1>1, LimiterAssumption DEF IInv, TypeOK, Reserve, Lesser, Greater
<1>3. Balance'
  <2> SUFFICES ASSUME ~overlap'
               PROVE  Balance'
    BY DEF Balance
  <2>1. ~overlap /\ waiting = {}
    BY DEF IInv, TypeOK, Reserve
  <2>2. waiting' = {c} /\ lag' = -timer'[c] /\ timer'[c] = slept'[c] /\ old' = {}
    BY <1>1, <2>1, LimiterAssumption DEF IInv, TypeOK, Balance, Reserve, Lesser, Greater
  <2>3. level' + lag' + Refill <= Capacity
    BY <1>1, <2>1, LimiterAssumption DEF IInv, TypeOK, Balance, Reserve, Lesser, Greater
  <2>4. tokens' = 0
    BY DEF Reserve
  <2>5. QED
    BY <1>2, <2>2, <2>3, <2>4 DEF TypeOK, Balance
<1>4. QED
  BY <1>2, <1>3 DEF IInv

\* Who wakes up takes what it had reserved.
LEMMA WakeKeepsInv ==
    ASSUME IInv, NEW c \in Callers, Wake(c)
    PROVE  IInv'
<1>1. TypeOK'
  BY LimiterAssumption DEF IInv, TypeOK, Wake, Leaves
<1>2. Balance'
  <2> SUFFICES ASSUME ~overlap
               PROVE  Balance'
    BY DEF Balance, Wake
  <2>1. waiting = {c} /\ waiting' = {} /\ old' = {} /\ tokens' = 0 /\ lag' = 0
    BY DEF IInv, TypeOK, Balance, Wake, Leaves
  <2>2. level' <= Capacity
    BY <2>1, LimiterAssumption DEF IInv, TypeOK, Balance, Wake, Leaves
  <2>3. Refilled' = 0
    BY <2>1, LimiterAssumption DEF Refilled, Lesser, Greater
  <2>4. level' \in Nat
    BY <1>1 DEF TypeOK
  <2>5. level' + Refilled' <= Capacity
    <3>1. \A l \in Nat, r \in {0} : l <= Capacity => l + r <= Capacity
      BY LimiterAssumption
    <3>2. Refilled' \in {0}
      BY <2>3
    <3>3. QED
      BY <2>2, <2>4, <3>1, <3>2
  <2>6. \A w \in waiting' : FALSE
    BY <2>1
  <2>7. lag' >= 0
    BY <2>1
  <2>8. QED
    BY <2>1, <2>5, <2>6, <2>7 DEF Balance
<1>3. QED
  BY <1>1, <1>2 DEF IInv

\* Who gives up gives back what it had reserved, and no more.
LEMMA CancelKeepsInv ==
    ASSUME IInv, NEW c \in Callers, Cancel(c)
    PROVE  IInv'
<1>1. TypeOK'
  BY LimiterAssumption DEF IInv, TypeOK, Cancel, Leaves, Lesser
<1>2. Balance'
  <2> SUFFICES ASSUME ~overlap
               PROVE  Balance'
    BY DEF Balance, Cancel
  <2>1. /\ waiting = {c} /\ waiting' = {} /\ old = {} /\ old' = {}
        /\ tokens' = 0 /\ lag = -timer[c] /\ timer[c] <= slept[c] /\ slept[c] <= Refill
        /\ level + lag + Refill <= Capacity
    BY DEF IInv, TypeOK, Balance, Cancel, Leaves
  <2>2. lag' = Lesser(lag + slept[c], Capacity) /\ level' = level
    BY <2>1 DEF Cancel
  <2>3. slept[c] \in Nat /\ timer[c] \in Nat /\ level \in Nat
    BY DEF IInv, TypeOK
  <2>4. lag' >= 0 /\ lag' <= Capacity /\ level' + lag' <= Capacity
    BY <2>1, <2>2, <2>3, LimiterAssumption DEF Lesser
  <2>5. lag' \in Nat /\ level' \in Nat
    BY <1>1, <2>4 DEF TypeOK
  <2>6. Refilled' = lag'
    <3>1. Greater(lag', 0) = lag' /\ Lesser(lag', Capacity) = lag'
      BY <2>4, <2>5, LimiterAssumption DEF Lesser, Greater
    <3>2. tokens' = 0
      BY <2>1
    <3>3. QED
      BY <3>1, <3>2, <2>5 DEF Refilled
  <2>7. QED
    BY <2>1, <2>4, <2>5, <2>6 DEF Balance
<1>3. QED
  BY <1>1, <1>2 DEF IInv

\* Time adds to what may be taken what it takes from level.
LEMMA TickKeepsInv ==
    ASSUME IInv, Tick
    PROVE  IInv'
<1>1. TypeOK'
  BY LimiterAssumption DEF IInv, TypeOK, Tick, Lesser, Greater
<1>2. Balance'
  <2> SUFFICES ASSUME ~overlap
               PROVE  Balance'
    BY DEF Balance, Tick
  <2>1. CASE waiting = {}
    BY <1>1, <2>1, LimiterAssumption DEF IInv, TypeOK, Balance, Tick, Refilled, Lesser, Greater
  <2>2. ASSUME NEW w \in waiting
        PROVE  Balance'
    <3>1. /\ waiting' = {w} /\ old' = {} /\ tokens' = 0 /\ w \in Callers
          /\ timer[w] \in 1..Refill /\ lag = -timer[w] /\ timer[w] <= slept[w]
          /\ level + lag + Refill <= Capacity /\ level \in Nat
      BY <2>2, LimiterAssumption DEF IInv, TypeOK, Balance, Tick
    <3>2. /\ timer'[w] = timer[w] - 1 /\ lag' = lag + 1 /\ slept' = slept
          /\ level' = Greater(level - 1, 0)
      BY <3>1, LimiterAssumption DEF Tick, Lesser, Greater
    <3>3. lag' = -timer'[w] /\ timer'[w] <= slept'[w]
      BY <1>1, <3>1, <3>2 DEF IInv, TypeOK
    <3>4. level' + lag' + Refill <= Capacity
      BY <3>1, <3>2, LimiterAssumption DEF Greater
    <3>5. QED
      BY <3>1, <3>3, <3>4 DEF Balance
  <2>3. QED
    BY <2>1, <2>2
<1>3. QED
  BY <1>1, <1>2 DEF IInv

\* The inductive step.
LEMMA NextKeepsInv == IInv /\ [Next]_vars => IInv'
<1> SUFFICES ASSUME IInv, [Next]_vars
             PROVE  IInv'
  OBVIOUS
<1>1. CASE Swap
  <2>1. TypeOK'
    BY <1>1, LimiterAssumption DEF IInv, TypeOK, Swap
  <2>2. Refilled' = Capacity
    BY <1>1, LimiterAssumption DEF Swap, Refilled, Lesser, Greater
  <2>3. Balance'
    <3>1. CASE waiting = {}
      BY <1>1, <2>2, <3>1, LimiterAssumption DEF Swap, Balance
    <3>2. CASE waiting # {}
      BY <1>1, <3>2 DEF Swap, Balance
    <3>3. QED
      BY <3>1, <3>2
  <2>4. QED
    BY <2>1, <2>3 DEF IInv
<1>2. CASE UNCHANGED vars
  BY <1>2 DEF IInv, TypeOK, Balance, Refilled, Lesser, Greater, vars
<1>3. QED
  BY <1>1, <1>2, TakeKeepsInv, ReserveKeepsInv, WakeKeepsInv, CancelKeepsInv, TickKeepsInv
     DEF Next

\* RL.Wait, for any number of callers, any rate and any capacity: as long as
\* no two callers have slept in the limiter at the same time, it lets through
\* no more than its capacity and its rate allow.
THEOREM RateKept == Spec => []LoneThrottled
<1>1. IInv => LoneThrottled
  <2> SUFFICES ASSUME IInv, ~overlap
               PROVE  level <= Capacity
    BY DEF LoneThrottled
  <2>1. CASE waiting = {}
    BY <2>1, LimiterAssumption DEF IInv, TypeOK, Balance, Refilled, Lesser, Greater
  <2>2. ASSUME NEW w \in waiting
        PROVE  level <= Capacity
    <3>1. /\ lag = -timer[w] /\ timer[w] \in 0..Refill /\ level \in Nat
          /\ level + lag + Refill <= Capacity
      BY <2>2 DEF IInv, TypeOK, Balance
    <3>2. QED
      BY <3>1, LimiterAssumption
  <2>3. QED
    BY <2>1, <2>2
<1>2. QED
  BY <1>1, InitHasInv, NextKeepsInv, PTL DEF Spec
=============================================================================
