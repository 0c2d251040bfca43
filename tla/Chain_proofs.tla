---------------------------- MODULE Chain_proofs ----------------------------
(***************************************************************************)
(* Proofs about HandlerChain and GuardedChat, in the behaviours of         *)
(* MCModeration.                                                           *)
(*                                                                         *)
(* The chain.  Handlers begin one after the other because the index only   *)
(* grows while it is inside the chain, although nested calls of Next share *)
(* it and a pipe sets it back: started always is 0, 1, ..., so that a      *)
(* handler begins only at index = Len(started).  For that the calls on the *)
(* stack must be known in order (Calls), the innermost to run at its own   *)
(* index or to have left it behind the chain (TopOK), and what is left     *)
(* after an overflow of the index to be Recovery alone (Frozen).  That     *)
(* nothing is left out (Complete) is a matter of where Recovery stands and *)
(* of how often the loops above it can still advance the index.            *)
(*                                                                         *)
(* The guards.  A guard decides by the keys that hold when it runs; as the *)
(* keys in `held' only get fewer and those in `touched' only more, what it *)
(* let pass stays outside of what it keeps out (PassedFree).               *)
(***************************************************************************)
EXTENDS MCModeration, SequenceTheorems, FiniteSetTheorems, TLAPS

\* The empty sequence is the one of length 0.
LEMMA LenZero == ASSUME NEW S, NEW b \in Seq(S) PROVE b = <<>> <=> Len(b) = 0
OBVIOUS

\* The first n elements.
LEMMA PrefixSeq ==
    ASSUME NEW S, NEW s \in Seq(S), NEW n \in 0..Len(s), NEW b, b = SubSeq(s, 1, n)
    PROVE  /\ b \in Seq(S) /\ Len(b) = n
           /\ \A k \in 1..n : b[k] = s[k]
<1>1. n \in Int /\ n >= 0 /\ \A k \in 1..n : s[k] \in S
  BY ElementOfSeq
<1>2. /\ b \in Seq(S)
      /\ Len(b) = IF 1 <= n THEN n - 1 + 1 ELSE 0
      /\ \A k \in 1..(n - 1 + 1) : b[k] = s[1 + k - 1]
  BY <1>1, SubSeqProperties
<1>3. Len(b) = n
  BY <1>1, <1>2
<1>4. ASSUME NEW k \in 1..n PROVE b[k] = s[k]
  <2>1. k \in 1..(n - 1 + 1) /\ 1 + k - 1 = k
    BY <1>1
  <2>2. QED
    BY <1>2, <2>1, Zenon
<1>5. QED
  BY <1>2, <1>3, <1>4

\* All elements but the last.
LEMMA FrontSeq ==
    ASSUME NEW S, NEW s \in Seq(S), s # <<>>, NEW b, b = SubSeq(s, 1, Len(s) - 1)
    PROVE  /\ b \in Seq(S) /\ Len(b) = Len(s) - 1
           /\ \A k \in 1..(Len(s) - 1) : b[k] = s[k]
           /\ b = <<>> <=> Len(s) = 1
<1>1. Len(s) \in Nat \ {0} /\ Len(s) - 1 \in 0..Len(s)
  BY EmptySeq
<1>2. PICK n \in 0..Len(s) : n = Len(s) - 1
  BY <1>1
<1>3. b \in Seq(S) /\ Len(b) = n /\ \A k \in 1..n : b[k] = s[k]
  BY <1>2, PrefixSeq
<1>4. b = <<>> <=> n = 0
  <2>1. b = <<>> <=> Len(b) = 0
    BY <1>3, LenZero, Zenon
  <2>2. QED
    BY <1>3, <2>1
<1>5. QED
  BY <1>1, <1>2, <1>3, <1>4

\* The handlers of the chain.
N == HC!N
\* What a call on the stack consists of.
Frames == [pos : Nat, part : Nat, at : {"run", "back", "check"}, saved : Int]

\* A frame of the calls c: a middleware is above its pipe, which waits for it, and
\* above all others that wait are later handlers, which they have called.
FrameOK(c, k) ==
    /\ c[k].pos < N
    /\ c[k].part > 0 =>
          /\ k > 1 /\ c[k].pos > 0 /\ c[k].at # "check"
          /\ c[k - 1].part = 0 /\ c[k - 1].at = "run" /\ c[k - 1].pos = c[k].pos
    /\ k < Len(c) =>
          \/ c[k].at = "back" /\ c[k + 1].part = 0 /\ c[k].pos < c[k + 1].pos
          \/ c[k].at = "run" /\ c[k + 1].part > 0
    /\ c[k].at = "check" \/ (c[k].at = "run" /\ k < Len(c)) => c[k].saved = c[k].pos

\* A stack of calls, each in order with the one above it.
Calls(c) == c \in Seq(Frames) /\ \A k \in 1..Len(c) : FrameOK(c, k)

\* The index has overflowed: what is left of the calls is Recovery, on its way out.
Frozen == index < -1 /\ Len(stack) = 1 /\ stack[1].pos = 0 /\ stack[1].at = "back"

\* The innermost call runs at its own index; a middleware that has returned has left
\* it there or, if the rest of the chain ran inside it, behind the chain.
TopOK ==
    LET t == stack[Len(stack)]
    IN  /\ index >= t.pos
        /\ t.at = "run" => index = t.pos
        /\ t.at = "check" \/ (t.at = "back" /\ t.part > 0) => index = t.pos \/ index >= N

\* Chains short enough for the index.
Complete ==
    /\ index \in 0..(2 * N)
    /\ index >= N /\ stack # <<>> => index + stack[Len(stack)].pos < 2 * N
    /\ panics = 0 /\ stack # <<>> => stack[1].pos = 0
    /\ panics = 0 /\ Len(stack) = 1 /\ stack[1].at = "back" => index >= N
    /\ panics <= 1 /\ stack = <<>> => index >= N

\* What is so while the chain of an update runs.
Progress ==
    /\ N <= MaxIndex
    /\ chain[1] = 0
    /\ index \in -(MaxIndex + 1)..MaxIndex
    /\ Calls(stack)
    /\ Len(started) <= N /\ \A k \in 1..Len(started) : started[k] = k - 1
    /\ index >= 0 /\ ~aborted => Len(started) = IF index < N THEN index + 1 ELSE N
    /\ aborted => index >= N \/ index < 0
    /\ stack = <<>> \/ Frozen \/ (index >= 0 /\ TopOK)
    /\ 2 * N <= MaxIndex => Complete

\* The inductive invariant of the chain.
ChainInv ==
    /\ chain \in Seq(Nat) /\ started \in Seq(Int) /\ panics \in Nat /\ aborted \in BOOLEAN
    /\ chain = <<>> => index = -1 /\ stack = <<>> /\ started = <<>> /\ ~aborted /\ panics = 0
    /\ chain # <<>> => Progress

\* The successor on an int8.
LEMMA WrappedNext ==
    ASSUME NEW i \in -(MaxIndex + 1)..MaxIndex
    PROVE  HC!Wrapped(i + 1) = IF i = MaxIndex THEN -(MaxIndex + 1) ELSE i + 1
<1> DEFINE m == 2 * (MaxIndex + 1)
<1>1. m \in Nat \ {0}
  BY ModerationAssumption
<1>2. \A x \in 0..(m - 1) : x % m = x
  BY <1>1
<1>3. m % m = 0
  BY <1>1
<1>4. QED
  BY <1>1, <1>2, <1>3, ModerationAssumption DEF HC!Wrapped

\* What the innermost call marked, taken off or put on top is.
MarkedAt(c, w) == [c EXCEPT ![Len(c)].at = w]

\* The frames of calls of which the innermost is marked.
LEMMA MarkedCalls ==
    ASSUME NEW c \in Seq(Frames), NEW n \in Nat \ {0}, Len(c) = n,
           NEW w \in {"run", "back", "check"}, NEW m, m = MarkedAt(c, w)
    PROVE  /\ m \in Seq(Frames) /\ Len(m) = n
           /\ \A k \in 1..(n - 1) : m[k] = c[k]
           /\ m[n].pos = c[n].pos /\ m[n].part = c[n].part
           /\ m[n].saved = c[n].saved /\ m[n].at = w
<1>1. n \in 1..Len(c) /\ c[n] \in Frames
  BY ElementOfSeq
<1>2. PICK e : e = [c[n] EXCEPT !.at = w]
  OBVIOUS
<1>3. e \in Frames /\ e.pos = c[n].pos /\ e.part = c[n].part /\ e.saved = c[n].saved /\ e.at = w
  BY <1>1, <1>2 DEF Frames
<1>4. m = [c EXCEPT ![n] = e]
  BY <1>2 DEF MarkedAt
<1>5. /\ m \in Seq(Frames) /\ Len(m) = n
      /\ \A j \in 1..n : m[j] = IF j = n THEN e ELSE c[j]
  BY <1>1, <1>3, <1>4, ExceptSeq
<1>6. QED
  BY ONLY <1>1, <1>3, <1>5

\* What a frame is made of.
LEMMA FrameFields ==
    ASSUME NEW c \in Seq(Frames), NEW k \in 1..Len(c)
    PROVE  /\ c[k] \in Frames /\ c[k].pos \in Nat /\ c[k].part \in Nat /\ c[k].saved \in Int
           /\ c[k].at \in {"run", "back", "check"}
<1>1. c[k] \in Frames
  BY ElementOfSeq
<1>2. QED
  BY <1>1 DEF Frames

\* The loop of Next may go on at index i above these calls.
Resumable(calls, i) ==
    /\ Calls(calls)
    /\ i \in -(MaxIndex + 1)..MaxIndex
    /\ i \in 0..(N - 1) => index >= 0 /\ i = index + 1
    /\ i < 0 => i < -1 \/ calls = <<>>
    /\ i >= N => index >= N - 1
    /\ calls # <<>> =>
          /\ index >= 0 /\ calls[Len(calls)].at = "back"
          /\ calls[Len(calls)].pos <= index
    /\ 2 * N <= MaxIndex =>
          /\ i \in 0..(2 * N)
          /\ i >= N /\ calls # <<>> => i + calls[Len(calls)].pos < 2 * N
          /\ panics = 0 /\ (calls # <<>> \/ i < N) => calls # <<>> /\ calls[1].pos = 0

\* The loop of Next, above calls that have called it.
LEMMA LoopKeeps ==
    ASSUME ChainInv, chain # <<>>, NEW calls, NEW i, Resumable(calls, i),
           HC!Loop(calls, i), aborted' = aborted
    PROVE  ChainInv'
<1>0. /\ Calls(calls)
      /\ i \in -(MaxIndex + 1)..MaxIndex
      /\ i \in 0..(N - 1) => index >= 0 /\ i = index + 1
      /\ i < 0 => i < -1 \/ calls = <<>>
      /\ i >= N => index >= N - 1
      /\ calls # <<>> =>
            /\ index >= 0 /\ calls[Len(calls)].at = "back"
            /\ calls[Len(calls)].pos <= index
      /\ 2 * N <= MaxIndex =>
            /\ i \in 0..(2 * N)
            /\ i >= N /\ calls # <<>> => i + calls[Len(calls)].pos < 2 * N
            /\ panics = 0 /\ (calls # <<>> \/ i < N) => calls # <<>> /\ calls[1].pos = 0
  BY DEF Resumable
<1> USE <1>0
<1>1. /\ N \in Nat \ {0} /\ N' = N /\ chain' = chain /\ index' = i /\ index \in Int
      /\ N <= MaxIndex /\ MaxIndex \in Nat \ {0}
  BY ModerationAssumption, EmptySeq DEF ChainInv, Progress, N, HC!N, HC!Loop
<1>2. calls \in Seq(Frames) /\ Len(calls) \in Nat
  BY DEF Calls
<1>3. CASE i >= N
  <2>1. stack' = calls /\ started' = started /\ panics' = panics
    BY <1>1, <1>3 DEF HC!Loop, N
  <2>2. Calls(stack)' 
    BY <1>1, <2>1 DEF Calls, FrameOK
  <2>3. stack' # <<>> => TopOK'
    <3> SUFFICES ASSUME calls # <<>> PROVE TopOK'
      BY <2>1
    <3>1. calls[Len(calls)].pos <= i
      <4>1. Len(calls) \in 1..Len(calls) /\ calls[Len(calls)].pos \in Nat
        <5>1. Len(calls) \in 1..Len(calls)
          BY <1>2, EmptySeq
        <5>2. calls[Len(calls)] \in Frames
          BY <1>2, <5>1, ElementOfSeq
        <5>3. QED
          BY <5>1, <5>2 DEF Frames
      <4>2. calls[Len(calls)].pos < N
        BY <4>1 DEF Calls, FrameOK
      <4>3. QED
        BY <1>1, <1>3, <4>1, <4>2
    <3>2. QED
      BY <1>1, <1>3, <2>1, <3>1 DEF TopOK
  <2>4. 2 * N <= MaxIndex => Complete'
    BY <1>1, <1>3, <2>1 DEF Complete
  <2>5. QED
    BY <1>1, <1>3, <2>1, <2>2, <2>3, <2>4 DEF ChainInv, Progress
<1>4. CASE i \in 0..(N - 1)
  <2>1. /\ stack' = Append(calls, HC!Frame(i)) /\ started' = Append(started, i)
        /\ panics' = panics
    BY <1>1, <1>4, SMTT(30) DEF HC!Loop, N
  <2>2. HC!Frame(i) \in Frames /\ HC!Frame(i).pos = i /\ HC!Frame(i).part = 0 /\ HC!Frame(i).at = "run"
    BY <1>4 DEF HC!Frame, Frames
  <2>3. /\ stack' \in Seq(Frames) /\ Len(stack') = Len(calls) + 1
        /\ \A k \in 1..Len(calls) : stack'[k] = calls[k]
        /\ stack'[Len(calls) + 1] = HC!Frame(i)
    BY <1>2, <2>1, <2>2
  <2>4. ASSUME NEW k \in 1..Len(stack') PROVE FrameOK(stack, k)'
    <3>1. CASE k = Len(calls) + 1
      BY <1>1, <1>2, <1>4, <2>2, <2>3, <3>1 DEF FrameOK
    <3>2. CASE k \in 1..Len(calls)
      <4>1. /\ FrameOK(calls, k) /\ stack'[k] = calls[k]
            /\ k > 1 => stack'[k - 1] = calls[k - 1]
        <5>1. FrameOK(calls, k)
          BY <3>2 DEF Calls
        <5>2. k > 1 => k - 1 \in 1..Len(calls)
          BY <1>2, <3>2
        <5>3. QED
          BY <2>3, <3>2, <5>1, <5>2
      <4>2. CASE k < Len(calls)
        <5>1. stack'[k + 1] = calls[k + 1]
          BY <1>2, <2>3, <3>2, <4>2
        <5>2. QED
          BY <1>1, <1>2, <2>3, <4>1, <4>2, <5>1 DEF FrameOK
      <4>3. CASE k = Len(calls)
        <5>1. /\ stack'[k + 1] = HC!Frame(i) /\ calls # <<>>
              /\ calls[k].at = "back" /\ calls[k].pos < i
          <6>1. calls # <<>>
            BY <1>2, <3>2
          <6>2. stack'[k + 1] = HC!Frame(i)
            BY <2>3, <4>3
          <6>3. calls[k].at = "back" /\ calls[k].pos <= index /\ i = index + 1
            BY <1>4, <4>3, <6>1
          <6>4. calls[k].pos \in Nat
            BY <1>2, <3>2, FrameFields
          <6>5. QED
            BY <1>1, <6>1, <6>2, <6>3, <6>4
        <5>2. calls[k].at # "check" /\ calls[k].at # "run" /\ stack'[k].pos < stack'[k + 1].pos
              /\ stack'[k + 1].part = 0 /\ stack'[k].at = "back"
          BY <2>2, <4>1, <5>1
        <5>3. QED
          BY <1>1, <4>1, <5>1, <5>2 DEF FrameOK
      <4>4. QED
        BY <1>2, <3>2, <4>2, <4>3
    <3>3. QED
      BY <1>2, <2>3, <3>1, <3>2
  <2>5. Calls(stack)'
    BY <2>3, <2>4 DEF Calls
  <2>6. TopOK'
    BY <1>1, <1>2, <1>4, <2>2, <2>3 DEF TopOK
  <2>7. ~aborted /\ Len(started) = i
    <3>1. Progress
      BY DEF ChainInv
    <3>2. index \in Nat /\ index < N /\ index + 1 = i
      BY <1>1, <1>4
    <3>3. QED
      BY ONLY <1>1, <3>1, <3>2 DEF Progress
  <2>12. /\ started \in Seq(Int) /\ i \in Nat
         /\ \A k \in 1..i : started[k] = k - 1
    BY <1>4, <2>1, <2>7 DEF ChainInv, Progress
  <2>8. /\ started' \in Seq(Int) /\ Len(started') = i + 1
        /\ \A k \in 1..Len(started') : started'[k] = k - 1
    <3>1. /\ started' \in Seq(Int) /\ Len(started') = i + 1 /\ started'[i + 1] = i
          /\ \A k \in 1..i : started'[k] = started[k]
      BY ONLY <2>1, <2>7, <2>12, AppendProperties
    <3>2. ASSUME NEW k \in 1..(i + 1) PROVE started'[k] = k - 1
      <4>1. CASE k \in 1..i
        BY ONLY <2>12, <3>1, <4>1
      <4>2. CASE k = i + 1
        BY ONLY <2>12, <3>1, <4>2
      <4>3. QED
        BY ONLY <2>12, <3>2, <4>1, <4>2
    <3>3. QED
      BY <3>1, <3>2
  <2>9. 2 * N <= MaxIndex => Complete'
    <3> SUFFICES ASSUME 2 * N <= MaxIndex PROVE Complete'
      OBVIOUS
    <3>1. panics = 0 => calls # <<>> /\ stack'[1].pos = 0
      <4>1. calls # <<>> => 1 \in 1..Len(calls)
        BY <1>2
      <4>2. calls # <<>> => stack'[1] = calls[1]
        BY <2>3, <4>1
      <4>3. panics = 0 => calls # <<>> /\ calls[1].pos = 0
        BY <1>1, <1>4
      <4>4. QED
        BY <4>2, <4>3
    <3>2. stack' # <<>> /\ (calls # <<>> => Len(stack') # 1)
      BY <1>2, <2>3
    <3>3. QED
      BY <1>1, <1>4, <2>1, <3>1, <3>2 DEF Complete
  <2>10. Progress'
    BY <1>1, <1>4, <2>5, <2>6, <2>7, <2>8, <2>9 DEF ChainInv, Progress
  <2>11. QED
    BY <1>1, <2>1, <2>8, <2>10 DEF ChainInv
<1>5. CASE i < 0
  <2>1. stack' = HC!Recovery(calls) /\ started' = started /\ panics' = panics + 1
    BY <1>1, <1>5, SMTT(30) DEF HC!Loop, N
  <2>2. ~(2 * N <= MaxIndex)
    BY <1>1, <1>5
  <2>3. CASE stack' = <<>>
    <3>1. Calls(stack)'
      BY <2>3 DEF Calls
    <3>2. QED
      BY <1>1, <1>5, <2>1, <2>2, <2>3, <3>1 DEF ChainInv, Progress
  <2>4. CASE stack' # <<>>
    <3>1. /\ calls # <<>> /\ calls[1].pos = 0
          /\ stack' = <<[calls[1] EXCEPT !.at = "back"]>>
      BY <2>1, <2>4 DEF HC!Recovery
    <3>2. 1 \in 1..Len(calls) /\ calls[1] \in Frames /\ calls[1].part = 0 /\ i < -1
      <4>1. 1 \in 1..Len(calls)
        BY <1>2, <3>1
      <4>2. calls[1] \in Frames
        BY <1>2, <4>1, ElementOfSeq
      <4>3. ~(calls[1].part > 0)
        BY <4>1 DEF Calls, FrameOK
      <4>4. QED
        BY <1>5, <3>1, <4>1, <4>2, <4>3 DEF Frames
    <3>3. /\ stack' \in Seq(Frames) /\ Len(stack') = 1 /\ stack'[1].pos = 0
          /\ stack'[1].at = "back" /\ stack'[1].part = 0
      BY <3>1, <3>2 DEF Frames
    <3>6. Frozen'
      BY <1>1, <3>2, <3>3 DEF Frozen
    <3>7. FrameOK(stack, 1)'
      BY <1>1, <2>2, <3>3 DEF FrameOK
    <3>4. Calls(stack)' /\ Frozen'
      BY <3>3, <3>6, <3>7 DEF Calls
    <3>5. Progress'
      BY <1>1, <1>5, <2>1, <2>2, <3>4 DEF ChainInv, Progress
    <3>8. QED
      BY <1>1, <2>1, <3>5 DEF ChainInv
  <2>5. QED
    BY <2>3, <2>4
<1>6. QED
  BY <1>1, <1>3, <1>4, <1>5

\* The innermost call, marked.
LEMMA MarkKeepsCalls ==
    ASSUME NEW c, Calls(c), NEW n \in Nat \ {0}, n = Len(c), NEW w \in {"run", "back", "check"},
           NEW m, m = MarkedAt(c, w),
           w = "check" => c[n].part = 0 /\ c[n].saved = c[n].pos
    PROVE  /\ Calls(m) /\ Len(m) = n /\ m # <<>>
           /\ \A k \in 1..(n - 1) : m[k] = c[k]
           /\ m[1].pos = c[1].pos
           /\ m[n].pos = c[n].pos /\ m[n].part = c[n].part
           /\ m[n].saved = c[n].saved /\ m[n].at = w
<1>1. c \in Seq(Frames)
  BY DEF Calls
<1>2. /\ c \in Seq(Frames) /\ m \in Seq(Frames) /\ Len(m) = n
      /\ \A k \in 1..(n - 1) : m[k] = c[k]
      /\ m[n].pos = c[n].pos /\ m[n].part = c[n].part
      /\ m[n].saved = c[n].saved /\ m[n].at = w
  BY <1>1, MarkedCalls
<1>3. ASSUME NEW k \in 1..n PROVE FrameOK(m, k)
  <2>1. FrameOK(c, k) /\ n = Len(c)
    BY <1>1 DEF Calls
  <2>2. k > 1 => k - 1 \in 1..(n - 1)
    BY <1>1
  <2>3. k > 1 => m[k - 1] = c[k - 1]
    BY <1>2, <2>2
  <2>4. CASE k = n
    BY <1>1, <1>2, <2>1, <2>3, <2>4 DEF FrameOK
  <2>5. CASE k < n
    <3>1. k \in 1..(n - 1)
      BY <1>1, <2>5
    <3>2. m[k] = c[k]
      BY <1>2, <3>1
    <3>3. CASE k + 1 = n
      BY <1>1, <1>2, <2>1, <2>3, <2>5, <3>2, <3>3 DEF FrameOK
    <3>4. CASE k + 1 < n
      <4>1. m[k + 1] = c[k + 1]
        BY <1>1, <1>2, <3>4
      <4>2. QED
        BY <1>1, <1>2, <2>1, <2>3, <2>5, <3>2, <4>1 DEF FrameOK
    <3>5. QED
      BY <1>1, <2>5, <3>3, <3>4
  <2>6. QED
    BY <1>1, <2>4, <2>5
<1>4. Calls(m)
  BY <1>2, <1>3 DEF Calls
<1>5. 1 \in 1..(n - 1) \/ n = 1
  OBVIOUS
<1>6. m[1].pos = c[1].pos
  BY <1>2, <1>5
<1>7. m # <<>>
  BY <1>2
<1>8. QED
  BY <1>2, <1>4, <1>6, <1>7

\* The calls below the innermost one.
Under(c) == SubSeq(c, 1, Len(c) - 1)

\* b is c without its innermost call, the n-th plus one.
IsUnder(b, c, n) ==
    /\ Calls(b) /\ Len(b) = n /\ \A k \in 1..n : b[k] = c[k]
    /\ b = <<>> <=> n = 0
    /\ n > 0 /\ c[n + 1].part = 0 => b[n].at = "back" /\ b[n].pos < c[n + 1].pos
    /\ c[n + 1].part > 0 => /\ n > 0 /\ b[n].part = 0 /\ b[n].pos = c[n + 1].pos
                            /\ b[n].at = "run" /\ b[n].saved = b[n].pos

\* Without the innermost call, those below it are calls still.
LEMMA BelowKeepsCalls ==
    ASSUME NEW c, Calls(c), c # <<>>, NEW n \in Nat, Len(c) = n + 1, NEW b, b = Under(c)
    PROVE  IsUnder(b, c, n)
<1>1. /\ b \in Seq(Frames) /\ Len(b) = n
      /\ \A k \in 1..n : b[k] = c[k]
      /\ b = <<>> <=> n = 0
  <2>1. c \in Seq(Frames) /\ Len(c) - 1 = n
    BY DEF Calls
  <2>2. QED
    BY <2>1, FrontSeq DEF Under
<1>2. ASSUME NEW k \in 1..n PROVE FrameOK(b, k)
  <2>1. FrameOK(c, k) /\ b[k] = c[k]
    BY <1>1 DEF Calls
  <2>2. k > 1 => b[k - 1] = c[k - 1]
    BY <1>1
  <2>3. k < n => b[k + 1] = c[k + 1]
    BY <1>1
  <2>4. QED
    BY <1>1, <2>1, <2>2, <2>3 DEF FrameOK
<1>3. Calls(b)
  BY <1>1, <1>2 DEF Calls
<1>4. FrameOK(c, n + 1) /\ (n > 0 => FrameOK(c, n))
  BY DEF Calls
<1>5. n > 0 => b[n] = c[n]
  BY <1>1
<1>6. n > 0 /\ c[n + 1].part = 0 => b[n].at = "back" /\ b[n].pos < c[n + 1].pos
  BY <1>4, <1>5 DEF FrameOK
<1>7. c[n + 1].part > 0 => n > 0 /\ c[n].part = 0 /\ c[n].at = "run" /\ c[n].pos = c[n + 1].pos
  <2>1. n + 1 > 1 => n > 0
    OBVIOUS
  <2>2. (n + 1) - 1 = n
    OBVIOUS
  <2>3. QED
    BY <1>4, <2>1, <2>2 DEF FrameOK
<1>8. c[n + 1].part > 0 => c[n].saved = c[n].pos
  BY <1>4, <1>7 DEF FrameOK
<1>9. QED
  BY <1>1, <1>3, <1>5, <1>6, <1>7, <1>8 DEF IsUnder

\* What a call that is under way says of the state.
LEMMA Innermost ==
    ASSUME ChainInv, NEW n \in Nat, Len(stack) = n + 1
    PROVE  /\ stack # <<>> /\ chain # <<>> /\ N \in Nat \ {0} /\ Progress /\ Calls(stack)
           /\ N <= MaxIndex /\ MaxIndex \in Nat \ {0} /\ index \in Int
           /\ HC!Top = stack[n + 1]
           /\ stack[n + 1].pos \in 0..(N - 1) /\ stack[n + 1].part \in Nat
           /\ stack[n + 1].part > 0 => n > 0 /\ stack[n + 1].pos > 0
           /\ Frozen \/ (index >= 0 /\ TopOK)
           /\ Frozen => n = 0 /\ stack[n + 1].at = "back" /\ index < -1
<1>1. stack # <<>> /\ chain # <<>> /\ Progress /\ Calls(stack)
  BY DEF ChainInv, Progress
<1>2. N \in Nat \ {0} /\ N <= MaxIndex /\ MaxIndex \in Nat \ {0} /\ index \in Int
  BY <1>1, ModerationAssumption, EmptySeq DEF ChainInv, Progress, N, HC!N
<1>3. stack \in Seq(Frames) /\ n + 1 \in 1..Len(stack) /\ FrameOK(stack, n + 1)
  BY <1>1 DEF Calls
<1>4. stack[n + 1].pos \in Nat /\ stack[n + 1].part \in Nat
  BY <1>3, FrameFields
<1>5. stack[n + 1].pos < N /\ (stack[n + 1].part > 0 => n + 1 > 1 /\ stack[n + 1].pos > 0)
  BY <1>3 DEF FrameOK
<1>6. Frozen \/ (index >= 0 /\ TopOK)
  BY <1>1 DEF Progress
<1>7. Frozen => n = 0 /\ stack[n + 1].at = "back" /\ index < -1
  <2> SUFFICES ASSUME Frozen PROVE n = 0 /\ stack[n + 1].at = "back" /\ index < -1
    OBVIOUS
  <2>1. n + 1 = 1
    BY DEF Frozen
  <2>2. n = 0
    BY <2>1
  <2>3. QED
    BY <2>1, <2>2 DEF Frozen
<1>8. QED
  BY <1>1, <1>2, <1>4, <1>5, <1>6, <1>7 DEF HC!Top

\* The innermost call runs at its own index, which is inside the chain.
LEMMA RunsAtIndex ==
    ASSUME ChainInv, HC!AtTop("run"), NEW n \in Nat, Len(stack) = n + 1
    PROVE  index = stack[n + 1].pos /\ index \in 0..(N - 1) /\ ~Frozen /\ TopOK
<1>1. stack[n + 1].at = "run"
  BY DEF HC!AtTop, HC!Top
<1>2. ~Frozen /\ TopOK
  BY <1>1, Innermost
<1>3. index = stack[n + 1].pos
  BY <1>1, <1>2 DEF TopOK
<1>4. QED
  BY <1>2, <1>3, Innermost

\* A call that is under way has a number.
LEMMA DepthOfOne ==
    ASSUME ChainInv, stack # <<>>
    PROVE  \E n \in Nat : Len(stack) = n + 1
<1>1. stack \in Seq(Frames)
  BY DEF ChainInv, Progress, Calls
<1>2. Len(stack) \in Nat \ {0}
  BY <1>1, EmptySeq
<1>3. Len(stack) - 1 \in Nat /\ Len(stack) = (Len(stack) - 1) + 1
  BY <1>2
<1>4. QED
  BY <1>3

\* The innermost call has called Next, and the loop takes the next handler.
LEMMA MarkedResumable ==
    ASSUME ChainInv, NEW n \in Nat, Len(stack) = n + 1, ~Frozen,
           index = stack[n + 1].pos, index \in 0..(N - 1),
           NEW m, m = MarkedAt(stack, "back")
    PROVE  HC!Wrapped(index + 1) = index + 1 /\ Resumable(m, index + 1)
<1>1. /\ Calls(m) /\ Len(m) = n + 1 /\ m # <<>> /\ m[1].pos = stack[1].pos
      /\ m[n + 1].pos = stack[n + 1].pos /\ m[n + 1].at = "back"
  <2>1. Calls(stack)
    BY Innermost
  <2>2. n + 1 \in Nat \ {0}
    OBVIOUS
  <2>3. QED
    BY <2>1, <2>2, MarkKeepsCalls
<1>2. HC!Wrapped(index + 1) = index + 1
  <2>1. index \in -(MaxIndex + 1)..MaxIndex /\ index # MaxIndex
    BY Innermost
  <2>2. QED
    BY <2>1, WrappedNext
<1>3. Resumable(m, index + 1)
  <2>1. index + 1 \in -(MaxIndex + 1)..MaxIndex /\ index + 1 <= N
    BY Innermost
  <2>2. 2 * N <= MaxIndex => (panics = 0 => m[1].pos = 0)
    BY <1>1, Innermost DEF Progress, Complete
  <2>3. m[Len(m)].at = "back" /\ m[Len(m)].pos = index
    BY <1>1
  <2>4. N \in Nat \ {0}
    BY Innermost
  <2>5. QED
    BY <1>1, <2>1, <2>2, <2>3, <2>4 DEF Resumable
<1>4. QED
  BY <1>2, <1>3

\* A handler calls Next.
LEMMA CallNextKeeps ==
    ASSUME ChainInv, HC!CallNext
    PROVE  ChainInv'
<1>1. PICK n \in Nat : Len(stack) = n + 1
  BY DepthOfOne DEF HC!CallNext, HC!Running, HC!AtTop
<1>2. HC!AtTop("run")
  BY DEF HC!CallNext, HC!Running
<1>3. index = stack[n + 1].pos /\ index \in 0..(N - 1) /\ ~Frozen
  BY <1>1, <1>2, RunsAtIndex
<1>4. PICK m : m = MarkedAt(stack, "back")
  OBVIOUS
<1>5. HC!Wrapped(index + 1) = index + 1 /\ Resumable(m, index + 1)
  BY <1>1, <1>3, <1>4, MarkedResumable
<1>6. HC!Loop(m, index + 1) /\ aborted' = aborted
  BY <1>4, <1>5 DEF HC!CallNext, HC!Marked, MarkedAt
<1>7. QED
  BY <1>1, <1>5, <1>6, Innermost, LoopKeeps

\* The handler returns: by itself, after Abort, or because it panics.
LEMMA UserKeeps ==
    ASSUME ChainInv, HC!Abort \/ HC!Skip
    PROVE  ChainInv'
<1>1. PICK n \in Nat : Len(stack) = n + 1
  BY DepthOfOne DEF HC!Abort, HC!Skip, HC!User, HC!Running, HC!AtTop
<1>2. HC!AtTop("run") /\ HC!Top.pos > 0
  BY DEF HC!Abort, HC!Skip, HC!User, HC!Running
<1>3. /\ index = stack[n + 1].pos /\ index \in 0..(N - 1) /\ stack[n + 1].pos > 0
      /\ N \in Nat \ {0} /\ Calls(stack) /\ n + 1 \in Nat \ {0} /\ Progress
      /\ N <= MaxIndex /\ MaxIndex \in Nat \ {0} /\ chain # <<>>
  BY <1>1, <1>2, RunsAtIndex, Innermost
<1>4. stack' = MarkedAt(stack, "back")
  BY DEF HC!Abort, HC!Skip, HC!Marked, MarkedAt
<1>5. PICK m : m = MarkedAt(stack, "back")
  OBVIOUS
<1>6. /\ Calls(m) /\ Len(m) = n + 1 /\ m # <<>> /\ m[1].pos = stack[1].pos
      /\ m[n + 1].pos = stack[n + 1].pos /\ m[n + 1].at = "back"
  BY <1>1, <1>3, <1>5, MarkKeepsCalls
<1>7. UNCHANGED <<chain, started, panics>> /\ N' = N /\ stack' = m
  BY <1>4, <1>5 DEF HC!Abort, HC!Skip, N, HC!N
<1>8. \/ index' = N /\ aborted' = TRUE
      \/ index' = index /\ aborted' = aborted
  BY DEF HC!Abort, HC!Skip, N
<1>9. Calls(stack)'
  BY <1>6, <1>7 DEF Calls, FrameOK
<1>10. index' \in 0..N /\ TopOK'
  BY <1>3, <1>6, <1>7, <1>8 DEF TopOK
<1>11. 2 * N <= MaxIndex => Complete'
  <2> SUFFICES ASSUME 2 * N <= MaxIndex PROVE Complete'
    OBVIOUS
  <2>1. Complete
    BY <1>3 DEF Progress
  <2>2. panics = 0 => stack[1].pos = 0 /\ n # 0
    BY <1>1, <1>3, <2>1, Innermost DEF Complete
  <2>3. QED
    BY <1>3, <1>6, <1>7, <1>8, <2>1, <2>2 DEF Complete
<1>12. Progress'
  <2>1. index' \in -(MaxIndex + 1)..MaxIndex /\ (aborted' => index' >= N)
    BY <1>3, <1>8, <1>10 DEF Progress
  <2>2. ~aborted' => Len(started') = IF index' < N THEN index' + 1 ELSE N
    BY <1>3, <1>7, <1>8 DEF Progress
  <2>3. /\ N' <= MaxIndex /\ chain'[1] = 0
        /\ Len(started') <= N' /\ \A k \in 1..Len(started') : started'[k] = k - 1
    BY <1>3, <1>7 DEF Progress
  <2>4. index' >= 0 /\ TopOK'
    BY <1>3, <1>10
  <2>5. QED
    BY ONLY <1>7, <1>9, <1>11, <2>1, <2>2, <2>3, <2>4 DEF Progress
<1>13. QED
  BY <1>3, <1>7, <1>8, <1>12 DEF ChainInv

\* A handler panics, and Recovery returns.
LEMMA PanicKeeps ==
    ASSUME ChainInv, HC!Panic
    PROVE  ChainInv'
<1>1. PICK n \in Nat : Len(stack) = n + 1
  BY DepthOfOne DEF HC!Panic, HC!User, HC!Running, HC!AtTop
<1>2. HC!AtTop("run") /\ HC!Top.pos > 0
  BY DEF HC!Panic, HC!User, HC!Running
<1>3. /\ index = stack[n + 1].pos /\ index \in 0..(N - 1) /\ stack[n + 1].pos > 0
      /\ N \in Nat \ {0} /\ Calls(stack) /\ n + 1 \in Nat \ {0} /\ Progress
      /\ N <= MaxIndex /\ MaxIndex \in Nat \ {0} /\ chain # <<>> /\ stack # <<>>
  BY <1>1, <1>2, RunsAtIndex, Innermost
<1>4. /\ stack' = HC!Recovery(HC!Below) /\ panics' = panics + 1
      /\ UNCHANGED <<chain, index, started, aborted>> /\ N' = N
  BY DEF HC!Panic, N, HC!N
<1>5. PICK b : b = Under(stack)
  OBVIOUS
<1>6. Calls(b) /\ Len(b) = n /\ (\A k \in 1..n : b[k] = stack[k]) /\ (b = <<>> <=> n = 0)
  <2>1. Calls(stack) /\ stack # <<>>
    BY <1>3
  <2>2. IsUnder(b, stack, n)
    BY <1>1, <1>5, <2>1, BelowKeepsCalls
  <2>3. QED
    BY <2>2 DEF IsUnder
<1>7. stack' = IF b # <<>> /\ b[1].pos = 0 THEN <<[b[1] EXCEPT !.at = "back"]>> ELSE <<>>
  BY <1>4, <1>5 DEF HC!Below, HC!Recovery, Under
<1>8. CASE b # <<>> /\ b[1].pos = 0
  <2>1. b[1] \in Frames /\ ~(b[1].part > 0) /\ b[1].part \in Nat
    <3>1. b \in Seq(Frames) /\ 1 \in 1..Len(b)
      BY <1>6, <1>8 DEF Calls
    <3>2. FrameOK(b, 1)
      BY <1>6, <3>1 DEF Calls
    <3>3. QED
      BY <3>1, <3>2, FrameFields DEF FrameOK
  <2>2. /\ stack' \in Seq(Frames) /\ Len(stack') = 1 /\ stack'[1].pos = 0
        /\ stack'[1].at = "back" /\ stack'[1].part = 0
    BY <1>7, <1>8, <2>1 DEF Frames
  <2>3. Calls(stack)' /\ TopOK'
    BY <1>3, <1>4, <2>2 DEF Calls, FrameOK, TopOK
  <2>4. stack' # <<>> /\ stack'[Len(stack')].pos = 0
    BY <2>2
  <2>5. 2 * N <= MaxIndex => Complete'
    <3> SUFFICES ASSUME 2 * N <= MaxIndex PROVE Complete'
      OBVIOUS
    <3>1. index' \in 0..(2 * N) /\ ~(index' >= N)
      BY <1>3, <1>4
    <3>2. panics' # 0
      BY <1>4 DEF ChainInv
    <3>3. QED
      BY <1>4, <2>4, <3>1, <3>2 DEF Complete
  <2>6. Progress'
    BY <1>3, <1>4, <2>3, <2>5 DEF Progress
  <2>7. QED
    BY <1>3, <1>4, <2>6 DEF ChainInv
<1>9. CASE ~(b # <<>> /\ b[1].pos = 0)
  <2>1. stack' = <<>>
    BY <1>7, <1>9
  <2>2. Calls(stack)'
    BY <2>1 DEF Calls
  <2>3. 2 * N <= MaxIndex => panics # 0
    <3> SUFFICES ASSUME 2 * N <= MaxIndex, panics = 0 PROVE FALSE
      OBVIOUS
    <3>1. stack[1].pos = 0
      BY <1>3 DEF Progress, Complete
    <3>2. n # 0
      BY <1>3, <3>1
    <3>3. b[1] = stack[1] /\ b # <<>>
      BY <1>6, <3>2
    <3>4. QED
      BY <1>9, <3>1, <3>3
  <2>4. 2 * N <= MaxIndex => Complete'
    BY <1>3, <1>4, <2>1, <2>3 DEF Progress, Complete, ChainInv
  <2>5. Progress'
    BY <1>3, <1>4, <2>1, <2>2, <2>4 DEF Progress
  <2>6. QED
    BY <1>3, <1>4, <2>1, <2>5 DEF ChainInv
<1>10. QED
  BY <1>8, <1>9

\* A call returns, into its pipe or into the loop that began it.
LEMMA ReturnKeeps ==
    ASSUME ChainInv, HC!Return
    PROVE  ChainInv'
<1>1. PICK n \in Nat : Len(stack) = n + 1
  BY DepthOfOne DEF HC!Return, HC!AtTop
<1>2. stack[n + 1].at = "back" /\ aborted' = aborted
  BY <1>1 DEF HC!Return, HC!AtTop, HC!Top
<1>3. /\ stack # <<>> /\ chain # <<>> /\ N \in Nat \ {0} /\ Progress /\ Calls(stack)
      /\ N <= MaxIndex /\ MaxIndex \in Nat \ {0} /\ index \in Int
      /\ stack[n + 1].pos \in 0..(N - 1) /\ stack[n + 1].part \in Nat
      /\ stack[n + 1].part > 0 => n > 0
      /\ Frozen \/ (index >= 0 /\ TopOK)
      /\ Frozen => n = 0 /\ index < -1
      /\ HC!Top = stack[n + 1]
  BY <1>1, Innermost
<1>4. PICK b : b = Under(stack)
  OBVIOUS
<1>5. IsUnder(b, stack, n)
  BY <1>1, <1>3, <1>4, BelowKeepsCalls
<1>6. index >= 0 => ~Frozen /\ TopOK
  BY <1>3 DEF Frozen
<1>7. n > 0 => b[1] = stack[1]
  BY <1>5 DEF IsUnder
<1>8. CASE stack[n + 1].part > 0
  <2>1. /\ n \in Nat \ {0} /\ Calls(b) /\ Len(b) = n /\ b[n].part = 0 /\ b[n].pos = stack[n + 1].pos
        /\ b[n].saved = b[n].pos
    BY <1>3, <1>5, <1>8 DEF IsUnder
  <2>2. PICK m : m = MarkedAt(b, "check")
    OBVIOUS
  <2>3. /\ Calls(m) /\ Len(m) = n /\ m # <<>> /\ m[1].pos = b[1].pos
        /\ m[n].pos = b[n].pos /\ m[n].part = b[n].part
        /\ m[n].saved = b[n].saved /\ m[n].at = "check"
    BY <2>1, <2>2, MarkKeepsCalls
  <2>4. stack' = m /\ UNCHANGED <<chain, index, started, panics>> /\ N' = N
    BY <1>2, <1>3, <1>4, <1>8, <2>2 DEF HC!Return, HC!Below, Under, MarkedAt, N, HC!N
  <2>5. index >= 0 /\ TopOK
    BY <1>3, <1>8
  <2>6. TopOK'
    BY <1>1, <1>2, <1>8, <2>1, <2>3, <2>4, <2>5 DEF TopOK
  <2>7. Calls(stack)'
    BY <2>3, <2>4 DEF Calls, FrameOK
  <2>8. 2 * N <= MaxIndex => Complete'
    <3> SUFFICES ASSUME 2 * N <= MaxIndex PROVE Complete'
      OBVIOUS
    <3>1. Complete
      BY <1>3 DEF Progress
    <3>2. stack'[Len(stack')].pos = stack[Len(stack)].pos /\ stack'[1].pos = stack[1].pos
      BY <1>1, <1>7, <2>1, <2>3, <2>4
    <3>3. ~(Len(stack') = 1 /\ stack'[1].at = "back")
      BY <2>3, <2>4
    <3>4. QED
      BY <1>2, <1>3, <2>3, <2>4, <3>1, <3>2, <3>3 DEF Complete
  <2>9. Progress'
    BY <1>2, <1>3, <2>4, <2>5, <2>6, <2>7, <2>8 DEF Progress
  <2>10. QED
    BY <1>2, <1>3, <2>4, <2>9 DEF ChainInv
<1>9. CASE stack[n + 1].part = 0
  <2>1. PICK i : i = HC!Wrapped(index + 1)
    OBVIOUS
  <2>2. index \in -(MaxIndex + 1)..MaxIndex /\ i = IF index = MaxIndex THEN -(MaxIndex + 1) ELSE index + 1
    BY <1>3, <2>1, WrappedNext DEF Progress
  <2>3. HC!Loop(b, i)
    BY <1>2, <1>3, <1>4, <1>9, <2>1 DEF HC!Return, HC!Below, Under
  <2>4. /\ Calls(b) /\ Len(b) = n
        /\ b = <<>> <=> n = 0
        /\ n > 0 => b[n].at = "back" /\ b[n].pos < stack[n + 1].pos
    BY <1>5, <1>9 DEF IsUnder
  <2>5. index >= 0 => stack[n + 1].pos <= index
    BY <1>1, <1>6 DEF TopOK
  <2>6. n > 0 => b[n].pos \in Nat
    <3>1. n > 0 => n \in 1..Len(b) /\ b \in Seq(Frames)
      BY <2>4 DEF Calls
    <3>2. QED
      BY <3>1, FrameFields
  <2>7. n > 0 => index >= 0
    BY <1>3
  <2>8. ASSUME 2 * N <= MaxIndex
        PROVE  /\ index # MaxIndex /\ index >= 0 /\ i \in 0..(2 * N)
               /\ i >= N /\ n > 0 => i + b[n].pos < 2 * N
               /\ panics = 0 /\ (n > 0 \/ i < N) => n > 0 /\ b[1].pos = 0
    <3>1. /\ index \in 0..(2 * N)
          /\ index >= N => index + stack[n + 1].pos < 2 * N
          /\ panics = 0 => stack[1].pos = 0
          /\ panics = 0 /\ n = 0 => index >= N
      BY <1>1, <1>2, <1>3, <2>8 DEF Progress, Complete
    <3>2. index < 2 * N /\ index # MaxIndex /\ i = index + 1
      BY <1>3, <2>2, <2>8, <3>1
    <3>3. i >= N /\ n > 0 => i + b[n].pos < 2 * N
      BY <1>3, <2>4, <2>5, <2>6, <3>1, <3>2
    <3>4. QED
      BY <1>3, <1>7, <3>1, <3>2, <3>3
  <2>9. Resumable(b, i)
    BY <1>3, <2>2, <2>4, <2>5, <2>6, <2>7, <2>8 DEF Resumable
  <2>10. QED
    BY <1>2, <1>3, <2>3, <2>9, LoopKeeps
<1>10. QED
  BY <1>3, <1>8, <1>9

\* The middlewares that have begun can be counted.
PipedOK == IsFiniteSet(piped)

\* The number of a pipe's next middleware.
LEMMA PassedIsNat ==
    ASSUME PipedOK, NEW f
    PROVE  HC!Passed(f) \in Nat
<1>1. {q \in piped : q[1] = f.pos} \subseteq piped
  OBVIOUS
<1>2. IsFiniteSet({q \in piped : q[1] = f.pos})
  BY <1>1, FS_Subset DEF PipedOK
<1>3. Cardinality({q \in piped : q[1] = f.pos}) \in Nat
  BY <1>2, FS_CardinalityType
<1>4. QED
  BY <1>3 DEF HC!Passed, HC!Cardinality, Cardinality

\* A pipe calls its next middleware.
LEMMA PipeCallsKeeps ==
    ASSUME ChainInv, PipedOK, HC!PipeCalls
    PROVE  ChainInv' /\ PipedOK'
<1>1. PICK n \in Nat : Len(stack) = n + 1
  BY DepthOfOne DEF HC!PipeCalls, HC!AtTop
<1>2. HC!AtTop("run") /\ HC!IsPipe(HC!Top)
  BY DEF HC!PipeCalls
<1>3. /\ index = stack[n + 1].pos /\ index \in 0..(N - 1) /\ TopOK /\ ~Frozen
      /\ N \in Nat \ {0} /\ Calls(stack) /\ n + 1 \in Nat \ {0} /\ Progress
      /\ N <= MaxIndex /\ MaxIndex \in Nat \ {0} /\ chain # <<>> /\ HC!Top = stack[n + 1]
  BY <1>1, <1>2, RunsAtIndex, Innermost
<1>4. PICK p : p = HC!Passed(HC!Top) + 1
  OBVIOUS
<1>5. p \in Nat \ {0}
  BY <1>4, PassedIsNat
<1>6. /\ stack' = Append([stack EXCEPT ![Len(stack)].saved = index],
                         [HC!Frame(HC!Top.pos) EXCEPT !.part = p])
      /\ UNCHANGED <<chain, index, started, aborted, panics>> /\ N' = N
      /\ piped' = piped \cup {<<HC!Top.pos, p>>}
  BY <1>4 DEF HC!PipeCalls, N, HC!N
<1>7. PICK f : f = [stack[n + 1] EXCEPT !.saved = index]
  OBVIOUS
<1>8. PICK g : g = [HC!Frame(HC!Top.pos) EXCEPT !.part = p]
  OBVIOUS
<1>9. /\ stack[n + 1] \in Frames /\ stack[n + 1].part = 0 /\ stack[n + 1].at = "run"
      /\ stack[n + 1].pos \in Nat /\ index > 0
  <2>1. n + 1 \in 1..Len(stack) /\ stack \in Seq(Frames)
    BY <1>1, <1>3 DEF Calls
  <2>2. stack[n + 1].part = 0 /\ chain[stack[n + 1].pos + 1] > 0
    BY <1>2, <1>3 DEF HC!IsPipe
  <2>3. stack[n + 1].pos # 0
    BY <1>3, <2>2 DEF Progress
  <2>4. stack[n + 1].at = "run"
    BY <1>2, <1>3 DEF HC!AtTop
  <2>5. QED
    BY <1>3, <2>1, <2>2, <2>3, <2>4, FrameFields
<1>10. /\ f \in Frames /\ f.pos = index /\ f.part = 0 /\ f.at = "run" /\ f.saved = index
       /\ g \in Frames /\ g.pos = index /\ g.part = p /\ g.at = "run"
  BY <1>3, <1>5, <1>7, <1>8, <1>9 DEF HC!Frame, Frames
<1>11. PICK c : c = [stack EXCEPT ![n + 1] = f]
  OBVIOUS
<1>12. c \in Seq(Frames) /\ Len(c) = n + 1 /\ c[n + 1] = f /\ \A k \in 1..n : c[k] = stack[k]
  <2>1. stack \in Seq(Frames) /\ n + 1 \in 1..Len(stack)
    BY <1>1, <1>3 DEF Calls
  <2>2. QED
    BY <1>1, <1>10, <1>11, <2>1, ExceptSeq
<1>13. stack' = Append(c, g)
  BY <1>1, <1>6, <1>7, <1>8, <1>11
<1>0. UNCHANGED <<chain, index, started, aborted, panics>> /\ N' = N
  BY <1>6
<1>14. /\ stack' \in Seq(Frames) /\ Len(stack') = n + 2 /\ stack'[n + 2] = g /\ stack'[n + 1] = f
       /\ \A k \in 1..n : stack'[k] = stack[k]
  <2>1. /\ Append(c, g) \in Seq(Frames) /\ Len(Append(c, g)) = Len(c) + 1
        /\ \A k \in 1..Len(c) : Append(c, g)[k] = c[k]
        /\ Append(c, g)[Len(c) + 1] = g
    BY <1>10, <1>12
  <2>2. QED
    BY ONLY <1>12, <1>13, <2>1
<1>15. ASSUME NEW k \in 1..(n + 2) PROVE FrameOK(stack, k)'
  <2>1. k <= n + 1 => FrameOK(stack, k)
    BY <1>1, <1>3 DEF Calls
  <2>2. CASE k = n + 2
    <3>1. stack'[k] = g /\ stack'[k - 1] = f /\ ~(k < Len(stack')) /\ k > 1
      <4>1. k - 1 = n + 1 /\ k > 1 /\ ~(k < n + 2)
        BY <2>2
      <4>2. QED
        BY <1>14, <2>2, <4>1
    <3>2. QED
      BY <1>3, <1>0, <1>9, <1>10, <3>1 DEF FrameOK
  <2>3. CASE k = n + 1
    <3>1. stack'[k] = f /\ stack'[k + 1] = g
      <4>1. k + 1 = n + 2
        BY <2>3
      <4>2. QED
        BY <1>14, <2>3, <4>1
    <3>2. QED
      BY <1>3, <1>5, <1>0, <1>10, <3>1 DEF FrameOK
  <2>4. CASE k <= n
    <3>1. k \in 1..n /\ k < Len(stack)
      BY <1>1, <2>4
    <3>2. stack'[k] = stack[k] /\ (k > 1 => stack'[k - 1] = stack[k - 1])
      BY <1>14, <3>1
    <3>3. stack'[k + 1].pos = stack[k + 1].pos /\ stack'[k + 1].part = stack[k + 1].part
      BY <1>3, <1>9, <1>10, <1>14, <3>1
    <3>4. QED
      BY <1>1, <1>3, <1>0, <1>14, <2>1, <3>1, <3>2, <3>3 DEF FrameOK
  <2>5. QED
    BY <2>2, <2>3, <2>4
<1>16. Calls(stack)'
  BY <1>14, <1>15 DEF Calls
<1>17. TopOK' /\ stack'[Len(stack')].pos = stack[Len(stack)].pos /\ stack'[1].pos = stack[1].pos
       /\ Len(stack') # 1 /\ stack' # <<>>
  <2>1. stack'[Len(stack')] = g /\ Len(stack') # 1 /\ stack' # <<>>
    BY <1>14
  <2>2. stack[Len(stack)].pos = index
    BY <1>1, <1>3
  <2>3. stack'[1].pos = stack[1].pos
    <3>1. n = 0 \/ 1 \in 1..n
      OBVIOUS
    <3>2. n = 0 => stack'[1] = f /\ stack[1].pos = index
      BY <1>3, <1>14
    <3>3. 1 \in 1..n => stack'[1] = stack[1]
      BY <1>14
    <3>4. QED
      BY <1>10, <3>1, <3>2, <3>3
  <2>4. TopOK'
    BY <1>3, <1>0, <1>10, <2>1 DEF TopOK
  <2>5. QED
    BY <1>10, <2>1, <2>2, <2>3, <2>4
<1>18. 2 * N <= MaxIndex => Complete'
  BY <1>1, <1>3, <1>0, <1>14, <1>17 DEF Progress, Complete
<1>19. ChainInv'
  <2>1. Progress'
    BY <1>3, <1>0, <1>16, <1>17, <1>18 DEF Progress
  <2>2. QED
    BY <1>3, <1>0, <2>1 DEF ChainInv
<1>20. PipedOK'
  BY <1>6, FS_AddElement DEF PipedOK
<1>21. QED
  BY <1>19, <1>20

\* A middleware that has returned to its pipe.
LEMMA PipeChecksKeeps ==
    ASSUME ChainInv, HC!PipeChecks
    PROVE  ChainInv'
<1>1. PICK n \in Nat : Len(stack) = n + 1
  BY DepthOfOne DEF HC!PipeChecks, HC!AtTop
<1>2. stack[n + 1].at = "check" /\ aborted' = aborted
  BY <1>1 DEF HC!PipeChecks, HC!AtTop, HC!Top
<1>3. /\ stack # <<>> /\ chain # <<>> /\ N \in Nat \ {0} /\ Progress /\ Calls(stack)
      /\ N <= MaxIndex /\ MaxIndex \in Nat \ {0} /\ index \in Int
      /\ stack[n + 1].pos \in 0..(N - 1) /\ stack[n + 1].part \in Nat
      /\ index >= 0 /\ TopOK /\ ~Frozen
      /\ HC!Top = stack[n + 1] /\ n + 1 \in Nat \ {0}
  BY <1>1, <1>2, Innermost
<1>4. stack[n + 1].part = 0 /\ stack[n + 1].saved = stack[n + 1].pos
  <2>1. FrameOK(stack, n + 1)
    BY <1>1, <1>3 DEF Calls
  <2>2. QED
    BY <1>2, <1>3, <2>1 DEF FrameOK
<1>5. index = stack[n + 1].pos \/ index >= N
  BY <1>1, <1>2, <1>3 DEF TopOK
<1>6. CASE index >= N /\ HC!Loop(HC!Below, HC!Wrapped(N + 1))
  <2>1. PICK b : b = Under(stack)
    OBVIOUS
  <2>2. IsUnder(b, stack, n)
    BY <1>1, <1>3, <2>1, BelowKeepsCalls
  <2>3. /\ Calls(b) /\ Len(b) = n
        /\ b = <<>> <=> n = 0
        /\ n > 0 => b[n].at = "back" /\ b[n].pos < stack[n + 1].pos
        /\ n > 0 => b[1] = stack[1]
    BY <1>4, <2>2 DEF IsUnder
  <2>4. n > 0 => b[n].pos \in Nat
    <3>1. n > 0 => n \in 1..Len(b) /\ b \in Seq(Frames)
      BY <2>3 DEF Calls
    <3>2. QED
      BY <3>1, FrameFields
  <2>5. PICK i : i = HC!Wrapped(N + 1)
    OBVIOUS
  <2>6. i = IF N = MaxIndex THEN -(MaxIndex + 1) ELSE N + 1
    <3>1. N \in -(MaxIndex + 1)..MaxIndex
      BY <1>3
    <3>2. QED
      BY <2>5, <3>1, WrappedNext
  <2>7. ASSUME 2 * N <= MaxIndex
        PROVE  /\ i \in 0..(2 * N)
               /\ n > 0 => i + b[n].pos < 2 * N
               /\ panics = 0 /\ (n > 0 \/ i < N) => n > 0 /\ b[1].pos = 0
    <3>1. i = N + 1
      BY <1>3, <2>6, <2>7
    <3>2. panics = 0 => stack[1].pos = 0
      BY <1>3, <2>7 DEF Progress, Complete
    <3>3. QED
      BY <1>3, <2>3, <2>4, <3>1, <3>2
  <2>8. Resumable(b, i)
    BY <1>3, <1>6, <2>3, <2>4, <2>6, <2>7 DEF Resumable
  <2>9. HC!Loop(b, i)
    BY <1>6, <2>1, <2>5 DEF HC!Below, Under
  <2>10. QED
    BY <1>2, <1>3, <2>8, <2>9, LoopKeeps
<1>7. CASE /\ index < N /\ index' = HC!Top.saved /\ stack' = HC!Marked("run")
           /\ UNCHANGED <<chain, started, panics>>
  <2>1. PICK m : m = MarkedAt(stack, "run")
    OBVIOUS
  <2>2. /\ Calls(m) /\ Len(m) = n + 1 /\ m # <<>> /\ m[1].pos = stack[1].pos
        /\ m[n + 1].pos = stack[n + 1].pos /\ m[n + 1].at = "run" /\ m[n + 1].part = stack[n + 1].part
    BY <1>1, <1>3, <2>1, MarkKeepsCalls
  <2>3. /\ stack' = m /\ UNCHANGED <<chain, started, panics, aborted, index>> /\ N' = N
        /\ index = stack[n + 1].pos
    BY <1>2, <1>3, <1>4, <1>5, <1>7, <2>1 DEF HC!Marked, MarkedAt, N, HC!N
  <2>4. Calls(stack)'
    BY <2>2, <2>3 DEF Calls, FrameOK
  <2>5. TopOK'
    BY <1>3, <2>2, <2>3 DEF TopOK
  <2>6. 2 * N <= MaxIndex => Complete'
    BY <1>1, <1>3, <2>2, <2>3 DEF Progress, Complete
  <2>7. Progress'
    BY <1>3, <2>3, <2>4, <2>5, <2>6 DEF Progress
  <2>8. QED
    BY <1>3, <2>3, <2>7 DEF ChainInv
<1>8. CASE index < N /\ HC!Loop(HC!Marked("back"), HC!Wrapped(HC!Top.saved + 1))
  <2>1. PICK m : m = MarkedAt(stack, "back")
    OBVIOUS
  <2>2. index = stack[n + 1].pos /\ index \in 0..(N - 1) /\ HC!Top.saved = index
    BY <1>3, <1>4, <1>5, <1>8
  <2>3. HC!Wrapped(index + 1) = index + 1 /\ Resumable(m, index + 1)
    BY <1>1, <1>3, <2>1, <2>2, MarkedResumable
  <2>4. HC!Loop(m, index + 1)
    BY <1>8, <2>1, <2>2, <2>3 DEF HC!Marked, MarkedAt
  <2>5. QED
    BY <1>2, <1>3, <2>3, <2>4, LoopKeeps
<1>9. QED
  BY <1>6, <1>7, <1>8 DEF HC!PipeChecks, N

\* The chain of an update, put together by processUpdate.
LEMMA FreshKeeps ==
    ASSUME ChainInv, chain = <<>>, chain' \in Seq(Nat), chain' # <<>>, Len(chain') <= MaxIndex,
           chain'[1] = 0, index' = 0, stack' = <<HC!Frame(0)>>,
           started' \in Seq(Int), Len(started') = 1, started'[1] = 0, UNCHANGED <<aborted, panics>>
    PROVE  ChainInv'
<1>1. ~aborted' /\ panics' = 0 /\ index' = 0
  BY DEF ChainInv
<1>2. N' \in Nat \ {0} /\ N' <= MaxIndex
  BY EmptySeq DEF N, HC!N
<1>3. /\ stack' \in Seq(Frames) /\ Len(stack') = 1 /\ stack'[1].pos = 0 /\ stack'[1].part = 0
      /\ stack'[1].at = "run"
  BY DEF HC!Frame, Frames
<1>4. Calls(stack)' /\ TopOK'
  BY <1>2, <1>3 DEF Calls, FrameOK, TopOK
<1>5. Complete'
  <2>1. stack' # <<>> /\ stack'[1].pos = 0 /\ stack'[1].at # "back"
    BY <1>3
  <2>4. PICK n \in Nat \ {0} : n = N'
    BY <1>2
  <2>5. 0 \in 0..(2 * n) /\ ~(0 >= n)
    OBVIOUS
  <2>2. index' \in 0..(2 * N') /\ ~(index' >= N')
    BY ONLY <1>1, <2>4, <2>5, Zenon
  <2>3. QED
    BY ONLY <2>1, <2>2 DEF Complete
<1>6. Progress'
  <2>1. MaxIndex \in Nat
    BY ModerationAssumption
  <2>2. Len(started') = 1 /\ \A k \in 1..1 : started'[k] = k - 1
    OBVIOUS
  <2>3. QED
    BY <1>1, <1>2, <1>4, <1>5, <2>1, <2>2 DEF Progress
<1>7. QED
  BY <1>1, <1>6 DEF ChainInv

\* processUpdate begins any chain.
LEMMA DispatchKeeps ==
    ASSUME ChainInv, HC!Dispatch
    PROVE  ChainInv'
<1>1. PICK k \in 0..(MaxHandlers - 1) : \E c \in [1..k -> 0..MaxPipe] : chain' = <<0>> \o c
  BY DEF HC!Dispatch, HC!Chains
<1>2. PICK c \in [1..k -> 0..MaxPipe] : chain' = <<0>> \o c
  BY <1>1
<1>3. k \in Nat /\ k + 1 <= MaxHandlers
  BY ModerationAssumption
<1>4. c \in Seq(Nat) /\ Len(c) = k
  BY <1>3, ModerationAssumption
<1>5. <<0>> \in Seq(Nat) /\ Len(<<0>>) = 1 /\ <<0>>[1] = 0
  OBVIOUS
<1>6. chain' \in Seq(Nat) /\ Len(chain') = k + 1 /\ chain'[1] = 0
  BY <1>2, <1>3, <1>4, <1>5, ConcatProperties
<1>7. chain' # <<>> /\ Len(chain') <= MaxIndex
  BY <1>3, <1>6, ModerationAssumption
<1>8. started' \in Seq(Int) /\ Len(started') = 1 /\ started'[1] = 0
  BY DEF HC!Dispatch
<1>9. QED
  BY <1>6, <1>7, <1>8, FreshKeeps DEF HC!Dispatch

-----------------------------------------------------------------------------
(***************************************************************************)
(* The steps of every part, and what follows for the chain.                *)
(***************************************************************************)
\* Nothing has run when the bot starts.
LEMMA ChainInit == ModerationInit => ChainInv /\ PipedOK
<1> SUFFICES ASSUME ModerationInit PROVE ChainInv /\ PipedOK
  OBVIOUS
<1>1. /\ chain = <<>> /\ index = -1 /\ stack = <<>> /\ started = <<>> /\ piped = {} /\ aborted = FALSE
      /\ panics = 0
  BY DEF ModerationInit, HC!InitChain
<1>2. IsFiniteSet(piped)
  BY <1>1, FS_EmptySet
<1>3. <<>> \in Seq(Nat) /\ <<>> \in Seq(Int) /\ 0 \in Nat /\ FALSE \in BOOLEAN
  OBVIOUS
<1>4. ChainInv
  BY <1>1, <1>3, Zenon DEF ChainInv
<1>5. QED
  BY <1>2, <1>4 DEF PipedOK

\* A step that does not touch the chain.
LEMMA ChainStutters ==
    ASSUME ChainInv, UNCHANGED ChainVars
    PROVE  ChainInv'
<1>1. /\ chain' = chain /\ index' = index /\ stack' = stack /\ started' = started
      /\ aborted' = aborted /\ panics' = panics
  BY DEF ChainVars
<1>2. Calls(stack)' <=> Calls(stack)
  BY <1>1 DEF Calls, FrameOK, N, HC!N
<1>3. Progress' <=> Progress
  BY <1>1, <1>2 DEF Progress, N, HC!N, Frozen, TopOK, Complete
<1>4. QED
  BY <1>1, <1>3 DEF ChainInv

\* The guards call Next and Abort, panic and return like any handler.
LEMMA GuardsCall ==
    /\ GC!CallNext => HC!CallNext
    /\ GC!Return => HC!Return
    /\ GC!Abort => HC!Abort
    /\ GC!Skip => HC!Skip
    /\ GC!Panic => HC!Panic
    /\ GC!User => HC!User
    /\ GC!User => stack # <<>> /\ stack[Len(stack)].at = "run" /\ GC!Top = stack[Len(stack)]
    /\ GC!Top = HC!Top
<1> USE DEF GC!User, HC!User, GC!Running, HC!Running, GC!AtTop, HC!AtTop, GC!IsPipe, HC!IsPipe,
            GC!Top, HC!Top, GC!Marked, HC!Marked, GC!Below, HC!Below, GC!Recovery, HC!Recovery
<1>1. GC!CallNext => HC!CallNext
  BY Zenon DEF GC!CallNext, HC!CallNext, GC!Loop, HC!Loop, GC!Wrapped, HC!Wrapped, GC!N, HC!N, GC!Frame, HC!Frame
<1>2. GC!Return => HC!Return
  BY Zenon DEF GC!Return, HC!Return, GC!Loop, HC!Loop, GC!Wrapped, HC!Wrapped, GC!N, HC!N, GC!Frame, HC!Frame
<1>3. (GC!Abort => HC!Abort) /\ (GC!Skip => HC!Skip) /\ (GC!Panic => HC!Panic)
  BY Zenon DEF GC!Abort, HC!Abort, GC!Skip, HC!Skip, GC!Panic, HC!Panic, GC!N, HC!N
<1>4. (GC!User => HC!User) /\ GC!Top = HC!Top
  BY Zenon
<1>5. GC!User => stack # <<>> /\ stack[Len(stack)].at = "run" /\ GC!Top = stack[Len(stack)]
  BY Zenon
<1>6. QED
  BY ONLY <1>1, <1>2, <1>3, <1>4, <1>5, Zenon

\* The bot is built with one guard or two.
LEMMA GuardsKnown ==
    ASSUME NEW g \in GuardChains
    PROVE  /\ g \in Seq(GuardNames) /\ Len(g) \in 1..2
           /\ \A k \in 1..Len(g) : g[k] \in GuardNames
<1>1. CASE \E n \in GuardNames : g = <<n>>
  BY <1>1
<1>2. CASE \E n, m \in GuardNames : g = <<n, m>>
  BY <1>2
<1>3. {"LinkLockGuard", "ChatGuard", "AntiForward", "AntiMedia"} \subseteq GuardNames
  BY DEF GuardNames
<1>4. QED
  BY <1>1, <1>2, <1>3 DEF GuardChains

\* The chain of an update: Recovery, the guards and the handler.
LEMMA ReceiveKeeps ==
    ASSUME ChainInv, guards \in GuardChains, GC!Receive
    PROVE  /\ ChainInv'
           /\ Len(chain') = Len(guards) + 2 /\ chain' # <<>>
           /\ \A k \in 1..Len(chain') : chain'[k] = 0
<1>1. PICK n \in 1..2 : n = Len(guards)
  BY GuardsKnown
<1>2. chain' = [k \in 1..(n + 2) |-> 0] /\ n + 2 \in Nat /\ n + 2 <= MaxIndex
  <2>1. n + 2 \in Nat /\ n + 2 <= 4
    OBVIOUS
  <2>2. MaxIndex \in Nat /\ 4 <= MaxIndex
    BY ModerationAssumption
  <2>3. n + 2 <= MaxIndex
    BY ONLY <2>1, <2>2
  <2>4. chain' = [k \in 1..(Len(guards) + 2) |-> 0]
    BY DEF GC!Receive
  <2>5. QED
    BY <1>1, <2>1, <2>3, <2>4
<1>3. chain' \in Seq(Nat) /\ Len(chain') = n + 2
  BY <1>2
<1>4. \A k \in 1..(n + 2) : chain'[k] = 0
  BY <1>2
<1>5. chain' # <<>> /\ chain'[1] = 0 /\ Len(chain') <= MaxIndex
  BY <1>1, <1>2, <1>3, <1>4
<1>6. /\ chain = <<>> /\ index' = 0 /\ stack' = <<HC!Frame(0)>> /\ UNCHANGED <<aborted, panics>>
      /\ started' \in Seq(Int) /\ Len(started') = 1 /\ started'[1] = 0
  BY DEF GC!Receive, GC!Frame, HC!Frame
<1>7. ChainInv'
  BY <1>3, <1>5, <1>6, FreshKeeps
<1>8. QED
  BY <1>1, <1>3, <1>4, <1>5, <1>7

\* The guards are one of the chains that the bot may be built with.
GuardsKnownInv == part = "guards" => guards \in GuardChains \cup {<<>>}

\* Before the bot is built it has no guards.
LEMMA GuardsInit == ModerationInit => GuardsKnownInv
BY DEF ModerationInit, GC!InitGuards, GuardsKnownInv

\* The guards are registered once.
LEMMA GuardsStay ==
    ASSUME GuardsKnownInv, [ModerationNext]_moderationVars
    PROVE  GuardsKnownInv'
<1>1. CASE UNCHANGED moderationVars
  BY <1>1 DEF moderationVars, GuardVars, GuardsKnownInv
<1>2. CASE part = "guards" /\ GC!GuardNext /\ part' = part
  <2>1. guards' = guards \/ guards' \in GuardChains
    BY <1>2 DEF GC!GuardNext, GC!Register, GC!Receive, GC!ChangeFlag, GC!GuardRuns, GC!HandlerRuns,
                GC!ChainGoesOn, GC!guardVars
  <2>2. QED
    BY <1>2, <2>1 DEF GuardsKnownInv
<1>3. CASE part # "guards" /\ part' = part
  BY <1>3 DEF GuardsKnownInv
<1>4. QED
  BY <1>1, <1>2, <1>3 DEF ModerationNext, ChainMoves, GuardsMove, SettingsMove, WordsMove, DialogueMoves,
       LimitsMove, RoutingMoves, LockMoves, LimiterMoves

\* Every step of every part keeps to the invariant of the chain.
LEMMA ChainStep ==
    ASSUME ChainInv, PipedOK, GuardsKnownInv, [ModerationNext]_moderationVars
    PROVE  ChainInv' /\ PipedOK'
<1>1. CASE UNCHANGED ChainVars
  <2>1. ChainInv'
    BY <1>1, ChainStutters
  <2>2. QED
    BY <1>1, <2>1 DEF ChainVars, PipedOK
<1>2. CASE part = "chain" /\ HC!ChainNext
  <2>1. CASE HC!PipeCalls
    BY <2>1, PipeCallsKeeps
  <2>2. CASE HC!Dispatch
    BY <2>2, DispatchKeeps DEF HC!Dispatch, PipedOK
  <2>3. CASE HC!Return
    BY <2>3, ReturnKeeps DEF HC!Return, PipedOK
  <2>4. CASE HC!PipeChecks
    BY <2>4, PipeChecksKeeps DEF HC!PipeChecks, PipedOK
  <2>5. CASE HC!CallNext
    BY <2>5, CallNextKeeps DEF HC!CallNext, PipedOK
  <2>6. CASE HC!Abort \/ HC!Skip
    BY <2>6, UserKeeps DEF HC!Abort, HC!Skip, PipedOK
  <2>7. CASE HC!Panic
    BY <2>7, PanicKeeps DEF HC!Panic, PipedOK
  <2>8. QED
    BY <1>2, <2>1, <2>2, <2>3, <2>4, <2>5, <2>6, <2>7 DEF HC!ChainNext, HC!Unattended
<1>3. CASE part = "guards" /\ GC!GuardNext
  <2>1. CASE GC!Receive
    <3>1. guards \in GuardChains
      BY <1>3, <2>1 DEF GuardsKnownInv, GC!Receive
    <3>2. QED
      BY <2>1, <3>1, ReceiveKeeps DEF GC!Receive, PipedOK
  <2>2. CASE HC!CallNext
    BY <2>2, CallNextKeeps DEF HC!CallNext, PipedOK
  <2>3. CASE HC!Abort \/ HC!Skip
    BY <2>3, UserKeeps DEF HC!Abort, HC!Skip, PipedOK
  <2>4. CASE HC!Panic
    BY <2>4, PanicKeeps DEF HC!Panic, PipedOK
  <2>5. CASE HC!Return
    BY <2>5, ReturnKeeps DEF HC!Return, PipedOK
  <2>6. CASE GC!Register \/ GC!ChangeFlag
    BY <1>1, <2>6 DEF GC!Register, GC!ChangeFlag, GC!chainVars, ChainVars
  <2>7. QED
    BY <1>3, <2>1, <2>2, <2>3, <2>4, <2>5, <2>6, GuardsCall
       DEF GC!GuardNext, GC!GuardRuns, GC!HandlerRuns, GC!ChainGoesOn
<1>4. QED
  BY <1>1, <1>2, <1>3 DEF ModerationNext, ChainMoves, GuardsMove, SettingsMove, WordsMove, DialogueMoves,
       LimitsMove, RoutingMoves, LockMoves, LimiterMoves, moderationVars

\* What the chain of an update keeps to.
LEMMA ChainSafe == ModerationSpec => [](ChainInv /\ PipedOK /\ GuardsKnownInv)
<1>1. ModerationInit => ChainInv /\ PipedOK /\ GuardsKnownInv
  BY ChainInit, GuardsInit
<1>2. ChainInv /\ PipedOK /\ GuardsKnownInv /\ [ModerationNext]_moderationVars
      => (ChainInv /\ PipedOK /\ GuardsKnownInv)'
  BY ChainStep, GuardsStay
<1>3. QED
  BY <1>1, <1>2, PTL DEF ModerationSpec

\* No handler of a chain runs twice, and none before an earlier one, whatever the handlers
\* call, abort or panic, in chains of any length that the index can count, also when it
\* overflows: the one that begins is always the next.
THEOREM HandlersInOrder == ModerationSpec => []OnceInOrder
<1>1. ChainInv => OnceInOrder
  <2> SUFFICES ASSUME ChainInv, NEW k \in DOMAIN started, NEW l \in DOMAIN started, k < l
               PROVE  started[k] < started[l]
    BY DEF OnceInOrder, HC!OnceInOrder
  <2>1. started \in Seq(Int) /\ k \in 1..Len(started) /\ l \in 1..Len(started)
    BY DEF ChainInv
  <2>2. chain # <<>>
    BY <2>1 DEF ChainInv
  <2>3. started[k] = k - 1 /\ started[l] = l - 1
    BY <2>1, <2>2 DEF ChainInv, Progress
  <2>4. QED
    BY <2>1, <2>3
<1>2. QED
  BY <1>1, ChainSafe, PTL

\* A chain of which nobody aborts has run to its end when it is over, as long as at most one
\* handler panics and the chain is not longer than half of what the index counts.
THEOREM ChainRunsToItsEnd == ModerationSpec => []AllRunUnlessAborted
<1>1. ChainInv => AllRunUnlessAborted
  <2> SUFFICES ASSUME ChainInv, 2 * HC!N <= MaxIndex
               PROVE  index >= -1 /\ (HC!Over /\ ~aborted /\ panics <= 1 => Len(started) = HC!N)
    BY DEF AllRunUnlessAborted, HC!AllRunUnlessAborted
  <2>1. CASE chain = <<>>
    BY <2>1 DEF ChainInv, HC!Over
  <2>2. CASE chain # <<>>
    <3>1. Progress /\ Complete
      BY <2>2 DEF ChainInv, Progress, N
    <3>2. index \in Nat
      BY <3>1 DEF Complete
    <3>3. Len(started) <= N /\ (~aborted => Len(started) = IF index < N THEN index + 1 ELSE N)
      BY <3>1, <3>2 DEF Progress
    <3>4. stack = <<>> /\ panics <= 1 => index >= N
      BY <3>1 DEF Complete
    <3>5. N \in Nat
      BY DEF N, HC!N, ChainInv
    <3>6. stack = <<>> /\ ~aborted /\ panics <= 1 => Len(started) = N
      BY <3>2, <3>3, <3>4, <3>5
    <3>7. index >= -1
      BY <3>2
    <3>8. QED
      BY <3>6, <3>7 DEF HC!Over, N
  <2>3. QED
    BY <2>1, <2>2
<1>2. QED
  BY <1>1, ChainSafe, PTL

\* A handler begins only inside the chain, behind which Abort has put the index.
LEMMA LoopsBeginNone ==
    ASSUME ChainInv, ChainInv', aborted, HC!CallNext \/ HC!Return \/ HC!PipeChecks
    PROVE  started' = started
<1>1. chain # <<>>
  BY DEF ChainInv
<1>2. ASSUME NEW c, NEW i, HC!Loop(c, i), aborted' = aborted
      PROVE  started' = started
  <2>1. chain' # <<>> /\ Progress' /\ N' = N
    BY <1>1, <1>2 DEF HC!Loop, ChainInv, N, HC!N
  <2>2. index' = i /\ (i >= N \/ i < 0)
    BY <1>2, <2>1 DEF HC!Loop, Progress
  <2>3. N \in Nat
    BY DEF N, HC!N, ChainInv
  <2>4. i \notin 0..(N - 1)
    BY <2>2, <2>3
  <2>5. QED
    BY <1>2, <2>4 DEF HC!Loop, N
<1>3. CASE HC!CallNext
  BY <1>2, <1>3 DEF HC!CallNext
<1>4. CASE HC!Return
  BY <1>2, <1>4 DEF HC!Return
<1>5. CASE HC!PipeChecks
  BY <1>2, <1>5 DEF HC!PipeChecks
<1>6. QED
  BY <1>3, <1>4, <1>5

\* No step begins a handler after an Abort.
LEMMA NoneBegins ==
    ASSUME ChainInv, ChainInv', GuardsKnownInv, [ModerationNext]_moderationVars, aborted
    PROVE  started' = started
<1>1. chain # <<>>
  BY DEF ChainInv
<1>2. CASE UNCHANGED ChainVars
  BY <1>2 DEF ChainVars
<1>3. CASE HC!CallNext \/ HC!Return \/ HC!PipeChecks
  BY <1>3, LoopsBeginNone
<1>4. CASE HC!PipeCalls \/ HC!Abort \/ HC!Skip \/ HC!Panic
  BY <1>4 DEF HC!PipeCalls, HC!Abort, HC!Skip, HC!Panic
<1>5. ~HC!Dispatch /\ ~GC!Receive
  BY <1>1 DEF HC!Dispatch, GC!Receive
<1>6. GC!Register \/ GC!ChangeFlag => UNCHANGED ChainVars
  BY DEF GC!Register, GC!ChangeFlag, GC!chainVars, ChainVars
<1>7. GC!GuardRuns => HC!CallNext \/ HC!Abort \/ HC!Panic
  BY GuardsCall DEF GC!GuardRuns
<1>8. GC!HandlerRuns \/ GC!ChainGoesOn => HC!Skip \/ HC!CallNext \/ HC!Return
  BY GuardsCall DEF GC!HandlerRuns, GC!ChainGoesOn
<1>9. QED
  BY <1>2, <1>3, <1>4, <1>5, <1>6, <1>7, <1>8
     DEF ModerationNext, ChainMoves, GuardsMove, SettingsMove, WordsMove, DialogueMoves,
         LimitsMove, RoutingMoves, LockMoves, LimiterMoves, moderationVars,
         HC!ChainNext, HC!Unattended, GC!GuardNext

\* After an Abort no handler of the chain begins, although the loops that called Next go on
\* advancing the index.
THEOREM AbortIsFinal == ModerationSpec => AbortStops
<1>1. ChainInv /\ PipedOK /\ GuardsKnownInv /\ (ChainInv /\ PipedOK /\ GuardsKnownInv)'
      /\ [ModerationNext]_moderationVars => [aborted => started' = started]_HC!chainVars
  BY NoneBegins
<1>2. QED
  BY <1>1, ChainSafe, PTL DEF ModerationSpec, AbortStops, HC!AbortStops

-----------------------------------------------------------------------------
(***************************************************************************)
(* The guards.                                                             *)
(***************************************************************************)
\* What is so about the guards, whatever the update.
ChainOfGuards ==
    /\ guards \in GuardChains
    /\ Len(chain) = Len(guards) + 2
    /\ flags \subseteq touched
    /\ update \in Updates
    /\ aborted => Len(started) < N

\* A member has sent a message into a group.
FromMember == update.kind = "message" /\ update.chat = "supergroup" /\ update.author = "member"

\* The guard at position k has let the update pass.
LetPass(k) ==
    /\ ~aborted /\ k + 1 <= Len(started)
    /\ ~(stack # <<>> /\ stack[Len(stack)].at = "run" /\ stack[Len(stack)].pos = k)

\* What has passed a guard is nothing that the guard keeps out by a lock held since.
PassedFree ==
    FromMember => \A k \in 1..Len(guards) : LetPass(k) => ~GC!KeepsOut(guards[k], update.has, held)

\* The inductive invariant of the guards.
GuardInv ==
    /\ held \subseteq flags
    /\ part # "guards" => update.kind = "query" /\ deleted = <<>>
    /\ part = "guards" /\ chain # <<>> => ChainOfGuards /\ PassedFree


\* A member's message in a group comes from the member.
LEMMA MemberSends ==
    ASSUME FromMember, update \in Updates
    PROVE  /\ update.sender = "member"
           /\ update.has \in {"text", "link", "word", "caps", "long", "mention", "latin", "photo", "forward",
                              "reply", "join", "selfjoin", "spamjoin"}
<1>1. CASE \E s \in {"owner", "admin", "member"},
              h \in {"text", "link", "word", "caps", "long", "mention", "latin", "photo", "forward", "reply",
                     "join", "selfjoin", "spamjoin"} : update = From(s, s, "supergroup", h, "message")
  BY <1>1 DEF From, FromMember
<1>2. CASE \E h \in {"text", "photo", "forward"} : update = From("none", "none", "channel", h, "message")
  BY <1>2 DEF From, FromMember
<1>3. CASE update = From("member", "member", "private", "photo", "message")
  BY <1>3 DEF From, FromMember
<1>4. CASE \E s \in {"admin", "member"}, h \in {"link", "photo"} :
              update = From("bot", s, "supergroup", h, "callback")
  BY <1>4 DEF From, FromMember
<1>5. CASE update = From("none", "member", "private", "text", "query")
  BY <1>5 DEF From, FromMember
<1>6. QED
  BY <1>1, <1>2, <1>3, <1>4, <1>5 DEF Updates

\* The fewer keys have held, the less a guard keeps out.
LEMMA KeepsOutLess ==
    ASSUME held' \subseteq held, touched \subseteq touched', NEW g, NEW has
    PROVE  GC!KeepsOut(g, has, held)' => GC!KeepsOut(g, has, held)
BY DEF GC!KeepsOut

\* A guard that lets a member's message pass has no lock to keep it out by.
LEMMA NextLetsPass ==
    ASSUME FromMember, update \in Updates, held \subseteq flags, flags \subseteq touched,
           NEW g, NEW answer \in GC!AdminAnswers(update), GC!Judged(g, update, answer) # "stop"
    PROVE  ~GC!KeepsOut(g, update.has, held)
<1>1. /\ update.kind = "message" /\ update.chat = "supergroup" /\ update.author = "member"
      /\ update.sender = "member"
      /\ update.has \in {"text", "link", "word", "caps", "long", "mention", "latin", "photo", "forward",
                              "reply", "join", "selfjoin", "spamjoin"}
  BY MemberSends DEF FromMember
<1>2. answer # "yes"
  BY <1>1 DEF GC!AdminAnswers
<1>3. ~GC!Passes(update, answer) /\ GC!IsGroup(update) /\ GC!HasMessage(update) /\ ~GC!NoAuthor(update)
      /\ ~GC!IsPrivate(update) /\ (update.has = "photo" => GC!IsMedia(update) /\ ~GC!Joins(update))
  BY <1>1, <1>2 DEF GC!Passes, GC!IsOwner, GC!IsGroup, GC!HasMessage, GC!NoAuthor, GC!IsPrivate, GC!IsMedia,
                    GC!Joins
<1>4. \A keys : update.has = "photo" /\ held \cap keys # {} => GC!Blocked(update, keys)
  BY <1>3 DEF GC!Blocked
<1>5. update.has = "photo" => GC!LockOf(update.has) = "g_lock_photo" /\ GC!BlockOf(update.has) = "blocked_photo"
  BY DEF GC!LockOf, GC!BlockOf
<1> USE DEF GC!Judged, GC!KeepsOut, GC!Verdict
<1>6. CASE g = "ReplyGuard"
  BY <1>3, <1>6 DEF GC!ReplyGuard
<1>7. CASE g = "UsernameGuard"
  BY <1>3, <1>7 DEF GC!UsernameGuard
<1>8. CASE g = "EnglishGuard"
  BY <1>3, <1>8 DEF GC!EnglishGuard
<1>9. CASE g = "ChatGuard"
  BY <1>3, <1>4, <1>5, <1>9 DEF GC!ChatGuard
<1>10. CASE g = "UserMediaGuard"
  BY <1>3, <1>4, <1>5, <1>10 DEF GC!UserMediaGuard
<1>11. CASE g = "GroupGuard"
  BY <1>1, <1>3, <1>4, <1>5, <1>11 DEF GC!GroupGuard
<1>12. CASE g = "InternalRestrictGuard"
  BY <1>3, <1>12 DEF GC!InternalRestrictGuard
<1>13. QED
  BY <1>6, <1>7, <1>8, <1>9, <1>10, <1>11, <1>12

\* What CallNext and Return begin is the innermost call.
LEMMA BegunOnTop ==
    ASSUME ChainInv, ChainInv', chain # <<>>, HC!CallNext \/ HC!Return
    PROVE  /\ chain' = chain /\ aborted' = aborted
           /\ \/ started' = started
              \/ /\ Len(started') = Len(started) + 1 /\ stack' # <<>>
                 /\ stack'[Len(stack')].at = "run" /\ stack'[Len(stack')].pos = Len(started)
<1>1. ASSUME NEW c, NEW i, c \in Seq(Frames), HC!Loop(c, i), aborted' = aborted
      PROVE  /\ chain' = chain /\ aborted' = aborted
             /\ \/ started' = started
                \/ /\ Len(started') = Len(started) + 1 /\ stack' # <<>>
                   /\ stack'[Len(stack')].at = "run" /\ stack'[Len(stack')].pos = Len(started)
  <2>1. CASE i \in 0..(N - 1) /\ stack' = Append(c, HC!Frame(i)) /\ started' = Append(started, i)
    <3>1. N \in Nat /\ started \in Seq(Int) /\ i \in Int
      BY <2>1 DEF N, HC!N, ChainInv
    <3>2. Len(started') = Len(started) + 1 /\ started'[Len(started) + 1] = i
      BY <2>1, <3>1
    <3>3. chain' # <<>> /\ started' \in Seq(Int)
      BY <1>1 DEF HC!Loop, ChainInv
    <3>4. PICK n \in Nat : n = Len(started)
      BY <3>1
    <3>9. \A k \in 1..Len(started') : started'[k] = k - 1
      BY <3>3 DEF ChainInv, Progress
    <3>10. n + 1 \in 1..Len(started') /\ n + 1 - 1 = n
      BY <3>2, <3>4
    <3>11. started'[n + 1] = (n + 1) - 1
      BY <3>9, <3>10
    <3>12. started'[n + 1] = n
      BY <3>10, <3>11
    <3>5. i = Len(started)
      BY <3>2, <3>4, <3>12
    <3>6. HC!Frame(i).pos = i /\ HC!Frame(i).at = "run" /\ HC!Frame(i) \in Frames
      BY <3>1, <2>1 DEF HC!Frame, Frames
    <3>7. stack' # <<>> /\ stack'[Len(stack')] = HC!Frame(i)
      BY <1>1, <2>1, <3>6, AppendProperties
    <3>8. QED
      BY <1>1, <3>2, <3>5, <3>6, <3>7 DEF HC!Loop
  <2>2. QED
    BY <1>1, <2>1 DEF HC!Loop, N
<1>2. stack \in Seq(Frames)
  BY DEF ChainInv, Progress, Calls
<1>3. CASE HC!CallNext
  <2>1. stack # <<>>
    BY <1>3 DEF HC!CallNext, HC!Running, HC!AtTop
  <2>2. PICK n \in Nat \ {0} : Len(stack) = n
    BY <1>2, <2>1, EmptySeq
  <2>4. PICK m : m = MarkedAt(stack, "back")
    OBVIOUS
  <2>5. m \in Seq(Frames)
    BY <1>2, <2>2, <2>4, MarkedCalls
  <2>6. HC!Marked("back") = m
    BY <2>4 DEF HC!Marked, MarkedAt
  <2>3. QED
    BY <1>1, <1>3, <2>5, <2>6 DEF HC!CallNext
<1>4. CASE HC!Return
  <2>1. stack # <<>>
    BY <1>4 DEF HC!Return, HC!AtTop
  <2>2. HC!Below \in Seq(Frames)
    BY <1>2, <2>1, FrontSeq DEF HC!Below
  <2>3. QED
    BY <1>1, <1>4, <2>2 DEF HC!Return
<1>5. QED
  BY <1>3, <1>4

\* The guards keep to it.
LEMMA GuardInit == ModerationInit => GuardInv
<1> SUFFICES ASSUME ModerationInit PROVE GuardInv
  OBVIOUS
<1>1. held = {} /\ chain = <<>> /\ update.kind = "query" /\ deleted = <<>>
  BY DEF ModerationInit, GC!InitGuards, HC!InitChain
<1>2. QED
  BY <1>1 DEF GuardInv

\* Where a guard runs, or the handler.
LEMMA WhoRuns ==
    ASSUME ChainInv, GuardInv, part = "guards", GC!User, NEW p, p = GC!Top.pos
    PROVE  /\ chain # <<>> /\ ChainOfGuards /\ PassedFree
           /\ stack[Len(stack)].pos = p
           /\ p \in 1..(N - 1) /\ N = Len(guards) + 2 /\ index = p
           /\ ~aborted /\ Len(started) = p + 1
<1>1. stack # <<>> /\ stack[Len(stack)].at = "run" /\ GC!Top = stack[Len(stack)] /\ HC!User /\ HC!Top = GC!Top
  BY GuardsCall
<1>2. PICK n \in Nat : Len(stack) = n + 1
  BY <1>1, DepthOfOne
<1>3. HC!AtTop("run") /\ p > 0
  BY <1>1 DEF HC!User, HC!Running
<1>4. index = p /\ p \in 0..(N - 1)
  BY <1>1, <1>2, <1>3, RunsAtIndex
<1>5. chain # <<>> /\ Progress /\ N \in Nat \ {0}
  BY <1>2, Innermost
<1>6. N = Len(guards) + 2 /\ ChainOfGuards /\ PassedFree
  BY <1>5 DEF GuardInv, ChainOfGuards, N, HC!N
<1>7. ~aborted /\ Len(started) = p + 1
  BY <1>4, <1>5 DEF Progress
<1>8. QED
  BY <1>1, <1>3, <1>4, <1>5, <1>6, <1>7

\* A step of the chain that leaves the guards and the keys alone, and neither aborts
\* nor lets a further guard pass.
LEMMA FreeKeeps ==
    ASSUME ChainInv, chain # <<>>, guards \in GuardChains, PassedFree,
           UNCHANGED <<update, guards>>, held' \subseteq held, touched \subseteq touched',
           \A k \in 1..Len(guards) : LetPass(k)' => LetPass(k)
    PROVE  PassedFree'
<1> SUFFICES ASSUME FromMember', NEW k \in 1..Len(guards), LetPass(k)'
             PROVE  ~GC!KeepsOut(guards[k], update.has, held)'
  BY DEF PassedFree
<1>1. ~GC!KeepsOut(guards[k], update.has, held)
  BY DEF PassedFree, FromMember
<1>2. QED
  <2>1. PICK g : g = guards[k]
    OBVIOUS
  <2>2. PICK h : h = update.has
    OBVIOUS
  <2>3. ~GC!KeepsOut(g, h, held)'
    BY <1>1, <2>1, <2>2, KeepsOutLess
  <2>4. QED
    BY <2>1, <2>2, <2>3

\* A guard runs.
LEMMA GuardRunsKeeps ==
    ASSUME ChainInv, ChainInv', GuardInv, part = "guards", part' = part, GC!GuardRuns
    PROVE  GuardInv'
<1>1. PICK p : p = GC!Top.pos
  OBVIOUS
<1>2. /\ chain # <<>> /\ ChainOfGuards /\ PassedFree /\ stack[Len(stack)].pos = p
      /\ p \in 1..(N - 1) /\ N = Len(guards) + 2 /\ index = p /\ ~aborted /\ Len(started) = p + 1
  BY <1>1, WhoRuns DEF GC!GuardRuns
<1>3. p <= Len(guards) /\ UNCHANGED <<update, guards, touched>>
  BY <1>1 DEF GC!GuardRuns
<1>4. flags' \subseteq flags /\ held' = held \cap flags'
  BY DEF GC!GuardRuns
<1>5. guards \in GuardChains /\ Len(guards) \in 1..2 /\ p \in 1..Len(guards)
  BY <1>2, <1>3, GuardsKnown DEF ChainOfGuards
<1>6. PICK answer \in GC!AdminAnswers(update) :
        \/ GC!Judged(guards[p], update, answer) = "next" /\ GC!CallNext
        \/ GC!Judged(guards[p], update, answer) = "stop" /\ GC!Abort
        \/ GC!Judged(guards[p], update, answer) = "panic" /\ GC!Panic
  BY <1>1 DEF GC!GuardRuns
<1>7. /\ held \subseteq flags /\ flags \subseteq touched /\ update \in Updates
  BY <1>2 DEF GuardInv, ChainOfGuards
<1>8. FromMember /\ GC!Judged(guards[p], update, answer) # "stop"
      => ~GC!KeepsOut(guards[p], update.has, held)
  BY <1>7, NextLetsPass
<1>9. held' \subseteq held /\ held' \subseteq flags' /\ flags' \subseteq touched'
  BY <1>3, <1>4, <1>7
<1>10. CASE HC!Abort
  <2>1. chain' = chain /\ aborted' /\ started' = started
    BY <1>10 DEF HC!Abort
  <2>2. PassedFree'
    BY <2>1 DEF PassedFree, LetPass
  <2>3. N' = N /\ Len(started') < N
    BY <1>2, <1>5, <2>1 DEF N, HC!N
  <2>4. ChainOfGuards'
    BY <1>2, <1>3, <1>9, <2>1, <2>3 DEF ChainOfGuards
  <2>5. QED
    BY <1>9, <2>2, <2>4 DEF GuardInv
<1>11. ASSUME GC!Judged(guards[p], update, answer) # "stop", chain' = chain, aborted' = aborted,
              \/ started' = started
              \/ /\ Len(started') = Len(started) + 1 /\ stack' # <<>>
                 /\ stack'[Len(stack')].at = "run" /\ stack'[Len(stack')].pos = Len(started)
       PROVE  GuardInv'
  <2>1. N' = N /\ ChainOfGuards'
    BY <1>2, <1>3, <1>9, <1>11 DEF ChainOfGuards, N, HC!N
  <2>2. ASSUME FromMember', NEW k \in 1..Len(guards), LetPass(k)'
        PROVE  ~GC!KeepsOut(guards[k], update.has, held)'
    <3>1. k + 1 <= Len(started)
      BY <1>2, <1>5, <1>11, <2>2 DEF LetPass
    <3>2. FromMember
      BY <1>3, <2>2 DEF FromMember
    <3>3. ~GC!KeepsOut(guards[k], update.has, held)
      <4>1. CASE k = p
        BY <1>8, <1>11, <3>2, <4>1
      <4>2. CASE k # p
        BY <1>2, <3>1, <3>2, <4>2 DEF PassedFree, LetPass
      <4>3. QED
        BY <4>1, <4>2
    <3>4. PICK g : g = guards[k]
      OBVIOUS
    <3>5. PICK h : h = update.has
      OBVIOUS
    <3>6. ~GC!KeepsOut(g, h, held)'
      BY <1>3, <1>9, <3>3, <3>4, <3>5, KeepsOutLess
    <3>7. QED
      BY <1>3, <3>4, <3>5, <3>6
  <2>3. PassedFree'
    BY <1>3, <2>2 DEF PassedFree
  <2>4. QED
    BY <1>9, <2>1, <2>3 DEF GuardInv
<1>12. CASE HC!CallNext /\ GC!Judged(guards[p], update, answer) # "stop"
  BY <1>2, <1>11, <1>12, BegunOnTop
<1>13. CASE HC!Panic /\ GC!Judged(guards[p], update, answer) # "stop"
  BY <1>11, <1>13 DEF HC!Panic
<1>14. QED
  BY <1>6, <1>10, <1>12, <1>13, GuardsCall

\* The handler runs, Recovery calls Next, or a call returns.
LEMMA OthersRunKeep ==
    ASSUME ChainInv, ChainInv', GuardInv, part = "guards", part' = part, GC!HandlerRuns \/ GC!ChainGoesOn
    PROVE  GuardInv'
<1>1. UNCHANGED <<update, guards, flags, held, touched>>
  BY DEF GC!HandlerRuns, GC!ChainGoesOn, GC!guardVars
<1>2. chain # <<>> /\ stack # <<>> /\ ChainOfGuards /\ PassedFree
  <2>1. stack # <<>>
    BY GuardsCall DEF GC!HandlerRuns, GC!ChainGoesOn, GC!AtTop, GC!Return
  <2>2. QED
    BY <2>1 DEF ChainInv, GuardInv
<1>3. held \subseteq flags /\ guards \in GuardChains
  BY <1>2 DEF GuardInv, ChainOfGuards
<1>4. ASSUME chain' = chain, aborted' = aborted,
             \/ started' = started
             \/ /\ Len(started') = Len(started) + 1 /\ stack' # <<>>
                /\ stack'[Len(stack')].at = "run" /\ stack'[Len(stack')].pos = Len(started),
             \A k \in 1..Len(guards) :
                LetPass(k)' => ~(stack[Len(stack)].at = "run" /\ stack[Len(stack)].pos = k),
             aborted => started' = started
      PROVE  GuardInv'
  <2>1. N' = N /\ ChainOfGuards'
    BY <1>1, <1>2, <1>4 DEF ChainOfGuards, N, HC!N
  <2>2. ASSUME NEW k \in 1..Len(guards), LetPass(k)' PROVE LetPass(k)
    <3>1. k + 1 <= Len(started) /\ ~aborted
      <4>1. k \in Nat /\ Len(started) \in Nat
        BY DEF ChainInv
      <4>2. QED
        BY <1>4, <2>2, <4>1 DEF LetPass
    <3>2. QED
      BY <1>4, <2>2, <3>1 DEF LetPass
  <2>3. PassedFree'
    BY <1>1, <1>2, <1>3, <2>2, FreeKeeps
  <2>4. QED
    BY <1>1, <1>3, <2>1, <2>3 DEF GuardInv
<1>5. CASE GC!HandlerRuns
  <2>1. HC!Skip /\ GC!User /\ GC!Top.pos = Len(guards) + 1
    BY <1>5, GuardsCall DEF GC!HandlerRuns
  <2>2. stack[Len(stack)].pos = Len(guards) + 1 /\ Len(guards) \in Nat
    BY <1>3, <2>1, GuardsCall, GuardsKnown
  <2>3. QED
    BY <1>4, <2>1, <2>2 DEF HC!Skip
<1>6. CASE GC!ChainGoesOn
  <2>1. HC!CallNext \/ HC!Return
    BY <1>6, GuardsCall DEF GC!ChainGoesOn
  <2>2. stack[Len(stack)].at # "run" \/ stack[Len(stack)].pos = 0
    BY <1>6 DEF GC!ChainGoesOn, GC!Return, GC!AtTop, GC!Top
  <2>3. aborted => started' = started
    BY <2>1, LoopsBeginNone
  <2>4. QED
    BY <1>2, <1>4, <2>1, <2>2, <2>3, BegunOnTop
<1>7. QED
  BY <1>5, <1>6

\* Every step keeps what the guards rely on.
LEMMA GuardStep ==
    ASSUME ChainInv, ChainInv', GuardsKnownInv, GuardInv, [ModerationNext]_moderationVars
    PROVE  GuardInv'
<1>1. CASE /\ UNCHANGED <<ChainVars, GuardVars>>
           /\ part' = part
  <2>1. ChainOfGuards' <=> ChainOfGuards
    BY <1>1 DEF ChainOfGuards, ChainVars, GuardVars, N, HC!N
  <2>2. PassedFree' <=> PassedFree
    BY <1>1 DEF PassedFree, FromMember, LetPass, GC!KeepsOut, ChainVars, GuardVars
  <2>3. QED
    BY <1>1, <2>1, <2>2 DEF GuardInv, ChainVars, GuardVars
<1>2. CASE part # "guards" /\ part' = part /\ UNCHANGED GuardVars
  BY <1>2 DEF GuardInv, GuardVars
<1>3. CASE part = "guards" /\ part' = part /\ GC!GuardNext
  <2>1. CASE GC!Register
    <3>1. chain = <<>> /\ chain' = chain /\ UNCHANGED <<held, flags>>
      <4>1. guards \notin GuardChains
        BY <2>1, GuardsKnown DEF GC!Register
      <4>2. QED
        BY <1>3, <2>1, <4>1 DEF GC!Register, GC!chainVars, GuardInv, ChainOfGuards
    <3>2. QED
      BY <1>3, <2>1, <3>1 DEF GC!Register, GuardInv
  <2>2. CASE GC!Receive
    <3>1. guards \in GuardChains
      BY <1>3, <2>2 DEF GuardsKnownInv, GC!Receive
    <3>2. Len(chain') = Len(guards) + 2 /\ chain' # <<>>
      BY <2>2, <3>1, ReceiveKeeps
    <3>3. /\ update' \in Updates /\ started' = <<0>> /\ ~aborted' /\ guards' = guards
          /\ held' = flags' /\ touched' = flags'
      BY <2>2 DEF GC!Receive, ChainInv
    <3>4. Len(started') = 1
      BY <3>3
    <3>5. ChainOfGuards'
      BY <3>1, <3>2, <3>3 DEF ChainOfGuards
    <3>6. PassedFree'
      BY <3>4 DEF PassedFree, LetPass
    <3>7. QED
      BY <1>3, <3>3, <3>5, <3>6 DEF GuardInv
  <2>3. CASE GC!ChangeFlag
    <3>1. /\ UNCHANGED <<chain, index, stack, started, aborted, update, guards>>
          /\ held' = held \cap flags' /\ touched' = touched \cup flags'
      BY <2>3 DEF GC!ChangeFlag, GC!chainVars
    <3>2. held' \subseteq held /\ held' \subseteq flags' /\ touched \subseteq touched' /\ flags' \subseteq touched'
      BY <3>1
    <3>3. CASE chain = <<>>
      BY <1>3, <3>1, <3>2, <3>3 DEF GuardInv
    <3>4. CASE chain # <<>>
      <4>1. ChainOfGuards /\ PassedFree
        BY <1>3, <3>4 DEF GuardInv
      <4>2. ChainOfGuards'
        BY <3>1, <3>2, <4>1 DEF ChainOfGuards, N, HC!N
      <4>3. \A k \in 1..Len(guards) : LetPass(k)' => LetPass(k)
        BY <3>1 DEF LetPass
      <4>4. PassedFree'
        BY <3>1, <3>2, <3>4, <4>1, <4>3, FreeKeeps DEF ChainOfGuards
      <4>5. QED
        BY <1>3, <3>2, <4>2, <4>4 DEF GuardInv
    <3>5. QED
      BY <3>3, <3>4
  <2>4. CASE GC!GuardRuns
    BY <1>3, <2>4, GuardRunsKeeps
  <2>5. CASE GC!HandlerRuns \/ GC!ChainGoesOn
    BY <1>3, <2>5, OthersRunKeep
  <2>6. QED
    BY <1>3, <2>1, <2>2, <2>3, <2>4, <2>5 DEF GC!GuardNext
<1>4. QED
  BY <1>1, <1>2, <1>3 DEF ModerationNext, ChainMoves, GuardsMove, SettingsMove, WordsMove, DialogueMoves,
       LimitsMove, RoutingMoves, LockMoves, LimiterMoves, moderationVars


\* Once the handler has begun, every guard has let the update pass.
LEMMA HandledPassed ==
    ASSUME ChainInv, GuardInv, part = "guards", GC!Handled, NEW k \in DOMAIN guards
    PROVE  k \in 1..Len(guards) /\ LetPass(k) /\ PassedFree
<1>1. chain # <<>> /\ ChainOfGuards /\ PassedFree /\ Progress
  BY DEF GC!Handled, GuardInv, ChainInv
<1>2. PICK n \in 1..2 : n = Len(guards)
  BY <1>1, GuardsKnown DEF ChainOfGuards
<1>3. k \in 1..n
  BY <1>1, <1>2, GuardsKnown DEF ChainOfGuards
<1>4. N = n + 2
  BY <1>1, <1>2 DEF ChainOfGuards, N, HC!N
<1>5. PICK l \in DOMAIN started : started[l] = n + 1
  BY <1>2 DEF GC!Handled
<1>6. l \in 1..Len(started) /\ Len(started) \in Nat
  BY DEF ChainInv
<1>7. started[l] = l - 1 /\ Len(started) <= N
  BY <1>1, <1>6 DEF Progress
<1>8. Len(started) = n + 2
  BY <1>4, <1>5, <1>6, <1>7
<1>9. ~aborted
  BY <1>1, <1>4, <1>8 DEF ChainOfGuards
<1>10. ASSUME stack # <<>>, stack[Len(stack)].at = "run", stack[Len(stack)].pos = k
       PROVE  FALSE
  <2>1. PICK m \in Nat : Len(stack) = m + 1
    BY <1>10, DepthOfOne
  <2>2. index = stack[m + 1].pos /\ index \in 0..(N - 1)
    BY <1>10, <2>1, RunsAtIndex DEF HC!AtTop, HC!Top
  <2>3. index = k
    BY <1>10, <2>1, <2>2
  <2>4. Len(started) = k + 1
    BY <1>1, <1>3, <1>4, <1>9, <2>2, <2>3 DEF Progress
  <2>5. QED
    BY <1>3, <1>8, <2>4
<1>11. QED
  BY <1>1, <1>2, <1>3, <1>8, <1>9, <1>10 DEF LetPass

\* What a member sends into a group does not reach the handler past a guard that keeps it
\* out by a lock held ever since it arrived, while other locks are switched and whatever the
\* query for administrators answers.
THEOREM LocksAreKept == ModerationSpec => []LocksHold
<1>1. ModerationInit => GuardInv
  BY GuardInit
<1>2. ChainInv /\ GuardsKnownInv /\ ChainInv'
      /\ GuardInv /\ [ModerationNext]_moderationVars => GuardInv'
  <2> SUFFICES ASSUME ChainInv, GuardsKnownInv, ChainInv', GuardInv, [ModerationNext]_moderationVars
               PROVE  GuardInv'
    OBVIOUS
  <2>1. QED
    BY GuardStep
<1>3. ChainInv /\ GuardInv => LocksHold
  <2> SUFFICES ASSUME ChainInv, GuardInv, GC!Handled, FromMember, NEW k \in DOMAIN guards
               PROVE  ~GC!KeepsOut(guards[k], update.has, held)
    BY DEF LocksHold, GC!LocksHold, FromMember
  <2>1. part = "guards"
    BY DEF GuardInv, FromMember
  <2>2. k \in 1..Len(guards) /\ LetPass(k) /\ PassedFree
    BY <2>1, HandledPassed
  <2>3. QED
    BY <2>2 DEF PassedFree
<1>4. QED
  BY <1>1, <1>2, <1>3, ChainSafe, PTL DEF ModerationSpec

-----------------------------------------------------------------------------
\* Whose messages the guards have deleted so far.
AdminInv ==
    /\ update.sender = "admin" /\ ~unsure =>
          \A k \in DOMAIN deleted :
             \/ deleted[k] \in {"handler", "InternalRestrictGuard"}
             \/ deleted[k] = "LinkLockGuard" /\ update.has = "selfjoin"
    /\ deleted \in Seq(GuardNames \cup {"handler"})
    /\ chain = <<>> => deleted = <<>>

\* A guard that is told that the sender is an administrator does not have the message
\* deleted, but for two.
LEMMA AdminSpared ==
    ASSUME NEW g \in GuardNames, update.sender = "admin"
    PROVE  /\ GC!Judged(g, update, "yes") = "stop" => g \in GC!Lenient \cup {"InternalRestrictGuard"}
           /\ g = "LinkLockGuard" /\ GC!Kicks(update, "yes") => update.has = "selfjoin"
<1>1. GC!AuthorPasses(update, "yes") /\ GC!Passes(update, "yes")
  BY DEF GC!AuthorPasses, GC!Passes
<1>3. g = "LinkLockGuard" /\ GC!Kicks(update, "yes") => update.has = "selfjoin"
  BY <1>1 DEF GC!Kicks
<1> USE DEF GC!Judged, GC!Verdict
<1>4. CASE g \in {"AntiForward", "AntiProfanity", "AntiMedia", "AntiCharLimit", "AntiCaps", "AntiNight"}
  BY <1>1, <1>3, <1>4
     DEF GC!Strict, GC!AntiForward, GC!AntiProfanity, GC!AntiMedia, GC!AntiCharLimit, GC!AntiCaps, GC!AntiNight
<1>5. CASE g \in {"AntiLink", "AntiSelfBot", "MandatoryAddGuard", "ReplyGuard", "UsernameGuard", "EnglishGuard"}
  BY <1>1, <1>3, <1>5
     DEF GC!AntiLink, GC!AntiSelfBot, GC!MandatoryAddGuard, GC!ReplyGuard, GC!UsernameGuard, GC!EnglishGuard
<1>6. CASE g \in {"UserMediaGuard", "ChatGuard", "GroupGuard", "LinkLockGuard"}
  BY <1>1, <1>3, <1>6 DEF GC!UserMediaGuard, GC!ChatGuard, GC!GroupGuard, GC!LinkLockGuard
<1>7. CASE g \in GC!Lenient \cup {"InternalRestrictGuard"}
  BY <1>3, <1>7
<1>8. QED
  BY <1>4, <1>5, <1>6, <1>7 DEF GuardNames, GC!Lenient

\* Every step spares administrators.
LEMMA AdminStep ==
    ASSUME ChainInv, GuardInv, GuardsKnownInv, AdminInv, [ModerationNext]_moderationVars, ChainInv'
    PROVE  AdminInv'
<1>1. CASE UNCHANGED <<chain, update, unsure, deleted>>
  BY <1>1 DEF AdminInv
<1>2. CASE part = "chain" /\ HC!ChainNext /\ UNCHANGED GuardVars
  <2>1. deleted = <<>>
    BY <1>2 DEF GuardInv
  <2>2. QED
    BY <1>2, <2>1 DEF AdminInv, GuardVars
<1>3. CASE GC!Receive
  BY <1>3 DEF GC!Receive, AdminInv
<1>4. ASSUME NEW who \in GuardNames \cup {"handler"}, GC!Del(who) \/ UNCHANGED <<erased, deleted>>,
             update' = update, chain' = chain, chain # <<>>, ~unsure' => ~unsure,
             update.sender = "admin" /\ ~unsure' /\ deleted' # deleted =>
                \/ who \in {"handler", "InternalRestrictGuard"}
                \/ who = "LinkLockGuard" /\ update.has = "selfjoin"
      PROVE  AdminInv'
  <2>1. CASE deleted' = deleted
    BY <1>4, <2>1 DEF AdminInv
  <2>2. CASE deleted' = Append(deleted, who) /\ deleted' # deleted
    <3>1. deleted' \in Seq(GuardNames \cup {"handler"})
      BY <2>2 DEF AdminInv
    <3>2. ASSUME update.sender = "admin", ~unsure', NEW k \in DOMAIN deleted'
          PROVE  \/ deleted'[k] \in {"handler", "InternalRestrictGuard"}
                 \/ deleted'[k] = "LinkLockGuard" /\ update.has = "selfjoin"
      <4>1. (k \in DOMAIN deleted /\ deleted'[k] = deleted[k]) \/ deleted'[k] = who
        BY <2>2, <3>2 DEF AdminInv
      <4>2. QED
        BY <1>4, <2>2, <3>2, <4>1 DEF AdminInv
    <3>3. QED
      BY <1>4, <3>1, <3>2 DEF AdminInv
  <2>3. QED
    BY <1>4, <2>1, <2>2 DEF GC!Del
<1>5. CASE part = "guards" /\ GC!GuardRuns
  <2>1. PICK p : p = GC!Top.pos
    OBVIOUS
  <2>2. chain # <<>> /\ ChainOfGuards /\ p \in 1..(N - 1)
    BY <1>5, <2>1, WhoRuns DEF GC!GuardRuns
  <2>3. p \in 1..Len(guards)
    BY <1>5, <2>1, <2>2, GuardsKnown DEF GC!GuardRuns, ChainOfGuards
  <2>4. PICK g \in GuardNames : g = guards[p]
    BY <2>2, <2>3, GuardsKnown DEF ChainOfGuards
  <2>5. PICK answer \in GC!AdminAnswers(update) :
          /\ unsure' = (unsure \/ answer = "error")
          /\ GC!CallNext \/ GC!Abort \/ GC!Panic
          /\ IF \/ GC!Judged(g, update, answer) = "stop" /\ g \notin GC!Lenient
                \/ g = "LinkLockGuard" /\ GC!Kicks(update, answer)
             THEN GC!Del(g) ELSE UNCHANGED <<erased, deleted>>
    BY <1>5, <2>1, <2>4 DEF GC!GuardRuns
  <2>6. update' = update /\ chain' = chain
    <3>1. HC!CallNext \/ HC!Abort \/ HC!Panic
      BY <2>5, GuardsCall
    <3>2. QED
      BY <1>5, <3>1 DEF GC!GuardRuns, HC!CallNext, HC!Loop, HC!Abort, HC!Panic
  <2>7. update.sender = "admin" /\ ~unsure' => answer = "yes"
    BY <2>5 DEF GC!AdminAnswers
  <2>8. update.sender = "admin" /\ ~unsure' /\ deleted' # deleted =>
           g = "InternalRestrictGuard" \/ (g = "LinkLockGuard" /\ update.has = "selfjoin")
    BY <2>5, <2>7, AdminSpared
  <2>9. GC!Del(g) \/ UNCHANGED <<erased, deleted>>
    BY <2>5
  <2>10. QED
    BY <1>4, <2>2, <2>5, <2>6, <2>8, <2>9
<1>6. CASE part = "guards" /\ GC!HandlerRuns
  <2>1. chain # <<>> /\ GC!Skip
    BY <1>6, WhoRuns DEF GC!HandlerRuns
  <2>2. chain' = chain /\ update' = update /\ unsure' = unsure
    BY <1>6, <2>1, GuardsCall DEF HC!Skip, GC!HandlerRuns
  <2>3. GC!Del("handler") \/ UNCHANGED <<erased, deleted>>
    BY <1>6 DEF GC!HandlerRuns
  <2>4. QED
    BY <1>4, <2>1, <2>2, <2>3
<1>7. CASE GC!Register \/ GC!ChangeFlag
  BY <1>1, <1>7 DEF GC!Register, GC!ChangeFlag, GC!chainVars
<1>8. CASE GC!ChainGoesOn
  <2>1. HC!CallNext \/ HC!Return
    BY <1>8, GuardsCall DEF GC!ChainGoesOn
  <2>2. chain' = chain
    BY <2>1 DEF HC!CallNext, HC!Return, HC!Loop
  <2>3. QED
    BY <1>1, <1>8, <2>2 DEF GC!ChainGoesOn, GC!guardVars
<1>9. QED
  BY <1>1, <1>2, <1>3, <1>5, <1>6, <1>7, <1>8
     DEF ModerationNext, ChainMoves, GuardsMove, SettingsMove, WordsMove, DialogueMoves,
         LimitsMove, RoutingMoves, LockMoves, LimiterMoves, moderationVars, ChainVars, GuardVars, GC!GuardNext

\* A guard that learns that the sender is an administrator does not have the message deleted,
\* but for the two exceptions.
THEOREM AdminsAreSpared == ModerationSpec => []AdminsKeepMessages
<1>1. ModerationInit => GuardInv /\ AdminInv
  <2>1. ModerationInit => deleted = <<>>
    BY DEF ModerationInit, GC!InitGuards
  <2>2. deleted = <<>> => AdminInv
    BY DEF AdminInv
  <2>3. QED
    BY <2>1, <2>2, GuardInit
<1>2. ChainInv /\ GuardsKnownInv /\ ChainInv'
      /\ GuardInv /\ AdminInv /\ [ModerationNext]_moderationVars => GuardInv' /\ AdminInv'
  <2> SUFFICES ASSUME ChainInv, GuardsKnownInv, ChainInv', GuardInv, AdminInv,
                      [ModerationNext]_moderationVars
               PROVE  GuardInv' /\ AdminInv'
    OBVIOUS
  <2>1. QED
    BY GuardStep, AdminStep
<1>3. AdminInv => AdminsKeepMessages
  BY DEF AdminInv, AdminsKeepMessages, GC!AdminsKeepMessages
<1>4. QED
  BY <1>1, <1>2, <1>3, ChainSafe, PTL DEF ModerationSpec
=============================================================================
