------------------------- MODULE ApiClient_proofs -------------------------
(***************************************************************************)
(* Whoever moves the breaker to half-open answers for it: for any number   *)
(* of callers, thresholds and retries, a half-open breaker has a caller    *)
(* that still has to report, or has lost the report.  TypeOK and           *)
(* HalfOpenOwned are inductive together.                                   *)
(***************************************************************************)
EXTENDS ApiClient, TLAPS

IInv == TypeOK /\ HalfOpenOwned

\* The breaker begins closed.
LEMMA InitHasInv == Init => IInv
<1> SUFFICES ASSUME Init
             PROVE  IInv
  OBVIOUS
<1>1. pc \in [Callers -> Places]
  BY DEF Init, Places
<1>2. attempt \in [Callers -> 0..Attempts] /\ retries \in [Callers -> 0..Max429]
  BY RetryAssumption DEF Init
<1>3. fails \in 0..Threshold /\ since \in 0..(Cooldown + 1)
  BY BreakerAssumption DEF Init
<1>4. /\ state \in {"closed", "open", "half"} /\ halfAllow \in {0, 1}
      /\ server \in {"up", "down"} /\ owner \in Callers \cup {NoCaller} /\ lost \in BOOLEAN
  BY DEF Init
<1>5. QED
  BY <1>1, <1>2, <1>3, <1>4 DEF Init, IInv, TypeOK, HalfOpenOwned

\* The steps of CB.CanExecute.
LEMMA AskKeepsInv ==
    ASSUME IInv, NEW c \in Callers, Call(c) \/ CanExecute(c)
    PROVE  IInv'
<1>1. CASE Call(c)
  BY <1>1 DEF IInv, TypeOK, HalfOpenOwned, Places, Call, Go, breaker, rounds, history
<1>2. CASE LoadLastFail(c)
  BY <1>2 DEF IInv, TypeOK, HalfOpenOwned, Places, LoadLastFail, Go, breaker, rounds, history
<1>3. CASE Claim(c)
  BY <1>3 DEF IInv, TypeOK, HalfOpenOwned, Places, Claim, Go, rounds
<1>4. CASE Allow(c)
  BY <1>4 DEF IInv, TypeOK, HalfOpenOwned, Places, Allow, Go, rounds, history
<1>5. CASE Probe(c)
  BY <1>5 DEF IInv, TypeOK, HalfOpenOwned, Places, Probe, Go, rounds, history
<1>6. QED
  BY <1>1, <1>2, <1>3, <1>4, <1>5 DEF CanExecute

\* The steps of a request that end without a report.
LEMMA UnrecordedKeepsInv ==
    ASSUME IInv, NEW c \in Callers, NEW from \in Places, Go(c, from, "idle"), Unrecorded(c),
           UNCHANGED <<breaker, server>>
    PROVE  IInv'
<1>1. TypeOK'
  BY RetryAssumption DEF IInv, TypeOK, Places, Go, Unrecorded, Leaves, breaker
<1>2. HalfOpenOwned'
  BY DEF IInv, TypeOK, HalfOpenOwned, Go, Unrecorded, breaker
<1>3. QED
  BY <1>1, <1>2 DEF IInv

\* The steps of a request that goes on.
LEMMA RequestKeepsInv ==
    ASSUME IInv, NEW c \in Callers,
           Wait(c) \/ Resume(c) \/ Unfinished(c) \/ Reply(c)
    PROVE  IInv'
<1>0. "limit" \in Places /\ "send" \in Places /\ "pause" \in Places
  BY DEF Places
<1>1. CASE Wait(c)
  BY <1>1, RetryAssumption
     DEF IInv, TypeOK, HalfOpenOwned, Places, Wait, Go, breaker, history
<1>2. CASE Resume(c)
  BY <1>2 DEF IInv, TypeOK, HalfOpenOwned, Places, Resume, Go, breaker, rounds, history
<1>3. CASE Unfinished(c)
  <2>1. CASE Unsent(c) \/ Cancel(c)
    BY <1>0, <2>1, UnrecordedKeepsInv DEF Unsent, Cancel
  <2>2. CASE CancelUpload(c)
    BY <2>2, RetryAssumption
       DEF IInv, TypeOK, HalfOpenOwned, Places, CancelUpload, Go, Leaves, breaker, history
  <2>3. QED
    BY <1>3, <2>1, <2>2 DEF Unfinished
<1>4. CASE NetError(c)
  <2>1. CASE attempt[c] < Attempts
    BY <1>4, <2>1, RetryAssumption
       DEF IInv, TypeOK, HalfOpenOwned, Places, NetError, Go, breaker, history
  <2>2. CASE ~(attempt[c] < Attempts)
    BY <1>4, <2>2, RetryAssumption
       DEF IInv, TypeOK, HalfOpenOwned, Places, NetError, Go, Leaves, breaker, history
  <2>3. QED
    BY <2>1, <2>2
<1>5. CASE BadReply(c)
  BY <1>5, RetryAssumption
     DEF IInv, TypeOK, HalfOpenOwned, Places, BadReply, Go, Leaves, breaker, history
<1>6. CASE ReplyOK(c)
  BY <1>6, RetryAssumption
     DEF IInv, TypeOK, HalfOpenOwned, Places, ReplyOK, Go, Leaves, breaker, history
<1>7. CASE Refused(c)
  BY <1>0, <1>7, UnrecordedKeepsInv DEF Refused
<1>8. CASE Limited(c)
  <2>1. CASE retries[c] < Max429
    BY <1>8, <2>1, RetryAssumption
       DEF IInv, TypeOK, HalfOpenOwned, Places, Limited, Go, breaker, history
  <2>2. CASE retries[c] = Max429
    BY <1>0, <1>8, <2>2, RetryAssumption, UnrecordedKeepsInv DEF Limited
  <2>3. QED
    BY <1>8, <2>1, <2>2 DEF Limited
<1>9. QED
  BY <1>1, <1>2, <1>3, <1>4, <1>5, <1>6, <1>7, <1>8 DEF Reply

\* The steps of CB.RecordSuccess and CB.RecordFailure: the owner leaves them
\* only when the breaker is closed or open.
LEMMA RecordKeepsInv ==
    ASSUME IInv, NEW c \in Callers, Record(c)
    PROVE  IInv'
<1>1. CASE LoadSuccess(c)
  BY <1>1 DEF IInv, TypeOK, HalfOpenOwned, Places, LoadSuccess, Go, breaker, rounds, history
<1>2. CASE Forget(c)
  BY <1>2, BreakerAssumption
     DEF IInv, TypeOK, HalfOpenOwned, Places, Forget, Go, rounds, history
<1>3. CASE ResetFails(c)
  BY <1>3, BreakerAssumption
     DEF IInv, TypeOK, HalfOpenOwned, Places, ResetFails, Go, rounds, history
<1>4. CASE CloseBreaker(c)
  BY <1>4 DEF IInv, TypeOK, HalfOpenOwned, Places, CloseBreaker, Go, rounds, history
<1>5. CASE LoadFailure(c)
  BY <1>5 DEF IInv, TypeOK, HalfOpenOwned, Places, LoadFailure, Go, breaker, rounds, history
<1>6. CASE CountFail(c)
  <2>1. fails' \in 0..Threshold
    BY <1>6, BreakerAssumption DEF IInv, TypeOK, CountFail, Lesser
  <2>2. QED
    BY <1>6, <2>1 DEF IInv, TypeOK, HalfOpenOwned, Places, CountFail, Go, rounds, history
<1>7. CASE OpenBreaker(c)
  BY <1>7 DEF IInv, TypeOK, HalfOpenOwned, Places, OpenBreaker, Go, rounds, history
<1>8. CASE Stamp(c)
  BY <1>8, BreakerAssumption
     DEF IInv, TypeOK, HalfOpenOwned, Places, Stamp, Go, rounds, history
<1>9. QED
  BY <1>1, <1>2, <1>3, <1>4, <1>5, <1>6, <1>7, <1>8 DEF Record

\* The inductive step.
LEMMA NextKeepsInv == IInv /\ [Next]_vars => IInv'
<1> SUFFICES ASSUME IInv, [Next]_vars
             PROVE  IInv'
  OBVIOUS
<1>1. CASE Tick
  <2>1. since' \in 0..(Cooldown + 1)
    BY <1>1, BreakerAssumption DEF IInv, TypeOK, Tick, Lesser
  <2>2. QED
    BY <1>1, <2>1 DEF IInv, TypeOK, HalfOpenOwned, Tick, rounds, history
<1>2. CASE ServerTurns
  BY <1>2 DEF IInv, TypeOK, HalfOpenOwned, ServerTurns, breaker, rounds, history
<1>3. CASE UNCHANGED vars
  BY <1>3 DEF IInv, TypeOK, HalfOpenOwned, vars, breaker, rounds, history
<1>4. ASSUME NEW c \in Callers, Call(c) \/ Step(c) \/ Unfinished(c)
      PROVE  IInv'
  BY <1>4, AskKeepsInv, RequestKeepsInv, RecordKeepsInv DEF Step
<1>5. QED
  BY <1>1, <1>2, <1>3, <1>4 DEF Next

\* CB of client.go, for any number of callers, thresholds and retries.
\* The variables keep their types.
THEOREM TypeCorrect == Spec => []TypeOK
<1>1. IInv => TypeOK
  BY DEF IInv
<1>2. QED
  BY <1>1, InitHasInv, NextKeepsInv, PTL DEF Spec

\* A half-open breaker is owned by the caller whose CompareAndSwap opened the
\* period, until that caller reports or its request ends without a report.
THEOREM ProbeOwned == Spec => []HalfOpenOwned
<1>1. IInv => HalfOpenOwned
  BY DEF IInv
<1>2. QED
  BY <1>1, InitHasInv, NextKeepsInv, PTL DEF Spec
=============================================================================
