--------------------------- MODULE Services_proofs ---------------------------
(***************************************************************************)
(* Proofs about what handlers use, in the behaviours of MCServices.  No    *)
(* step of a part touches the variables of WarnEngine but its own, so the  *)
(* warnings keep their invariants; the parts that share variables have one *)
(* each, under the condition that the behaviour is theirs.                 *)
(***************************************************************************)
EXTENDS MCServices, WarnEngine_proofs, FiniteSetTheorems

-----------------------------------------------------------------------------
(***************************************************************************)
(* Warnings                                                                *)
(***************************************************************************)
\* The other parts of the services leave the warnings alone.
LEMMA WarnAlone == ASSUME [ServicesNext]_servicesVars PROVE [Next]_vars
BY DEF ServicesNext, servicesVars, SessionsMove, WizardsMove, SurveysMove, CaptchaMoves, RegistryMoves,
       DownloadMoves, UploadMoves, HubMoves, LogMoves, BackgroundMoves, PagesMove, MenusMove,
       AnalyticsMoves, VolumesMove, BroadcastMoves, WarningsMove

\* Both invariants hold whatever else the services do.
LEMMA WarnKept == ServicesSpec => [](WarnInv /\ LimitInv)
<1>1. ServicesInit => WarnInv /\ LimitInv
  BY WarnBegins DEF ServicesInit
<1>2. WarnInv /\ LimitInv /\ [ServicesNext]_servicesVars => (WarnInv /\ LimitInv)'
  BY WarnAlone, WarnStep, LimitStep
<1>3. QED
  BY <1>1, <1>2, PTL DEF ServicesSpec

\* As long as operations on a user do not overlap, every warning that counts has an expiry and a
\* reason, in the map and in what a crash between any two records leaves behind: the order in
\* which Warn, /unwarn, the reset and the clean-up write their keys (warn_engine.go) is enough.
THEOREM WarningsExpire == ServicesSpec => []EveryWarningExpires
<1>1. WarnInv => EveryWarningExpires
  BY DEF WarnInv, DiskCovered, EveryWarningExpires
<1>2. QED
  BY <1>1, WarnKept, PTL

\* Between operations that neither overlapped nor were cut off, no expiry is left over that would
\* take a later warning off before its time (the clean-up of Build).
THEOREM NoneIsEarly == ServicesSpec => []NoneForgottenEarly
<1>1. WarnInv => NoneForgottenEarly
  <2> SUFFICES ASSUME WarnInv, ~raced, crashes = 0, Quiet
               PROVE  Len(mem.expires) <= Number(mem.count)
    BY DEF NoneForgottenEarly
  <2>1. QED
    BY NoneUnderWay DEF Quiet
<1>2. QED
  BY <1>1, WarnKept, PTL

\* However warnings, pardons and clean-ups overlap: until the process dies, whenever the count is at
\* the limit some handler is about to delete it (WarnEngine.Warn).
THEOREM LimitResets == ServicesSpec => []LimitIsReset
<1>1. LimitInv => LimitIsReset
  BY DEF LimitInv, LimitIsReset
<1>2. QED
  BY <1>1, WarnKept, PTL

-----------------------------------------------------------------------------
(***************************************************************************)
(* The parts that share variables.                                         *)
(***************************************************************************)
\* What the parts need of the constants.
LEMMA PartConstants ==
    IsFiniteSet(Handlers) /\ Chats # {} /\ Timeout \in Nat /\ MaxWrites \in Nat
BY ServicesAssumption

\* A behaviour is one of a single part.
LEMMA PartStays == ASSUME [ServicesNext]_servicesVars PROVE part' = part
BY DEF ServicesNext, servicesVars, SessionsMove, WizardsMove, SurveysMove,
       CaptchaMoves, RegistryMoves, DownloadMoves, UploadMoves, HubMoves, LogMoves, BackgroundMoves,
       PagesMove, MenusMove, AnalyticsMoves, VolumesMove, BroadcastMoves, WarningsMove

-----------------------------------------------------------------------------
(***************************************************************************)
(* The captcha.  Of the variables that the parts share it has s1 to s10:   *)
(* inside, muted, joins, latest, clicks, crashes, waited, passed, kicked   *)
(* and unlucky.  Unless something unlucky has come in between, a timer     *)
(* and the time since the last join add up to the whole time, who has      *)
(* passed stays unmuted, and who has not is muted with a button, or will   *)
(* be (TimersInTime, PassedIsFree, JoinsGoOn in Captcha.tla).              *)
(***************************************************************************)

\* The mark is set.
LEMMA MuteKeeps == ASSUME CA!CaptchaInv, NEW j \in CA!Joins, CA!Mute(j) PROVE CA!CaptchaInv'
BY PartConstants DEF CA!CaptchaInv, CA!Records, CA!TimersInTime, CA!PassedIsFree, CA!JoinsGoOn, CA!KickedInTime,
       CA!Mute, CA!Joins, CA!Racing, CA!Handler

\* The timer is stored.
LEMMA StoreKeeps == ASSUME CA!CaptchaInv, NEW j \in CA!Joins, CA!Store(j) PROVE CA!CaptchaInv'
BY PartConstants DEF CA!CaptchaInv, CA!Records, CA!TimersInTime, CA!PassedIsFree, CA!JoinsGoOn, CA!KickedInTime,
       CA!Store, CA!Joins, CA!Racing, CA!Handler

\* The timer goes off.
LEMMA CheckKeeps == ASSUME CA!CaptchaInv, NEW j \in CA!Joins, CA!Check(j) PROVE CA!CaptchaInv'
BY PartConstants DEF CA!CaptchaInv, CA!Records, CA!TimersInTime, CA!PassedIsFree, CA!JoinsGoOn, CA!KickedInTime,
       CA!Check, CA!Joins, CA!Racing, CA!Timer

\* The mark is forgotten.
LEMMA ForgetKeeps == ASSUME CA!CaptchaInv, NEW j \in CA!Joins, CA!Forget(j) PROVE CA!CaptchaInv'
BY PartConstants DEF CA!CaptchaInv, CA!Records, CA!TimersInTime, CA!PassedIsFree, CA!JoinsGoOn, CA!KickedInTime,
       CA!Forget, CA!Joins, CA!Racing, CA!Timer, CA!Mark

\* A button is pressed.
LEMMA ClickKeeps == ASSUME CA!CaptchaInv, NEW u \in Handlers, CA!Click(u) PROVE CA!CaptchaInv'
BY PartConstants DEF CA!CaptchaInv, CA!Records, CA!TimersInTime, CA!PassedIsFree, CA!JoinsGoOn, CA!KickedInTime,
       CA!Click, CA!Joins, CA!Racing, CA!Mark

\* The stored timer is stopped.
LEMMA StopKeeps == ASSUME CA!CaptchaInv, NEW u \in Handlers, CA!Stop(u) PROVE CA!CaptchaInv'
BY PartConstants DEF CA!CaptchaInv, CA!Records, CA!TimersInTime, CA!PassedIsFree, CA!JoinsGoOn, CA!KickedInTime,
       CA!Stop, CA!Joins, CA!Racing, CA!Armed

\* The mark and the message go.
LEMMA UnmuteKeeps == ASSUME CA!CaptchaInv, NEW u \in Handlers, CA!Unmute(u) PROVE CA!CaptchaInv'
BY PartConstants DEF CA!CaptchaInv, CA!Records, CA!TimersInTime, CA!PassedIsFree, CA!JoinsGoOn, CA!KickedInTime,
       CA!Unmute, CA!Joins, CA!Racing, CA!Mark

\* The member leaves.
LEMMA QuitKeeps == ASSUME CA!CaptchaInv, CA!Quit PROVE CA!CaptchaInv'
BY PartConstants DEF CA!CaptchaInv, CA!Records, CA!TimersInTime, CA!PassedIsFree, CA!JoinsGoOn, CA!KickedInTime,
       CA!Quit, CA!Joins, CA!Racing

\* A new join starts a new account of the time.
LEMMA JoinKeeps == ASSUME CA!CaptchaInv, NEW j \in CA!Joins, CA!Join(j) PROVE CA!CaptchaInv'
<1>1. s3' \in [CA!Joins -> CA!Records]
  <2>1. PICK new : new = [CA!None EXCEPT !.handler = "mute"]
    OBVIOUS
  <2>2. new = [handler |-> "mute", message |-> FALSE, timer |-> "none", left |-> 0]
    BY <2>1 DEF CA!None
  <2>3. new \in CA!Records
    BY <2>2, PartConstants DEF CA!Records
  <2>4. s3' = [s3 EXCEPT ![j] = new]
    BY <2>1 DEF CA!Join, CA!Handler
  <2>5. QED
    BY <2>3, <2>4 DEF CA!CaptchaInv
<1>2. s7' \in 0..Timeout
  BY PartConstants DEF CA!CaptchaInv, CA!Join
<1>3. ASSUME ~s10' PROVE CA!TimersInTime'
  BY <1>3, PartConstants DEF CA!CaptchaInv, CA!TimersInTime, CA!Records, CA!Join, CA!Joins, CA!Handler, CA!Mark, CA!None
<1>4. ASSUME ~s10' PROVE CA!PassedIsFree'
  BY <1>4, PartConstants DEF CA!CaptchaInv, CA!PassedIsFree, CA!Racing, CA!Records, CA!Join, CA!Joins, CA!Handler, CA!Mark, CA!None
<1>5. ASSUME ~s10' PROVE CA!JoinsGoOn'
  BY <1>5, PartConstants DEF CA!CaptchaInv, CA!JoinsGoOn, CA!Racing, CA!Records, CA!Join, CA!Joins, CA!Handler, CA!Mark, CA!None
<1>6. ASSUME ~s10' PROVE CA!KickedInTime'
  BY <1>6 DEF CA!CaptchaInv, CA!KickedInTime, CA!Join, CA!Mark
<1>7. QED
  BY <1>1, <1>2, <1>3, <1>4, <1>5, <1>6 DEF CA!CaptchaInv

\* A button is shown, or cannot be.
LEMMA SendKeeps == ASSUME CA!CaptchaInv, NEW j \in CA!Joins, CA!Send(j) PROVE CA!CaptchaInv'
<1>1. s3' \in [CA!Joins -> CA!Records]
  <2>1. \/ s3' = [s3 EXCEPT ![j] = [s3[j] EXCEPT !.handler = "arm", !.message = TRUE]]
        \/ s3' = [s3 EXCEPT ![j] = [s3[j] EXCEPT !.handler = "over"]]
    BY DEF CA!Send, CA!Handler
  <2>2. s3[j] \in CA!Records
    BY DEF CA!CaptchaInv
  <2>3. /\ [s3[j] EXCEPT !.handler = "arm", !.message = TRUE] \in CA!Records
        /\ [s3[j] EXCEPT !.handler = "over"] \in CA!Records
    BY <2>2 DEF CA!Records
  <2>4. QED
    BY <2>1, <2>3 DEF CA!CaptchaInv
<1>2. s7' \in 0..Timeout
  BY PartConstants DEF CA!CaptchaInv, CA!Send
<1>3. ASSUME ~s10' PROVE CA!TimersInTime'
  BY <1>3, PartConstants DEF CA!CaptchaInv, CA!TimersInTime, CA!Records, CA!Send, CA!Joins, CA!Handler, CA!Mark
<1>4. ASSUME ~s10' PROVE CA!PassedIsFree'
  BY <1>4, PartConstants DEF CA!CaptchaInv, CA!PassedIsFree, CA!Racing, CA!Records, CA!Send, CA!Joins, CA!Handler, CA!Mark
<1>5. ASSUME ~s10' PROVE CA!JoinsGoOn'
  BY <1>5, PartConstants DEF CA!CaptchaInv, CA!JoinsGoOn, CA!Racing, CA!Records, CA!Send, CA!Joins, CA!Handler, CA!Mark
<1>6. ASSUME ~s10' PROVE CA!KickedInTime'
  BY <1>6 DEF CA!CaptchaInv, CA!KickedInTime, CA!Send, CA!Mark
<1>7. QED
  BY <1>1, <1>2, <1>3, <1>4, <1>5, <1>6 DEF CA!CaptchaInv

\* The timer starts with the whole time.
LEMMA ArmKeeps == ASSUME CA!CaptchaInv, NEW j \in CA!Joins, CA!Arm(j) PROVE CA!CaptchaInv'
<1>1. s3' \in [CA!Joins -> CA!Records]
  <2>1. s3' = [s3 EXCEPT ![j] = [s3[j] EXCEPT !.handler = "store", !.timer = "armed", !.left = Timeout]]
    BY DEF CA!Arm, CA!Handler
  <2>2. s3[j] \in CA!Records /\ Timeout \in 0..Timeout
    BY PartConstants DEF CA!CaptchaInv
  <2>3. [s3[j] EXCEPT !.handler = "store", !.timer = "armed", !.left = Timeout] \in CA!Records
    BY <2>2 DEF CA!Records
  <2>4. QED
    BY <2>1, <2>3 DEF CA!CaptchaInv
<1>2. s7' \in 0..Timeout
  BY PartConstants DEF CA!CaptchaInv, CA!Arm
<1>3. ASSUME ~s10' PROVE CA!TimersInTime'
  BY <1>3, PartConstants DEF CA!CaptchaInv, CA!TimersInTime, CA!Records, CA!Arm, CA!Joins, CA!Handler
<1>4. ASSUME ~s10' PROVE CA!PassedIsFree'
  BY <1>4, PartConstants DEF CA!CaptchaInv, CA!PassedIsFree, CA!Racing, CA!Records, CA!Arm, CA!Joins, CA!Handler
<1>5. ASSUME ~s10' PROVE CA!JoinsGoOn'
  BY <1>5, PartConstants DEF CA!CaptchaInv, CA!JoinsGoOn, CA!Racing, CA!Records, CA!Arm, CA!Joins, CA!Handler
<1>6. ASSUME ~s10' PROVE CA!KickedInTime'
  BY <1>6 DEF CA!CaptchaInv, CA!KickedInTime, CA!Arm, CA!Mark
<1>7. QED
  BY <1>1, <1>2, <1>3, <1>4, <1>5, <1>6 DEF CA!CaptchaInv

\* Who is kicked had the whole time and did not pass.
LEMMA KickKeeps == ASSUME CA!CaptchaInv, NEW j \in CA!Joins, CA!Kick(j) PROVE CA!CaptchaInv'
<1>1. s3' \in [CA!Joins -> CA!Records]
  BY PartConstants DEF CA!CaptchaInv, CA!Records, CA!Kick, CA!Joins, CA!Timer, CA!Mark
<1>2. s7' \in 0..Timeout
  BY PartConstants DEF CA!CaptchaInv, CA!Kick
<1>3. ASSUME ~s10' PROVE CA!TimersInTime'
  BY <1>3, PartConstants DEF CA!CaptchaInv, CA!TimersInTime, CA!Records, CA!Kick, CA!Joins, CA!Timer, CA!Mark
<1>4. ASSUME ~s10' PROVE CA!PassedIsFree'
  BY <1>4, PartConstants DEF CA!CaptchaInv, CA!PassedIsFree, CA!Racing, CA!Records, CA!Kick, CA!Joins, CA!Timer, CA!Mark
<1>5. ASSUME ~s10' PROVE CA!JoinsGoOn'
  BY <1>5, PartConstants DEF CA!CaptchaInv, CA!JoinsGoOn, CA!Racing, CA!Records, CA!Kick, CA!Joins, CA!Timer, CA!Mark
<1>6. ASSUME ~s10' PROVE CA!KickedInTime'
  <2>1. ~s10 /\ s3[j].timer = "checked" /\ s9' \subseteq s9 \cup {[passed |-> s8, waited |-> s7]}
    <3>1. ~s10
      BY <1>6 DEF CA!Kick, CA!Mark
    <3>2. s3[j].timer = "checked"
      BY DEF CA!Kick, CA!Timer
    <3>3. s9' \subseteq s9 \cup {[passed |-> s8, waited |-> s7]}
      BY DEF CA!Kick
    <3>4. QED
      BY <3>1, <3>2, <3>3
  <2>2. s3[j].left = 0 /\ s3[j].left + s7 >= Timeout /\ s7 \in 0..Timeout /\ ~s8
    BY <2>1 DEF CA!CaptchaInv, CA!TimersInTime, CA!PassedIsFree, CA!Racing
  <2>3. s7 = Timeout
    BY <2>2, PartConstants
  <2>4. \A k \in s9 : ~k.passed /\ k.waited = Timeout
    BY <2>1 DEF CA!CaptchaInv, CA!KickedInTime
  <2>5. ASSUME NEW k \in s9' PROVE ~k.passed /\ k.waited = Timeout
    BY <2>1, <2>2, <2>3, <2>4
  <2>6. QED
    BY <2>5 DEF CA!KickedInTime
<1>7. QED
  BY <1>1, <1>2, <1>3, <1>4, <1>5, <1>6 DEF CA!CaptchaInv

\* What the timers lose the time since the join gains.
LEMMA CaptchaTickKeeps == ASSUME CA!CaptchaInv, CA!Tick PROVE CA!CaptchaInv'
<1>1. s3' \in [CA!Joins -> CA!Records]
  BY PartConstants DEF CA!CaptchaInv, CA!Records, CA!Tick, CA!Joins, CA!Armed
<1>2. s7' \in 0..Timeout
  BY PartConstants DEF CA!CaptchaInv, CA!Tick
<1>3. ASSUME ~s10' PROVE CA!TimersInTime'
  BY <1>3, PartConstants DEF CA!CaptchaInv, CA!TimersInTime, CA!Records, CA!Tick, CA!Joins, CA!Armed
<1>4. ASSUME ~s10' PROVE CA!PassedIsFree'
  BY <1>4, PartConstants DEF CA!CaptchaInv, CA!PassedIsFree, CA!Racing, CA!Records, CA!Tick, CA!Joins, CA!Armed
<1>5. ASSUME ~s10' PROVE CA!JoinsGoOn'
  BY <1>5, PartConstants DEF CA!CaptchaInv, CA!JoinsGoOn, CA!Racing, CA!Records, CA!Tick, CA!Joins, CA!Armed
<1>6. ASSUME ~s10' PROVE CA!KickedInTime'
  BY <1>6 DEF CA!CaptchaInv, CA!KickedInTime, CA!Tick, CA!Mark
<1>7. QED
  BY <1>1, <1>2, <1>3, <1>4, <1>5, <1>6 DEF CA!CaptchaInv

\* Timers and handlers are gone.
LEMMA CaptchaCrashKeeps == ASSUME CA!CaptchaInv, CA!Crash PROVE CA!CaptchaInv'
<1>1. s3' \in [CA!Joins -> CA!Records]
  <2>1. s3' = [j \in CA!Joins |-> IF s3[j] = CA!None THEN CA!None
                  ELSE [CA!None EXCEPT !.handler = "over", !.message = s3[j].message]]
    BY DEF CA!Crash
  <2>2. ASSUME NEW j \in CA!Joins PROVE s3'[j] \in CA!Records
    <3>1. s3[j] \in CA!Records /\ s3[j].message \in BOOLEAN /\ 0 \in 0..Timeout
      BY PartConstants DEF CA!CaptchaInv, CA!Records
    <3>2. CA!None \in CA!Records
      BY <3>1 DEF CA!Records, CA!None
    <3>3. [CA!None EXCEPT !.handler = "over", !.message = s3[j].message] \in CA!Records
      BY <3>1 DEF CA!Records, CA!None
    <3>4. QED
      BY <2>1, <3>2, <3>3
  <2>3. QED
    BY <2>1, <2>2
<1>2. s7' \in 0..Timeout
  BY PartConstants DEF CA!CaptchaInv, CA!Crash
<1>3. ASSUME ~s10' PROVE CA!TimersInTime'
  BY <1>3, PartConstants DEF CA!CaptchaInv, CA!TimersInTime, CA!Records, CA!Crash, CA!Joins, CA!Mark, CA!None
<1>4. ASSUME ~s10' PROVE CA!PassedIsFree'
  BY <1>4, PartConstants DEF CA!CaptchaInv, CA!PassedIsFree, CA!Racing, CA!Records, CA!Crash, CA!Joins, CA!Mark, CA!None
<1>5. ASSUME ~s10' PROVE CA!JoinsGoOn'
  BY <1>5, PartConstants DEF CA!CaptchaInv, CA!JoinsGoOn, CA!Racing, CA!Records, CA!Crash, CA!Joins, CA!Mark, CA!None
<1>6. ASSUME ~s10' PROVE CA!KickedInTime'
  BY <1>6 DEF CA!CaptchaInv, CA!KickedInTime, CA!Crash, CA!Mark
<1>7. QED
  BY <1>1, <1>2, <1>3, <1>4, <1>5, <1>6 DEF CA!CaptchaInv

\* No step of the captcha, and none beside it, breaks its invariant.
LEMMA CaptchaStep == ASSUME CA!CaptchaInv, [CA!CaptchaNext]_(CA!captchaVars) PROVE CA!CaptchaInv'
<1>1. CASE UNCHANGED CA!captchaVars
  BY <1>1 DEF CA!captchaVars, CA!CaptchaInv, CA!Records, CA!TimersInTime, CA!PassedIsFree, CA!JoinsGoOn,
           CA!KickedInTime, CA!Racing
<1>2. CASE \E j \in CA!Joins : CA!Join(j) \/ CA!Mute(j) \/ CA!Send(j) \/ CA!Arm(j) \/ CA!Store(j)
                              \/ CA!Check(j) \/ CA!Kick(j) \/ CA!Forget(j)
  BY <1>2, JoinKeeps, MuteKeeps, SendKeeps, ArmKeeps, StoreKeeps, CheckKeeps, KickKeeps, ForgetKeeps
<1>3. CASE \E u \in Handlers : CA!Click(u) \/ CA!Stop(u) \/ CA!Unmute(u)
  BY <1>3, ClickKeeps, StopKeeps, UnmuteKeeps
<1>4. CASE CA!Tick \/ CA!Quit \/ CA!Crash
  BY <1>4, CaptchaTickKeeps, QuitKeeps, CaptchaCrashKeeps
<1>5. QED
  BY <1>1, <1>2, <1>3, <1>4 DEF CA!CaptchaNext

\* The chat begins without the member.
LEMMA CaptchaBegins == ASSUME CA!InitCaptcha PROVE CA!CaptchaInv
<1>1. CA!None \in CA!Records
  BY PartConstants DEF CA!None, CA!Records
<1>2. QED
  BY <1>1, PartConstants DEF CA!InitCaptcha, CA!CaptchaInv, CA!TimersInTime, CA!PassedIsFree,
           CA!JoinsGoOn, CA!KickedInTime, CA!None

\* A behaviour is one of a single part.
LEMMA CaptchaAlone ==
    ASSUME part = "captcha", [ServicesNext]_servicesVars
    PROVE  part' = "captcha" /\ [CA!CaptchaNext]_(CA!captchaVars)
BY DEF ServicesNext, servicesVars, shared, CA!captchaVars, SessionsMove, WizardsMove, SurveysMove,
       CaptchaMoves, RegistryMoves, DownloadMoves, UploadMoves, HubMoves, LogMoves, BackgroundMoves,
       PagesMove, MenusMove, AnalyticsMoves, VolumesMove, BroadcastMoves, WarningsMove

\* Who joins and is not unlucky is kicked only after the whole time and without having passed, can
\* get out of being muted also after a restart, and writes only after having passed: whatever
\* joins, clicks, timers that go off, crashes and leaves come in between (CaptchaChain, flows.go).
THEOREM CaptchasSettle == ServicesSpec => []CaptchaSettles
<1> DEFINE Inv == part = "captcha" => CA!CaptchaInv
<1>1. ServicesInit => Inv
  BY CaptchaBegins DEF ServicesInit
<1>2. Inv /\ [ServicesNext]_servicesVars => Inv'
  BY CaptchaAlone, CaptchaStep, PartStays
<1>3. Inv => CaptchaSettles
  <2>1. ASSUME CA!CaptchaInv PROVE CA!KickedInTime
    BY <2>1 DEF CA!CaptchaInv, CA!KickedInTime
  <2>2. ASSUME CA!CaptchaInv PROVE CA!MutedHasWayOut
    BY <2>2 DEF CA!CaptchaInv, CA!JoinsGoOn, CA!MutedHasWayOut, CA!Settled
  <2>3. ASSUME CA!CaptchaInv PROVE CA!UnmutedHasPassed
    BY <2>3 DEF CA!CaptchaInv, CA!JoinsGoOn, CA!UnmutedHasPassed, CA!Settled
  <2>4. QED
    BY <2>1, <2>2, <2>3 DEF CaptchaSettles, CA!CaptchaSettles
<1>4. QED
  BY <1>1, <1>2, <1>3, PTL DEF ServicesSpec

-----------------------------------------------------------------------------
(***************************************************************************)
(* The counters of a chat.  Of the variables that the parts share they     *)
(* have s1 to s15: daily, lifetime, named, workers, report, messages,      *)
(* edits, deletes, reports, crashes, reported, mediaEdits, overlapped,     *)
(* straddled and torn.  A report is related to the counters by what it has *)
(* read of them (ReportInv), and the deletions that were counted by those  *)
(* that are being counted (DeletionInv in Analytics.tla).                  *)
(***************************************************************************)
\* The module of the counters means by a cardinality what this one does.
LEMMA AnalyticsCardinality == ASSUME NEW S PROVE AN!Cardinality(S) = Cardinality(S)
BY DEF AN!Cardinality, Cardinality

\* What the logger counts.
LEMMA LoggedOf ==
    ASSUME NEW media \in BOOLEAN, NEW edit \in BOOLEAN, NEW count \in [AN!Metrics -> Nat],
           NEW new, new = AN!Plus(count, AN!Logged(media, edit)),
           NEW n, n = AN!Cardinality(AN!Logged(media, edit) \ {"edits"})
    PROVE  /\ new \in [AN!Metrics -> Nat] /\ new["deletions"] = count["deletions"]
           /\ n = IF edit /\ ~media THEN 0 ELSE 1
           /\ new["text"] >= count["text"] /\ new["photo"] >= count["photo"]
           /\ new["text"] + new["photo"] = count["text"] + count["photo"] + n
<1>1. PICK logged : logged = AN!Logged(media, edit)
  OBVIOUS
<1>2. logged \in SUBSET {"text", "photo", "edits"}
  BY <1>1 DEF AN!Logged
<1>3. new = [m \in AN!Metrics |-> IF m \in logged THEN count[m] + 1 ELSE count[m]]
  BY <1>1 DEF AN!Plus
<1>4. new \in [AN!Metrics -> Nat] /\ new["deletions"] = count["deletions"]
  BY <1>2, <1>3 DEF AN!Metrics
<1>5. CASE edit /\ ~media
  <2>1. logged \ {"edits"} = {} /\ "text" \notin logged /\ "photo" \notin logged
    BY <1>1, <1>5 DEF AN!Logged
  <2>2. n = 0
    BY <1>1, <2>1, FS_EmptySet, AnalyticsCardinality
  <2>3. QED
    BY <1>3, <1>4, <1>5, <2>1, <2>2 DEF AN!Metrics
<1>6. CASE ~(edit /\ ~media)
  <2>1. PICK kind \in {"text", "photo"} : logged \ {"edits"} = {kind} /\ kind \in logged
                                          /\ \A other \in {"text", "photo"} : other \in logged => other = kind
    <3>1. CASE media
      <4>1. logged \ {"edits"} = {"photo"} /\ "photo" \in logged /\ "text" \notin logged
        BY <1>1, <3>1 DEF AN!Logged
      <4>2. QED
        BY <4>1
    <3>2. CASE ~media
      <4>1. logged \ {"edits"} = {"text"} /\ "text" \in logged /\ "photo" \notin logged
        BY <1>1, <1>6, <3>2 DEF AN!Logged
      <4>2. QED
        BY <4>1
    <3>3. QED
      BY <3>1, <3>2
  <2>2. n = 1
    BY <1>1, <2>1, FS_Singleton, AnalyticsCardinality
  <2>3. QED
    BY <1>3, <1>4, <1>6, <2>1, <2>2 DEF AN!Metrics
<1>7. QED
  BY <1>5, <1>6

\* The deletions that are being counted are finitely many, and none if nobody is at work.
LEMMA CountingFinite ==
    /\ IsFiniteSet(AN!Counting) /\ AN!Cardinality(AN!Counting) \in Nat
    /\ AN!Counting = {} => AN!Cardinality(AN!Counting) = 0
<1>1. AN!Counting \subseteq Handlers
  BY DEF AN!Counting
<1>2. IsFiniteSet(AN!Counting)
  BY <1>1, PartConstants, FS_Subset
<1>3. QED
  BY <1>2, FS_CardinalityType, FS_EmptySet, AnalyticsCardinality

\* The number of those deletions, and what is behind by it.
LEMMA CountingBehind ==
    ASSUME AN!DeletionInv
    PROVE  \E n \in Nat : n = AN!Cardinality(AN!Counting) /\ AN!Behind(n)
BY CountingFinite DEF AN!DeletionInv

\* Nobody counts a deletion, and of those counted the daily ones at most are forgotten.
LEMMA DeletionsAlone ==
    ASSUME AN!AnalyticsShapes, AN!DeletionInv, s4' = s4, s8' = s8, s2'["deletions"] = s2["deletions"],
           s1'["deletions"] \in 0..s1["deletions"], ~s13' => ~s13
    PROVE  AN!DeletionInv'
<1>1. AN!Counting' = AN!Counting
  BY DEF AN!Counting
<1>2. PICK n \in Nat : n = AN!Cardinality(AN!Counting) /\ AN!Behind(n)
  BY CountingBehind
<1>3. s8 \in Nat /\ s1["deletions"] \in Nat
  BY DEF AN!AnalyticsShapes, AN!Metrics
<1>4. n = AN!Cardinality(AN!Counting)' /\ AN!Behind(n)'
  <2>1. AN!Behind(n)'
    BY <1>2 DEF AN!Behind
  <2>2. QED
    BY <1>1, <1>2, <2>1
<1>5. AN!Alone'
  BY <1>1, <1>3 DEF AN!Alone, AN!DeletionInv
<1>6. QED
  BY <1>4, <1>5 DEF AN!DeletionInv

\* All counting is given up, and the daily counter is kept or set back.
LEMMA DeletionsEnd ==
    ASSUME AN!AnalyticsShapes, AN!DeletionInv, s4' = [u \in Handlers |-> AN!Resting], s8' = s8, s2' = s2,
           s1'["deletions"] \in 0..s1["deletions"],
           ~s13' => ~s13 /\ \A u \in Handlers : s4[u] = AN!Resting
    PROVE  AN!DeletionInv'
<1>1. AN!Counting' = {} /\ 0 = AN!Cardinality(AN!Counting)'
  <2>1. AN!Counting' = {}
    BY DEF AN!Counting
  <2>2. QED
    BY <2>1, FS_EmptySet, AnalyticsCardinality
<1>2. s8 \in Nat /\ s1["deletions"] \in Nat /\ s2["deletions"] \in Nat
  BY DEF AN!AnalyticsShapes, AN!Metrics
<1>3. s2["deletions"] <= s8
  <2>1. PICK n \in Nat : AN!Behind(n)
    BY CountingBehind
  <2>2. s2["deletions"] + n <= s8
    BY <2>1 DEF AN!Behind
  <2>3. QED
    BY <1>2, <2>2
<1>4. ~s13' => s2["deletions"] = s8 /\ s1["deletions"] <= s8
  <2> SUFFICES ASSUME ~s13' PROVE s2["deletions"] = s8 /\ s1["deletions"] <= s8
    OBVIOUS
  <2>1. AN!Counting = {}
    BY DEF AN!Counting
  <2>2. QED
    BY <2>1 DEF AN!DeletionInv, AN!Alone
<1>5. \A u \in Handlers : s4'[u].at = "idle"
  BY DEF AN!Resting
<1>6. AN!Behind(0)'
  BY <1>2, <1>3, <1>5 DEF AN!Behind
<1>7. AN!Alone'
  BY <1>1, <1>2, <1>4 DEF AN!Alone
<1>8. QED
  BY <1>1, <1>6, <1>7 DEF AN!DeletionInv

\* A message or an edit is counted.
LEMMA AnalyticsLog ==
    ASSUME AN!AnalyticsInv, NEW media \in BOOLEAN, NEW edit \in BOOLEAN, AN!Log(media, edit)
    PROVE  AN!AnalyticsInv'
<1>1. PICK n : n = AN!Cardinality(AN!Logged(media, edit) \ {"edits"})
  OBVIOUS
<1>2. /\ s1' = AN!Plus(s1, AN!Logged(media, edit)) /\ s2' = AN!Plus(s2, AN!Logged(media, edit))
      /\ s6' = IF edit THEN s6 ELSE s6 + 1
      /\ s12' = s12 + (IF edit /\ media THEN 1 ELSE 0)
      /\ s14' = s14 + (IF s5.at # "none" /\ s5.period = "daily" THEN n ELSE 0)
      /\ s4' = s4 /\ s5' = s5 /\ s8' = s8 /\ s11' = s11 /\ s15' = s15 /\ (~s13' => ~s13)
  <2>1. s1' = AN!Plus(s1, AN!Logged(media, edit)) /\ s2' = AN!Plus(s2, AN!Logged(media, edit))
    BY DEF AN!Log
  <2>2. s6' = IF edit THEN s6 ELSE s6 + 1
    BY DEF AN!Log
  <2>3. s12' = s12 + (IF edit /\ media THEN 1 ELSE 0)
    BY DEF AN!Log
  <2>4. s14' = s14 + (IF s5.at # "none" /\ s5.period = "daily" THEN n ELSE 0)
    BY <1>1 DEF AN!Log
  <2>5. s4' = s4 /\ s5' = s5 /\ s8' = s8 /\ s11' = s11 /\ s15' = s15 /\ (~s13' => ~s13)
    BY DEF AN!Log
  <2>6. QED
    BY <2>1, <2>2, <2>3, <2>4, <2>5
<1>3. /\ s1 \in [AN!Metrics -> Nat] /\ s2 \in [AN!Metrics -> Nat]
      /\ s6 \in Nat /\ s12 \in Nat /\ s14 \in Nat /\ s11 \in Nat /\ s15 \in Nat
      /\ {"text", "photo", "deletions"} \subseteq AN!Metrics
  BY DEF AN!AnalyticsInv, AN!AnalyticsShapes, AN!Metrics
<1>4. /\ s1' \in [AN!Metrics -> Nat] /\ s1'["deletions"] = s1["deletions"]
      /\ s1'["text"] >= s1["text"] /\ s1'["photo"] >= s1["photo"]
      /\ s1'["text"] + s1'["photo"] = s1["text"] + s1["photo"] + n
      /\ n = IF edit /\ ~media THEN 0 ELSE 1
  BY <1>1, <1>2, <1>3, LoggedOf
<1>5. /\ s2' \in [AN!Metrics -> Nat] /\ s2'["deletions"] = s2["deletions"]
      /\ s2'["text"] >= s2["text"] /\ s2'["photo"] >= s2["photo"]
      /\ s2'["text"] + s2'["photo"] = s2["text"] + s2["photo"] + n
  BY <1>1, <1>2, <1>3, LoggedOf
<1>6. AN!AnalyticsShapes'
  BY <1>2, <1>3, <1>4, <1>5 DEF AN!AnalyticsInv, AN!AnalyticsShapes
<1>7. /\ s1["text"] \in Nat /\ s1["photo"] \in Nat /\ s2["text"] \in Nat /\ s2["photo"] \in Nat
      /\ s1'["text"] \in Nat /\ s1'["photo"] \in Nat /\ s2'["text"] \in Nat /\ s2'["photo"] \in Nat
      /\ s1["deletions"] \in Nat
  BY <1>3, <1>4, <1>5
<1>8. s5.low \in Nat /\ s5.read["text"] \in Nat /\ s5.read["photo"] \in Nat
  BY DEF AN!AnalyticsInv, AN!AnalyticsShapes, AN!Metrics
<1>9. AN!ReportInv'
  BY <1>2, <1>3, <1>4, <1>5, <1>7, <1>8 DEF AN!AnalyticsInv, AN!ReportInv, AN!Total
<1>10. AN!MessagesCounted'
  <2>1. /\ s6' + s12' = s6 + s12 + n
        /\ AN!Total(s1)' = AN!Total(s1) + n /\ AN!Total(s2)' = AN!Total(s2) + n
        /\ AN!Total(s1) \in Nat /\ AN!Total(s2) \in Nat /\ n \in Nat /\ s14' >= s14
    BY <1>2, <1>3, <1>4, <1>5, <1>7 DEF AN!Total
  <2>2. AN!Total(IF s5.period = "daily" THEN s1 ELSE s2)' >= AN!Total(IF s5.period = "daily" THEN s1 ELSE s2)
    BY <1>2, <2>1
  <2>3. AN!Total(s5.read)' = AN!Total(s5.read) /\ AN!Total(s5.read) \in Nat
    BY <1>2, <1>8 DEF AN!Total
  <2>4. AN!Total(IF s5.period = "daily" THEN s1 ELSE s2) \in Nat /\ AN!Total(IF s5.period = "daily" THEN s1 ELSE s2)' \in Nat
    BY <1>2, <2>1
  <2>5. s14' \in Nat
    BY <1>2, <1>3, <2>1
  <2>6. QED
    BY <1>2, <1>3, <2>1, <2>2, <2>3, <2>4, <2>5 DEF AN!AnalyticsInv, AN!MessagesCounted
<1>11. AN!DeletionInv'
  <2>1. s1'["deletions"] \in 0..s1["deletions"]
    BY <1>4, <1>7
  <2>2. QED
    BY <1>2, <1>5, <2>1, DeletionsAlone DEF AN!AnalyticsInv
<1>12. QED
  BY <1>6, <1>9, <1>10, <1>11 DEF AN!AnalyticsInv

\* A deletion is to be counted.
LEMMA AnalyticsDeleted == ASSUME AN!AnalyticsInv, NEW u \in Handlers, AN!Deleted(u) PROVE AN!AnalyticsInv'
<1>1. AN!AnalyticsShapes'
  BY DEF AN!AnalyticsInv, AN!AnalyticsShapes, AN!Deleted
<1>2. AN!ReportInv' /\ AN!MessagesCounted'
  BY DEF AN!AnalyticsInv, AN!ReportInv, AN!MessagesCounted, AN!Deleted
<1>3. /\ s4[u] = AN!Resting /\ s8' = s8 + 1 /\ s4' = [s4 EXCEPT ![u] = [at |-> "daily", read |-> 0]]
      /\ s1' = s1 /\ s2' = s2 /\ (~s13' => ~s13 /\ \A v \in Handlers \ {u} : s4[v] = AN!Resting)
  BY DEF AN!Deleted
<1>4. /\ DOMAIN s4 = Handlers /\ s8 \in Nat /\ s1["deletions"] \in Nat /\ s2["deletions"] \in Nat
      /\ \A v \in Handlers : s4[v].read \in Nat
  BY DEF AN!AnalyticsInv, AN!AnalyticsShapes, AN!Metrics
<1>5. u \notin AN!Counting /\ AN!Counting' = AN!Counting \cup {u}
  BY <1>3, <1>4 DEF AN!Counting, AN!Resting
<1>6. PICK n \in Nat : n = AN!Cardinality(AN!Counting) /\ AN!Behind(n)
  BY CountingBehind DEF AN!AnalyticsInv
<1>7. n + 1 = AN!Cardinality(AN!Counting)'
  BY <1>5, <1>6, CountingFinite, FS_AddElement, AnalyticsCardinality
<1>8. s4'[u].at = "daily" /\ \A v \in Handlers \ {u} : s4'[v] = s4[v]
  BY <1>3, <1>4
<1>9. AN!Behind(n + 1)'
  <2>1. s2'["deletions"] + (n + 1) <= s8'
    BY <1>3, <1>4, <1>6 DEF AN!Behind
  <2>2. ASSUME NEW v \in Handlers, s4'[v].at = "setLifetime"
        PROVE  s4'[v].read + (n + 1) <= s8'
    <3>1. s4'[v] = s4[v] /\ s4[v].read + n <= s8
      BY <1>6, <1>8, <2>2 DEF AN!Behind
    <3>2. QED
      BY <1>3, <1>4, <3>1
  <2>3. QED
    BY <2>1, <2>2 DEF AN!Behind
<1>10. ASSUME ~s13'
       PROVE  AN!Counting' = {u} /\ s2["deletions"] = s8 /\ s1["deletions"] <= s8
  <2>1. AN!Counting = {}
    BY <1>3, <1>10 DEF AN!Counting
  <2>2. QED
    BY <1>3, <1>5, <1>10, <2>1 DEF AN!AnalyticsInv, AN!DeletionInv, AN!Alone
<1>11. AN!Alone'
  BY <1>3, <1>4, <1>8, <1>10 DEF AN!Alone
<1>12. AN!DeletionInv'
  BY <1>7, <1>9, <1>11 DEF AN!DeletionInv
<1>13. QED
  BY <1>1, <1>2, <1>12 DEF AN!AnalyticsInv

\* A counter of deletions is read.
LEMMA AnalyticsReadCounter == ASSUME AN!AnalyticsInv, NEW u \in Handlers, AN!ReadCounter(u) PROVE AN!AnalyticsInv'
<1>1. AN!AnalyticsShapes'
  BY DEF AN!AnalyticsInv, AN!AnalyticsShapes, AN!ReadCounter, AN!Metrics
<1>2. AN!ReportInv' /\ AN!MessagesCounted'
  BY DEF AN!AnalyticsInv, AN!ReportInv, AN!MessagesCounted, AN!ReadCounter
<1>3. PICK to, read : /\ s4' = [s4 EXCEPT ![u] = [at |-> to, read |-> read]]
                      /\ \/ s4[u].at = "daily" /\ to = "setDaily" /\ read = s1["deletions"]
                         \/ s4[u].at = "lifetime" /\ to = "setLifetime" /\ read = s2["deletions"]
                      /\ s1' = s1 /\ s2' = s2 /\ s8' = s8 /\ (~s13' => ~s13)
  BY DEF AN!ReadCounter
<1>4. /\ DOMAIN s4 = Handlers /\ s8 \in Nat /\ s1["deletions"] \in Nat /\ s2["deletions"] \in Nat
  BY DEF AN!AnalyticsInv, AN!AnalyticsShapes, AN!Metrics
<1>5. s4'[u] = [at |-> to, read |-> read] /\ \A v \in Handlers \ {u} : s4'[v] = s4[v]
  BY <1>3, <1>4
<1>6. AN!Counting' = AN!Counting /\ u \in AN!Counting
  BY <1>3, <1>5 DEF AN!Counting, AN!Resting
<1>7. PICK n \in Nat : n = AN!Cardinality(AN!Counting) /\ AN!Behind(n)
  BY CountingBehind DEF AN!AnalyticsInv
<1>8. AN!Behind(n)'
  <2>1. s2["deletions"] + n <= s8 /\ \A v \in Handlers : s4[v].at = "setLifetime" => s4[v].read + n <= s8
    BY <1>7 DEF AN!Behind
  <2>2. ASSUME NEW v \in Handlers, s4'[v].at = "setLifetime"
        PROVE  s4'[v].read + n <= s8'
    BY <1>3, <1>5, <2>1, <2>2
  <2>3. QED
    BY <1>3, <2>1, <2>2 DEF AN!Behind
<1>9. ASSUME ~s13', NEW v \in AN!Counting
      PROVE  /\ v = u /\ s2["deletions"] + 1 = s8
             /\ s4'[v].at \in {"daily", "setDaily"} => s1["deletions"] + 1 <= s8
             /\ s4'[v].at = "setDaily" => s4'[v].read + 1 <= s8
             /\ s4'[v].at \in {"lifetime", "setLifetime"} => s1["deletions"] <= s8
             /\ s4'[v].at = "setLifetime" => s4'[v].read + 1 = s8
  BY <1>3, <1>5, <1>6, <1>9 DEF AN!AnalyticsInv, AN!DeletionInv, AN!Alone
<1>10. AN!Alone'
  BY <1>3, <1>6, <1>9 DEF AN!Alone
<1>11. AN!DeletionInv'
  <2>1. n = AN!Cardinality(AN!Counting)'
    BY <1>6, <1>7
  <2>2. QED
    BY <1>8, <1>10, <2>1 DEF AN!DeletionInv
<1>12. QED
  BY <1>1, <1>2, <1>11 DEF AN!AnalyticsInv

\* A counter of deletions is set to what was read, and one more.
LEMMA AnalyticsSetCounter == ASSUME AN!AnalyticsInv, NEW u \in Handlers, AN!SetCounter(u) PROVE AN!AnalyticsInv'
<1>1. AN!AnalyticsShapes'
  BY DEF AN!AnalyticsInv, AN!AnalyticsShapes, AN!SetCounter, AN!Resting, AN!Metrics
<1>2. AN!ReportInv' /\ AN!MessagesCounted'
  BY DEF AN!AnalyticsInv, AN!AnalyticsShapes, AN!ReportInv, AN!MessagesCounted, AN!SetCounter, AN!Total, AN!Metrics
<1>3. /\ DOMAIN s4 = Handlers /\ s8 \in Nat /\ s1["deletions"] \in Nat /\ s2["deletions"] \in Nat
      /\ DOMAIN s1 = AN!Metrics /\ DOMAIN s2 = AN!Metrics /\ "deletions" \in AN!Metrics
      /\ \A v \in Handlers : s4[v].read \in Nat
  BY DEF AN!AnalyticsInv, AN!AnalyticsShapes, AN!Metrics
<1>4. s8' = s8 /\ (~s13' => ~s13) /\ AN!DeletionInv
  BY DEF AN!AnalyticsInv, AN!SetCounter
<1>5. PICK n \in Nat : n = AN!Cardinality(AN!Counting) /\ AN!Behind(n)
  BY <1>4, CountingBehind
<1>6. CASE s4[u].at = "setDaily"
  <2>1. /\ s1' = [s1 EXCEPT !["deletions"] = s4[u].read + 1] /\ s2' = s2
        /\ s4' = [s4 EXCEPT ![u] = [at |-> "lifetime", read |-> 0]]
    BY <1>6 DEF AN!SetCounter
  <2>2. /\ s4'[u].at = "lifetime" /\ \A v \in Handlers \ {u} : s4'[v] = s4[v]
        /\ s1'["deletions"] = s4[u].read + 1
    BY <1>3, <2>1
  <2>3. AN!Counting' = AN!Counting /\ u \in AN!Counting
    BY <1>6, <2>2 DEF AN!Counting, AN!Resting
  <2>4. AN!Behind(n)'
    BY <1>4, <1>5, <2>1, <2>2 DEF AN!Behind
  <2>5. ASSUME ~s13', NEW v \in AN!Counting
        PROVE  v = u /\ s2["deletions"] + 1 = s8 /\ s4[u].read + 1 <= s8
    BY <1>4, <1>6, <2>3, <2>5 DEF AN!DeletionInv, AN!Alone
  <2>6. AN!Alone'
    BY <1>3, <1>4, <2>1, <2>2, <2>3, <2>5 DEF AN!Alone
  <2>7. n = AN!Cardinality(AN!Counting)'
    BY <1>5, <2>3
  <2>8. AN!DeletionInv'
    BY <2>4, <2>6, <2>7 DEF AN!DeletionInv
  <2>9. QED
    BY <1>1, <1>2, <2>8 DEF AN!AnalyticsInv
<1>7. CASE s4[u].at = "setLifetime"
  <2>1. /\ s2' = [s2 EXCEPT !["deletions"] = s4[u].read + 1] /\ s1' = s1
        /\ s4' = [s4 EXCEPT ![u] = AN!Resting]
    BY <1>7 DEF AN!SetCounter
  <2>2. /\ s4'[u] = AN!Resting /\ \A v \in Handlers \ {u} : s4'[v] = s4[v]
        /\ s2'["deletions"] = s4[u].read + 1
    BY <1>3, <2>1
  <2>3. AN!Counting' = AN!Counting \ {u} /\ u \in AN!Counting
    BY <1>7, <2>2 DEF AN!Counting, AN!Resting
  <2>4. PICK m \in Nat : m = AN!Cardinality(AN!Counting)' /\ m + 1 = n
    <3>1. IsFiniteSet(AN!Counting')
      BY <2>3, CountingFinite, FS_Subset
    <3>2. u \notin AN!Counting' /\ AN!Counting = AN!Counting' \cup {u}
      BY <2>3
    <3>3. PICK m \in Nat : m = AN!Cardinality(AN!Counting')
      BY <3>1, FS_CardinalityType, AnalyticsCardinality
    <3>4. n = m + 1
      BY <1>5, <3>1, <3>2, <3>3, FS_AddElement, AnalyticsCardinality
    <3>5. QED
      BY <3>3, <3>4
  <2>5. s4[u].read + n <= s8 /\ s4[u].read \in Nat
    BY <1>3, <1>5, <1>7 DEF AN!Behind
  <2>6. AN!Behind(m)'
    <3>1. s2'["deletions"] + m <= s8'
      BY <1>4, <2>2, <2>4, <2>5
    <3>2. ASSUME NEW v \in Handlers, s4'[v].at = "setLifetime"
          PROVE  s4'[v].read + m <= s8'
      <4>1. s4'[v] = s4[v]
        BY <2>2, <3>2 DEF AN!Resting
      <4>2. s4[v].read + n <= s8 /\ s4[v].read \in Nat
        BY <1>3, <1>5, <3>2, <4>1 DEF AN!Behind
      <4>3. QED
        BY <1>3, <1>4, <2>4, <4>1, <4>2
    <3>3. QED
      BY <3>1, <3>2 DEF AN!Behind
  <2>7. ASSUME ~s13'
        PROVE  AN!Counting' = {} /\ s4[u].read + 1 = s8 /\ s1["deletions"] <= s8
    <3>1. s4[u].read + 1 = s8 /\ s1["deletions"] <= s8 /\ \A v \in AN!Counting : v = u
      BY <1>4, <1>7, <2>3, <2>7 DEF AN!DeletionInv, AN!Alone
    <3>2. QED
      BY <2>3, <3>1
  <2>8. AN!Alone'
    BY <1>4, <2>1, <2>2, <2>7 DEF AN!Alone
  <2>9. AN!DeletionInv'
    BY <2>4, <2>6, <2>8 DEF AN!DeletionInv
  <2>10. QED
    BY <1>1, <1>2, <2>9 DEF AN!AnalyticsInv
<1>8. QED
  BY <1>6, <1>7 DEF AN!SetCounter

\* A report begins with what there is.
LEMMA AnalyticsBegin == ASSUME AN!AnalyticsInv, NEW period \in {"daily", "lifetime"}, AN!Begin(period) PROVE AN!AnalyticsInv'
<1>1. AN!AnalyticsShapes'
  BY DEF AN!AnalyticsInv, AN!AnalyticsShapes, AN!Begin, AN!NoReport, AN!Zero, AN!Total, AN!Metrics
<1>2. AN!ReportInv'
  BY DEF AN!AnalyticsInv, AN!AnalyticsShapes, AN!ReportInv, AN!MessagesCounted, AN!Begin, AN!NoReport, AN!Zero,
         AN!Total, AN!Metrics
<1>3. AN!MessagesCounted'
  BY DEF AN!AnalyticsInv, AN!AnalyticsShapes, AN!ReportInv, AN!MessagesCounted, AN!Begin, AN!NoReport, AN!Zero,
         AN!Total, AN!Metrics
<1>4. AN!DeletionInv'
  BY DEF AN!AnalyticsInv, AN!DeletionInv, AN!Behind, AN!Alone, AN!Counting, AN!Begin
<1>5. QED
  BY <1>1, <1>2, <1>3, <1>4 DEF AN!AnalyticsInv

\* A report reads a counter.
LEMMA AnalyticsRead == ASSUME AN!AnalyticsInv, NEW m \in {"text", "photo"}, AN!Read(m) PROVE AN!AnalyticsInv'
<1>1. AN!AnalyticsShapes'
  BY DEF AN!AnalyticsInv, AN!AnalyticsShapes, AN!Read, AN!NoReport, AN!Zero, AN!Total, AN!Metrics
<1>2. AN!ReportInv'
  BY DEF AN!AnalyticsInv, AN!AnalyticsShapes, AN!ReportInv, AN!MessagesCounted, AN!Read, AN!NoReport, AN!Zero,
         AN!Total, AN!Metrics
<1>3. AN!MessagesCounted'
  <2>1. /\ s1' = s1 /\ s2' = s2 /\ s5'.period = s5.period /\ s5'.low = s5.low
        /\ UNCHANGED <<s6, s11, s12, s14, s15>>
    BY DEF AN!Read, AN!AnalyticsInv, AN!AnalyticsShapes
  <2>2. ASSUME s5'.at = "tell"
        PROVE  /\ AN!Total(s5.read)' >= s5'.low
               /\ AN!Total(s5.read)' <= AN!Total(IF s5.period = "daily" THEN s1 ELSE s2)'
    BY <1>1, <1>2, <2>2 DEF AN!ReportInv, AN!AnalyticsShapes, AN!Total, AN!Metrics
  <2>3. QED
    BY <2>1, <2>2 DEF AN!AnalyticsInv, AN!MessagesCounted
<1>4. AN!DeletionInv'
  BY DEF AN!AnalyticsInv, AN!DeletionInv, AN!Behind, AN!Alone, AN!Counting, AN!Read
<1>5. QED
  BY <1>1, <1>2, <1>3, <1>4 DEF AN!AnalyticsInv

\* A report of the lifetime is done.
LEMMA AnalyticsTold == ASSUME AN!AnalyticsInv, AN!Told PROVE AN!AnalyticsInv'
<1>1. AN!AnalyticsShapes'
  BY DEF AN!AnalyticsInv, AN!AnalyticsShapes, AN!Told, AN!NoReport, AN!Zero, AN!Total, AN!Metrics
<1>2. AN!ReportInv'
  BY DEF AN!AnalyticsInv, AN!AnalyticsShapes, AN!ReportInv, AN!MessagesCounted, AN!Told, AN!NoReport, AN!Zero,
         AN!Total, AN!Metrics
<1>3. AN!MessagesCounted'
  BY DEF AN!AnalyticsInv, AN!AnalyticsShapes, AN!ReportInv, AN!MessagesCounted, AN!Told, AN!NoReport, AN!Zero,
         AN!Total, AN!Metrics
<1>4. AN!DeletionInv'
  BY DEF AN!AnalyticsInv, AN!DeletionInv, AN!Behind, AN!Alone, AN!Counting, AN!Told
<1>5. QED
  BY <1>1, <1>2, <1>3, <1>4 DEF AN!AnalyticsInv

\* A daily report is told and its counters go.
LEMMA AnalyticsPurge == ASSUME AN!AnalyticsInv, AN!Purge PROVE AN!AnalyticsInv'
<1>1. AN!AnalyticsShapes'
  BY DEF AN!AnalyticsInv, AN!AnalyticsShapes, AN!Purge, AN!NoReport, AN!Zero, AN!Total, AN!Metrics
<1>2. AN!ReportInv'
  BY DEF AN!AnalyticsInv, AN!AnalyticsShapes, AN!ReportInv, AN!MessagesCounted, AN!Purge, AN!NoReport, AN!Zero,
         AN!Total, AN!Metrics
<1>3. AN!MessagesCounted'
  BY DEF AN!AnalyticsInv, AN!AnalyticsShapes, AN!ReportInv, AN!MessagesCounted, AN!Purge, AN!NoReport, AN!Zero,
         AN!Total, AN!Metrics
<1>4. AN!DeletionInv'
  <2>1. /\ s4 \in [Handlers -> [at : {"idle", "daily", "setDaily", "lifetime", "setLifetime"}, read : Nat]]
        /\ s1["deletions"] \in Nat /\ s8 \in Nat
    BY DEF AN!AnalyticsInv, AN!AnalyticsShapes, AN!Metrics
  <2>2. /\ s1'["deletions"] = 0 /\ s2' = s2 /\ s4' = s4 /\ s8' = s8 /\ (~s13' => ~s13)
    BY DEF AN!Purge, AN!Zero, AN!Metrics
  <2>3. s1'["deletions"] \in 0..s1["deletions"]
    BY <2>1, <2>2
  <2>4. QED
    BY <2>2, <2>3, DeletionsAlone DEF AN!AnalyticsInv
<1>5. QED
  BY <1>1, <1>2, <1>3, <1>4 DEF AN!AnalyticsInv

\* The process dies, perhaps with a part of a message or of a purge on disk.
LEMMA AnalyticsCrash == ASSUME AN!AnalyticsInv, AN!Crash PROVE AN!AnalyticsInv'
<1>1. /\ s1 \in [AN!Metrics -> Nat] /\ s2 \in [AN!Metrics -> Nat]
      /\ s6 \in Nat /\ s12 \in Nat /\ s14 \in Nat /\ s11 \in Nat /\ s15 \in Nat /\ s8 \in Nat
      /\ s1["text"] \in Nat /\ s1["photo"] \in Nat /\ s2["text"] \in Nat /\ s2["photo"] \in Nat
      /\ s1["deletions"] \in Nat
      /\ s5.low \in Nat /\ s5.read["text"] \in Nat /\ s5.read["photo"] \in Nat
  BY DEF AN!AnalyticsInv, AN!AnalyticsShapes, AN!Metrics
<1>2. /\ s4' = [u \in Handlers |-> AN!Resting] /\ s5' = AN!NoReport
      /\ s2' = s2 /\ s8' = s8 /\ s12' = s12 /\ s14' = s14
      /\ (~s13' => ~s13 /\ \A u \in Handlers : s4[u] = AN!Resting)
  BY DEF AN!Crash
<1>3. PICK n \in Nat, r \in Nat, d \in Nat :
         /\ s6' = s6 + n /\ s11' = s11 + r /\ s15' = s15 + d
         /\ s1' \in [AN!Metrics -> Nat] /\ s1'["deletions"] \in 0..s1["deletions"]
         /\ n <= d
         /\ r + AN!Total(s1)' <= AN!Total(s1) + d
         /\ AN!Total(s2) <= s11 + r + AN!Total(s1)' + s14
  <2>1. CASE UNCHANGED <<s1, s2, s6, s11, s15>>
    <3>1. AN!Total(s2) <= s11 + AN!Total(s1) + s14 /\ AN!Total(s1)' = AN!Total(s1) /\ AN!Total(s1) \in Nat
      BY <1>1, <2>1 DEF AN!AnalyticsInv, AN!MessagesCounted, AN!Total
    <3>2. /\ s6' = s6 + 0 /\ s11' = s11 + 0 /\ s15' = s15 + 0 /\ s1' \in [AN!Metrics -> Nat]
          /\ s1'["deletions"] \in 0..s1["deletions"]
      BY <1>1, <2>1
    <3>3. 0 + AN!Total(s1)' <= AN!Total(s1) + 0 /\ AN!Total(s2) <= s11 + 0 + AN!Total(s1)' + s14
      BY <1>1, <3>1
    <3>4. 0 \in Nat /\ 0 <= 0
      OBVIOUS
    <3>5. QED
      BY <3>2, <3>3, <3>4
  <2>2. CASE \E media \in BOOLEAN :
                s6' = s6 + 1 /\ s1' = AN!Plus(s1, AN!Logged(media, FALSE)) /\ s15' = s15 + 1 /\ s11' = s11
    <3>1. PICK media \in BOOLEAN :
             s6' = s6 + 1 /\ s1' = AN!Plus(s1, AN!Logged(media, FALSE)) /\ s15' = s15 + 1 /\ s11' = s11
      BY <2>2
    <3>2. PICK m : m = AN!Cardinality(AN!Logged(media, FALSE) \ {"edits"})
      OBVIOUS
    <3>3. /\ s1' \in [AN!Metrics -> Nat] /\ s1'["deletions"] = s1["deletions"]
          /\ m = 1 /\ s1'["text"] + s1'["photo"] = s1["text"] + s1["photo"] + m
      <4>1. PICK edit \in BOOLEAN : edit = FALSE
        OBVIOUS
      <4>2. /\ s1' = AN!Plus(s1, AN!Logged(media, edit))
            /\ m = AN!Cardinality(AN!Logged(media, edit) \ {"edits"})
        BY <3>1, <3>2, <4>1, Zenon
      <4>3. s1 \in [AN!Metrics -> Nat]
        BY <1>1
      <4>4. /\ s1' \in [AN!Metrics -> Nat] /\ s1'["deletions"] = s1["deletions"]
            /\ m = IF edit /\ ~media THEN 0 ELSE 1
            /\ s1'["text"] + s1'["photo"] = s1["text"] + s1["photo"] + m
        BY <4>2, <4>3, LoggedOf
      <4>5. ~edit
        BY <4>1
      <4>6. QED
        BY <4>4, <4>5
    <3>4. /\ AN!Total(s2) <= s11 + AN!Total(s1) + s14 /\ AN!Total(s1)' = AN!Total(s1) + 1
          /\ AN!Total(s1) \in Nat /\ AN!Total(s2) \in Nat
      BY <1>1, <3>3 DEF AN!AnalyticsInv, AN!MessagesCounted, AN!Total
    <3>5. s6' = s6 + 1 /\ s11' = s11 + 0 /\ s15' = s15 + 1
      BY <1>1, <3>1
    <3>6. s1'["deletions"] \in 0..s1["deletions"]
      BY <1>1, <3>3
    <3>7. /\ 0 + AN!Total(s1)' <= AN!Total(s1) + 1 /\ AN!Total(s2) <= s11 + 0 + AN!Total(s1)' + s14
          /\ 0 \in Nat /\ 1 \in Nat /\ 1 <= 1
      BY <1>1, <3>4
    <3>8. QED
      BY <3>3, <3>5, <3>6, <3>7
  <2>3. CASE \E left \in SUBSET AN!Metrics :
                /\ s5.at = "tell" /\ s5.period = "daily" /\ s11' = s11 + AN!Total(s5.read)
                /\ s1' = [m \in AN!Metrics |-> IF m \in left THEN s1[m] ELSE 0]
                /\ s15' = s15 + AN!Total(s1)' /\ s6' = s6
    <3>1. PICK left \in SUBSET AN!Metrics :
                /\ s5.at = "tell" /\ s5.period = "daily" /\ s11' = s11 + AN!Total(s5.read)
                /\ s1' = [m \in AN!Metrics |-> IF m \in left THEN s1[m] ELSE 0]
                /\ s15' = s15 + AN!Total(s1)' /\ s6' = s6
      BY <2>3
    <3>2. /\ s1' \in [AN!Metrics -> Nat] /\ s1'["deletions"] \in 0..s1["deletions"]
          /\ s1'["text"] \in Nat /\ s1'["photo"] \in Nat
      BY <1>1, <3>1 DEF AN!Metrics
    <3>3. /\ AN!Total(s5.read) <= AN!Total(s1) /\ s5.low <= AN!Total(s5.read)
          /\ AN!Total(s2) <= s11 + s5.low + s14
      BY <1>1, <3>1 DEF AN!AnalyticsInv, AN!ReportInv, AN!Total
    <3>4. AN!Total(s5.read) \in Nat /\ AN!Total(s1) \in Nat /\ AN!Total(s1)' \in Nat /\ AN!Total(s2) \in Nat
      BY <1>1, <3>2 DEF AN!Total
    <3>5. /\ s6' = s6 + 0 /\ 0 \in Nat /\ 0 <= AN!Total(s1)'
          /\ AN!Total(s5.read) + AN!Total(s1)' <= AN!Total(s1) + AN!Total(s1)'
          /\ AN!Total(s2) <= s11 + AN!Total(s5.read) + AN!Total(s1)' + s14
      BY <1>1, <3>1, <3>3, <3>4
    <3>6. QED
      BY <3>1, <3>2, <3>4, <3>5
  <2>4. QED
    BY <2>1, <2>2, <2>3 DEF AN!Crash
<1>4. AN!AnalyticsShapes'
  <2>1. AN!Resting \in [at : {"idle", "daily", "setDaily", "lifetime", "setLifetime"}, read : Nat]
    BY DEF AN!Resting
  <2>2. AN!NoReport \in [at : {"none", "read", "tell"}, period : {"daily", "lifetime"}, read : [AN!Metrics -> Nat],
                        low : Nat, todo : {{}, {"photo"}, {"text", "photo"}}]
    BY DEF AN!NoReport, AN!Zero
  <2>3. QED
    BY <1>1, <1>2, <1>3, <2>1, <2>2 DEF AN!AnalyticsShapes
<1>5. s5'.at = "none"
  BY <1>2 DEF AN!NoReport
<1>6. AN!ReportInv'
  BY <1>5 DEF AN!ReportInv
<1>7. AN!MessagesCounted'
  <2>1. AN!Total(s1) \in Nat /\ AN!Total(s1)' \in Nat /\ AN!Total(s2) \in Nat /\ AN!Total(s2)' = AN!Total(s2)
    BY <1>1, <1>2, <1>3 DEF AN!Total, AN!Metrics
  <2>2. /\ AN!Total(s2) <= s6 + s12 /\ s6 + s12 <= AN!Total(s2) + s15
        /\ s11 + AN!Total(s1) <= AN!Total(s2) + s15
    BY DEF AN!AnalyticsInv, AN!MessagesCounted
  <2>3. QED
    BY <1>1, <1>2, <1>3, <1>5, <2>1, <2>2 DEF AN!MessagesCounted
<1>8. AN!DeletionInv'
  BY <1>2, <1>3, DeletionsEnd DEF AN!AnalyticsInv
<1>9. QED
  BY <1>4, <1>6, <1>7, <1>8 DEF AN!AnalyticsInv

\* No step of the counters, and none beside them, breaks the invariant.
LEMMA AnalyticsStep == ASSUME AN!AnalyticsInv, [AN!AnalyticsNext]_(AN!analyticsVars) PROVE AN!AnalyticsInv'
<1>1. CASE UNCHANGED AN!analyticsVars
  BY <1>1 DEF AN!analyticsVars, AN!AnalyticsInv, AN!AnalyticsShapes, AN!ReportInv, AN!MessagesCounted,
           AN!DeletionInv, AN!Behind, AN!Alone, AN!Counting
<1>2. CASE \E media, edit \in BOOLEAN : AN!Log(media, edit)
  BY <1>2, AnalyticsLog
<1>3. CASE \E u \in Handlers : AN!Deleted(u) \/ AN!ReadCounter(u) \/ AN!SetCounter(u)
  BY <1>3, AnalyticsDeleted, AnalyticsReadCounter, AnalyticsSetCounter
<1>4. CASE \E period \in {"daily", "lifetime"} : AN!Begin(period)
  BY <1>4, AnalyticsBegin
<1>5. CASE \E m \in {"text", "photo"} : AN!Read(m)
  BY <1>5, AnalyticsRead
<1>6. CASE AN!Told \/ AN!Purge \/ AN!Crash
  BY <1>6, AnalyticsTold, AnalyticsPurge, AnalyticsCrash
<1>7. QED
  BY <1>1, <1>2, <1>3, <1>4, <1>5, <1>6 DEF AN!AnalyticsNext

\* All counters are zero at first.
LEMMA AnalyticsBegins == ASSUME AN!InitAnalytics PROVE AN!AnalyticsInv
<1>1. AN!AnalyticsShapes /\ AN!ReportInv /\ AN!MessagesCounted
  BY DEF AN!InitAnalytics, AN!AnalyticsShapes, AN!ReportInv, AN!MessagesCounted, AN!NoReport, AN!Zero, AN!Resting,
         AN!Total, AN!Metrics
<1>2. AN!Counting = {}
  BY DEF AN!InitAnalytics, AN!Counting
<1>3. 0 = AN!Cardinality(AN!Counting)
  BY <1>2, FS_EmptySet, AnalyticsCardinality
<1>4. AN!DeletionInv
  <2>1. AN!Behind(0)
    BY DEF AN!InitAnalytics, AN!Behind, AN!Zero, AN!Resting, AN!Metrics
  <2>2. AN!Alone
    BY <1>2 DEF AN!InitAnalytics, AN!Alone, AN!Zero, AN!Metrics
  <2>3. QED
    BY <1>3, <2>1, <2>2 DEF AN!DeletionInv
<1>5. QED
  BY <1>1, <1>4 DEF AN!AnalyticsInv

\* A behaviour of the counters is one of the services in which the part is theirs.
LEMMA AnalyticsAlone ==
    ASSUME part = "analytics", [ServicesNext]_servicesVars
    PROVE  [AN!AnalyticsNext]_(AN!analyticsVars)
BY DEF ServicesNext, servicesVars, shared, AN!analyticsVars, SessionsMove, WizardsMove, SurveysMove,
       CaptchaMoves, RegistryMoves, DownloadMoves, UploadMoves, HubMoves, LogMoves, BackgroundMoves,
       PagesMove, MenusMove, AnalyticsMoves, VolumesMove, BroadcastMoves, WarningsMove

\* The counters, the reports that read them one by one, the purge and crashes lose no message and
\* count none twice, but for the exceptions that are counted; and deletions, each counted by two
\* calls to read and to write, are never counted twice, and once if they were alone (analytics.go).
THEOREM CountersKeep == ServicesSpec => []EverythingCounted
<1> DEFINE Inv == part = "analytics" => AN!AnalyticsInv
<1>1. ServicesInit => Inv
  BY AnalyticsBegins DEF ServicesInit
<1>2. Inv /\ [ServicesNext]_servicesVars => Inv'
  BY AnalyticsAlone, AnalyticsStep, PartStays
<1>3. Inv => EverythingCounted
  <2>1. ASSUME AN!AnalyticsInv PROVE AN!DeletionsCounted
    <3>1. s2["deletions"] \in Nat /\ s8 \in Nat
      BY <2>1 DEF AN!AnalyticsInv, AN!AnalyticsShapes, AN!Metrics
    <3>2. s2["deletions"] <= s8
      <4>1. PICK n \in Nat : AN!Behind(n)
        BY <2>1, CountingBehind DEF AN!AnalyticsInv
      <4>2. s2["deletions"] + n <= s8
        BY <4>1 DEF AN!Behind
      <4>3. QED
        BY <3>1, <4>2
    <3>3. (\A u \in Handlers : s4[u] = AN!Resting) => AN!Counting = {}
      BY DEF AN!Counting
    <3>4. QED
      BY <2>1, <3>2, <3>3 DEF AN!AnalyticsInv, AN!DeletionInv, AN!Alone, AN!DeletionsCounted
  <2>2. QED
    BY <2>1 DEF EverythingCounted, AN!AnalyticsInv
<1>4. QED
  BY <1>1, <1>2, <1>3, PTL DEF ServicesSpec

-----------------------------------------------------------------------------
(***************************************************************************)
(* The sessions.  Of the variables that the parts share they have s1 to    *)
(* s12: table, held, saves, stopped, disk, writes, saved, days, faults,    *)
(* latest, parted and mixed.  A copy that a save makes after the store is  *)
(* closed stays what was written last, because nobody writes any more      *)
(* (SavesHold in SessionStore.tla); a save that began before may overlap   *)
(* with it, and then nothing is promised.                                  *)
(***************************************************************************)
\* A save that is under way has a copy.
LEMMA SaveHasCopy ==
    ASSUME SS!SessionShapes, NEW s \in SS!Savers, s3[s].at \in {"copy", "write"}
    PROVE  s3[s] \in SS!Copies
BY DEF SS!SessionShapes, SS!SaveStates, SS!Resting

\* What copying one session makes of the saves.
LEMMA SessionCopied ==
    ASSUME SS!SessionShapes, NEW s \in SS!Savers, SS!Copy(s)
    PROVE  \E c \in Chats :
              /\ s3[s] \in SS!Copies /\ c \in s3[s].todo
              /\ s3'[s] \in SS!Copies /\ s3'[s].at = "copy" /\ s3'[s].todo = s3[s].todo \ {c}
              /\ s3'[s].copy = [s3[s].copy EXCEPT ![c] = s1[c].value]
              /\ s3' \in [SS!Savers -> SS!SaveStates] /\ \A t \in SS!Savers \ {s} : s3'[t] = s3[t]
<1>1. s3[s] \in SS!Copies /\ s3[s].at = "copy" /\ s3 \in [SS!Savers -> SS!SaveStates]
  BY SaveHasCopy DEF SS!Copy, SS!SessionShapes
<1>2. PICK c \in s3[s].todo :
         s3' = [s3 EXCEPT ![s].todo = @ \ {c}, ![s].copy[c] = s1[c].value, ![s].opaque = @ \/ s1[c].opaque]
  BY DEF SS!Copy
<1>3. c \in Chats /\ s3[s].todo \ {c} \in SUBSET Chats
  BY <1>1, <1>2 DEF SS!Copies
<1>4. PICK opaque \in BOOLEAN : opaque = (s3[s].opaque \/ s1[c].opaque)
  OBVIOUS
<1>5. s1[c].value \in SS!Values
  BY <1>3 DEF SS!SessionShapes, SS!Sessions
<1>6. s3'[s] = [s3[s] EXCEPT !.todo = s3[s].todo \ {c}, !.copy[c] = s1[c].value, !.opaque = opaque]
  BY <1>1, <1>2, <1>4
<1>7. /\ s3'[s] \in SS!Copies /\ s3'[s].at = "copy" /\ s3'[s].todo = s3[s].todo \ {c}
      /\ s3'[s].copy = [s3[s].copy EXCEPT ![c] = s1[c].value]
  <2>1. PICK save \in SS!Copies : save = s3[s]
    BY <1>1
  <2>2. PICK todo \in SUBSET Chats : todo = s3[s].todo \ {c}
    BY <1>3
  <2>3. PICK value \in SS!Values : value = s1[c].value
    BY <1>5
  <2>4. PICK new : new = s3'[s]
    OBVIOUS
  <2>5. new = [save EXCEPT !.todo = todo, !.copy[c] = value, !.opaque = opaque]
    BY <1>6, <2>1, <2>2, <2>3, <2>4, Zenon
  <2>6. new.at = save.at /\ new.todo = todo /\ new.copy = [save.copy EXCEPT ![c] = value]
    BY <2>5 DEF SS!Copies
  <2>7. new \in SS!Copies
    BY <1>3, <2>5 DEF SS!Copies
  <2>8. QED
    BY <1>1, <2>1, <2>2, <2>3, <2>4, <2>6, <2>7
<1>8. s3' \in [SS!Savers -> SS!SaveStates] /\ \A t \in SS!Savers \ {s} : s3'[t] = s3[t]
  <2>1. s3' = [s3 EXCEPT ![s] = s3'[s]]
    BY <1>1, <1>2
  <2>2. s3'[s] \in SS!SaveStates
    BY <1>7 DEF SS!SaveStates
  <2>3. QED
    BY <1>1, <2>1, <2>2
<1>9. QED
  BY <1>1, <1>2, <1>3, <1>7, <1>8

\* A handler gets the session of its chat.
LEMMA SessionGet == ASSUME SS!SessionsInv, NEW h \in Handlers, SS!Get(h) PROVE SS!SessionsInv'
<1>1. SS!SessionShapes'
  <2>1. PICK c \in Chats :
           /\ s1' = [s1 EXCEPT ![c] = IF @ = SS!Absent THEN SS!Made(0) ELSE [@ EXCEPT !.old = FALSE]]
           /\ s2' = [s2 EXCEPT ![h] = [chat |-> c, lost |-> FALSE]]
    BY DEF SS!Get
  <2>2. s1' \in [Chats -> SS!Sessions]
    <3>1. s1[c] \in SS!Sessions /\ 0 \in SS!Values
      BY PartConstants DEF SS!SessionsInv, SS!SessionShapes, SS!Values
    <3>2. [s1[c] EXCEPT !.old = FALSE] \in SS!Sessions /\ SS!Made(0) \in SS!Sessions
      BY <3>1 DEF SS!Sessions, SS!Made
    <3>3. QED
      BY <2>1, <3>2 DEF SS!SessionsInv, SS!SessionShapes
  <2>3. s2' \in [Handlers -> SS!Holds]
    BY <2>1 DEF SS!SessionsInv, SS!SessionShapes, SS!Holds
  <2>4. QED
    BY <2>2, <2>3 DEF SS!SessionsInv, SS!SessionShapes, SS!Get, SS!counters, SS!Torn
<1>2. SS!LostAreParted'
  BY PartConstants DEF SS!SessionsInv, SS!SessionsKept, SS!SessionShapes, SS!LostAreParted,
         SS!Get, SS!Sessions, SS!Holds, SS!Savers, SS!SaveStates, SS!Torn, SS!Values, SS!Free,
         SS!Absent, SS!Made, SS!counters, SS!Resting, SS!Copies
<1>3. SS!SavesHold'
  BY PartConstants DEF SS!SessionsInv, SS!SessionsKept, SS!SessionShapes, SS!SavesHold,
         SS!NextFindsLast, SS!LostAreParted, SS!Get, SS!Free, SS!Resting, SS!Savers, SS!Active,
         SS!Faithful, SS!Sessions, SS!Holds, SS!SaveStates, SS!Torn, SS!Values, SS!Absent,
         SS!Made, SS!counters, SS!Copies
<1>4. SS!NextFindsLast'
  BY PartConstants DEF SS!SessionsInv, SS!SessionsKept, SS!SessionShapes, SS!LostAreParted,
         SS!NextFindsLast, SS!Get, SS!Sessions, SS!Holds, SS!Savers, SS!SaveStates, SS!Torn,
         SS!Values, SS!Free, SS!Absent, SS!Made, SS!counters, SS!Resting, SS!Copies
<1>5. SS!FileStays'
  BY PartConstants DEF SS!SessionsInv, SS!SessionsKept, SS!SessionShapes, SS!FileStays,
         SS!Get, SS!Torn, SS!Sessions, SS!Holds, SS!Savers, SS!SaveStates, SS!Values, SS!Free,
         SS!Absent, SS!Made, SS!counters, SS!Resting, SS!Copies
<1>6. SS!CloseSaves'
  BY PartConstants DEF SS!SessionsInv, SS!SessionsKept, SS!SessionShapes, SS!SavesHold,
         SS!NextFindsLast, SS!CloseSaves, SS!Get, SS!Free, SS!Resting, SS!Savers, SS!Active,
         SS!Faithful, SS!Torn, SS!Sessions, SS!Holds, SS!SaveStates, SS!Values, SS!Absent,
         SS!Made, SS!counters, SS!Copies
<1>7. QED
  BY <1>1, <1>2, <1>3, <1>4, <1>5, <1>6 DEF SS!SessionsInv, SS!SessionsKept

\* A handler writes into its session.
LEMMA SessionSet == ASSUME SS!SessionsInv, NEW h \in Handlers, SS!Set(h) PROVE SS!SessionsInv'
<1>1. SS!SessionShapes'
  <2>1. s6' \in SS!Values /\ s6' \in Nat
    BY PartConstants DEF SS!SessionsInv, SS!SessionShapes, SS!Set, SS!Values
  <2>2. s2[h].chat \in Chats
    BY DEF SS!SessionsInv, SS!SessionShapes, SS!Set, SS!Holds, SS!Free
  <2>3. s1' \in [Chats -> SS!Sessions]
    <3>1. CASE s2[h].lost
      BY <3>1 DEF SS!SessionsInv, SS!SessionShapes, SS!Set
    <3>2. CASE ~s2[h].lost
      <4>1. PICK opaque \in BOOLEAN :
               s1' = [s1 EXCEPT ![s2[h].chat] = [value |-> s6', opaque |-> opaque \/ @.opaque, old |-> FALSE]]
        BY <3>2 DEF SS!Set
      <4>2. s1[s2[h].chat].opaque \in BOOLEAN
        BY <2>2 DEF SS!SessionsInv, SS!SessionShapes, SS!Sessions
      <4>3. [value |-> s6', opaque |-> opaque \/ s1[s2[h].chat].opaque, old |-> FALSE] \in SS!Sessions
        BY <2>1, <4>2 DEF SS!Sessions
      <4>4. QED
        BY <4>1, <4>3 DEF SS!SessionsInv, SS!SessionShapes
    <3>3. QED
      BY <3>1, <3>2
  <2>4. s10' \in [Chats -> SS!Values]
    BY <2>1 DEF SS!SessionsInv, SS!SessionShapes, SS!Set
  <2>5. QED
    BY <2>1, <2>3, <2>4 DEF SS!SessionsInv, SS!SessionShapes, SS!Set, SS!Torn
<1>2. SS!LostAreParted'
  BY PartConstants DEF SS!SessionsInv, SS!SessionsKept, SS!SessionShapes, SS!LostAreParted,
         SS!Set, SS!Sessions, SS!Holds, SS!Savers, SS!SaveStates, SS!Torn, SS!Values, SS!Free,
         SS!Resting, SS!Copies
<1>3. SS!SavesHold'
  BY PartConstants DEF SS!SessionsInv, SS!SessionsKept, SS!SessionShapes, SS!SavesHold,
         SS!NextFindsLast, SS!LostAreParted, SS!Set, SS!Free, SS!Resting, SS!Savers, SS!Active,
         SS!Faithful, SS!Sessions, SS!Holds, SS!SaveStates, SS!Torn, SS!Values, SS!Copies
<1>4. SS!NextFindsLast'
  <2>1. s2[h].chat \in Chats
    BY DEF SS!SessionsInv, SS!SessionShapes, SS!Set, SS!Holds, SS!Free
  <2>2. s10' = [s10 EXCEPT ![s2[h].chat] = s6'] /\ s11' = s11
    BY DEF SS!Set
  <2>3. CASE s2[h].lost
    BY <2>1, <2>2, <2>3 DEF SS!SessionsInv, SS!SessionShapes, SS!LostAreParted, SS!SessionsKept,
         SS!NextFindsLast, SS!Set
  <2>4. CASE ~s2[h].lost
    <3>1. PICK opaque \in BOOLEAN :
             s1' = [s1 EXCEPT ![s2[h].chat] = [value |-> s6', opaque |-> opaque \/ @.opaque, old |-> FALSE]]
      BY <2>4 DEF SS!Set
    <3>2. ASSUME NEW c \in Chats
          PROVE  /\ c = s2[h].chat => s1'[c].value = s6' /\ s10'[c] = s6'
                 /\ c # s2[h].chat => s1'[c] = s1[c] /\ s10'[c] = s10[c]
      BY <2>2, <3>1 DEF SS!SessionsInv, SS!SessionShapes
    <3>3. QED
      BY <2>2, <3>2 DEF SS!SessionsInv, SS!SessionsKept, SS!NextFindsLast
  <2>5. QED
    BY <2>3, <2>4
<1>5. SS!FileStays'
  BY PartConstants DEF SS!SessionsInv, SS!SessionsKept, SS!SessionShapes, SS!FileStays,
         SS!Set, SS!Torn, SS!Sessions, SS!Holds, SS!Savers, SS!SaveStates, SS!Values, SS!Free,
         SS!Resting, SS!Copies
<1>6. SS!CloseSaves'
  BY PartConstants DEF SS!SessionsInv, SS!SessionsKept, SS!SessionShapes, SS!SavesHold,
         SS!NextFindsLast, SS!CloseSaves, SS!Set, SS!Free, SS!Resting, SS!Savers, SS!Active,
         SS!Faithful, SS!Torn, SS!Sessions, SS!Holds, SS!SaveStates, SS!Values, SS!Copies
<1>7. QED
  BY <1>1, <1>2, <1>3, <1>4, <1>5, <1>6 DEF SS!SessionsInv, SS!SessionsKept

\* A handler ends.
LEMMA SessionLeave == ASSUME SS!SessionsInv, NEW h \in Handlers, SS!Leave(h) PROVE SS!SessionsInv'
<1>1. SS!SessionShapes'
  BY PartConstants DEF SS!SessionsInv, SS!SessionShapes, SS!Leave, SS!Sessions, SS!Holds,
         SS!Savers, SS!SaveStates, SS!Torn, SS!Values, SS!Free, SS!counters, SS!Resting, SS!Copies
<1>2. SS!LostAreParted'
  BY PartConstants DEF SS!SessionsInv, SS!SessionsKept, SS!SessionShapes, SS!LostAreParted,
         SS!Leave, SS!Sessions, SS!Holds, SS!Savers, SS!SaveStates, SS!Torn, SS!Values, SS!Free,
         SS!counters, SS!Resting, SS!Copies
<1>3. SS!SavesHold'
  BY PartConstants DEF SS!SessionsInv, SS!SessionsKept, SS!SessionShapes, SS!SavesHold,
         SS!NextFindsLast, SS!LostAreParted, SS!Leave, SS!Free, SS!Resting, SS!Savers, SS!Active,
         SS!Faithful, SS!Sessions, SS!Holds, SS!SaveStates, SS!Torn, SS!Values, SS!counters,
         SS!Copies
<1>4. SS!NextFindsLast'
  BY PartConstants DEF SS!SessionsInv, SS!SessionsKept, SS!SessionShapes, SS!LostAreParted,
         SS!NextFindsLast, SS!Leave, SS!Sessions, SS!Holds, SS!Savers, SS!SaveStates, SS!Torn,
         SS!Values, SS!Free, SS!counters, SS!Resting, SS!Copies
<1>5. SS!FileStays'
  BY PartConstants DEF SS!SessionsInv, SS!SessionsKept, SS!SessionShapes, SS!FileStays,
         SS!Leave, SS!Torn, SS!Sessions, SS!Holds, SS!Savers, SS!SaveStates, SS!Values, SS!Free,
         SS!counters, SS!Resting, SS!Copies
<1>6. SS!CloseSaves'
  BY PartConstants DEF SS!SessionsInv, SS!SessionsKept, SS!SessionShapes, SS!SavesHold,
         SS!NextFindsLast, SS!CloseSaves, SS!Leave, SS!Free, SS!Resting, SS!Savers, SS!Active,
         SS!Faithful, SS!Torn, SS!Sessions, SS!Holds, SS!SaveStates, SS!Values, SS!counters,
         SS!Copies
<1>7. QED
  BY <1>1, <1>2, <1>3, <1>4, <1>5, <1>6 DEF SS!SessionsInv, SS!SessionsKept

\* A handler clears the session of its chat.
LEMMA SessionClear == ASSUME SS!SessionsInv, NEW h \in Handlers, SS!Clear(h) PROVE SS!SessionsInv'
<1>1. SS!SessionShapes'
  <2>1. PICK c \in Chats :
           /\ s1' = [s1 EXCEPT ![c] = SS!Absent] /\ s10' = [s10 EXCEPT ![c] = 0]
           /\ s2' = [g \in Handlers |-> IF g = h THEN SS!Free
                       ELSE IF s2[g].chat = c THEN [s2[g] EXCEPT !.lost = TRUE] ELSE s2[g]]
    <3>1. s2[h].chat \in Chats
      BY DEF SS!SessionsInv, SS!SessionShapes, SS!Clear, SS!Holds, SS!Free
    <3>2. QED
      BY <3>1 DEF SS!Clear
  <2>2. s1' \in [Chats -> SS!Sessions] /\ s10' \in [Chats -> SS!Values]
    BY <2>1, PartConstants DEF SS!SessionsInv, SS!SessionShapes, SS!Sessions, SS!Absent, SS!Values
  <2>3. ASSUME NEW g \in Handlers
        PROVE  s2'[g] \in SS!Holds
    <3>1. s2[g] \in SS!Holds /\ SS!Free \in SS!Holds
      BY DEF SS!SessionsInv, SS!SessionShapes, SS!Holds
    <3>2. s2[g].chat = c => [s2[g] EXCEPT !.lost = TRUE] \in SS!Holds
      BY <3>1 DEF SS!Holds, SS!Free
    <3>3. QED
      BY <2>1, <3>1, <3>2
  <2>4. s2' \in [Handlers -> SS!Holds]
    BY <2>1, <2>3
  <2>5. QED
    BY <2>2, <2>4 DEF SS!SessionsInv, SS!SessionShapes, SS!Clear, SS!counters, SS!Torn
<1>2. SS!LostAreParted'
  BY PartConstants DEF SS!SessionsInv, SS!SessionsKept, SS!SessionShapes, SS!LostAreParted,
         SS!Clear, SS!Sessions, SS!Holds, SS!Savers, SS!SaveStates, SS!Torn, SS!Values, SS!Free,
         SS!Absent, SS!counters, SS!Resting, SS!Copies
<1>3. SS!SavesHold'
  BY PartConstants DEF SS!SessionsInv, SS!SessionsKept, SS!SessionShapes, SS!SavesHold,
         SS!NextFindsLast, SS!LostAreParted, SS!Clear, SS!Free, SS!Resting, SS!Savers, SS!Active,
         SS!Faithful, SS!Sessions, SS!Holds, SS!SaveStates, SS!Torn, SS!Values, SS!Absent,
         SS!counters, SS!Copies
<1>4. SS!NextFindsLast'
  BY PartConstants DEF SS!SessionsInv, SS!SessionsKept, SS!SessionShapes, SS!LostAreParted,
         SS!NextFindsLast, SS!Clear, SS!Sessions, SS!Holds, SS!Savers, SS!SaveStates, SS!Torn,
         SS!Values, SS!Free, SS!Absent, SS!counters, SS!Resting, SS!Copies
<1>5. SS!FileStays'
  BY PartConstants DEF SS!SessionsInv, SS!SessionsKept, SS!SessionShapes, SS!FileStays,
         SS!Clear, SS!Torn, SS!Sessions, SS!Holds, SS!Savers, SS!SaveStates, SS!Values, SS!Free,
         SS!Absent, SS!counters, SS!Resting, SS!Copies
<1>6. SS!CloseSaves'
  BY PartConstants DEF SS!SessionsInv, SS!SessionsKept, SS!SessionShapes, SS!SavesHold,
         SS!NextFindsLast, SS!CloseSaves, SS!Clear, SS!Free, SS!Resting, SS!Savers, SS!Active,
         SS!Faithful, SS!Torn, SS!Sessions, SS!Holds, SS!SaveStates, SS!Values, SS!Absent,
         SS!counters, SS!Copies
<1>7. QED
  BY <1>1, <1>2, <1>3, <1>4, <1>5, <1>6 DEF SS!SessionsInv, SS!SessionsKept

\* A day without any use.
LEMMA SessionDay == ASSUME SS!SessionsInv, SS!Day PROVE SS!SessionsInv'
<1>1. SS!SessionShapes'
  BY PartConstants DEF SS!SessionsInv, SS!SessionShapes, SS!Day, SS!Sessions, SS!Holds,
         SS!Savers, SS!SaveStates, SS!Torn, SS!Values, SS!Free, SS!Resting, SS!Copies
<1>2. SS!LostAreParted'
  BY PartConstants DEF SS!SessionsInv, SS!SessionsKept, SS!SessionShapes, SS!LostAreParted,
         SS!Day, SS!Sessions, SS!Holds, SS!Savers, SS!SaveStates, SS!Torn, SS!Values, SS!Free,
         SS!Resting, SS!Copies
<1>3. SS!SavesHold'
  BY PartConstants DEF SS!SessionsInv, SS!SessionsKept, SS!SessionShapes, SS!SavesHold,
         SS!NextFindsLast, SS!LostAreParted, SS!Day, SS!Free, SS!Resting, SS!Savers, SS!Active,
         SS!Faithful, SS!Sessions, SS!Holds, SS!SaveStates, SS!Torn, SS!Values, SS!Copies
<1>4. SS!NextFindsLast'
  BY PartConstants DEF SS!SessionsInv, SS!SessionsKept, SS!SessionShapes, SS!LostAreParted,
         SS!NextFindsLast, SS!Day, SS!Sessions, SS!Holds, SS!Savers, SS!SaveStates, SS!Torn,
         SS!Values, SS!Free, SS!Resting, SS!Copies
<1>5. SS!FileStays'
  BY PartConstants DEF SS!SessionsInv, SS!SessionsKept, SS!SessionShapes, SS!FileStays,
         SS!Day, SS!Torn, SS!Sessions, SS!Holds, SS!Savers, SS!SaveStates, SS!Values, SS!Free,
         SS!Resting, SS!Copies
<1>6. SS!CloseSaves'
  BY PartConstants DEF SS!SessionsInv, SS!SessionsKept, SS!SessionShapes, SS!SavesHold,
         SS!NextFindsLast, SS!CloseSaves, SS!Day, SS!Free, SS!Resting, SS!Savers, SS!Active,
         SS!Faithful, SS!Torn, SS!Sessions, SS!Holds, SS!SaveStates, SS!Values, SS!Copies
<1>7. QED
  BY <1>1, <1>2, <1>3, <1>4, <1>5, <1>6 DEF SS!SessionsInv, SS!SessionsKept

\* An idle session goes.
LEMMA SessionCleanUp == ASSUME SS!SessionsInv, NEW c \in Chats, SS!CleanUp(c) PROVE SS!SessionsInv'
<1>1. SS!SessionShapes'
  BY PartConstants DEF SS!SessionsInv, SS!SessionShapes, SS!CleanUp, SS!Sessions, SS!Holds,
         SS!Savers, SS!SaveStates, SS!Torn, SS!Values, SS!Resting, SS!Absent, SS!counters,
         SS!Free, SS!Copies
<1>2. SS!LostAreParted'
  BY PartConstants DEF SS!SessionsInv, SS!SessionsKept, SS!SessionShapes, SS!LostAreParted,
         SS!CleanUp, SS!Sessions, SS!Holds, SS!Savers, SS!SaveStates, SS!Torn, SS!Values,
         SS!Resting, SS!Absent, SS!counters, SS!Free, SS!Copies
<1>3. SS!SavesHold'
  BY PartConstants DEF SS!SessionsInv, SS!SessionsKept, SS!SessionShapes, SS!SavesHold,
         SS!NextFindsLast, SS!LostAreParted, SS!CleanUp, SS!Free, SS!Resting, SS!Savers,
         SS!Active, SS!Faithful, SS!Sessions, SS!Holds, SS!SaveStates, SS!Torn, SS!Values,
         SS!Absent, SS!counters, SS!Copies
<1>4. SS!NextFindsLast'
  BY PartConstants DEF SS!SessionsInv, SS!SessionsKept, SS!SessionShapes, SS!LostAreParted,
         SS!NextFindsLast, SS!CleanUp, SS!Sessions, SS!Holds, SS!Savers, SS!SaveStates, SS!Torn,
         SS!Values, SS!Resting, SS!Absent, SS!counters, SS!Free, SS!Copies
<1>5. SS!FileStays'
  BY PartConstants DEF SS!SessionsInv, SS!SessionsKept, SS!SessionShapes, SS!FileStays,
         SS!CleanUp, SS!Torn, SS!Sessions, SS!Holds, SS!Savers, SS!SaveStates, SS!Values,
         SS!Resting, SS!Absent, SS!counters, SS!Free, SS!Copies
<1>6. SS!CloseSaves'
  BY PartConstants DEF SS!SessionsInv, SS!SessionsKept, SS!SessionShapes, SS!SavesHold,
         SS!NextFindsLast, SS!CloseSaves, SS!CleanUp, SS!Free, SS!Resting, SS!Savers, SS!Active,
         SS!Faithful, SS!Torn, SS!Sessions, SS!Holds, SS!SaveStates, SS!Values, SS!Absent,
         SS!counters, SS!Copies
<1>7. QED
  BY <1>1, <1>2, <1>3, <1>4, <1>5, <1>6 DEF SS!SessionsInv, SS!SessionsKept

\* A save begins.
LEMMA SessionBegin == ASSUME SS!SessionsInv, NEW s \in SS!Savers, SS!Begin(s) PROVE SS!SessionsInv'
<1>1. SS!SessionShapes'
  BY PartConstants DEF SS!SessionsInv, SS!SessionShapes, SS!Begin, SS!Sessions, SS!Holds,
         SS!Savers, SS!SaveStates, SS!Torn, SS!Values, SS!Resting, SS!None, SS!Over, SS!Free,
         SS!Copies
<1>2. SS!LostAreParted'
  BY PartConstants DEF SS!SessionsInv, SS!SessionsKept, SS!SessionShapes, SS!LostAreParted,
         SS!Begin, SS!Sessions, SS!Holds, SS!Savers, SS!SaveStates, SS!Torn, SS!Values,
         SS!Resting, SS!None, SS!Over, SS!Free, SS!Copies
<1>3. SS!SavesHold'
  BY PartConstants DEF SS!SessionsInv, SS!SessionsKept, SS!SessionShapes, SS!SavesHold,
         SS!NextFindsLast, SS!LostAreParted, SS!Begin, SS!Free, SS!Resting, SS!Savers, SS!Active,
         SS!Faithful, SS!Sessions, SS!Holds, SS!SaveStates, SS!Torn, SS!Values, SS!None, SS!Over,
         SS!Copies
<1>4. SS!NextFindsLast'
  BY PartConstants DEF SS!SessionsInv, SS!SessionsKept, SS!SessionShapes, SS!LostAreParted,
         SS!NextFindsLast, SS!Begin, SS!Sessions, SS!Holds, SS!Savers, SS!SaveStates, SS!Torn,
         SS!Values, SS!Resting, SS!None, SS!Over, SS!Free, SS!Copies
<1>5. SS!FileStays'
  BY PartConstants DEF SS!SessionsInv, SS!SessionsKept, SS!SessionShapes, SS!FileStays,
         SS!Begin, SS!Torn, SS!Sessions, SS!Holds, SS!Savers, SS!SaveStates, SS!Values,
         SS!Resting, SS!None, SS!Over, SS!Free, SS!Copies
<1>6. SS!CloseSaves'
  BY PartConstants DEF SS!SessionsInv, SS!SessionsKept, SS!SessionShapes, SS!SavesHold,
         SS!NextFindsLast, SS!CloseSaves, SS!Begin, SS!Free, SS!Resting, SS!Savers, SS!Active,
         SS!Faithful, SS!Torn, SS!Sessions, SS!Holds, SS!SaveStates, SS!Values, SS!None, SS!Over,
         SS!Copies
<1>7. QED
  BY <1>1, <1>2, <1>3, <1>4, <1>5, <1>6 DEF SS!SessionsInv, SS!SessionsKept

\* A save copies a session.
LEMMA SessionCopy == ASSUME SS!SessionsInv, NEW s \in SS!Savers, SS!Copy(s) PROVE SS!SessionsInv'
<1>1. SS!SessionShapes'
  <2>1. s3' \in [SS!Savers -> SS!SaveStates]
    BY SessionCopied DEF SS!SessionsInv
  <2>2. QED
    BY <2>1 DEF SS!SessionsInv, SS!SessionShapes, SS!Copy, SS!counters, SS!Torn
<1>2. SS!LostAreParted'
  BY PartConstants DEF SS!SessionsInv, SS!SessionsKept, SS!SessionShapes, SS!LostAreParted,
         SS!Copy, SS!Sessions, SS!Holds, SS!Savers, SS!SaveStates, SS!Torn, SS!Values,
         SS!counters, SS!Free, SS!Resting, SS!Copies
<1>3. SS!SavesHold'
  <2>1. PICK c \in Chats :
           /\ s3[s] \in SS!Copies /\ c \in s3[s].todo
           /\ s3'[s] \in SS!Copies /\ s3'[s].at = "copy" /\ s3'[s].todo = s3[s].todo \ {c}
           /\ s3'[s].copy = [s3[s].copy EXCEPT ![c] = s1[c].value]
           /\ \A t \in SS!Savers \ {s} : s3'[t] = s3[t]
    BY SessionCopied DEF SS!SessionsInv
  <2>2. /\ s1' = s1 /\ s2' = s2 /\ s4' = s4 /\ s10' = s10 /\ s11' = s11 /\ s12' = s12 /\ s3[s].at = "copy"
    BY DEF SS!Copy
  <2>3. s3[s].copy \in [Chats -> SS!Values]
    BY <2>1 DEF SS!Copies
  <2>4. /\ SS!Active(s) /\ SS!Active(s)' /\ \A t \in SS!Savers \ {s} : SS!Active(t)' = SS!Active(t)
    BY <2>1, <2>2 DEF SS!Active
  <2>5. SS!Faithful(s) => SS!Faithful(s)'
    BY <2>1, <2>2, <2>3 DEF SS!SessionsInv, SS!SessionsKept, SS!NextFindsLast, SS!Faithful
  <2>6. \A t \in SS!Savers \ {s} : SS!Faithful(t) => SS!Faithful(t)'
    BY <2>1, <2>2 DEF SS!Faithful
  <2>7. s3["closer"]' # SS!Resting => s3["closer"] # SS!Resting
    <3>1. CASE s = "closer"
      BY <2>2, <3>1 DEF SS!Resting
    <3>2. CASE s # "closer"
      BY <2>1, <3>2 DEF SS!Savers
    <3>3. QED
      BY <3>1, <3>2
  <2>8. QED
    BY <2>1, <2>2, <2>4, <2>5, <2>6, <2>7 DEF SS!SessionsInv, SS!SavesHold, SS!Savers
<1>4. SS!NextFindsLast'
  BY PartConstants DEF SS!SessionsInv, SS!SessionsKept, SS!SessionShapes, SS!LostAreParted,
         SS!NextFindsLast, SS!Copy, SS!Sessions, SS!Holds, SS!Savers, SS!SaveStates, SS!Torn,
         SS!Values, SS!counters, SS!Free, SS!Resting, SS!Copies
<1>5. SS!FileStays'
  BY PartConstants DEF SS!SessionsInv, SS!SessionsKept, SS!SessionShapes, SS!FileStays,
         SS!Copy, SS!Torn, SS!Sessions, SS!Holds, SS!Savers, SS!SaveStates, SS!Values,
         SS!counters, SS!Free, SS!Resting, SS!Copies
<1>6. SS!CloseSaves'
  BY PartConstants DEF SS!SessionsInv, SS!SessionsKept, SS!SessionShapes, SS!SavesHold,
         SS!NextFindsLast, SS!CloseSaves, SS!Copy, SS!Free, SS!Resting, SS!Savers, SS!Active,
         SS!Faithful, SS!Torn, SS!Sessions, SS!Holds, SS!SaveStates, SS!Values, SS!counters,
         SS!Copies
<1>7. QED
  BY <1>1, <1>2, <1>3, <1>4, <1>5, <1>6 DEF SS!SessionsInv, SS!SessionsKept

\* A save is encoded.
LEMMA SessionEncode == ASSUME SS!SessionsInv, NEW s \in SS!Savers, SS!Encode(s) PROVE SS!SessionsInv'
<1>1. SS!SessionShapes'
  BY PartConstants DEF SS!SessionsInv, SS!SessionShapes, SS!Encode, SS!Sessions, SS!Holds,
         SS!Savers, SS!SaveStates, SS!Torn, SS!Values, SS!Resting, SS!counters, SS!Free, SS!Copies
<1>2. SS!LostAreParted'
  BY PartConstants DEF SS!SessionsInv, SS!SessionsKept, SS!SessionShapes, SS!LostAreParted,
         SS!Encode, SS!Sessions, SS!Holds, SS!Savers, SS!SaveStates, SS!Torn, SS!Values,
         SS!Resting, SS!counters, SS!Free, SS!Copies
<1>3. SS!SavesHold'
  BY PartConstants DEF SS!SessionsInv, SS!SessionsKept, SS!SessionShapes, SS!SavesHold,
         SS!NextFindsLast, SS!LostAreParted, SS!Encode, SS!Free, SS!Resting, SS!Savers, SS!Active,
         SS!Faithful, SS!Sessions, SS!Holds, SS!SaveStates, SS!Torn, SS!Values, SS!counters,
         SS!Copies
<1>4. SS!NextFindsLast'
  BY PartConstants DEF SS!SessionsInv, SS!SessionsKept, SS!SessionShapes, SS!LostAreParted,
         SS!NextFindsLast, SS!Encode, SS!Sessions, SS!Holds, SS!Savers, SS!SaveStates, SS!Torn,
         SS!Values, SS!Resting, SS!counters, SS!Free, SS!Copies
<1>5. SS!FileStays'
  BY PartConstants DEF SS!SessionsInv, SS!SessionsKept, SS!SessionShapes, SS!FileStays,
         SS!Encode, SS!Torn, SS!Sessions, SS!Holds, SS!Savers, SS!SaveStates, SS!Values,
         SS!Resting, SS!counters, SS!Free, SS!Copies
<1>6. SS!CloseSaves'
  BY PartConstants DEF SS!SessionsInv, SS!SessionsKept, SS!SessionShapes, SS!SavesHold,
         SS!NextFindsLast, SS!CloseSaves, SS!Encode, SS!Free, SS!Resting, SS!Savers, SS!Active,
         SS!Faithful, SS!Torn, SS!Sessions, SS!Holds, SS!SaveStates, SS!Values, SS!counters,
         SS!Copies
<1>7. QED
  BY <1>1, <1>2, <1>3, <1>4, <1>5, <1>6 DEF SS!SessionsInv, SS!SessionsKept

\* A save replaces the file, or fails to.
LEMMA SessionReplace == ASSUME SS!SessionsInv, NEW s \in SS!Savers, SS!Replace(s) PROVE SS!SessionsInv'
<1>1. SS!SessionShapes'
  <2>1. s3[s].copy \in [Chats -> SS!Values]
    BY SaveHasCopy DEF SS!SessionsInv, SS!Replace, SS!Copies
  <2>2. s3' \in [SS!Savers -> SS!SaveStates]
    BY DEF SS!SessionsInv, SS!SessionShapes, SS!Replace, SS!SaveStates
  <2>3. (s5 = SS!Torn \/ s5 \in [Chats -> SS!Values])'
    <3>1. s5' = s3[s].copy \/ s5' = s5 \/ s5' = SS!Torn
      BY DEF SS!Replace
    <3>2. SS!Torn' = SS!Torn
      BY DEF SS!Torn
    <3>3. QED
      BY <2>1, <3>1, <3>2 DEF SS!SessionsInv, SS!SessionShapes
  <2>4. s9' \in Nat
    BY DEF SS!SessionsInv, SS!SessionShapes, SS!Replace
  <2>5. s12' \in BOOLEAN
    BY DEF SS!SessionsInv, SS!SessionShapes, SS!Replace
  <2>6. QED
    BY <2>2, <2>3, <2>4, <2>5 DEF SS!SessionsInv, SS!SessionShapes, SS!Replace, SS!Torn
<1>2. SS!LostAreParted'
  BY PartConstants DEF SS!SessionsInv, SS!SessionsKept, SS!SessionShapes, SS!LostAreParted,
         SS!Replace, SS!Sessions, SS!Holds, SS!Savers, SS!SaveStates, SS!Torn, SS!Values,
         SS!Resting, SS!Free, SS!Copies
<1>3. SS!SavesHold'
  BY PartConstants DEF SS!SessionsInv, SS!SessionsKept, SS!SessionShapes, SS!SavesHold,
         SS!NextFindsLast, SS!LostAreParted, SS!Replace, SS!Free, SS!Resting, SS!Savers,
         SS!Active, SS!Faithful, SS!Sessions, SS!Holds, SS!SaveStates, SS!Torn, SS!Values,
         SS!Copies
<1>4. SS!NextFindsLast'
  BY PartConstants DEF SS!SessionsInv, SS!SessionsKept, SS!SessionShapes, SS!LostAreParted,
         SS!NextFindsLast, SS!Replace, SS!Sessions, SS!Holds, SS!Savers, SS!SaveStates, SS!Torn,
         SS!Values, SS!Resting, SS!Free, SS!Copies
<1>5. SS!FileStays'
  BY PartConstants DEF SS!SessionsInv, SS!SessionsKept, SS!SessionShapes, SS!FileStays,
         SS!Replace, SS!Torn, SS!Sessions, SS!Holds, SS!Savers, SS!SaveStates, SS!Values,
         SS!Resting, SS!Free, SS!Copies
<1>6. SS!CloseSaves'
  BY PartConstants DEF SS!SessionsInv, SS!SessionsKept, SS!SessionShapes, SS!SavesHold,
         SS!NextFindsLast, SS!CloseSaves, SS!Replace, SS!Free, SS!Resting, SS!Savers, SS!Active,
         SS!Faithful, SS!Torn, SS!Sessions, SS!Holds, SS!SaveStates, SS!Values, SS!Copies
<1>7. QED
  BY <1>1, <1>2, <1>3, <1>4, <1>5, <1>6 DEF SS!SessionsInv, SS!SessionsKept

\* The store is closed.
LEMMA SessionClose == ASSUME SS!SessionsInv, SS!Close PROVE SS!SessionsInv'
<1>1. SS!SessionShapes'
  BY PartConstants DEF SS!SessionsInv, SS!SessionShapes, SS!Close, SS!Sessions, SS!Holds,
         SS!Savers, SS!SaveStates, SS!Torn, SS!Values, SS!Free, SS!counters, SS!Resting, SS!Copies
<1>2. SS!LostAreParted'
  BY PartConstants DEF SS!SessionsInv, SS!SessionsKept, SS!SessionShapes, SS!LostAreParted,
         SS!Close, SS!Sessions, SS!Holds, SS!Savers, SS!SaveStates, SS!Torn, SS!Values, SS!Free,
         SS!counters, SS!Resting, SS!Copies
<1>3. SS!SavesHold'
  BY PartConstants DEF SS!SessionsInv, SS!SessionsKept, SS!SessionShapes, SS!SavesHold,
         SS!NextFindsLast, SS!LostAreParted, SS!Close, SS!Free, SS!Resting, SS!Savers, SS!Active,
         SS!Faithful, SS!Sessions, SS!Holds, SS!SaveStates, SS!Torn, SS!Values, SS!counters,
         SS!Copies
<1>4. SS!NextFindsLast'
  BY PartConstants DEF SS!SessionsInv, SS!SessionsKept, SS!SessionShapes, SS!LostAreParted,
         SS!NextFindsLast, SS!Close, SS!Sessions, SS!Holds, SS!Savers, SS!SaveStates, SS!Torn,
         SS!Values, SS!Free, SS!counters, SS!Resting, SS!Copies
<1>5. SS!FileStays'
  BY PartConstants DEF SS!SessionsInv, SS!SessionsKept, SS!SessionShapes, SS!FileStays,
         SS!Close, SS!Torn, SS!Sessions, SS!Holds, SS!Savers, SS!SaveStates, SS!Values, SS!Free,
         SS!counters, SS!Resting, SS!Copies
<1>6. SS!CloseSaves'
  BY PartConstants DEF SS!SessionsInv, SS!SessionsKept, SS!SessionShapes, SS!SavesHold,
         SS!NextFindsLast, SS!CloseSaves, SS!Close, SS!Free, SS!Resting, SS!Savers, SS!Active,
         SS!Faithful, SS!Torn, SS!Sessions, SS!Holds, SS!SaveStates, SS!Values, SS!counters,
         SS!Copies
<1>7. QED
  BY <1>1, <1>2, <1>3, <1>4, <1>5, <1>6 DEF SS!SessionsInv, SS!SessionsKept

\* The loop ends.
LEMMA SessionLoopEnds == ASSUME SS!SessionsInv, SS!LoopEnds PROVE SS!SessionsInv'
<1>1. SS!SessionShapes'
  BY PartConstants DEF SS!SessionsInv, SS!SessionShapes, SS!LoopEnds, SS!Sessions, SS!Holds,
         SS!Savers, SS!SaveStates, SS!Torn, SS!Values, SS!Resting, SS!counters, SS!Free, SS!Copies
<1>2. SS!LostAreParted'
  BY PartConstants DEF SS!SessionsInv, SS!SessionsKept, SS!SessionShapes, SS!LostAreParted,
         SS!LoopEnds, SS!Sessions, SS!Holds, SS!Savers, SS!SaveStates, SS!Torn, SS!Values,
         SS!Resting, SS!counters, SS!Free, SS!Copies
<1>3. SS!SavesHold'
  BY PartConstants DEF SS!SessionsInv, SS!SessionsKept, SS!SessionShapes, SS!SavesHold,
         SS!NextFindsLast, SS!LostAreParted, SS!LoopEnds, SS!Free, SS!Resting, SS!Savers,
         SS!Active, SS!Faithful, SS!Sessions, SS!Holds, SS!SaveStates, SS!Torn, SS!Values,
         SS!counters, SS!Copies
<1>4. SS!NextFindsLast'
  BY PartConstants DEF SS!SessionsInv, SS!SessionsKept, SS!SessionShapes, SS!LostAreParted,
         SS!NextFindsLast, SS!LoopEnds, SS!Sessions, SS!Holds, SS!Savers, SS!SaveStates, SS!Torn,
         SS!Values, SS!Resting, SS!counters, SS!Free, SS!Copies
<1>5. SS!FileStays'
  BY PartConstants DEF SS!SessionsInv, SS!SessionsKept, SS!SessionShapes, SS!FileStays,
         SS!LoopEnds, SS!Torn, SS!Sessions, SS!Holds, SS!Savers, SS!SaveStates, SS!Values,
         SS!Resting, SS!counters, SS!Free, SS!Copies
<1>6. SS!CloseSaves'
  BY PartConstants DEF SS!SessionsInv, SS!SessionsKept, SS!SessionShapes, SS!SavesHold,
         SS!NextFindsLast, SS!CloseSaves, SS!LoopEnds, SS!Free, SS!Resting, SS!Savers, SS!Active,
         SS!Faithful, SS!Torn, SS!Sessions, SS!Holds, SS!SaveStates, SS!Values, SS!counters,
         SS!Copies
<1>7. QED
  BY <1>1, <1>2, <1>3, <1>4, <1>5, <1>6 DEF SS!SessionsInv, SS!SessionsKept

\* The process ends and starts anew from the file.
LEMMA SessionRestart == ASSUME SS!SessionsInv, SS!Restart PROVE SS!SessionsInv'
<1>1. SS!SessionShapes'
  <2>1. 0 \in SS!Values
    BY PartConstants DEF SS!Values
  <2>2. s10' \in [Chats -> SS!Values]
    BY <2>1 DEF SS!SessionsInv, SS!SessionShapes, SS!Restart, SS!None
  <2>3. s1' = [c \in Chats |-> IF s10'[c] = 0 THEN SS!Absent ELSE SS!Made(s10'[c])]
    BY DEF SS!Restart
  <2>4. \A v \in SS!Values : SS!Made(v) \in SS!Sessions
    BY DEF SS!Made, SS!Sessions
  <2>5. SS!Absent \in SS!Sessions
    BY <2>1 DEF SS!Absent, SS!Sessions
  <2>6. s1' \in [Chats -> SS!Sessions]
    BY <2>2, <2>3, <2>4, <2>5
  <2>7. s2' \in [Handlers -> SS!Holds] /\ s3' \in [SS!Savers -> SS!SaveStates]
    BY DEF SS!Restart, SS!Holds, SS!SaveStates
  <2>8. s9' \in Nat
    <3>1. s9 \in Nat /\ (s9' = s9 \/ s9' = s9 + 1)
      BY DEF SS!SessionsInv, SS!SessionShapes, SS!Restart
    <3>2. QED
      BY <3>1
  <2>9. s4' \in BOOLEAN /\ s12' \in BOOLEAN /\ s5' = s5 /\ s6' = s6
    BY DEF SS!Restart
  <2>10. QED
    BY <2>2, <2>6, <2>7, <2>8, <2>9 DEF SS!SessionsInv, SS!SessionShapes, SS!Torn
<1>2. SS!LostAreParted'
  BY PartConstants DEF SS!SessionsInv, SS!SessionsKept, SS!SessionShapes, SS!LostAreParted,
         SS!Restart, SS!Sessions, SS!Holds, SS!Savers, SS!SaveStates, SS!Torn, SS!Values,
         SS!Ended, SS!None, SS!Absent, SS!Made, SS!Free, SS!Resting, SS!Copies
<1>3. SS!SavesHold'
  BY PartConstants DEF SS!SessionsInv, SS!SessionsKept, SS!SessionShapes, SS!SavesHold,
         SS!NextFindsLast, SS!LostAreParted, SS!Restart, SS!Free, SS!Resting, SS!Savers,
         SS!Active, SS!Faithful, SS!Sessions, SS!Holds, SS!SaveStates, SS!Torn, SS!Values,
         SS!Ended, SS!None, SS!Absent, SS!Made, SS!Copies
<1>4. SS!NextFindsLast'
  BY PartConstants DEF SS!SessionsInv, SS!SessionsKept, SS!SessionShapes, SS!LostAreParted,
         SS!NextFindsLast, SS!Restart, SS!Sessions, SS!Holds, SS!Savers, SS!SaveStates, SS!Torn,
         SS!Values, SS!Ended, SS!None, SS!Absent, SS!Made, SS!Free, SS!Resting, SS!Copies
<1>5. SS!FileStays'
  BY PartConstants DEF SS!SessionsInv, SS!SessionsKept, SS!SessionShapes, SS!FileStays,
         SS!Restart, SS!Torn, SS!Sessions, SS!Holds, SS!Savers, SS!SaveStates, SS!Values,
         SS!Ended, SS!None, SS!Absent, SS!Made, SS!Free, SS!Resting, SS!Copies
<1>6. SS!CloseSaves'
  BY PartConstants DEF SS!SessionsInv, SS!SessionsKept, SS!SessionShapes, SS!SavesHold,
         SS!NextFindsLast, SS!CloseSaves, SS!Restart, SS!Free, SS!Resting, SS!Savers, SS!Active,
         SS!Faithful, SS!Torn, SS!Sessions, SS!Holds, SS!SaveStates, SS!Values, SS!Ended, SS!None,
         SS!Absent, SS!Made, SS!Copies
<1>7. QED
  BY <1>1, <1>2, <1>3, <1>4, <1>5, <1>6 DEF SS!SessionsInv, SS!SessionsKept

\* No step of the sessions, and none beside them, breaks the invariant.
LEMMA SessionStep == ASSUME SS!SessionsInv, [SS!SessionsNext]_(SS!sessionVars) PROVE SS!SessionsInv'
<1>1. CASE UNCHANGED SS!sessionVars
  BY <1>1 DEF SS!sessionVars, SS!SessionsInv, SS!SessionShapes, SS!Torn, SS!LostAreParted, SS!SavesHold, SS!Active,
           SS!Faithful, SS!SessionsKept, SS!NextFindsLast, SS!FileStays, SS!CloseSaves
<1>2. CASE \E h \in Handlers : SS!Get(h) \/ SS!Set(h) \/ SS!Leave(h) \/ SS!Clear(h)
  BY <1>2, SessionGet, SessionSet, SessionLeave, SessionClear
<1>3. CASE \E c \in Chats : SS!CleanUp(c)
  BY <1>3, SessionCleanUp
<1>4. CASE \E s \in SS!Savers : SS!Begin(s) \/ SS!Copy(s) \/ SS!Encode(s) \/ SS!Replace(s)
  BY <1>4, SessionBegin, SessionCopy, SessionEncode, SessionReplace
<1>5. CASE SS!Day \/ SS!Close \/ SS!LoopEnds \/ SS!Restart
  BY <1>5, SessionDay, SessionClose, SessionLoopEnds, SessionRestart
<1>6. QED
  BY <1>1, <1>2, <1>3, <1>4, <1>5 DEF SS!SessionsNext

\* There are no sessions at first.
LEMMA SessionBegins == ASSUME SS!InitSessions PROVE SS!SessionsInv
<1>1. SS!SessionShapes
  <2>1. 0 \in SS!Values
    BY PartConstants DEF SS!Values
  <2>2. s1 \in [Chats -> SS!Sessions] /\ s10 \in [Chats -> SS!Values] /\ s5 \in [Chats -> SS!Values]
    BY <2>1 DEF SS!InitSessions, SS!Sessions, SS!Absent, SS!None
  <2>3. s2 \in [Handlers -> SS!Holds] /\ s3 \in [SS!Savers -> SS!SaveStates]
    BY DEF SS!InitSessions, SS!Holds, SS!SaveStates
  <2>4. s4 \in BOOLEAN /\ s12 \in BOOLEAN /\ s6 \in SS!Values /\ s9 \in Nat
    BY <2>1 DEF SS!InitSessions
  <2>5. QED
    BY <2>2, <2>3, <2>4 DEF SS!SessionShapes
<1>2. SS!LostAreParted /\ SS!SavesHold
  BY DEF SS!InitSessions, SS!LostAreParted, SS!SavesHold, SS!Active, SS!Faithful, SS!Free, SS!Resting, SS!Savers
<1>3. SS!NextFindsLast /\ SS!CloseSaves
  BY DEF SS!InitSessions, SS!NextFindsLast, SS!CloseSaves, SS!Absent, SS!None, SS!Resting, SS!Savers
<1>4. SS!FileStays
  <2>1. PICK c \in Chats : TRUE
    BY PartConstants
  <2>2. SS!None[c] = 0 /\ SS!Torn[c] = MaxWrites + 1 /\ MaxWrites + 1 # 0
    BY PartConstants DEF SS!None, SS!Torn
  <2>3. QED
    BY <2>2 DEF SS!InitSessions, SS!FileStays
<1>5. QED
  BY <1>1, <1>2, <1>3, <1>4 DEF SS!SessionsInv, SS!SessionsKept

\* A behaviour of the sessions is one of the services in which the part is theirs.
LEMMA SessionsAlone ==
    ASSUME part = "sessions", [ServicesNext]_servicesVars
    PROVE  [SS!SessionsNext]_(SS!sessionVars)
BY DEF ServicesNext, servicesVars, shared, SS!sessionVars, SessionsMove, WizardsMove, SurveysMove,
       CaptchaMoves, RegistryMoves, DownloadMoves, UploadMoves, HubMoves, LogMoves, BackgroundMoves,
       PagesMove, MenusMove, AnalyticsMoves, VolumesMove, BroadcastMoves, WarningsMove

\* While handlers use sessions, clear them, and the loop cleans up and saves: who comes next finds
\* what was written last, nothing but a failed write spoils the file, and what Close saves is what
\* was written last, unless saves overlapped (session.go).
THEOREM SessionsAreKept == ServicesSpec => []SessionsKept
<1> DEFINE Inv == part = "sessions" => SS!SessionsInv
<1>1. ServicesInit => Inv
  BY SessionBegins DEF ServicesInit
<1>2. Inv /\ [ServicesNext]_servicesVars => Inv'
  BY SessionsAlone, SessionStep, PartStays
<1>3. Inv => SessionsKept
  BY DEF SessionsKept, SS!SessionsInv
<1>4. QED
  BY <1>1, <1>2, <1>3, PTL DEF ServicesSpec

-----------------------------------------------------------------------------
(***************************************************************************)
(* The background: goroutines of a context and the purges they run.  A     *)
(* purge in a wave has deleted what lies above the wave and what it asked  *)
(* for of the wave itself, and wants no more than its target less that.    *)
(***************************************************************************)
\* The counts of the instanced module are those of the standard one.
LEMMA BackgroundCounts ==
    ASSUME NEW S
    PROVE  BG!Cardinality(S) = Cardinality(S) /\ (BG!IsFiniteSet(S) <=> IsFiniteSet(S))
BY DEF BG!Cardinality, Cardinality, BG!IsFiniteSet, IsFiniteSet

\* One more member, and what lies within a set.
LEMMA BackgroundAdds ==
    ASSUME NEW S, NEW x, BG!IsFiniteSet(S)
    PROVE  BG!IsFiniteSet(S \cup {x}) /\ BG!Cardinality(S \cup {x}) \in {BG!Cardinality(S), BG!Cardinality(S) + 1}
<1>1. IsFiniteSet(S)
  BY BackgroundCounts
<1>2. /\ IsFiniteSet(S \cup {x})
      /\ Cardinality(S \cup {x}) = Cardinality(S) \/ Cardinality(S \cup {x}) = Cardinality(S) + 1
  BY <1>1, FS_AddElement
<1>3. BG!IsFiniteSet(S \cup {x})
  BY <1>2, BackgroundCounts
<1>4. BG!Cardinality(S) = Cardinality(S) /\ BG!Cardinality(S \cup {x}) = Cardinality(S \cup {x})
  BY BackgroundCounts
<1>5. QED
  BY <1>2, <1>3, <1>4

LEMMA BackgroundWithin ==
    ASSUME NEW S, NEW T, BG!IsFiniteSet(S)
    PROVE  /\ BG!IsFiniteSet(T \cap S) /\ BG!Cardinality(T \cap S) \in Nat /\ BG!Cardinality(S) \in Nat
           /\ BG!Cardinality(T \cap S) <= BG!Cardinality(S)
<1>1. IsFiniteSet(S) /\ T \cap S \in SUBSET S
  BY BackgroundCounts
<1>2. IsFiniteSet(T \cap S) /\ Cardinality(T \cap S) <= Cardinality(S)
  BY <1>1, FS_Subset
<1>3. Cardinality(T \cap S) \in Nat /\ Cardinality(S) \in Nat
  BY <1>1, <1>2, FS_CardinalityType
<1>4. BG!Cardinality(S) = Cardinality(S) /\ BG!Cardinality(T \cap S) = Cardinality(T \cap S)
  BY BackgroundCounts
<1>5. BG!IsFiniteSet(T \cap S)
  BY <1>2, BackgroundCounts
<1>6. QED
  BY <1>2, <1>3, <1>4, <1>5

\* The tasks that hold a place are finitely many.
LEMMA RunningFinite == BG!IsFiniteSet(BG!Running) /\ BG!Cardinality(BG!Running) \in Nat
<1>1. BG!Running \in SUBSET Handlers
  BY DEF BG!Running
<1>2. QED
  BY <1>1, ServicesAssumption, FS_Subset, FS_CardinalityType, BackgroundCounts

\* How many places are taken.
LEMMA TakenIs ==
    ASSUME BG!IsFiniteSet(s5)
    PROVE  \E n, m \in Nat : n = BG!Cardinality(BG!Running) /\ m = BG!Cardinality(s5) /\ BG!Taken = n + m
<1>1. BG!Cardinality(s5) \in Nat
  BY FS_CardinalityType, BackgroundCounts
<1>2. QED
  BY <1>1, RunningFinite DEF BG!Taken, BG!Running

\* The steps of tasks leave the purges alone.
LEMMA PurgesStay ==
    ASSUME BG!PurgesExact, UNCHANGED <<s3, s4, s5, s6>>
    PROVE  BG!PurgesExact'
<1>1. ASSUME NEW p
      PROVE  BG!WaveExact(p, s4[p]) => BG!WaveExact(p, s4[p])'
  BY DEF BG!WaveExact, BG!Above, BG!AtWave, BG!Asked, BG!Wave
<1>2. ASSUME NEW p
      PROVE  BG!OverExact(s4[p]) => BG!OverExact(s4[p])'
  BY DEF BG!OverExact, BG!Above
<1>3. QED
  BY <1>1, <1>2 DEF BG!PurgesExact

\* The steps of purges leave the tasks alone.
LEMMA TasksStay ==
    ASSUME BG!Nested, UNCHANGED <<s1, s2>>
    PROVE  BG!Nested' /\ BG!Running' = BG!Running
BY DEF BG!Nested, BG!Waits, BG!Running, BG!Runs

\* A task, or a handler, calls Go.
LEMMA BackgroundCall == ASSUME BG!BackgroundInv, NEW t \in Handlers, BG!Call(t) PROVE BG!BackgroundInv'
<1>1. BG!PurgesExact' /\ s3' = s3 /\ s4' = s4 /\ s5' = s5 /\ s6' = s6
  BY PurgesStay DEF BG!BackgroundInv, BG!Call
<1>2. CASE s1' = [s1 EXCEPT ![t] = "waits"] /\ s2' = s2
  <2>1. s2[t] = "handler" /\ s1[t] = "new" /\ s1'[t] = "waits" /\ \A u \in Handlers \ {t} : s1'[u] = s1[u]
    BY <1>2 DEF BG!BackgroundInv, BG!Nested, BG!Call
  <2>2. s1' \in [Handlers -> {"new", "waits", "runs", "calls", "over"}]
    BY <1>2 DEF BG!BackgroundInv, BG!Nested
  <2>3. \A u \in Handlers : s1'[u] = "calls" => BG!Waits(u)'
    BY <1>2, <2>1 DEF BG!BackgroundInv, BG!Nested, BG!Waits
  <2>4. BG!Nested'
    BY <1>2, <2>1, <2>2, <2>3, ServicesAssumption DEF BG!BackgroundInv, BG!Nested
  <2>5. BG!Running' = BG!Running
    BY <2>1 DEF BG!Running, BG!Runs
  <2>6. QED
    BY <1>1, <2>4, <2>5 DEF BG!BackgroundInv, BG!InRoom, BG!Taken, BG!Running
<1>3. ASSUME NEW caller \in Handlers, s1[caller] = "runs",
             s1' = [s1 EXCEPT ![t] = "waits", ![caller] = "calls"], s2' = [s2 EXCEPT ![t] = caller]
      PROVE  BG!BackgroundInv'
  <2>1. /\ s1[t] = "new" /\ t # caller /\ s1'[t] = "waits" /\ s1'[caller] = "calls" /\ s2'[t] = caller
        /\ \A u \in Handlers \ {t, caller} : s1'[u] = s1[u]
        /\ \A u \in Handlers \ {t} : s2'[u] = s2[u]
    BY <1>3 DEF BG!BackgroundInv, BG!Nested, BG!Call
  <2>2. /\ s1' \in [Handlers -> {"new", "waits", "runs", "calls", "over"}]
        /\ s2' \in [Handlers -> Handlers \cup {"handler"}]
    BY <1>3 DEF BG!BackgroundInv, BG!Nested
  <2>3. \A u \in Handlers : s1[u] = "waits" => s2[u] # caller
    BY <1>3 DEF BG!BackgroundInv, BG!Nested
  <2>4. ASSUME NEW u \in Handlers, s1'[u] = "calls"
        PROVE  BG!Waits(u)'
    <3>1. CASE u = caller
      BY <2>1, <3>1 DEF BG!Waits
    <3>2. CASE u # caller
      <4>1. PICK v \in Handlers : s1[v] = "waits" /\ s2[v] = u
        BY <2>1, <2>4, <3>2 DEF BG!BackgroundInv, BG!Nested, BG!Waits
      <4>2. v \in Handlers \ {t, caller}
        BY <1>3, <2>1, <4>1
      <4>3. QED
        BY <2>1, <2>4, <4>1, <4>2 DEF BG!Waits
    <3>3. QED
      BY <3>1, <3>2
  <2>5. /\ \A u \in Handlers : s1'[u] = "new" => s2'[u] = "handler"
        /\ \A u \in Handlers : s1'[u] = "waits" /\ s2'[u] \in Handlers => s1'[s2'[u]] = "calls"
    BY <2>1, <2>3 DEF BG!BackgroundInv, BG!Nested
  <2>6. \A v, u \in Handlers : s1'[v] = "waits" /\ s1'[u] = "waits" /\ s2'[v] = s2'[u] /\ s2'[v] \in Handlers
           => v = u
    BY <2>1, <2>3 DEF BG!BackgroundInv, BG!Nested
  <2>7. BG!Nested'
    BY <2>2, <2>4, <2>5, <2>6 DEF BG!Nested
  <2>8. BG!Running' = BG!Running
    BY <1>3, <2>1 DEF BG!Running, BG!Runs
  <2>9. QED
    BY <1>1, <2>7, <2>8 DEF BG!BackgroundInv, BG!InRoom, BG!Taken, BG!Running
<1>4. QED
  BY <1>2, <1>3 DEF BG!Call

\* A task begins, and who called Go for it goes on.
LEMMA BackgroundBegin == ASSUME BG!BackgroundInv, NEW t \in Handlers, BG!Begin(t) PROVE BG!BackgroundInv'
<1>1. BG!PurgesExact' /\ s3' = s3 /\ s4' = s4 /\ s5' = s5 /\ s6' = s6
  BY PurgesStay DEF BG!BackgroundInv, BG!Begin
<1>2. /\ s1[t] = "waits" /\ s2' = s2
      /\ \A u \in Handlers : s1'[u] = IF u = t \/ u = s2[t] THEN "runs" ELSE s1[u]
      /\ s1' = [u \in Handlers |-> s1'[u]]
  BY DEF BG!Begin
<1>3. \A u \in Handlers : u = s2[t] => s1[u] = "calls"
  BY <1>2 DEF BG!BackgroundInv, BG!Nested
<1>4. BG!Nested'
  <2>1. s1' \in [Handlers -> {"new", "waits", "runs", "calls", "over"}]
    BY <1>2 DEF BG!BackgroundInv, BG!Nested
  <2>2. ASSUME NEW u \in Handlers, s1'[u] = "calls"
        PROVE  BG!Waits(u)'
    <3>1. s1[u] = "calls" /\ u # s2[t]
      BY <1>2, <2>2
    <3>2. PICK v \in Handlers : s1[v] = "waits" /\ s2[v] = u
      BY <3>1 DEF BG!BackgroundInv, BG!Nested, BG!Waits
    <3>3. v # t /\ v # s2[t]
      BY <1>3, <3>1, <3>2
    <3>4. QED
      BY <1>2, <2>2, <3>2, <3>3 DEF BG!Waits
  <2>3. /\ \A u \in Handlers : s1'[u] = "new" => s2'[u] = "handler"
        /\ \A u \in Handlers : s1'[u] = "waits" /\ s2'[u] \in Handlers => s1'[s2'[u]] = "calls"
    BY <1>2, <1>3 DEF BG!BackgroundInv, BG!Nested
  <2>4. \A v, u \in Handlers : s1'[v] = "waits" /\ s1'[u] = "waits" /\ s2'[v] = s2'[u] /\ s2'[v] \in Handlers
           => v = u
    BY <1>2 DEF BG!BackgroundInv, BG!Nested
  <2>5. QED
    BY <1>2, <2>1, <2>2, <2>3, <2>4 DEF BG!BackgroundInv, BG!Nested
<1>5. BG!InRoom'
  <2>1. BG!Running' = BG!Running \cup {t} /\ t \notin BG!Running
    BY <1>2, <1>3 DEF BG!Running, BG!Runs
  <2>2. PICK n \in Nat, m \in Nat : n = BG!Cardinality(BG!Running) /\ m = BG!Cardinality(s5) /\ BG!Taken = n + m
    BY TakenIs DEF BG!BackgroundInv, BG!InRoom
  <2>3. BG!Cardinality(BG!Running') = n + 1
    BY <2>1, <2>2, RunningFinite, FS_AddElement, BackgroundCounts
  <2>4. n + m < Room
    BY <2>2 DEF BG!Begin, BG!Place
  <2>5. n + 1 + m <= Room
    BY <2>4, ServicesAssumption
  <2>6. BG!Taken' = n + 1 + m
    BY <1>1, <2>2, <2>3 DEF BG!Taken, BG!Running
  <2>7. QED
    BY <1>1, <2>5, <2>6 DEF BG!BackgroundInv, BG!InRoom
<1>6. QED
  BY <1>1, <1>4, <1>5 DEF BG!BackgroundInv

\* A task is over.
LEMMA BackgroundReturn == ASSUME BG!BackgroundInv, NEW t \in Handlers, BG!Return(t) PROVE BG!BackgroundInv'
<1>1. BG!PurgesExact' /\ s3' = s3 /\ s4' = s4 /\ s5' = s5 /\ s6' = s6
  BY PurgesStay DEF BG!BackgroundInv, BG!Return
<1>2. /\ s1[t] = "runs" /\ s1'[t] = "over" /\ s2' = s2 /\ \A u \in Handlers \ {t} : s1'[u] = s1[u]
      /\ s1' \in [Handlers -> {"new", "waits", "runs", "calls", "over"}]
  BY DEF BG!Return, BG!BackgroundInv, BG!Nested
<1>3. BG!Nested'
  <2>1. \A u \in Handlers : s1[u] = "waits" => s2[u] # t
    BY <1>2 DEF BG!BackgroundInv, BG!Nested
  <2>2. \A u \in Handlers : s1'[u] = "calls" => BG!Waits(u)'
    BY <1>2 DEF BG!BackgroundInv, BG!Nested, BG!Waits
  <2>3. QED
    BY <1>2, <2>1, <2>2 DEF BG!BackgroundInv, BG!Nested
<1>4. BG!InRoom'
  <2>1. BG!Running' = BG!Running \ {t} /\ t \in BG!Running
    BY <1>2 DEF BG!Running, BG!Runs
  <2>2. PICK n \in Nat, m \in Nat : n = BG!Cardinality(BG!Running) /\ m = BG!Cardinality(s5) /\ BG!Taken = n + m
    BY TakenIs DEF BG!BackgroundInv, BG!InRoom
  <2>3. BG!Cardinality(BG!Running') = n - 1
    BY <2>1, <2>2, RunningFinite, FS_RemoveElement, BackgroundCounts
  <2>4. n + m <= Room
    BY <2>2 DEF BG!BackgroundInv, BG!InRoom
  <2>5. n - 1 + m <= Room
    BY <2>4, ServicesAssumption
  <2>6. BG!Taken' = n - 1 + m
    BY <1>1, <2>2, <2>3 DEF BG!Taken, BG!Running
  <2>7. QED
    BY <1>1, <2>5, <2>6 DEF BG!BackgroundInv, BG!InRoom
<1>5. QED
  BY <1>1, <1>3, <1>4 DEF BG!BackgroundInv

\* A wave is an interval of messages, no more than it was to look at.
LEMMA WaveIs ==
    ASSUME NEW offset \in Nat, NEW remaining \in Nat
    PROVE  /\ BG!Wave(offset, remaining)
              = {id \in 1..TopId : TopId - (offset + remaining) < id /\ id <= TopId - offset}
           /\ BG!IsFiniteSet(BG!Wave(offset, remaining)) /\ BG!Cardinality(BG!Wave(offset, remaining)) <= remaining
           /\ BG!Cardinality(BG!Wave(offset, remaining)) \in Nat
<1>1. ASSUME NEW id \in 1..TopId, TopId - (offset + remaining) < id, id <= TopId - offset
      PROVE  id \in BG!Wave(offset, remaining)
  <2>1. TopId - offset - id \in 0..(remaining - 1) /\ id = TopId - offset - (TopId - offset - id)
    BY <1>1, ServicesAssumption
  <2>2. QED
    BY <2>1 DEF BG!Wave
<1>2. \A id \in BG!Wave(offset, remaining) : id \in 1..TopId /\ TopId - (offset + remaining) < id /\ id <= TopId - offset
  BY ServicesAssumption DEF BG!Wave
<1>3. BG!Wave(offset, remaining) = {id \in 1..TopId : TopId - (offset + remaining) < id /\ id <= TopId - offset}
  BY <1>1, <1>2
<1>4. PICK a \in Int, b \in Int : a = TopId - (offset + remaining) + 1 /\ b = TopId - offset
  BY ServicesAssumption
<1>5. BG!Wave(offset, remaining) \in SUBSET (a..b)
  BY <1>3, <1>4, ServicesAssumption
<1>6. BG!IsFiniteSet(a..b) /\ BG!Cardinality(a..b) = remaining
  <2>1. BG!IsFiniteSet(a..b) /\ BG!Cardinality(a..b) = IF a > b THEN 0 ELSE b - a + 1
    BY FS_Interval, BackgroundCounts
  <2>2. b - a + 1 = remaining /\ (a > b => remaining = 0)
    BY <1>4, ServicesAssumption
  <2>3. QED
    BY <2>1, <2>2
<1>7. /\ BG!IsFiniteSet(BG!Wave(offset, remaining))
      /\ BG!Cardinality(BG!Wave(offset, remaining)) <= BG!Cardinality(a..b)
      /\ BG!Cardinality(BG!Wave(offset, remaining)) \in Nat
  BY <1>5, <1>6, FS_Subset, FS_CardinalityType, BackgroundCounts
<1>8. QED
  BY <1>3, <1>6, <1>7

\* A purge begins.
LEMMA BackgroundPurge == ASSUME BG!BackgroundInv, NEW p \in Purges, BG!Purge(p) PROVE BG!BackgroundInv'
<1>1. BG!Nested' /\ BG!Running' = BG!Running
  BY TasksStay DEF BG!BackgroundInv, BG!Purge
<1>2. BG!InRoom' /\ s3' = s3 /\ s5' = s5 /\ DOMAIN s4' = Purges /\ s6' \in BOOLEAN
  BY <1>1 DEF BG!BackgroundInv, BG!InRoom, BG!Purge, BG!Taken, BG!Running
<1>3. ASSUME ~s6'
      PROVE  BG!PurgesExact'
  <2>1. /\ ~s6 /\ s4[p] = BG!Idle /\ \A q \in Purges \ {p} : s4[q].at # "wave"
        /\ \A q \in Purges \ {p} : s4'[q] = s4[q]
    BY <1>3 DEF BG!Purge, BG!BackgroundInv
  <2>2. PICK target \in Nat, wave \in SUBSET Int :
           /\ wave = BG!Wave(0, target)
           /\ s4'[p] = [at |-> "wave", target |-> target, offset |-> 0, remaining |-> target,
                            todo |-> wave, deleted |-> {}, before |-> s3]
    <3>1. PICK count \in Counts :
             s4' = [s4 EXCEPT ![p] = [at |-> "wave", target |-> BG!Clamped(count), offset |-> 0,
                            remaining |-> BG!Clamped(count), todo |-> BG!Wave(0, BG!Clamped(count)), deleted |-> {},
                            before |-> s3]]
      BY DEF BG!Purge
    <3>2. BG!Clamped(count) \in Nat
      BY ServicesAssumption DEF BG!Clamped
    <3>3. BG!Wave(0, BG!Clamped(count)) \in SUBSET Int
      BY DEF BG!Wave
    <3>4. QED
      BY <3>1, <3>2, <3>3 DEF BG!BackgroundInv
  <2>3. s5 = {}
    BY <2>1 DEF BG!BackgroundInv, BG!PurgesExact, BG!Idle
  <2>4. s4'[p].before = s3 /\ s4'[p].offset = 0 /\ s4'[p].remaining = target /\ s4'[p].target = target
        /\ s4'[p].todo = wave /\ s4'[p].deleted = {} /\ s4'[p].at = "wave"
    BY <2>2
  <2>5. BG!Above(s4'[p], 0) = {}
    BY <2>4, ServicesAssumption DEF BG!BackgroundInv, BG!Above
  <2>6. wave \subseteq 1..TopId /\ BG!Asked' = {}
    BY <1>2, <2>2, <2>3 DEF BG!Wave, BG!Asked
  <2>7. BG!WaveExact(p, s4[p])'
    <3>1. s4'[p] \in BG!AtWave
      BY <2>2, <2>6 DEF BG!AtWave, BG!BackgroundInv
    <3>2. BG!Cardinality(BG!Above(s4'[p], 0)) + target = target
      <4>1. BG!Cardinality(BG!Above(s4'[p], 0)) = 0
        BY <2>5, FS_EmptySet, BackgroundCounts
      <4>2. QED
        BY <4>1
    <3>3. {id \in s3 \cap wave : id \notin wave \cup {}} = {} /\ s3' = s3 \ {}
      BY <1>2
    <3>4. BG!Above(s4'[p], 0) \cup {id \in s3 \cap wave : id \notin wave \cup {}} = {}
      BY <2>5, <3>3
    <3>5. \A request \in s5' : request = [purge |-> p, id |-> request.id]
      BY <1>2, <2>3
    <3>6. PICK new \in BG!AtWave : new = s4'[p]
      BY <3>1
    <3>7. /\ new.todo \subseteq BG!Wave(new.offset, new.remaining)
          /\ BG!Asked' \subseteq BG!Wave(new.offset, new.remaining) \ new.todo
          /\ BG!Cardinality(BG!Above(new, new.offset)) + new.remaining = new.target
          /\ new.deleted = BG!Above(new, new.offset)
                \cup {id \in new.before \cap BG!Wave(new.offset, new.remaining) : id \notin new.todo \cup BG!Asked'}
          /\ s3' = new.before \ new.deleted
      BY <2>2, <2>4, <2>6, <3>2, <3>3, <3>4, <3>6
    <3>8. BG!WaveExact(p, new)'
      BY <3>5, <3>7 DEF BG!WaveExact
    <3>9. QED
      BY <3>6, <3>8
  <2>8. \A q \in Purges : s4'[q].at = "wave" => q = p
    BY <2>1
  <2>9. \A q \in Purges : s4'[q].at = "over" => BG!OverExact(s4[q])'
    <3>1. ASSUME NEW q \in Purges, s4'[q].at = "over"
          PROVE  BG!OverExact(s4[q])'
      <4>1. s4'[q] = s4[q] /\ BG!OverExact(s4[q])
        BY <2>1, <2>4, <3>1 DEF BG!BackgroundInv, BG!PurgesExact
      <4>2. QED
        BY <4>1 DEF BG!OverExact, BG!Above
    <3>2. QED
      BY <3>1
  <2>10. QED
    BY <2>4, <2>7, <2>8, <2>9 DEF BG!PurgesExact
<1>4. BG!PurgesExact'
  BY <1>3 DEF BG!PurgesExact
<1>5. QED
  BY <1>1, <1>2, <1>4 DEF BG!BackgroundInv

\* A request takes a place.
LEMMA BackgroundRequest == ASSUME BG!BackgroundInv, NEW p \in Purges, BG!Request(p) PROVE BG!BackgroundInv'
<1>1. BG!Nested' /\ BG!Running' = BG!Running
  BY TasksStay DEF BG!BackgroundInv, BG!Request
<1>2. PICK id \in s4[p].todo :
         /\ s4' = [s4 EXCEPT ![p].todo = @ \ {id}]
         /\ s5' = s5 \cup {[purge |-> p, id |-> id]}
  BY DEF BG!Request
<1>3. s4[p].at = "wave" /\ BG!Place /\ s3' = s3 /\ s6' = s6
  BY DEF BG!Request
<1>4. DOMAIN s4' = Purges
  BY <1>2 DEF BG!BackgroundInv
<1>5. BG!InRoom'
  <2>1. PICK n \in Nat, m \in Nat : n = BG!Cardinality(BG!Running) /\ m = BG!Cardinality(s5) /\ BG!Taken = n + m
    BY TakenIs DEF BG!BackgroundInv, BG!InRoom
  <2>2. PICK k \in {m, m + 1} : k = BG!Cardinality(s5') /\ BG!IsFiniteSet(s5')
    <3>1. BG!IsFiniteSet(s5)
      BY DEF BG!BackgroundInv, BG!InRoom
    <3>2. BG!IsFiniteSet(s5') /\ BG!Cardinality(s5') \in {BG!Cardinality(s5), BG!Cardinality(s5) + 1}
      BY <1>2, <3>1, BackgroundAdds
    <3>3. QED
      BY <2>1, <3>2
  <2>3. n + k <= Room
    BY <1>3, <2>1, <2>2, ServicesAssumption DEF BG!Place
  <2>4. BG!Taken' = n + k
    BY <1>1, <2>1, <2>2 DEF BG!Taken, BG!Running
  <2>5. QED
    BY <2>2, <2>3, <2>4 DEF BG!InRoom
<1>6. ASSUME ~s6
      PROVE  BG!PurgesExact'
  <2>1. /\ BG!WaveExact(p, s4[p]) /\ \A q \in Purges : s4[q].at = "wave" => q = p
        /\ \A q \in Purges : s4[q].at = "over" => BG!OverExact(s4[q])
    BY <1>3, <1>6 DEF BG!BackgroundInv, BG!PurgesExact
  <2>2. PICK old \in BG!AtWave : old = s4[p]
    BY <2>1 DEF BG!WaveExact
  <2>3. PICK new : new = [old EXCEPT !.todo = old.todo \ {id}]
    OBVIOUS
  <2>4. s4'[p] = new /\ \A q \in Purges \ {p} : s4'[q] = s4[q]
    BY <1>2, <2>2, <2>3 DEF BG!BackgroundInv
  <2>5. /\ new \in BG!AtWave /\ new.at = "wave" /\ new.todo = old.todo \ {id}
        /\ new.target = old.target /\ new.offset = old.offset /\ new.remaining = old.remaining
        /\ new.deleted = old.deleted /\ new.before = old.before
    BY <2>3 DEF BG!AtWave
  <2>6. BG!Asked' = BG!Asked \cup {id}
    <3>1. [purge |-> p, id |-> id].id = id
      OBVIOUS
    <3>2. QED
      BY <1>2, <3>1 DEF BG!Asked
  <2>7. id \in old.todo /\ new.todo \cup BG!Asked' = old.todo \cup BG!Asked
    BY <1>2, <2>2, <2>5, <2>6
  <2>8. BG!WaveExact(p, new)'
    <3>1. \A request \in s5' : request = [purge |-> p, id |-> request.id]
      BY <1>2, <2>1 DEF BG!WaveExact
    <3>2. PICK wave : wave = BG!Wave(old.offset, old.remaining) /\ wave = BG!Wave(new.offset, new.remaining)
      BY <2>5
    <3>3. new.todo \subseteq wave /\ BG!Asked' \subseteq wave \ new.todo
      BY <2>1, <2>2, <2>5, <2>6, <2>7, <3>2 DEF BG!WaveExact
    <3>4. PICK above : above = BG!Above(old, old.offset) /\ above = BG!Above(new, new.offset)
      BY <2>5 DEF BG!Above
    <3>5. BG!Cardinality(above) + new.remaining = new.target
      BY <2>1, <2>2, <2>5, <3>4 DEF BG!WaveExact
    <3>6. old.deleted = above \cup {x \in old.before \cap wave : x \notin old.todo \cup BG!Asked}
      BY <2>1, <2>2, <3>2, <3>4 DEF BG!WaveExact
    <3>7. new.deleted = above \cup {x \in new.before \cap wave : x \notin new.todo \cup BG!Asked'}
      BY <2>5, <2>7, <3>6
    <3>8. s3' = new.before \ new.deleted
      BY <1>3, <2>1, <2>2, <2>5 DEF BG!WaveExact
    <3>9. QED
      BY <2>5, <3>1, <3>2, <3>3, <3>4, <3>5, <3>7, <3>8 DEF BG!WaveExact
  <2>9. \A q \in Purges : s4'[q].at = "over" => BG!OverExact(s4[q])'
    BY <2>1, <2>4, <2>5 DEF BG!OverExact, BG!Above
  <2>10. QED
    BY <2>1, <2>4, <2>5, <2>8, <2>9 DEF BG!PurgesExact
<1>7. QED
  BY <1>1, <1>3, <1>4, <1>5, <1>6 DEF BG!BackgroundInv, BG!PurgesExact

\* A request deletes its message, or finds none, or fails.
LEMMA BackgroundAnswer == ASSUME BG!BackgroundInv, NEW p \in Purges, BG!Answer(p) PROVE BG!BackgroundInv'
<1>1. BG!Nested' /\ BG!Running' = BG!Running
  BY TasksStay DEF BG!BackgroundInv, BG!Answer
<1>2. PICK request \in s5 :
         /\ request.purge = p
         /\ s5' = s5 \ {request}
         /\ \/ /\ request.id \in s3
               /\ s3' = s3 \ {request.id}
               /\ s4' = [s4 EXCEPT ![p].deleted = @ \cup {request.id}]
               /\ s6' = s6
            \/ /\ s6' = (s6 \/ request.id \in s3)
               /\ s3' = s3 /\ s4' = s4
  BY DEF BG!Answer
<1>3. DOMAIN s4' = Purges /\ s6' \in BOOLEAN /\ s3' \in SUBSET (1..TopId)
  BY <1>2 DEF BG!BackgroundInv
<1>4. BG!InRoom'
  <2>1. PICK n \in Nat, m \in Nat : n = BG!Cardinality(BG!Running) /\ m = BG!Cardinality(s5) /\ BG!Taken = n + m
    BY TakenIs DEF BG!BackgroundInv, BG!InRoom
  <2>2. m - 1 = BG!Cardinality(s5') /\ BG!IsFiniteSet(s5')
    BY <1>2, <2>1, FS_RemoveElement, BackgroundCounts DEF BG!BackgroundInv, BG!InRoom
  <2>3. n + m <= Room
    BY <2>1 DEF BG!BackgroundInv, BG!InRoom
  <2>4. n + (m - 1) <= Room
    BY <2>3, ServicesAssumption
  <2>5. BG!Taken' = n + (m - 1)
    BY <1>1, <2>1, <2>2 DEF BG!Taken, BG!Running
  <2>6. QED
    BY <2>2, <2>4, <2>5 DEF BG!InRoom
<1>5. ASSUME ~s6'
      PROVE  BG!PurgesExact'
  <2>1. ~s6
    BY <1>2, <1>5 DEF BG!BackgroundInv
  <2>2. /\ BG!WaveExact(p, s4[p]) /\ s4[p].at = "wave" /\ \A q \in Purges : s4[q].at = "wave" => q = p
        /\ \A q \in Purges : s4[q].at = "over" => BG!OverExact(s4[q])
    <3>1. PICK q \in Purges : s4[q].at = "wave"
      BY <1>2, <2>1 DEF BG!BackgroundInv, BG!PurgesExact
    <3>2. BG!WaveExact(q, s4[q])
      BY <2>1, <3>1 DEF BG!BackgroundInv, BG!PurgesExact
    <3>3. request.purge = q
      BY <3>2 DEF BG!WaveExact
    <3>4. QED
      BY <1>2, <2>1, <3>1, <3>3 DEF BG!BackgroundInv, BG!PurgesExact
  <2>3. PICK old \in BG!AtWave : old = s4[p]
    BY <2>2 DEF BG!WaveExact
  <2>4. PICK id : id = request.id
    OBVIOUS
  <2>5. PICK wave : wave = BG!Wave(old.offset, old.remaining)
    OBVIOUS
  <2>6. PICK above : above = BG!Above(old, old.offset)
    OBVIOUS
  <2>7. /\ old.todo \subseteq wave /\ BG!Asked \subseteq wave \ old.todo
        /\ BG!Cardinality(above) + old.remaining = old.target
        /\ old.deleted = above \cup {x \in old.before \cap wave : x \notin old.todo \cup BG!Asked}
        /\ s3 = old.before \ old.deleted
        /\ \A r \in s5 : r = [purge |-> p, id |-> r.id]
    BY <2>2, <2>3, <2>5, <2>6 DEF BG!WaveExact
  <2>8. BG!Asked' = BG!Asked \ {id} /\ id \in BG!Asked
    BY <1>2, <2>4, <2>7 DEF BG!Asked
  <2>9. id \in wave /\ id \notin old.todo /\ id \notin above
    <3>1. old.offset \in Nat /\ old.remaining \in Nat
      BY DEF BG!AtWave
    <3>2. id \in 1..TopId /\ id <= TopId - old.offset
      BY <2>5, <2>7, <2>8, <3>1, WaveIs
    <3>3. id \notin above
      BY <2>6, <3>1, <3>2, ServicesAssumption DEF BG!Above
    <3>4. QED
      BY <2>7, <2>8, <3>3
  <2>10. \E new \in BG!AtWave :
            /\ s4'[p] = new /\ \A q \in Purges \ {p} : s4'[q] = s4[q]
            /\ new.at = "wave" /\ new.todo = old.todo
            /\ new.target = old.target /\ new.offset = old.offset /\ new.remaining = old.remaining
            /\ new.before = old.before
            /\ new.deleted = above \cup {x \in old.before \cap wave : x \notin old.todo \cup BG!Asked'}
            /\ s3' = old.before \ new.deleted
    <3>1. CASE id \in s3 /\ s3' = s3 \ {id} /\ s4' = [s4 EXCEPT ![p].deleted = @ \cup {id}]
      <4>1. PICK new : new = [old EXCEPT !.deleted = old.deleted \cup {id}]
        OBVIOUS
      <4>2. s4'[p] = new /\ \A q \in Purges \ {p} : s4'[q] = s4[q]
        BY <2>3, <3>1, <4>1 DEF BG!BackgroundInv
      <4>3. id \in Int
        BY <3>1 DEF BG!BackgroundInv
      <4>4. /\ new \in BG!AtWave /\ new.at = "wave" /\ new.todo = old.todo
            /\ new.target = old.target /\ new.offset = old.offset /\ new.remaining = old.remaining
            /\ new.before = old.before /\ new.deleted = old.deleted \cup {id}
        BY <4>1, <4>3 DEF BG!AtWave
      <4>5. id \in old.before
        BY <2>7, <3>1
      <4>6. new.deleted = above \cup {x \in old.before \cap wave : x \notin old.todo \cup BG!Asked'}
        BY <2>7, <2>8, <2>9, <4>4, <4>5
      <4>7. s3' = old.before \ new.deleted
        BY <2>7, <3>1, <4>4
      <4>8. QED
        BY <4>2, <4>4, <4>6, <4>7
    <3>2. CASE id \notin s3 /\ s3' = s3 /\ s4' = s4
      <4>1. id \notin old.before
        BY <2>7, <2>8, <2>9, <3>2
      <4>2. old.deleted = above \cup {x \in old.before \cap wave : x \notin old.todo \cup BG!Asked'}
        BY <2>7, <2>8, <4>1
      <4>3. old.at = "wave"
        BY <2>2, <2>3
      <4>4. QED
        BY <2>3, <2>7, <3>2, <4>2, <4>3
    <3>3. QED
      BY <1>2, <1>5, <2>1, <2>4, <3>1, <3>2
  <2>11. PICK new \in BG!AtWave :
            /\ s4'[p] = new /\ \A q \in Purges \ {p} : s4'[q] = s4[q]
            /\ new.at = "wave" /\ new.todo = old.todo
            /\ new.target = old.target /\ new.offset = old.offset /\ new.remaining = old.remaining
            /\ new.before = old.before
            /\ new.deleted = above \cup {x \in old.before \cap wave : x \notin old.todo \cup BG!Asked'}
            /\ s3' = old.before \ new.deleted
    BY <2>10
  <2>12. BG!WaveExact(p, new)'
    <3>1. \A r \in s5' : r = [purge |-> p, id |-> r.id]
      BY <1>2, <2>7
    <3>2. wave = BG!Wave(new.offset, new.remaining) /\ above = BG!Above(new, new.offset)
      BY <2>5, <2>6, <2>11 DEF BG!Above
    <3>3. new.todo \subseteq wave /\ BG!Asked' \subseteq wave \ new.todo
      BY <2>7, <2>8, <2>11
    <3>4. BG!Cardinality(above) + new.remaining = new.target
      BY <2>7, <2>11
    <3>5. new.deleted = above \cup {x \in new.before \cap wave : x \notin new.todo \cup BG!Asked'}
      BY <2>11
    <3>6. QED
      BY <2>11, <3>1, <3>2, <3>3, <3>4, <3>5 DEF BG!WaveExact
  <2>13. \A q \in Purges : s4'[q].at = "over" => BG!OverExact(s4[q])'
    BY <2>2, <2>11 DEF BG!OverExact, BG!Above
  <2>14. QED
    BY <2>2, <2>11, <2>12, <2>13 DEF BG!PurgesExact
<1>6. QED
  BY <1>1, <1>3, <1>4, <1>5 DEF BG!BackgroundInv, BG!PurgesExact

\* A wave is over: the purge is over too, or the next wave begins.
LEMMA BackgroundEndWave == ASSUME BG!BackgroundInv, NEW p \in Purges, BG!EndWave(p) PROVE BG!BackgroundInv'
<1>1. BG!Nested' /\ BG!Running' = BG!Running
  BY TasksStay DEF BG!BackgroundInv, BG!EndWave
<1>2. /\ s3' = s3 /\ s5' = s5 /\ s6' = s6
      /\ s4[p].at = "wave" /\ s4[p].todo = {} /\ \A request \in s5 : request.purge # p
      /\ s4' = [s4 EXCEPT ![p] = BG!NextWave(s4[p], BG!NextOffset(s4[p]))]
  BY DEF BG!EndWave, BG!WaveIsOver
<1>3. DOMAIN s4' = Purges
  BY <1>2 DEF BG!BackgroundInv
<1>4. BG!InRoom'
  BY <1>1, <1>2 DEF BG!BackgroundInv, BG!InRoom, BG!Taken, BG!Running
<1>5. ASSUME ~s6
      PROVE  BG!PurgesExact'
  <2>1. /\ BG!WaveExact(p, s4[p]) /\ \A q \in Purges : s4[q].at = "wave" => q = p
        /\ \A q \in Purges : s4[q].at = "over" => BG!OverExact(s4[q])
    BY <1>2, <1>5 DEF BG!BackgroundInv, BG!PurgesExact
  <2>2. PICK old \in BG!AtWave : old = s4[p]
    BY <2>1 DEF BG!WaveExact
  <2>3. old.offset \in Nat /\ old.remaining \in Nat /\ old.target \in Nat /\ old.before \in SUBSET (1..TopId)
        /\ old.deleted \in SUBSET Int /\ old.todo \in SUBSET Int /\ old.at = "wave"
    BY DEF BG!AtWave
  <2>4. s5 = {} /\ BG!Asked = {} /\ old.todo = {}
    BY <1>2, <2>1, <2>2 DEF BG!WaveExact, BG!Asked
  <2>5. PICK offset \in Nat : offset = BG!NextOffset(old) /\ offset = old.offset + old.remaining
    BY <2>3 DEF BG!NextOffset
  <2>6. PICK wave : wave = BG!Wave(old.offset, old.remaining)
    OBVIOUS
  <2>7. wave = {id \in 1..TopId : TopId - offset < id /\ id <= TopId - old.offset}
        /\ BG!IsFiniteSet(wave) /\ BG!Cardinality(wave) <= old.remaining /\ BG!Cardinality(wave) \in Nat
    BY <2>3, <2>5, <2>6, WaveIs
  <2>8. PICK above \in SUBSET (1..TopId) : above = BG!Above(old, old.offset)
    BY <2>3 DEF BG!Above
  <2>9. /\ BG!Cardinality(above) + old.remaining = old.target
        /\ old.deleted = above \cup {id \in old.before \cap wave : id \notin old.todo \cup BG!Asked}
        /\ s3 = old.before \ old.deleted
    BY <2>1, <2>2, <2>6, <2>8 DEF BG!WaveExact
  <2>10. old.deleted = above \cup (old.before \cap wave)
    BY <2>4, <2>9
  <2>11. old.deleted = BG!Above(old, offset)
    <3>1. ASSUME NEW id \in old.before
          PROVE  TopId - offset < id <=> TopId - old.offset < id \/ id \in wave
      BY <2>3, <2>5, <2>7, ServicesAssumption
    <3>2. above = {id \in old.before : TopId - old.offset < id}
      BY <2>8 DEF BG!Above
    <3>3. QED
      BY <2>10, <3>1, <3>2 DEF BG!Above
  <2>12. PICK missing \in Nat : missing = old.target - BG!Cardinality(old.deleted)
                             /\ BG!Cardinality(old.deleted) + missing = old.target
                             /\ BG!Cardinality(old.deleted) <= old.target /\ BG!Cardinality(old.deleted) \in Nat
    <3>1. BG!IsFiniteSet(above) /\ BG!IsFiniteSet(old.before \cap wave)
      <4>1. BG!IsFiniteSet(1..TopId)
        BY FS_Interval, BackgroundCounts, ServicesAssumption
      <4>2. QED
        BY <2>7, <2>8, <4>1, FS_Subset, FS_Intersection, BackgroundCounts
    <3>2. PICK a \in Nat : a = BG!Cardinality(above)
      BY <3>1, FS_CardinalityType, BackgroundCounts
    <3>3. PICK b \in Nat : b = BG!Cardinality(old.before \cap wave) /\ b <= old.remaining
      <4>1. PICK b \in Nat, w \in Nat : b = BG!Cardinality(old.before \cap wave) /\ w = BG!Cardinality(wave) /\ b <= w
        BY <2>7, BackgroundWithin
      <4>2. b <= old.remaining
        BY <2>3, <2>7, <4>1
      <4>3. QED
        BY <4>1, <4>2
    <3>4. PICK c \in Nat : c = BG!Cardinality(above \cap (old.before \cap wave))
      BY <3>1, FS_Intersection, FS_CardinalityType, BackgroundCounts
    <3>5. PICK n \in Nat : n = BG!Cardinality(old.deleted) /\ n = a + b - c
      BY <2>10, <3>1, <3>2, <3>3, <3>4, FS_Union, FS_CardinalityType, BackgroundCounts
    <3>6. a + old.remaining = old.target
      BY <2>9, <3>2
    <3>7. n <= old.target /\ old.target - n \in Nat /\ n + (old.target - n) = old.target
      BY <2>3, <3>3, <3>5, <3>6
    <3>8. QED
      BY <3>5, <3>7
  <2>13. \A q \in Purges \ {p} : s4'[q] = s4[q]
    BY <1>2 DEF BG!BackgroundInv
  <2>14. s4'[p] = IF offset >= TopId \/ missing = 0 \/ offset >= old.target + Slack
                      THEN [old EXCEPT !.at = "over", !.offset = offset]
                      ELSE [old EXCEPT !.offset = offset, !.remaining = missing, !.todo = BG!Wave(offset, missing)]
    <3>1. s4'[p] = BG!NextWave(old, offset)
      BY <1>2, <2>2, <2>5 DEF BG!BackgroundInv
    <3>2. QED
      BY <2>12, <3>1 DEF BG!NextWave
  <2>15. \A q \in Purges \ {p} : s4'[q].at # "wave" /\ (s4'[q].at = "over" => BG!OverExact(s4[q])')
    BY <2>1, <2>13 DEF BG!OverExact, BG!Above
  <2>16. CASE offset >= TopId \/ missing = 0 \/ offset >= old.target + Slack
    <3>1. PICK new : new = [old EXCEPT !.at = "over", !.offset = offset]
      OBVIOUS
    <3>2. new.at = "over" /\ new.offset = offset /\ new.target = old.target /\ new.deleted = old.deleted
          /\ new.before = old.before
      BY <3>1 DEF BG!AtWave
    <3>3. new.deleted = BG!Above(new, new.offset)
      BY <2>11, <3>2 DEF BG!Above
    <3>4. \/ BG!Cardinality(new.deleted) = new.target
          \/ new.offset >= new.target + Slack
          \/ new.offset >= TopId
      BY <2>3, <2>12, <2>16, <3>2
    <3>5. BG!OverExact(new)
      BY <2>12, <3>2, <3>3, <3>4 DEF BG!OverExact
    <3>6. s4'[p] = new
      BY <2>14, <2>16, <3>1
    <3>7. BG!OverExact(s4[p])'
      BY <3>5, <3>6 DEF BG!OverExact, BG!Above
    <3>8. QED
      BY <1>2, <2>4, <2>15, <3>2, <3>6, <3>7 DEF BG!PurgesExact
  <2>17. CASE ~(offset >= TopId \/ missing = 0 \/ offset >= old.target + Slack)
    <3>1. PICK next \in SUBSET Int : next = BG!Wave(offset, missing) /\ next = BG!Wave(offset, missing) \ {}
      BY WaveIs
    <3>2. PICK new : new = [old EXCEPT !.offset = offset, !.remaining = missing, !.todo = next]
      OBVIOUS
    <3>3. /\ new \in BG!AtWave /\ new.at = "wave" /\ new.offset = offset /\ new.remaining = missing /\ new.todo = next
          /\ new.target = old.target /\ new.deleted = old.deleted /\ new.before = old.before
      BY <3>2 DEF BG!AtWave
    <3>4. s4'[p] = new
      BY <2>14, <2>17, <3>1, <3>2
    <3>5. new.deleted = BG!Above(new, new.offset)
      BY <2>11, <3>3 DEF BG!Above
    <3>6. BG!Cardinality(BG!Above(new, new.offset)) + new.remaining = new.target
      BY <2>12, <3>3, <3>5
    <3>7. {id \in new.before \cap next : id \notin new.todo \cup BG!Asked'} = {}
      BY <3>3
    <3>8. new.deleted = BG!Above(new, new.offset) \cup {id \in new.before \cap next : id \notin new.todo \cup BG!Asked'}
      BY <3>5, <3>7
    <3>9. BG!Asked' = {} /\ s5' = {}
      BY <1>2, <2>4 DEF BG!Asked
    <3>10. BG!WaveExact(p, new)'
      BY <1>2, <2>9, <3>1, <3>3, <3>6, <3>8, <3>9 DEF BG!WaveExact
    <3>11. BG!WaveExact(p, s4[p])' /\ s4'[p].at = "wave"
      BY <3>3, <3>4, <3>10
    <3>12. QED
      BY <2>15, <3>11 DEF BG!PurgesExact
  <2>18. QED
    BY <2>16, <2>17
<1>6. QED
  BY <1>1, <1>2, <1>3, <1>4, <1>5 DEF BG!BackgroundInv, BG!PurgesExact

\* No step in the background, and none beside it, breaks the invariant.
LEMMA BackgroundStep == ASSUME BG!BackgroundInv, [BG!BackgroundNext]_(BG!backgroundVars) PROVE BG!BackgroundInv'
<1>1. CASE UNCHANGED BG!backgroundVars
  <2>1. BG!Nested' /\ BG!Running' = BG!Running
    BY <1>1, TasksStay DEF BG!backgroundVars, BG!BackgroundInv
  <2>2. BG!PurgesExact'
    BY <1>1, PurgesStay DEF BG!backgroundVars, BG!BackgroundInv
  <2>3. BG!InRoom'
    BY <1>1, <2>1 DEF BG!backgroundVars, BG!BackgroundInv, BG!InRoom, BG!Taken, BG!Running
  <2>4. QED
    BY <1>1, <2>1, <2>2, <2>3 DEF BG!backgroundVars, BG!BackgroundInv
<1>2. CASE BG!BackgroundNext
  BY <1>2, BackgroundCall, BackgroundBegin, BackgroundReturn, BackgroundPurge, BackgroundRequest, BackgroundAnswer,
     BackgroundEndWave DEF BG!BackgroundNext
<1>3. QED
  BY <1>1, <1>2

\* Nothing runs in the background at first.
LEMMA BackgroundBegins == ASSUME BG!InitBackground PROVE BG!BackgroundInv
<1>1. BG!Nested
  BY DEF BG!InitBackground, BG!Nested
<1>2. BG!InRoom
  <2>1. BG!Running = {} /\ s5 = {}
    BY DEF BG!InitBackground, BG!Running, BG!Runs
  <2>2. BG!Cardinality(BG!Running) = 0 /\ BG!Cardinality(s5) = 0 /\ BG!IsFiniteSet(s5)
    BY <2>1, FS_EmptySet, BackgroundCounts
  <2>3. BG!Taken = 0 + 0
    BY <2>2 DEF BG!Taken, BG!Running
  <2>4. QED
    BY <2>2, <2>3, ServicesAssumption DEF BG!InRoom
<1>3. BG!PurgesExact
  BY DEF BG!InitBackground, BG!PurgesExact, BG!Idle
<1>4. QED
  BY <1>1, <1>2, <1>3, ServicesAssumption DEF BG!InitBackground, BG!BackgroundInv

\* What the invariant means.
LEMMA BackgroundHolds == ASSUME BG!BackgroundInv PROVE BG!BackgroundSound
<1>1. BG!PurgeExact
  BY DEF BG!BackgroundInv, BG!PurgesExact, BG!OverExact, BG!Above, BG!PurgeExact
<1>2. BG!OnlyNestedTasksStop
  BY DEF BG!BackgroundInv, BG!InRoom, BG!Nested, BG!Runs, BG!OnlyNestedTasksStop
<1>3. QED
  BY <1>1, <1>2 DEF BG!BackgroundSound

-----------------------------------------------------------------------------
(***************************************************************************)
(* A broadcast: every user is in one place only, the channel, a worker's   *)
(* hands or the results, and what the counters lack of the results is what *)
(* workers are about to tell.                                              *)
(***************************************************************************)
\* The counts of the instanced module are those of the standard one.
LEMMA BroadcastCounts == ASSUME NEW S PROVE BC!Cardinality(S) = Cardinality(S)
BY DEF BC!Cardinality, Cardinality

\* Two sets without a common member, and a single member.
LEMMA BroadcastSplits ==
    ASSUME NEW S, NEW T, IsFiniteSet(S), IsFiniteSet(T), S \cap T = {}
    PROVE  /\ BC!Cardinality(S) \in Nat /\ BC!Cardinality(T) \in Nat
           /\ BC!Cardinality(S \cup T) = BC!Cardinality(S) + BC!Cardinality(T)
<1>1. Cardinality(S) \in Nat /\ Cardinality(T) \in Nat /\ Cardinality(S \cap T) = 0
  BY FS_CardinalityType, FS_EmptySet
<1>2. Cardinality(S \cup T) = Cardinality(S) + Cardinality(T) - Cardinality(S \cap T)
  BY FS_Union
<1>3. Cardinality(S \cup T) = Cardinality(S) + Cardinality(T)
  BY <1>1, <1>2
<1>4. /\ BC!Cardinality(S) = Cardinality(S) /\ BC!Cardinality(T) = Cardinality(T)
      /\ BC!Cardinality(S \cup T) = Cardinality(S \cup T)
  BY BroadcastCounts
<1>5. QED
  BY <1>1, <1>3, <1>4

LEMMA BroadcastOne == ASSUME NEW x PROVE BC!Cardinality({x}) = 1
BY FS_Singleton, BroadcastCounts

\* The users with a result, and the workers that tell of one, are finitely many.
LEMMA ReportedFinite ==
    ASSUME NEW result PROVE IsFiniteSet(BC!Reported(result)) /\ BC!Cardinality(BC!Reported(result)) \in Nat
<1>1. IsFiniteSet(BC!All) /\ BC!Reported(result) \in SUBSET BC!All
  BY ServicesAssumption, FS_Interval, BroadcastCounts DEF BC!All, BC!Reported
<1>2. QED
  BY <1>1, FS_Subset, FS_CardinalityType, BroadcastCounts

LEMMA TellingFinite ==
    ASSUME NEW ok PROVE IsFiniteSet(BC!Telling(ok)) /\ BC!Cardinality(BC!Telling(ok)) \in Nat
<1>1. BC!Telling(ok) \in SUBSET Handlers
  BY DEF BC!Telling
<1>2. QED
  BY <1>1, ServicesAssumption, FS_Subset, FS_CardinalityType, BroadcastCounts

\* The first user in the channel is one of them.
LEMMA FirstIsThere == ASSUME s3 \in SUBSET BC!All, s3 # {} PROVE BC!First \in s3
<1> DEFINE Reached == {n \in Nat : \E j \in s3 : j <= n}
<1>1. PICK j \in s3 : j \in Nat
  <2>1. PICK j \in s3 : TRUE
    OBVIOUS
  <2>2. j \in Nat
    BY ServicesAssumption DEF BC!All
  <2>3. QED
    BY <2>2
<1>2. Reached \in SUBSET Nat /\ Reached # {}
  BY <1>1
<1>3. PICK n \in Reached : n = 0 \/ (n - 1 \in Nat /\ n - 1 \notin Reached)
  BY <1>2, FirstOfThem
<1>4. n \in s3 /\ \A m \in s3 : n <= m
  <2>1. CASE n = 0
    BY <1>3, <2>1, ServicesAssumption DEF BC!All
  <2>2. CASE n - 1 \in Nat /\ n - 1 \notin Reached
    <3>1. \A m \in s3 : m \in Nat /\ ~(m <= n - 1)
      BY <2>2, ServicesAssumption DEF BC!All
    <3>2. \A m \in s3 : n <= m
      BY <1>3, <3>1
    <3>3. QED
      BY <1>3, <3>1, <3>2
  <2>3. QED
    BY <1>3, <2>1, <2>2
<1>5. QED
  BY <1>4, Zenon DEF BC!First

\* What taking a user leaves.
LEMMA TakeStep ==
    ASSUME BC!BroadcastInv, NEW u \in Handlers, BC!Take(u)
    PROVE  /\ ~BC!Holds(u) /\ s4[u] = BC!Free
           /\ \/ s3 = {} /\ s3' = {} /\ s4' = [s4 EXCEPT ![u] = BC!Over]
              \/ \E n \in s3, w \in BC!States :
                    w.at = "send" /\ w.user = n /\ s3' = s3 \ {n} /\ s4' = [s4 EXCEPT ![u] = w]
           /\ UNCHANGED <<s1, s2, s5, s6, s7, s8, s9, s10>>
<1>0. ~BC!Holds(u) /\ s4[u] = BC!Free /\ UNCHANGED <<s1, s2, s5, s6, s7, s8, s9, s10>>
  BY DEF BC!Take, BC!Holds, BC!Free
<1>1. ASSUME NEW n \in BC!All
      PROVE  \E w \in BC!States : w = [BC!Free EXCEPT !.at = "send", !.user = n] /\ w.at = "send" /\ w.user = n
  <2>1. BC!Free \in BC!States
    BY ServicesAssumption DEF BC!Free, BC!States
  <2>2. n \in 0..Users
    BY ServicesAssumption DEF BC!All
  <2>3. PICK f \in BC!States : f = BC!Free
    BY <2>1
  <2>4. PICK w : w = [f EXCEPT !.at = "send", !.user = n]
    OBVIOUS
  <2>5. w \in BC!States /\ w.at = "send" /\ w.user = n
    BY <2>2, <2>4 DEF BC!States
  <2>6. QED
    BY <2>3, <2>4, <2>5
<1>2. s3 # {} => BC!First \in s3 /\ BC!First \in BC!All
  BY FirstIsThere DEF BC!BroadcastInv, BC!BroadcastShapes
<1>3. CASE s3 = {}
  BY <1>0, <1>3 DEF BC!Take
<1>4. CASE s3 # {}
  <2>1. PICK n \in s3 : n = BC!First /\ n \in BC!All
    BY <1>2, <1>4
  <2>2. PICK w \in BC!States : w = [BC!Free EXCEPT !.at = "send", !.user = n] /\ w.at = "send" /\ w.user = n
    BY <1>1, <2>1
  <2>3. s3' = s3 \ {n} /\ s4' = [s4 EXCEPT ![u] = w]
    BY <1>4, <2>1, <2>2 DEF BC!Take
  <2>4. QED
    BY <1>0, <2>2, <2>3
<1>5. QED
  BY <1>3, <1>4

LEMMA BroadcastTake == ASSUME BC!BroadcastInv, NEW u \in Handlers, BC!Take(u) PROVE BC!BroadcastInv'
<1>1. CASE s3 = {} /\ s3' = {} /\ s4' = [s4 EXCEPT ![u] = BC!Over]
  <2>1. BC!BroadcastShapes'
    BY <1>1, TakeStep, ServicesAssumption DEF BC!BroadcastInv, BC!BroadcastShapes, BC!States, BC!Over
  <2>2. /\ s4'[u] = BC!Over /\ ~BC!Holds(u)' /\ ~BC!Holds(u)
        /\ \A v \in Handlers \ {u} : s4'[v] = s4[v] /\ BC!Holds(v)' = BC!Holds(v)
    BY <1>1, TakeStep DEF BC!BroadcastInv, BC!BroadcastShapes, BC!Over, BC!Holds
  <2>3. BC!OnePlace'
    BY <1>1, <2>2, TakeStep DEF BC!BroadcastInv, BC!BroadcastShapes, BC!OnePlace, BC!Over, BC!Free
  <2>4. BC!Telling(TRUE)' = BC!Telling(TRUE) /\ BC!Telling(FALSE)' = BC!Telling(FALSE)
    BY <2>2, TakeStep DEF BC!Telling, BC!Over, BC!Free
  <2>5. BC!Tallied'
    BY <2>4, TakeStep DEF BC!BroadcastInv, BC!Tallied, BC!Reported
  <2>6. BC!Arrived'
    BY <2>2, TakeStep DEF BC!BroadcastInv, BC!Arrived, BC!Over
  <2>7. QED
    BY <2>1, <2>3, <2>5, <2>6 DEF BC!BroadcastInv
<1>2. ASSUME NEW n \in s3, NEW w \in BC!States, w.at = "send", w.user = n, s3' = s3 \ {n},
             s4' = [s4 EXCEPT ![u] = w]
      PROVE  BC!BroadcastInv'
  <2>1. BC!BroadcastShapes'
    BY <1>2, TakeStep, ServicesAssumption DEF BC!BroadcastInv, BC!BroadcastShapes, BC!States
  <2>2. /\ s4'[u].at = "send" /\ s4'[u].user = n /\ BC!Holds(u)' /\ ~BC!Holds(u)
        /\ \A v \in Handlers \ {u} : s4'[v] = s4[v] /\ BC!Holds(v)' = BC!Holds(v)
    BY <1>2, TakeStep DEF BC!BroadcastInv, BC!BroadcastShapes, BC!Holds
  <2>3. n \in BC!All /\ s10' = s10 /\ s9' = s9
    BY TakeStep DEF BC!BroadcastInv, BC!BroadcastShapes
  <2>4. BC!OnePlace'
    BY <1>2, <2>2, <2>3, TakeStep DEF BC!BroadcastInv, BC!OnePlace, BC!Over, BC!Free
  <2>5. BC!Telling(TRUE)' = BC!Telling(TRUE) /\ BC!Telling(FALSE)' = BC!Telling(FALSE)
    BY <2>2, TakeStep DEF BC!Telling, BC!Free
  <2>6. BC!Tallied'
    BY <2>5, TakeStep DEF BC!BroadcastInv, BC!Tallied, BC!Reported
  <2>7. BC!Arrived'
    BY <2>2, TakeStep DEF BC!BroadcastInv, BC!Arrived
  <2>8. QED
    BY <2>1, <2>4, <2>6, <2>7 DEF BC!BroadcastInv
<1>3. QED
  BY <1>1, <1>2, TakeStep

LEMMA BroadcastSend == ASSUME BC!BroadcastInv, NEW u \in Handlers, BC!Send(u) PROVE BC!BroadcastInv'
<1>1. PICK n \in BC!All : n = s4[u].user /\ s4[u].at = "send" /\ n \notin s3 /\ s10[n] = "none" /\ s9[n] = 0
  BY DEF BC!BroadcastInv, BC!OnePlace, BC!Holds, BC!Send
<1>2. PICK ok \in BOOLEAN, g \in {"none", "empty", "part", "whole"} :
         /\ s4' = [s4 EXCEPT ![u].at = "count", ![u].ok = ok]
         /\ s8' = [s8 EXCEPT ![n] = g]
         /\ ok /\ s1 \in {"text", "id"} => g = "whole"
         /\ s1 = "reader" /\ g = "whole" => s2 \/ s8[n] = "whole"
  <2>1. s4[u] \in BC!States
    BY DEF BC!BroadcastInv, BC!BroadcastShapes, BC!States
  <2>2. CASE \E g \in BC!Arrives(u) : s8' = [s8 EXCEPT ![n] = g] /\ s4' = [s4 EXCEPT ![u].at = "count"]
    <3>1. PICK g \in BC!Arrives(u) : s8' = [s8 EXCEPT ![n] = g]
      BY <2>2
    <3>2. /\ g \in {"none", "empty", "part", "whole"}
          /\ s1 \in {"text", "id"} => g = "whole"
          /\ s1 = "reader" /\ g = "whole" => s2
      BY DEF BC!Arrives
    <3>3. s4[u].ok \in BOOLEAN /\ s4' = [s4 EXCEPT ![u].at = "count", ![u].ok = s4[u].ok]
      BY <2>1, <2>2 DEF BC!States
    <3>4. QED
      BY <3>1, <3>2, <3>3
  <2>3. CASE s4' = [s4 EXCEPT ![u].at = "count", ![u].ok = FALSE] /\ s8' = s8
    <3>1. s8[n] \in {"none", "empty", "part", "whole"} /\ s8' = [s8 EXCEPT ![n] = s8[n]]
      BY <2>3 DEF BC!BroadcastInv, BC!BroadcastShapes, BC!States
    <3>2. QED
      BY <2>3, <3>1
  <2>4. QED
    BY <1>1, <2>2, <2>3 DEF BC!Send
<1>3. /\ s3' = s3 /\ s10' = s10 /\ s5' = s5 /\ s6' = s6 /\ s1' = s1
      /\ s9' = [s9 EXCEPT ![n] = 1] /\ s2' = (s2 /\ s1 # "reader")
  BY <1>1 DEF BC!Send
<1>4. /\ s4'[u] \in BC!States
      /\ s4'[u].at = "count" /\ s4'[u].user = n /\ s4'[u].ok = ok
      /\ \A v \in Handlers \ {u} : s4'[v] = s4[v]
      /\ DOMAIN s4' = Handlers
  BY <1>1, <1>2 DEF BC!BroadcastInv, BC!BroadcastShapes, BC!States
<1>5. BC!BroadcastShapes'
  <2>1. s4' \in [Handlers -> BC!States]
    BY <1>2, <1>4 DEF BC!BroadcastInv, BC!BroadcastShapes, BC!States
  <2>2. s8' \in [BC!All -> {"none", "empty", "part", "whole"}] /\ s9' \in [BC!All -> 0..1]
    BY <1>2, <1>3 DEF BC!BroadcastInv, BC!BroadcastShapes, BC!States
  <2>3. s2' \in BOOLEAN
    BY <1>3
  <2>4. QED
    BY <1>3, <2>1, <2>2, <2>3 DEF BC!BroadcastInv, BC!BroadcastShapes, BC!States, BC!All
<1>6. BC!Holds(u) /\ BC!Holds(u)' /\ \A v \in Handlers \ {u} : BC!Holds(v)' = BC!Holds(v)
  BY <1>1, <1>4 DEF BC!Holds
<1>7. BC!OnePlace'
  <2>1. s9'[n] = 1 /\ \A m \in BC!All \ {n} : s9'[m] = s9[m]
    BY <1>3 DEF BC!BroadcastInv, BC!BroadcastShapes, BC!States
  <2>2. \A v \in Handlers : s4'[v].user = s4[v].user
    BY <1>1, <1>4
  <2>3. /\ \A v \in Handlers : IF BC!Holds(v)' THEN s4'[v].user \in BC!All \ s3' ELSE s4'[v] \in {BC!Free, BC!Over}
        /\ \A v, w \in Handlers : BC!Holds(v)' /\ BC!Holds(w)' /\ s4'[v].user = s4'[w].user => v = w
        /\ \A m \in BC!All : m \in s3' \/ s10'[m] # "none" \/ \E v \in Handlers : BC!Holds(v)' /\ s4'[v].user = m
    BY <1>1, <1>3, <1>4, <1>6, <2>2 DEF BC!BroadcastInv, BC!OnePlace
  <2>8. \A v \in Handlers : s4'[v] = BC!Over => s3' = {}
    <3>3. BC!Over.at = "over"
      BY DEF BC!Over
    <3>1. \A v \in Handlers : s4'[v] = BC!Over => s4[v] = BC!Over
      BY <1>4, <3>3
    <3>2. QED
      BY <1>3, <3>1 DEF BC!BroadcastInv, BC!OnePlace
  <2>4. /\ \A m \in s3' : s9'[m] = 0 /\ s10'[m] = "none"
        /\ \A m \in BC!All : s10'[m] # "none" => s9'[m] = 1
    BY <1>1, <1>3, <2>1 DEF BC!BroadcastInv, BC!OnePlace, BC!BroadcastShapes, BC!States
  <2>5. ASSUME NEW v \in Handlers, BC!Holds(v)'
        PROVE  s10'[s4'[v].user] = "none"
               /\ s9'[s4'[v].user] = IF s4'[v].at = "send" THEN 0 ELSE 1
    <3>1. CASE v = u
      BY <1>1, <1>3, <1>4, <2>1, <3>1
    <3>2. CASE v # u
      <4>1. BC!Holds(v) /\ s4'[v] = s4[v] /\ s4[v].user \in BC!All \ {n}
        BY <1>1, <1>4, <1>6, <2>5, <3>2 DEF BC!BroadcastInv, BC!OnePlace
      <4>2. QED
        BY <1>3, <2>1, <4>1 DEF BC!BroadcastInv, BC!OnePlace
    <3>3. QED
      BY <3>1, <3>2
  <2>6. BC!Free' = BC!Free /\ BC!Over' = BC!Over
    BY DEF BC!Free, BC!Over
  <2>7. QED
    BY <2>3, <2>4, <2>5, <2>6, <2>8 DEF BC!OnePlace, BC!All
<1>8. BC!Tallied'
  <2>1. BC!Telling(TRUE)' = BC!Telling(TRUE) /\ BC!Telling(FALSE)' = BC!Telling(FALSE)
    BY <1>1, <1>4 DEF BC!Telling
  <2>2. BC!Reported("sent")' = BC!Reported("sent") /\ BC!Reported("failed")' = BC!Reported("failed")
    BY <1>3 DEF BC!Reported, BC!All
  <2>3. QED
    BY <1>3, <2>1, <2>2 DEF BC!BroadcastInv, BC!Tallied
<1>9. BC!Arrived'
  <2>1. s8'[n] = g /\ \A m \in BC!All \ {n} : s8'[m] = s8[m]
    BY <1>2 DEF BC!BroadcastInv, BC!BroadcastShapes, BC!States
  <2>2. ASSUME NEW v \in Handlers \ {u}, s4'[v].at \in {"count", "tell"}
        PROVE  s4'[v] = s4[v] /\ s4[v].user \in BC!All \ {n}
    BY <1>1, <1>4, <1>6, <2>2 DEF BC!BroadcastInv, BC!OnePlace, BC!Holds
  <2>3. CASE s1 \in {"text", "id"}
    BY <1>1, <1>2, <1>3, <1>4, <2>1, <2>2, <2>3 DEF BC!BroadcastInv, BC!Arrived, BC!All
  <2>4. CASE s1 = "reader"
    <3>1. ~s2'
      BY <1>3, <2>4
    <3>2. \A m, k \in BC!All : s8'[m] = "whole" /\ s8'[k] = "whole" => m = k
      BY <1>2, <1>3, <2>1, <2>4 DEF BC!BroadcastInv, BC!Arrived
    <3>3. QED
      BY <1>3, <2>4, <3>1, <3>2 DEF BC!Arrived, BC!All
  <2>5. QED
    BY <1>3, <2>3, <2>4 DEF BC!Arrived
<1>10. QED
  BY <1>5, <1>7, <1>8, <1>9 DEF BC!BroadcastInv

LEMMA BroadcastCount == ASSUME BC!BroadcastInv, NEW u \in Handlers, BC!Count(u) PROVE BC!BroadcastInv'
<1>1. PICK ok \in BOOLEAN : s4[u].at = "count" /\ s4[u].ok = ok
  BY DEF BC!BroadcastInv, BC!BroadcastShapes, BC!States, BC!Count
<1>2. /\ s3' = s3 /\ s10' = s10 /\ s9' = s9 /\ s1' = s1 /\ s8' = s8 /\ s2' = s2
      /\ s4' = [s4 EXCEPT ![u].at = "tell"]
      /\ s5' = s5 + (IF ok THEN 1 ELSE 0) /\ s6' = s6 + (IF ok THEN 0 ELSE 1)
  BY <1>1 DEF BC!Count
<1>3. /\ s4'[u] \in BC!States
      /\ s4'[u].at = "tell" /\ s4'[u].user = s4[u].user /\ s4'[u].ok = ok
      /\ \A v \in Handlers \ {u} : s4'[v] = s4[v]
      /\ DOMAIN s4' = Handlers
  BY <1>1, <1>2 DEF BC!BroadcastInv, BC!BroadcastShapes, BC!States
<1>4. BC!BroadcastShapes'
  <2>1. s4' \in [Handlers -> BC!States]
    BY <1>2, <1>3 DEF BC!BroadcastInv, BC!BroadcastShapes, BC!States
  <2>2. s5' \in Nat /\ s6' \in Nat
    BY <1>2 DEF BC!BroadcastInv, BC!BroadcastShapes, BC!States
  <2>3. QED
    BY <1>2, <2>1, <2>2 DEF BC!BroadcastInv, BC!BroadcastShapes, BC!States, BC!All
<1>5. BC!Holds(u) /\ BC!Holds(u)' /\ \A v \in Handlers \ {u} : BC!Holds(v)' = BC!Holds(v)
  BY <1>1, <1>3 DEF BC!Holds
<1>6. BC!OnePlace'
  <2>1. \A v \in Handlers : s4'[v].user = s4[v].user /\ BC!Holds(v)' = BC!Holds(v)
    BY <1>1, <1>3 DEF BC!Holds
  <2>2. /\ \A v \in Handlers : IF BC!Holds(v)' THEN s4'[v].user \in BC!All \ s3' ELSE s4'[v] \in {BC!Free, BC!Over}
        /\ \A v, w \in Handlers : BC!Holds(v)' /\ BC!Holds(w)' /\ s4'[v].user = s4'[w].user => v = w
        /\ \A m \in BC!All : m \in s3' \/ s10'[m] # "none" \/ \E v \in Handlers : BC!Holds(v)' /\ s4'[v].user = m
    BY <1>2, <1>3, <1>5, <2>1 DEF BC!BroadcastInv, BC!OnePlace
  <2>3. \A v \in Handlers : s4'[v] = BC!Over => s3' = {}
    <3>1. BC!Over.at = "over"
      BY DEF BC!Over
    <3>2. \A v \in Handlers : s4'[v] = BC!Over => s4[v] = BC!Over
      BY <1>3, <3>1
    <3>3. QED
      BY <1>2, <3>2 DEF BC!BroadcastInv, BC!OnePlace
  <2>4. \A v \in Handlers : BC!Holds(v)' => s10'[s4'[v].user] = "none"
               /\ s9'[s4'[v].user] = IF s4'[v].at = "send" THEN 0 ELSE 1
    BY <1>1, <1>2, <1>3, <2>1 DEF BC!BroadcastInv, BC!OnePlace
  <2>5. /\ \A m \in s3' : s9'[m] = 0 /\ s10'[m] = "none"
        /\ \A m \in BC!All : s10'[m] # "none" => s9'[m] = 1
    BY <1>2 DEF BC!BroadcastInv, BC!OnePlace
  <2>6. BC!Free' = BC!Free /\ BC!Over' = BC!Over
    BY DEF BC!Free, BC!Over
  <2>7. QED
    BY <2>2, <2>3, <2>4, <2>5, <2>6 DEF BC!OnePlace, BC!All
<1>7. BC!Tallied'
  <2>1. PICK a \in Nat, b \in Nat, c \in Nat, d \in Nat :
         /\ a = BC!Cardinality(BC!Reported("sent")) /\ b = BC!Cardinality(BC!Reported("failed"))
         /\ c = BC!Cardinality(BC!Telling(TRUE)) /\ d = BC!Cardinality(BC!Telling(FALSE))
    BY TellingFinite, ReportedFinite
  <2>2. s5 = a + c /\ s6 = b + d
    BY <2>1 DEF BC!BroadcastInv, BC!Tallied
  <2>3. BC!Reported("sent")' = BC!Reported("sent") /\ BC!Reported("failed")' = BC!Reported("failed")
    BY <1>2 DEF BC!Reported, BC!All
  <2>4. a = BC!Cardinality(BC!Reported("sent"))' /\ b = BC!Cardinality(BC!Reported("failed"))'
    BY <2>1, <2>3
  <2>5. CASE ok
    <3>0. s4[u].ok = TRUE /\ s4'[u].ok = TRUE
      BY <1>1, <1>3, <2>5, Zenon
    <3>1. BC!Telling(TRUE)' = BC!Telling(TRUE) \cup {u} /\ u \notin BC!Telling(TRUE) /\ BC!Telling(FALSE)' = BC!Telling(FALSE)
      BY <1>1, <1>3, <3>0 DEF BC!Telling
    <3>2. c + 1 = BC!Cardinality(BC!Telling(TRUE))' /\ d = BC!Cardinality(BC!Telling(FALSE))'
      BY <2>1, <3>1, TellingFinite, FS_AddElement, BroadcastCounts
    <3>3. s5' = a + (c + 1) /\ s6' = b + d
      BY <1>2, <2>2, <2>5
    <3>4. QED
      BY <2>4, <3>2, <3>3 DEF BC!Tallied
  <2>6. CASE ~ok
    <3>1. BC!Telling(FALSE)' = BC!Telling(FALSE) \cup {u} /\ u \notin BC!Telling(FALSE) /\ BC!Telling(TRUE)' = BC!Telling(TRUE)
      BY <1>1, <1>3, <2>6 DEF BC!Telling
    <3>2. d + 1 = BC!Cardinality(BC!Telling(FALSE))' /\ c = BC!Cardinality(BC!Telling(TRUE))'
      BY <2>1, <3>1, TellingFinite, FS_AddElement, BroadcastCounts
    <3>3. s5' = a + c /\ s6' = b + (d + 1)
      BY <1>2, <2>2, <2>6
    <3>4. QED
      BY <2>4, <3>2, <3>3 DEF BC!Tallied
  <2>7. QED
    BY <2>5, <2>6
<1>8. BC!Arrived'
  BY <1>1, <1>2, <1>3 DEF BC!BroadcastInv, BC!Arrived, BC!All
<1>9. QED
  BY <1>4, <1>6, <1>7, <1>8 DEF BC!BroadcastInv

LEMMA BroadcastTell == ASSUME BC!BroadcastInv, NEW u \in Handlers, BC!Tell(u) PROVE BC!BroadcastInv'
<1>1. PICK ok \in BOOLEAN, n \in BC!All : s4[u].at = "tell" /\ s4[u].ok = ok /\ s4[u].user = n
         /\ n \notin s3 /\ s10[n] = "none" /\ s9[n] = 1
  BY DEF BC!BroadcastInv, BC!BroadcastShapes, BC!States, BC!OnePlace, BC!Holds, BC!Tell
<1>2. PICK result \in {"sent", "failed"} : result = IF ok THEN "sent" ELSE "failed"
  OBVIOUS
<1>3. /\ s3' = s3 /\ s5' = s5 /\ s6' = s6 /\ s9' = s9 /\ s1' = s1 /\ s8' = s8 /\ s2' = s2
      /\ s4' = [s4 EXCEPT ![u] = BC!Free] /\ s10' = [s10 EXCEPT ![n] = result]
  BY <1>1, <1>2 DEF BC!Tell
<1>4. /\ s4'[u] = BC!Free /\ BC!Free.at = "free" /\ BC!Over.at = "over"
      /\ \A v \in Handlers \ {u} : s4'[v] = s4[v]
      /\ s10'[n] = result /\ \A m \in BC!All \ {n} : s10'[m] = s10[m]
  BY <1>3 DEF BC!BroadcastInv, BC!BroadcastShapes, BC!States, BC!Free, BC!Over
<1>5. BC!BroadcastShapes'
  <2>1. s4' \in [Handlers -> BC!States]
    BY <1>3, ServicesAssumption DEF BC!BroadcastInv, BC!BroadcastShapes, BC!States, BC!Free
  <2>2. s10' \in [BC!All -> {"none", "sent", "failed"}]
    BY <1>3 DEF BC!BroadcastInv, BC!BroadcastShapes, BC!States
  <2>3. QED
    BY <1>3, <2>1, <2>2 DEF BC!BroadcastInv, BC!BroadcastShapes, BC!States, BC!All
<1>6. BC!Holds(u) /\ ~BC!Holds(u)' /\ \A v \in Handlers \ {u} : BC!Holds(v)' = BC!Holds(v)
  BY <1>1, <1>4 DEF BC!Holds
<1>7. BC!OnePlace'
  <2>1. ASSUME NEW v \in Handlers \ {u}, BC!Holds(v)
        PROVE  s4[v].user \in BC!All \ {n}
    BY <1>1, <1>6, <2>1 DEF BC!BroadcastInv, BC!OnePlace
  <2>2. /\ \A v \in Handlers : IF BC!Holds(v)' THEN s4'[v].user \in BC!All \ s3' ELSE s4'[v] \in {BC!Free, BC!Over}
        /\ \A v, w \in Handlers : BC!Holds(v)' /\ BC!Holds(w)' /\ s4'[v].user = s4'[w].user => v = w
    BY <1>3, <1>4, <1>6 DEF BC!BroadcastInv, BC!OnePlace
  <2>3. \A m \in BC!All : m \in s3' \/ s10'[m] # "none" \/ \E v \in Handlers : BC!Holds(v)' /\ s4'[v].user = m
    <3>1. ASSUME NEW m \in BC!All \ {n}, m \notin s3, s10[m] = "none"
          PROVE  \E v \in Handlers : BC!Holds(v)' /\ s4'[v].user = m
      <4>1. PICK v \in Handlers : BC!Holds(v) /\ s4[v].user = m
        BY <3>1 DEF BC!BroadcastInv, BC!OnePlace
      <4>2. v # u
        BY <1>1, <4>1
      <4>3. QED
        BY <1>4, <1>6, <4>1, <4>2
    <3>2. QED
      BY <1>3, <1>4, <3>1
  <2>4. \A v \in Handlers : s4'[v] = BC!Over => s3' = {}
    BY <1>3, <1>4 DEF BC!BroadcastInv, BC!OnePlace
  <2>5. \A v \in Handlers : BC!Holds(v)' => s10'[s4'[v].user] = "none"
               /\ s9'[s4'[v].user] = IF s4'[v].at = "send" THEN 0 ELSE 1
    BY <1>3, <1>4, <1>6, <2>1 DEF BC!BroadcastInv, BC!OnePlace
  <2>6. /\ \A m \in s3' : s9'[m] = 0 /\ s10'[m] = "none"
        /\ \A m \in BC!All : s10'[m] # "none" => s9'[m] = 1
    BY <1>1, <1>3, <1>4 DEF BC!BroadcastInv, BC!OnePlace, BC!BroadcastShapes, BC!States
  <2>7. BC!Free' = BC!Free /\ BC!Over' = BC!Over
    BY DEF BC!Free, BC!Over
  <2>8. QED
    BY <2>2, <2>3, <2>4, <2>5, <2>6, <2>7 DEF BC!OnePlace, BC!All
<1>8. BC!Tallied'
  <2>1. PICK a \in Nat, b \in Nat, c \in Nat, d \in Nat :
         /\ a = BC!Cardinality(BC!Reported("sent")) /\ b = BC!Cardinality(BC!Reported("failed"))
         /\ c = BC!Cardinality(BC!Telling(TRUE)) /\ d = BC!Cardinality(BC!Telling(FALSE))
    BY TellingFinite, ReportedFinite
  <2>2. s5 = a + c /\ s6 = b + d
    BY <2>1 DEF BC!BroadcastInv, BC!Tallied
  <2>3. CASE ok
    <3>0. s4[u].ok = TRUE /\ result = "sent"
      BY <1>1, <1>2, <2>3, Zenon
    <3>1. /\ BC!Telling(TRUE)' = BC!Telling(TRUE) \ {u} /\ u \in BC!Telling(TRUE)
          /\ BC!Telling(FALSE)' = BC!Telling(FALSE)
          /\ BC!Reported("sent")' = BC!Reported("sent") \cup {n} /\ n \notin BC!Reported("sent")
          /\ BC!Reported("failed")' = BC!Reported("failed")
      <4>1. /\ BC!Telling(TRUE)' = BC!Telling(TRUE) \ {u} /\ u \in BC!Telling(TRUE)
            /\ BC!Telling(FALSE)' = BC!Telling(FALSE)
        BY <1>1, <1>4, <3>0 DEF BC!Telling
      <4>2. /\ BC!Reported("sent")' = BC!Reported("sent") \cup {n} /\ n \notin BC!Reported("sent")
            /\ BC!Reported("failed")' = BC!Reported("failed")
        BY <1>1, <1>4, <3>0 DEF BC!Reported, BC!All
      <4>3. QED
        BY <4>1, <4>2
    <3>2. c - 1 = BC!Cardinality(BC!Telling(TRUE))' /\ d = BC!Cardinality(BC!Telling(FALSE))'
      BY <2>1, <3>1, TellingFinite, FS_RemoveElement, BroadcastCounts
    <3>3. a + 1 = BC!Cardinality(BC!Reported("sent"))' /\ b = BC!Cardinality(BC!Reported("failed"))'
      BY <2>1, <3>1, ReportedFinite, FS_AddElement, BroadcastCounts
    <3>4. s5' = (a + 1) + (c - 1) /\ s6' = b + d
      BY <1>3, <2>2
    <3>5. QED
      BY <3>2, <3>3, <3>4 DEF BC!Tallied
  <2>4. CASE ~ok
    <3>1. /\ BC!Telling(FALSE)' = BC!Telling(FALSE) \ {u} /\ u \in BC!Telling(FALSE)
          /\ BC!Telling(TRUE)' = BC!Telling(TRUE)
          /\ BC!Reported("failed")' = BC!Reported("failed") \cup {n} /\ n \notin BC!Reported("failed")
          /\ BC!Reported("sent")' = BC!Reported("sent")
      <4>1. /\ BC!Telling(FALSE)' = BC!Telling(FALSE) \ {u} /\ u \in BC!Telling(FALSE)
            /\ BC!Telling(TRUE)' = BC!Telling(TRUE)
        BY <1>1, <1>2, <1>4, <2>4 DEF BC!Telling
      <4>2. /\ BC!Reported("failed")' = BC!Reported("failed") \cup {n} /\ n \notin BC!Reported("failed")
            /\ BC!Reported("sent")' = BC!Reported("sent")
        BY <1>1, <1>2, <1>4, <2>4 DEF BC!Reported, BC!All
      <4>3. QED
        BY <4>1, <4>2
    <3>2. d - 1 = BC!Cardinality(BC!Telling(FALSE))' /\ c = BC!Cardinality(BC!Telling(TRUE))'
      BY <2>1, <3>1, TellingFinite, FS_RemoveElement, BroadcastCounts
    <3>3. b + 1 = BC!Cardinality(BC!Reported("failed"))' /\ a = BC!Cardinality(BC!Reported("sent"))'
      BY <2>1, <3>1, ReportedFinite, FS_AddElement, BroadcastCounts
    <3>4. s5' = a + c /\ s6' = (b + 1) + (d - 1)
      BY <1>3, <2>2
    <3>5. QED
      BY <3>2, <3>3, <3>4 DEF BC!Tallied
  <2>5. QED
    BY <2>3, <2>4
<1>9. BC!Arrived'
  <2>1. CASE s1 \in {"text", "id"}
    BY <1>1, <1>2, <1>3, <1>4, <2>1 DEF BC!BroadcastInv, BC!Arrived, BC!All
  <2>2. CASE s1 = "reader"
    BY <1>3, <2>2 DEF BC!BroadcastInv, BC!Arrived, BC!All
  <2>3. QED
    BY <1>3, <2>1, <2>2 DEF BC!Arrived
<1>10. QED
  BY <1>5, <1>7, <1>8, <1>9 DEF BC!BroadcastInv

\* No step of a broadcast, and none beside it, breaks the invariant.
LEMMA BroadcastStep == ASSUME BC!BroadcastInv, [BC!BroadcastsNext]_(BC!broadcastVars) PROVE BC!BroadcastInv'
<1>1. CASE UNCHANGED BC!broadcastVars
  BY <1>1 DEF BC!broadcastVars, BC!BroadcastInv, BC!BroadcastShapes, BC!States, BC!OnePlace, BC!Tallied,
     BC!Arrived, BC!Holds, BC!Reported, BC!Telling,
              BC!Free, BC!Over, BC!All
<1>2. CASE BC!BroadcastsNext
  BY <1>2, BroadcastTake, BroadcastSend, BroadcastCount, BroadcastTell DEF BC!BroadcastsNext
<1>3. QED
  BY <1>1, <1>2

\* All users are in the channel at first.
LEMMA BroadcastBegins == ASSUME BC!InitBroadcasts PROVE BC!BroadcastInv
<1>1. BC!BroadcastShapes /\ BC!Arrived
  BY ServicesAssumption DEF BC!InitBroadcasts, BC!BroadcastShapes, BC!States, BC!Arrived, BC!Free
<1>2. BC!OnePlace
  BY DEF BC!InitBroadcasts, BC!OnePlace, BC!Holds, BC!Free, BC!Over
<1>3. BC!Reported("sent") = {} /\ BC!Reported("failed") = {} /\ BC!Telling(TRUE) = {} /\ BC!Telling(FALSE) = {}
  BY DEF BC!InitBroadcasts, BC!Reported, BC!Telling, BC!Free
<1>4. BC!Tallied
  <2>1. PICK zero : zero = BC!Cardinality({}) /\ zero = 0
    BY FS_EmptySet, BroadcastCounts
  <2>2. s5 = zero + zero /\ s6 = zero + zero
    BY <2>1 DEF BC!InitBroadcasts
  <2>3. QED
    BY <1>3, <2>1, <2>2 DEF BC!Tallied
<1>5. QED
  BY <1>1, <1>2, <1>4 DEF BC!BroadcastInv

\* When all workers are over, everyone has been told of.
LEMMA BroadcastOver == ASSUME BC!BroadcastInv PROVE BC!EachOnce
<1>1. \A n \in BC!All : s9[n] <= 1
  BY DEF BC!BroadcastInv, BC!BroadcastShapes, BC!States
<1>2. ASSUME \A u \in Handlers : s4[u] = BC!Over
      PROVE  /\ \A n \in BC!All : s9[n] = 1
             /\ s5 = BC!Cardinality({n \in BC!All : s10[n] = "sent"})
             /\ s6 = BC!Cardinality({n \in BC!All : s10[n] = "failed"})
             /\ s5 + s6 = Users
             /\ \A n \in BC!All : s10[n] = "sent" /\ s1 \in {"text", "id"} => s8[n] = "whole"
             /\ s1 = "reader" => BC!Cardinality({n \in BC!All : s8[n] = "whole"}) <= 1
  <2>1. s3 = {} /\ \A u \in Handlers : ~BC!Holds(u)
    BY <1>2, ServicesAssumption DEF BC!BroadcastInv, BC!OnePlace, BC!Holds, BC!Over
  <2>2. \A n \in BC!All : s10[n] # "none" /\ s9[n] = 1
    BY <2>1 DEF BC!BroadcastInv, BC!OnePlace
  <2>3. BC!Telling(TRUE) = {} /\ BC!Telling(FALSE) = {}
    BY <1>2 DEF BC!Telling, BC!Over
  <2>4. s5 = BC!Cardinality(BC!Reported("sent")) /\ s6 = BC!Cardinality(BC!Reported("failed"))
    <3>1. PICK a \in Nat, b \in Nat : a = BC!Cardinality(BC!Reported("sent")) /\ b = BC!Cardinality(BC!Reported("failed"))
      BY ReportedFinite
    <3>2. BC!Cardinality(BC!Telling(TRUE)) = 0 /\ BC!Cardinality(BC!Telling(FALSE)) = 0
      BY <2>3, FS_EmptySet, BroadcastCounts
    <3>3. s5 = a + 0 /\ s6 = b + 0
      BY <3>1, <3>2 DEF BC!BroadcastInv, BC!Tallied
    <3>4. QED
      BY <3>1, <3>3
  <2>5. s5 + s6 = Users
    <3>1. BC!Reported("sent") \cup BC!Reported("failed") = BC!All /\ BC!Reported("sent") \cap BC!Reported("failed") = {}
      BY <2>2 DEF BC!Reported, BC!BroadcastInv, BC!BroadcastShapes, BC!States
    <3>2. BC!Cardinality(BC!All) = Users
      BY ServicesAssumption, FS_Interval, BroadcastCounts DEF BC!All
    <3>3. Users = BC!Cardinality(BC!Reported("sent")) + BC!Cardinality(BC!Reported("failed"))
      BY <3>1, <3>2, ReportedFinite, BroadcastSplits
    <3>4. QED
      BY <2>4, <3>3
  <2>6. ASSUME s1 = "reader"
        PROVE  BC!Cardinality({n \in BC!All : s8[n] = "whole"}) <= 1
    <3>1. \A n, m \in BC!All : s8[n] = "whole" /\ s8[m] = "whole" => n = m
      BY <2>6 DEF BC!BroadcastInv, BC!Arrived
    <3>2. CASE {n \in BC!All : s8[n] = "whole"} = {}
      BY <3>2, FS_EmptySet, BroadcastCounts
    <3>3. CASE \E n \in BC!All : {m \in BC!All : s8[m] = "whole"} = {n}
      <4>1. PICK n \in BC!All : {m \in BC!All : s8[m] = "whole"} = {n}
        BY <3>3
      <4>2. BC!Cardinality({m \in BC!All : s8[m] = "whole"}) = 1
        BY <4>1, BroadcastOne
      <4>3. QED
        BY <4>2
    <3>4. QED
      BY <3>1, <3>2, <3>3
  <2>7. \A n \in BC!All : s10[n] = "sent" /\ s1 \in {"text", "id"} => s8[n] = "whole"
    BY DEF BC!BroadcastInv, BC!Arrived
  <2>8. QED
    BY <2>2, <2>4, <2>5, <2>6, <2>7 DEF BC!Reported
<1>3. QED
  BY <1>1, <1>2 DEF BC!EachOnce

\* Behaviours of the background and of a broadcast are those of the services in which the part is theirs.
LEMMA BackgroundAlone ==
    ASSUME part = "background", [ServicesNext]_servicesVars
    PROVE  [BG!BackgroundNext]_(BG!backgroundVars)
BY DEF ServicesNext, servicesVars, shared, BG!backgroundVars, SessionsMove, WizardsMove, SurveysMove,
       CaptchaMoves, RegistryMoves, DownloadMoves, UploadMoves, HubMoves, LogMoves, BackgroundMoves,
       PagesMove, MenusMove, AnalyticsMoves, VolumesMove, BroadcastMoves, WarningsMove

LEMMA BroadcastAlone ==
    ASSUME part = "broadcast", [ServicesNext]_servicesVars
    PROVE  [BC!BroadcastsNext]_(BC!broadcastVars)
BY DEF ServicesNext, servicesVars, shared, BC!broadcastVars, SessionsMove, WizardsMove, SurveysMove,
       CaptchaMoves, RegistryMoves, DownloadMoves, UploadMoves, HubMoves, LogMoves, BackgroundMoves,
       PagesMove, MenusMove, AnalyticsMoves, VolumesMove, BroadcastMoves, WarningsMove

\* A purge deletes the newest messages, as many as it was asked for, unless another one ran or a request
\* failed; no more run in the background than there are places, and only nested calls of Go can stop them
\* all; and a broadcast tries every user once and counts what it told of (context.go, send.go).
THEOREM BackgroundIsSound == ServicesSpec => []BackgroundSound
<1> DEFINE Inv == (part = "background" => BG!BackgroundInv) /\ (part = "broadcast" => BC!BroadcastInv)
<1>1. ServicesInit => Inv
  BY BackgroundBegins, BroadcastBegins DEF ServicesInit
<1>2. Inv /\ [ServicesNext]_servicesVars => Inv'
  BY BackgroundAlone, BroadcastAlone, BackgroundStep, BroadcastStep, PartStays
<1>3. Inv => BackgroundSound
  BY BackgroundHolds, BroadcastOver DEF BackgroundSound
<1>4. QED
  BY <1>1, <1>2, <1>3, PTL DEF ServicesSpec
=============================================================================
