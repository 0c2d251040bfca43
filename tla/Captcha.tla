------------------------------- MODULE Captcha -------------------------------
(***************************************************************************)
(* The captcha of a new member (flows.go).                                 *)
(*                                                                         *)
(* A join marks the member as muted in the database, sends a button and    *)
(* starts a timer.  The button unmutes; the timer looks whether the member *)
(* is still muted, and then takes the message away, bans and unbans, and   *)
(* forgets the mark.  Joins and clicks are handled by any worker, and the  *)
(* timer runs beside them.                                                 *)
(***************************************************************************)
EXTENDS Naturals

CONSTANTS
    Clickers,  \* workers with a click of this member
    Timeout,   \* CaptchaChain.timeout, in ticks
    MaxJoins,  \* bound: joins
    MaxCrashes \* bound: crashes

VARIABLES
    inside,  \* the member is in the chat
    muted,   \* the mark
    joins,   \* per join its handler, its message and its timer
    latest,  \* CaptchaChain.timers: the join whose timer it holds, 0 for none
    clicks,  \* per worker what it is at, and whose button it was
    crashes,
    waited,  \* history: ticks since the last join
    passed,  \* history: a click since the last join has unmuted
    kicked,  \* history: how the member stood when it was banned
    unlucky  \* history: what explains a kick or a member without a way out

captchaVars == <<inside, muted, joins, latest, clicks, crashes, waited, passed, kicked, unlucky>>

-----------------------------------------------------------------------------
None == [handler |-> "none", message |-> FALSE, timer |-> "none", left |-> 0]
Idle == [at |-> "idle", join |-> 0]
Joins == 1..MaxJoins
Armed(j) == joins[j].timer = "armed"

InitCaptcha ==
    /\ inside = FALSE
    /\ muted = FALSE
    /\ joins = [j \in Joins |-> None]
    /\ latest = 0
    /\ clicks = [u \in Clickers |-> Idle]
    /\ crashes = 0
    /\ waited = 0
    /\ passed = FALSE
    /\ kicked = {}
    /\ unlucky = FALSE

Handler(j, from, new) == joins[j].handler = from /\ joins' = [joins EXCEPT ![j] = new]
Mark(condition) == unlucky' = (unlucky \/ condition)

\* The member joins; until its handler runs nothing is known of it.
Join(j) ==
    /\ ~inside
    /\ Handler(j, "none", [None EXCEPT !.handler = "mute"])
    /\ \A i \in 1..(j - 1) : joins[i].handler # "none"
    /\ inside' = TRUE
    /\ waited' = 0
    /\ passed' = FALSE
    /\ Mark(\/ \E i \in Joins : joins[i].timer \in {"armed", "checked"} \/ joins[i].handler = "arm"
            \/ \E u \in Clickers : clicks[u] # Idle)
    /\ UNCHANGED <<muted, latest, clicks, crashes, kicked>>

Mute(j) ==
    /\ Handler(j, "mute", [joins[j] EXCEPT !.handler = "send"])
    /\ muted' = TRUE
    /\ UNCHANGED <<inside, latest, clicks, crashes, waited, passed, kicked, unlucky>>

\* The button; if it cannot be sent the handler goes on to the next member.
Send(j) ==
    /\ \/ /\ Handler(j, "send", [joins[j] EXCEPT !.handler = "arm", !.message = TRUE])
          /\ UNCHANGED unlucky
       \/ /\ Handler(j, "send", [joins[j] EXCEPT !.handler = "over"])
          /\ Mark(TRUE)
    /\ UNCHANGED <<inside, muted, latest, clicks, crashes, waited, passed, kicked>>

\* The timer is started, and then stored, over that of an earlier join.
Arm(j) ==
    /\ Handler(j, "arm", [joins[j] EXCEPT !.handler = "store", !.timer = "armed", !.left = Timeout])
    /\ UNCHANGED <<inside, muted, latest, clicks, crashes, waited, passed, kicked, unlucky>>

Store(j) ==
    /\ Handler(j, "store", [joins[j] EXCEPT !.handler = "over"])
    /\ latest' = j
    /\ UNCHANGED <<inside, muted, clicks, crashes, waited, passed, kicked, unlucky>>

-----------------------------------------------------------------------------
\* A timer has looked at the mark already, or a join has yet to show its button.
Racing == \E j \in Joins : joins[j].timer = "checked" \/ joins[j].handler \in {"mute", "send"}

\* The member clicks on a button that it has seen.
Click(u) ==
    /\ clicks[u] = Idle /\ inside
    /\ \E j \in Joins : joins[j].message /\ clicks' = [clicks EXCEPT ![u] = [at |-> "stop", join |-> j]]
    /\ Mark(Racing)
    /\ UNCHANGED <<inside, muted, joins, latest, crashes, waited, passed, kicked>>

\* The timer that is stored is stopped, if it has not gone off.
Stop(u) ==
    /\ clicks[u].at = "stop"
    /\ clicks' = [clicks EXCEPT ![u].at = "unmute"]
    /\ joins' = IF latest # 0 /\ Armed(latest) THEN [joins EXCEPT ![latest].timer = "over"] ELSE joins
    /\ latest' = 0
    /\ UNCHANGED <<inside, muted, crashes, waited, passed, kicked, unlucky>>

\* Mutation of Unmute: the mark stays.
UnmuteNot(u) ==
    /\ clicks[u].at = "unmute"
    /\ clicks' = [clicks EXCEPT ![u] = Idle]
    /\ passed' = TRUE
    /\ joins' = [joins EXCEPT ![clicks[u].join].message = FALSE]
    /\ Mark(Racing)
    /\ UNCHANGED <<inside, muted, latest, crashes, waited, kicked>>

\* The mark goes, and then the message.
Unmute(u) ==
    /\ clicks[u].at = "unmute"
    /\ clicks' = [clicks EXCEPT ![u] = Idle]
    /\ muted' = FALSE
    /\ passed' = TRUE
    /\ joins' = [joins EXCEPT ![clicks[u].join].message = FALSE]
    /\ Mark(Racing)
    /\ UNCHANGED <<inside, latest, crashes, waited, kicked>>

-----------------------------------------------------------------------------
Timer(j, from, new) == joins[j].timer = from /\ joins' = [joins EXCEPT ![j] = new]

Tick ==
    /\ \E j \in Joins : Armed(j) /\ joins[j].left > 0
    /\ joins' = [j \in Joins |-> IF joins[j].left > 0 THEN [joins[j] EXCEPT !.left = @ - 1] ELSE joins[j]]
    /\ waited' = IF waited < Timeout THEN waited + 1 ELSE waited
    /\ UNCHANGED <<inside, muted, latest, clicks, crashes, passed, kicked, unlucky>>

\* Mutation of Check: the timer does not look.
CheckNot(j) ==
    /\ joins[j].left = 0
    /\ Timer(j, "armed", [joins[j] EXCEPT !.timer = "checked"])
    /\ latest' = 0
    /\ UNCHANGED <<inside, muted, clicks, crashes, waited, passed, kicked, unlucky>>

\* The timer goes off: whatever is stored is forgotten, and nothing else happens to who
\* is not muted.
Check(j) ==
    /\ joins[j].left = 0
    /\ Timer(j, "armed", [joins[j] EXCEPT !.timer = IF muted THEN "checked" ELSE "over"])
    /\ latest' = 0
    /\ UNCHANGED <<inside, muted, clicks, crashes, waited, passed, kicked, unlucky>>

\* The message is deleted and the member banned and unbanned; the bot may not be allowed to.
Kick(j) ==
    /\ Timer(j, "checked", [joins[j] EXCEPT !.timer = "kicked", !.message = FALSE])
    /\ \/ /\ inside' = FALSE
          /\ kicked' = IF inside THEN kicked \cup {[passed |-> passed, waited |-> waited]} ELSE kicked
          /\ UNCHANGED unlucky
       \/ /\ Mark(TRUE)
          /\ UNCHANGED <<inside, kicked>>
    /\ UNCHANGED <<muted, latest, clicks, crashes, waited, passed>>

\* The mark is forgotten, also when the member could not be banned.
Forget(j) ==
    /\ Timer(j, "kicked", [joins[j] EXCEPT !.timer = "over"])
    /\ muted' = FALSE
    /\ Mark(inside)
    /\ UNCHANGED <<inside, latest, clicks, crashes, waited, passed, kicked>>

Quit ==
    /\ inside
    /\ inside' = FALSE
    /\ UNCHANGED <<muted, joins, latest, clicks, crashes, waited, passed, kicked, unlucky>>

\* Timers and handlers are lost with the process, the mark and the buttons are not.
Crash ==
    /\ crashes < MaxCrashes
    /\ crashes' = crashes + 1
    /\ joins' = [j \in Joins |-> IF joins[j] = None THEN None
                                 ELSE [None EXCEPT !.handler = "over", !.message = joins[j].message]]
    /\ latest' = 0
    /\ clicks' = [u \in Clickers |-> Idle]
    /\ Mark(\/ \E j \in Joins : joins[j].handler \in {"mute", "send"} \/ joins[j].timer \in {"checked", "kicked"}
            \/ \E u \in Clickers : clicks[u] # Idle)
    /\ UNCHANGED <<inside, muted, waited, passed, kicked>>

CaptchaNext ==
    \/ \E j \in Joins :
          \/ Join(j) \/ Mute(j) \/ Send(j) \/ Arm(j) \/ Store(j)
          \/ Check(j) \/ Kick(j) \/ Forget(j)
    \/ \E u \in Clickers : Click(u) \/ Stop(u) \/ Unmute(u)
    \/ Tick \/ Quit \/ Crash

CaptchaSpec == InitCaptcha /\ [][CaptchaNext]_captchaVars

-----------------------------------------------------------------------------
(***************************************************************************)
(* Properties                                                              *)
(***************************************************************************)
\* The variables have their types.
CaptchaTypeOK ==
    /\ inside \in BOOLEAN /\ muted \in BOOLEAN /\ passed \in BOOLEAN
    /\ \A j \in Joins : joins[j].timer \in {"none", "armed", "checked", "kicked", "over"} /\ joins[j].left \in 0..Timeout
    /\ latest \in 0..MaxJoins /\ waited \in 0..Timeout
    /\ unlucky \in BOOLEAN

Settled == \A j \in Joins : joins[j].handler \in {"none", "over"} /\ joins[j].timer \in {"none", "armed", "over"}

\* Who is kicked has not passed, and had the whole time for it - unless a timer of an
\* earlier join was still running, or the click came when the timer had already looked.
KickedInTime ==
    ~unlucky => \A k \in kicked : ~k.passed /\ k.waited = Timeout

\* Who is muted has a button that unmutes, also after a restart - unless it could not be sent
\* or a crash fell into a join, a click or a kick.
MutedHasWayOut ==
    ~unlucky /\ inside /\ muted /\ Settled => \E j \in Joins : joins[j].message

\* Nobody writes without having passed - with the exceptions of both.
UnmutedHasPassed ==
    ~unlucky /\ inside /\ ~muted /\ Settled => passed

\* The three together.
CaptchaSettles == KickedInTime /\ MutedHasWayOut /\ UnmutedHasPassed

-----------------------------------------------------------------------------
(***************************************************************************)
(* What the three follow from                                              *)
(***************************************************************************)
\* What is known of a join.
Records ==
    [handler : {"none", "mute", "send", "arm", "store", "over"}, message : BOOLEAN,
     timer : {"none", "armed", "checked", "kicked", "over"}, left : 0..Timeout]

\* A timer has not run for longer than the member has been in the chat.
TimersInTime ==
    \A j \in Joins :
        /\ joins[j].timer \in {"armed", "checked"} => joins[j].left + waited >= Timeout
        /\ joins[j].timer = "checked" => joins[j].left = 0

\* Who has passed is not muted, and will not be without joining again.
PassedIsFree ==
    passed => ~muted /\ ~Racing

\* Who is muted has a button or will get one; who is not has passed or will be muted.
JoinsGoOn ==
    /\ inside /\ muted => \E j \in Joins : joins[j].message \/ joins[j].handler \in {"mute", "send"}
    /\ inside /\ ~muted => passed \/ \E j \in Joins : joins[j].handler = "mute"

\* All that CaptchaSettles follows from: the times, unless something unlucky came in between.
CaptchaInv ==
    /\ joins \in [Joins -> Records] /\ waited \in 0..Timeout
    /\ ~unlucky => TimersInTime /\ PassedIsFree /\ JoinsGoOn /\ KickedInTime
=============================================================================
