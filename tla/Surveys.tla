------------------------------- MODULE Surveys -------------------------------
(***************************************************************************)
(* Surveys of one user in one chat (flows.go): questions with buttons.     *)
(*                                                                         *)
(* The prefix of a question's buttons names the user, the question and how *)
(* many there are, not the survey: Bot.callbacks has one handler for it,   *)
(* that of the survey that asked last.  The answers lie in the session.    *)
(***************************************************************************)
EXTENDS Naturals, Sequences

CONSTANTS
    Updaters,   \* workers with updates of this user
    Questions,  \* how many questions a survey has
    MaxSurveys, \* bound: surveys
    MaxClicks   \* bound: clicks

VARIABLES
    callbacks, \* per question the survey whose handler is registered, 0 for none
    shown,     \* questions whose buttons somebody can click
    answers,   \* the session: the questions answered so far
    workers,   \* per worker what it is at
    surveys, clicks, \* bound counters; surveys numbers them
    late,      \* questions with a timer that has not fired
    completed, \* history: what OnComplete was called with
    doubted    \* history: handlers have overlapped, or a survey began before another ended

surveyVars == <<callbacks, shown, answers, workers, surveys, clicks, late, completed, doubted>>

-----------------------------------------------------------------------------
Idle == [at |-> "idle", survey |-> 0, question |-> 0, answers |-> <<>>]
All == 1..Questions

InitSurveys ==
    /\ callbacks = [q \in All |-> 0]
    /\ shown = {}
    /\ answers = <<>>
    /\ workers = [u \in Updaters |-> Idle]
    /\ surveys = 0 /\ clicks = 0
    /\ late = {}
    /\ completed = {}
    /\ doubted = FALSE

Step(u, from, new) == workers[u].at = from /\ workers' = [workers EXCEPT ![u] = new]
Going(u, to) == [workers[u] EXCEPT !.at = to]
Overlap(u) == \E v \in Updaters \ {u} : workers[v] # Idle

\* A command begins a survey.
Open(u) ==
    /\ surveys < MaxSurveys
    /\ surveys' = surveys + 1
    /\ Step(u, "idle", [at |-> "ask", survey |-> surveys', question |-> 1, answers |-> <<>>])
    /\ doubted' = (doubted \/ Overlap(u) \/ callbacks # [q \in All |-> 0] \/ shown # {})
    /\ UNCHANGED <<callbacks, shown, answers, clicks, late, completed>>

\* runStep: the buttons are sent, or take the place of the last question's; the answers
\* so far go into the session, and a timer is started.  That the sending failed is ignored.
Ask(u) ==
    LET w == workers[u]
    IN  /\ w.question <= Questions
        /\ Step(u, "ask", Going(u, "register"))
        /\ shown' \in {shown, (shown \ {w.question - 1}) \cup {w.question}}
        /\ answers' = w.answers
        /\ late' = late \cup {w.question}
        /\ UNCHANGED <<callbacks, surveys, clicks, completed, doubted>>

\* Then the handler is registered.
Register(u) ==
    /\ Step(u, "register", Idle)
    /\ callbacks' = [callbacks EXCEPT ![workers[u].question] = workers[u].survey]
    /\ UNCHANGED <<shown, answers, surveys, clicks, late, completed, doubted>>

\* After the last question its message goes and OnComplete gets the answers.
Complete(u) ==
    LET w == workers[u]
    IN  /\ w.question > Questions
        /\ Step(u, "ask", Idle)
        /\ shown' \in {shown, shown \ {Questions}}
        /\ completed' = completed \cup {[survey |-> w.survey, answers |-> w.answers]}
        /\ UNCHANGED <<callbacks, answers, surveys, clicks, late, doubted>>

\* A click on a button that is shown: processUpdate finds the handler of its prefix.
Look(u, q) ==
    /\ q \in shown /\ clicks < MaxClicks
    /\ clicks' = clicks + 1
    /\ Step(u, "idle", IF callbacks[q] = 0 THEN Idle
                       ELSE [at |-> "run", survey |-> callbacks[q], question |-> q, answers |-> <<>>])
    /\ doubted' = (doubted \/ Overlap(u))
    /\ UNCHANGED <<callbacks, shown, answers, surveys, late, completed>>

\* Mutation of Run: the handler stays.
RunStays(u) ==
    /\ Step(u, "run", Going(u, "read"))
    /\ UNCHANGED <<callbacks, shown, answers, surveys, clicks, late, completed, doubted>>

\* The handler takes itself out.
Run(u) ==
    /\ Step(u, "run", Going(u, "read"))
    /\ callbacks' = [callbacks EXCEPT ![workers[u].question] = 0]
    /\ UNCHANGED <<shown, answers, surveys, clicks, late, completed, doubted>>

\* Mutation of Read: the answers are the handler's own.
ReadOwn(u) ==
    LET w == workers[u]
    IN  /\ Step(u, "read", [w EXCEPT !.at = "ask", !.question = @ + 1, !.answers = Append(@, w.question)])
        /\ UNCHANGED <<callbacks, shown, answers, surveys, clicks, late, completed, doubted>>

\* It adds its answer to those in the session, and the next question follows.
Read(u) ==
    LET w == workers[u]
    IN  /\ Step(u, "read", [w EXCEPT !.at = "ask", !.question = @ + 1, !.answers = Append(answers, w.question)])
        /\ UNCHANGED <<callbacks, shown, answers, surveys, clicks, late, completed, doubted>>

\* The timer goes through the recycled context of the handler that asked: it panics, or
\* takes out whatever handler the prefix has by then.
Timer(q) ==
    /\ q \in late
    /\ late' = late \ {q}
    /\ callbacks' \in {callbacks, [callbacks EXCEPT ![q] = 0]}
    /\ UNCHANGED <<shown, answers, workers, surveys, clicks, completed, doubted>>

SurveysNext ==
    \/ \E u \in Updaters :
          \/ Open(u) \/ Ask(u) \/ Register(u) \/ Complete(u) \/ Run(u) \/ Read(u)
          \/ \E q \in All : Look(u, q)
    \/ \E q \in All : Timer(q)

SurveySpec == InitSurveys /\ [][SurveysNext]_surveyVars

-----------------------------------------------------------------------------
(***************************************************************************)
(* Properties                                                              *)
(***************************************************************************)
\* The variables have their types.
SurveysTypeOK ==
    /\ callbacks \in [All -> 0..MaxSurveys] /\ shown \subseteq All /\ late \subseteq All
    /\ answers \in Seq(All)
    /\ \A u \in Updaters : workers[u].at \in {"idle", "ask", "register", "run", "read"}
    /\ doubted \in BOOLEAN

\* A survey completes at most once, with an answer to each of its questions in their order,
\* also when its timers go off or buttons of questions answered are clicked again - as long
\* as no buttons of another survey are left when it begins, and no two clicks are handled at
\* the same time.
AnswersInOrder ==
    ~doubted =>
        /\ \A c \in completed : c.answers = [q \in All |-> q]
        /\ \A c, d \in completed : c.survey = d.survey => c = d

-----------------------------------------------------------------------------
(***************************************************************************)
(* The invariant that makes AnswersInOrder hold.                           *)
(***************************************************************************)
Answered(n) == [i \in 1..n |-> i]

SurveyShapes ==
    /\ callbacks \in [All -> Nat] /\ surveys \in Nat /\ answers \in Seq(Nat)
    /\ workers \in [Updaters -> {Idle} \cup [at : {"ask", "register", "run", "read"}, survey : Nat,
                                             question : Nat \ {0}, answers : Seq(Nat)]]
    /\ \A c \in completed : c.survey \in Nat

\* A worker carries the last survey, at one of its questions and with the answers before that.
Carries(w) ==
    /\ w.survey = surveys
    /\ w.question <= Questions + 1 /\ (w.at # "ask" => w.question <= Questions)
    /\ IF w.at = "ask" THEN w.answers = Answered(w.question - 1) ELSE answers = Answered(w.question - 1)
    /\ \A q \in All : callbacks[q] # 0 => w.at = "run" /\ w.question = q

\* So does a handler that is registered.
Waits(q) ==
    /\ callbacks[q] = surveys /\ answers = Answered(q - 1)
    /\ \A p \in All : callbacks[p] # 0 => p = q

SurveyInv ==
    /\ SurveyShapes
    /\ ~doubted =>
          /\ \A u, v \in Updaters : workers[u] # Idle /\ workers[v] # Idle => u = v
          /\ \A u \in Updaters : workers[u] # Idle => Carries(workers[u])
          /\ \A q \in All : callbacks[q] # 0 => Waits(q)
          /\ \A c \in completed : c.survey <= surveys
          /\ \A c \in completed : c.survey = surveys =>
                (\A u \in Updaters : workers[u] = Idle) /\ (\A q \in All : callbacks[q] = 0)
    /\ AnswersInOrder
=============================================================================
