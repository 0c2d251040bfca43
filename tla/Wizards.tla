------------------------------- MODULE Wizards -------------------------------
(***************************************************************************)
(* Wizards and forms of one chat (flows.go): questions that are answered   *)
(* by the chat's next messages.                                            *)
(*                                                                         *)
(* A question registers a handler under a new name and leaves that name in *)
(* the chat's session, so what looks at the session later runs it.  The    *)
(* answers of a form lie in the session until the last is there.           *)
(***************************************************************************)
EXTENDS Naturals, Sequences, FiniteSets

CONSTANTS
    Updaters,   \* workers with updates of this chat
    Fields,     \* how many questions a form has
    Numeric,    \* those for an int that is validated as numeric
    MaxWizards, \* bound: wizards
    MaxTexts,   \* bound: messages
    MaxTimers   \* bound: timers that fire

VARIABLES
    names,    \* Bot.states: per name of a state the wizard and the question, from 1
    pointer,  \* the session's state, 0 for none
    answers,  \* the session's data: per question the message that answered it
    workers,  \* per worker what it is at
    wizards, texts, \* bound counters; they number wizards and messages
    wrong,    \* messages that no validation lets pass
    persian,  \* numbers that were written with Persian digits
    late,     \* timers of states that have not fired
    timers,   \* how many have
    forms,    \* history: what completed forms got, and what they were answered
    given,    \* history: per wizard its accepted answers in order
    overlap   \* history: two handlers of this chat have overlapped

wizardVars == <<names, pointer, answers, workers, wizards, texts, wrong, persian, late, timers, forms, given, overlap>>

-----------------------------------------------------------------------------
Idle == [at |-> "idle", wizard |-> 0, step |-> 0, name |-> 0, text |-> 0]
Prompts == 1..Fields

InitWizards ==
    /\ names = [n \in {} |-> Idle]
    /\ pointer = 0
    /\ answers = [q \in Prompts |-> 0]
    /\ workers = [u \in Updaters |-> Idle]
    /\ wizards = 0 /\ texts = 0
    /\ wrong = {}
    /\ persian = {}
    /\ late = {}
    /\ timers = 0
    /\ forms = {}
    /\ given = <<>>
    /\ overlap = FALSE

Step(u, from, new) == workers[u].at = from /\ workers' = [workers EXCEPT ![u] = new]
Going(u, to) == [workers[u] EXCEPT !.at = to]
Overlaps(u) == overlap' = (overlap \/ \E v \in Updaters \ {u} : workers[v] # Idle)
Without(name) == [n \in DOMAIN names \ {name} |-> names[n]]

\* A command opens a wizard.
Open(u) ==
    /\ wizards < MaxWizards
    /\ wizards' = wizards + 1
    /\ Step(u, "idle", [Idle EXCEPT !.at = "ask", !.wizard = wizards', !.step = 1])
    /\ given' = Append(given, <<>>)
    /\ Overlaps(u)
    /\ UNCHANGED <<names, pointer, answers, texts, wrong, persian, late, timers, forms>>

\* runStep: the question is sent and its state registered under a new name, with a timer.
Ask(u) ==
    LET old == late \cup {pointer} \cup {workers[v].name : v \in Updaters}
        new == CHOOSE n \in 1..(Cardinality(old) + 1) : ~n \in old
    IN  /\ workers[u].step <= Fields
        /\ Step(u, "ask", [Going(u, "point") EXCEPT !.name = new])
        /\ names' = [n \in DOMAIN names \cup {new} |->
                        IF n = new THEN [wizard |-> workers[u].wizard, step |-> workers[u].step] ELSE names[n]]
        /\ late' = late \cup {new}
        /\ UNCHANGED <<pointer, answers, wizards, texts, wrong, persian, timers, forms, given, overlap>>

\* The session gets the name, as the last thing.
Point(u) ==
    /\ Step(u, "point", Idle)
    /\ pointer' = workers[u].name
    /\ UNCHANGED <<names, answers, wizards, texts, wrong, persian, late, timers, forms, given, overlap>>

\* After the last question OnComplete reads all answers from the session, and makes
\* nothing of digits that Atoi does not know.
Complete(u) ==
    /\ workers[u].step > Fields
    /\ Step(u, "ask", Idle)
    /\ forms' = forms \cup {[wizard |-> workers[u].wizard, got |-> [q \in Prompts |-> IF answers[q] \in persian THEN 0 ELSE answers[q]]]}
    /\ UNCHANGED <<names, pointer, answers, wizards, texts, wrong, persian, late, timers, given, overlap>>

\* A message of anybody in the chat: processUpdate finds the handler of the session's state.
Look(u) ==
    /\ texts < MaxTexts
    /\ texts' = texts + 1
    /\ IF pointer \in DOMAIN names
       THEN Step(u, "idle", [at |-> "run", wizard |-> names[pointer].wizard, step |-> names[pointer].step,
                             name |-> pointer, text |-> texts'])
       ELSE Step(u, "idle", [Idle EXCEPT !.at = "other"])
    /\ Overlaps(u)
    /\ UNCHANGED <<names, pointer, answers, wizards, wrong, persian, late, timers, forms, given>>

\* Another handler has the message.
Other(u) ==
    /\ Step(u, "other", Idle)
    /\ UNCHANGED <<names, pointer, answers, wizards, texts, wrong, persian, late, timers, forms, given, overlap>>

\* Mutation of Run: a wrong answer is warned of and taken.
RunTakes(u) ==
    /\ Step(u, "run", Going(u, "clear"))
    /\ names' = Without(workers[u].name)
    /\ UNCHANGED persian
    /\ wrong' \in {wrong, wrong \cup {workers[u].text}}
    /\ UNCHANGED <<pointer, answers, wizards, texts, late, timers, forms, given, overlap>>

\* The handler takes its state out.  A wrong answer repeats the question; a number may
\* have been written with Persian digits, which the validation reads.
Run(u) ==
    /\ \/ /\ Step(u, "run", Going(u, "clear"))
          /\ persian' \in {persian, IF workers[u].step \in Numeric THEN persian \cup {workers[u].text} ELSE persian}
          /\ UNCHANGED wrong
       \/ /\ Step(u, "run", Going(u, "ask"))
          /\ wrong' = wrong \cup {workers[u].text}
          /\ UNCHANGED persian
    /\ names' = Without(workers[u].name)
    /\ UNCHANGED <<pointer, answers, wizards, texts, late, timers, forms, given, overlap>>

Clear(u) ==
    /\ Step(u, "clear", Going(u, "handle"))
    /\ pointer' = 0
    /\ UNCHANGED <<names, answers, wizards, texts, wrong, persian, late, timers, forms, given, overlap>>

\* The step's handler stores the answer; the next question follows.
Handle(u) ==
    LET w == workers[u]
    IN  /\ Step(u, "handle", [w EXCEPT !.at = "ask", !.step = @ + 1])
        /\ answers' = [answers EXCEPT ![w.step] = w.text]
        /\ given' = [given EXCEPT ![w.wizard] = Append(@, w.text)]
        /\ UNCHANGED <<names, pointer, wizards, texts, wrong, persian, late, timers, forms, overlap>>

\* The timer of a state, fifteen minutes later, goes through the context of the handler
\* that asked.  That has been recycled: without a bot the timer panics, in use by another
\* update it takes out the state, and clears the session if that is of this chat.
Timer(name) ==
    /\ name \in late /\ timers < MaxTimers
    /\ timers' = timers + 1
    /\ late' = late \ {name}
    /\ \/ UNCHANGED <<names, pointer>>
       \/ /\ names' = Without(name)
          /\ pointer' \in {pointer, IF pointer = name THEN 0 ELSE pointer}
    /\ UNCHANGED <<answers, workers, wizards, texts, wrong, persian, forms, given, overlap>>

WizardsNext ==
    \/ \E u \in Updaters :
          \/ Open(u) \/ Ask(u) \/ Point(u) \/ Complete(u) \/ Look(u) \/ Other(u) \/ Run(u) \/ Clear(u) \/ Handle(u)
    \/ \E name \in late : Timer(name)

WizardSpec == InitWizards /\ [][WizardsNext]_wizardVars

-----------------------------------------------------------------------------
(***************************************************************************)
(* Properties                                                              *)
(***************************************************************************)
\* The variables have their types.
WizardsTypeOK ==
    /\ \A n \in DOMAIN names : names[n].wizard \in 1..wizards /\ names[n].step \in Prompts
    /\ answers \in [Prompts -> 0..MaxTexts]
    /\ \A u \in Updaters : workers[u].at \in {"idle", "ask", "point", "other", "run", "clear", "handle"}
    /\ wrong \subseteq 1..MaxTexts /\ overlap \in BOOLEAN

\* Whatever was wrong and asked again, given up for another wizard, or timed out, a form
\* that completes does so once and has got its own answers, each to its question and
\* valid - as long as no two messages of the chat are handled at the same time, and but
\* for numbers in Persian digits, which are valid and become zero.
FormsWhole ==
    ~overlap =>
        /\ \A f \in forms, q \in Prompts :
              LET answer == given[f.wizard][q]
              IN  answer \in persian \/ (f.got[q] = answer /\ ~answer \in wrong)
        /\ \A f \in forms : Len(given[f.wizard]) = Fields
        /\ \A f, g \in forms : f.wizard = g.wizard => f = g

-----------------------------------------------------------------------------
(***************************************************************************)
(* The invariant that makes FormsWhole hold.                               *)
(***************************************************************************)
WizardShapes ==
    /\ names \in [DOMAIN names -> [wizard : 1..wizards, step : Prompts]] /\ DOMAIN names \subseteq Nat \ {0}
    /\ answers \in [Prompts -> Nat]
    /\ workers \in [Updaters -> [at : {"idle", "ask", "point", "other", "run", "clear", "handle"}, wizard : 0..wizards,
                                 step : 0..(Fields + 1), name : Nat, text : Nat]]
    /\ \A u \in Updaters : workers[u].at = "idle" => workers[u] = Idle
    /\ \A u \in Updaters : workers[u].at \notin {"idle", "other"} => workers[u].wizard # 0 /\ workers[u].step # 0
    /\ \A u \in Updaters : workers[u].at \in {"point", "run", "clear", "handle"} => workers[u].step \in Prompts
    /\ \A u \in Updaters : workers[u].at \in {"run", "clear", "handle"} => workers[u].text \in 1..texts
    /\ wizards \in Nat /\ texts \in Nat /\ IsFiniteSet(late)
    /\ given \in Seq(Seq(Nat)) /\ Len(given) = wizards
    /\ \A w \in 1..wizards : \A q \in DOMAIN given[w] : given[w][q] <= texts
    /\ wrong \subseteq 1..texts
    /\ \A f \in forms : f.wizard \in 1..wizards

\* A wizard that is at a question has valid answers to those before, which the session keeps.
Reached(w, step) ==
    /\ Len(given[w]) = step - 1
    /\ \A q \in 1..(step - 1) : given[w][q] = answers[q] /\ given[w][q] \notin wrong
    /\ \A f \in forms : f.wizard # w

\* A worker is at a question, with a message that nobody else has had; the session's pointer
\* leads to a question of an earlier wizard, or to the one whose answer has been found.
AtQuestion(w) ==
    /\ Reached(w.wizard, w.step)
    /\ w.at = "point" /\ w.name \in DOMAIN names => names[w.name] = [wizard |-> w.wizard, step |-> w.step]
    /\ w.at \in {"run", "clear", "handle"} =>
          /\ w.text = texts /\ texts \notin wrong
          /\ \A v \in 1..wizards : \A q \in DOMAIN given[v] : given[v][q] < texts
    /\ w.at = "run" => pointer \in {0, w.name}
    /\ pointer \in DOMAIN names => w.at \in {"ask", "point", "run"}
    /\ pointer \in DOMAIN names /\ w.at # "run" => names[pointer].wizard # w.wizard

WizardInv ==
    /\ WizardShapes
    /\ ~overlap =>
          /\ \A u, v \in Updaters : workers[u] # Idle /\ workers[v] # Idle => u = v
          /\ \A u \in Updaters : workers[u].at \notin {"idle", "other"} => AtQuestion(workers[u])
          /\ pointer \in DOMAIN names => Reached(names[pointer].wizard, names[pointer].step)
    /\ FormsWhole
=============================================================================
