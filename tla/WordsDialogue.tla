---------------------------- MODULE WordsDialogue ----------------------------
(***************************************************************************)
(* The dialogue about banned words in one chat (middleware.go 717-1222):   *)
(* the menu with its buttons, the prompt for an answer, and the chat's     *)
(* session, which remembers the messages that are to be deleted.           *)
(*                                                                         *)
(* A handler deletes what the session remembers, forgets it, and at its    *)
(* end sends a new message and remembers that.  No error of a request is   *)
(* looked at: what could not be deleted is forgotten all the same, and a   *)
(* message whose answer is lost is never known.  The words themselves are  *)
(* BannedWords'.                                                           *)
(***************************************************************************)
EXTENDS Naturals, FiniteSets

CONSTANTS
    Talkers,  \* handlers of updates of this chat that run at the same time
    MaxPosts  \* bound: messages sent

VARIABLES
    state,   \* the session's state: what the next message answers, or "none"
    prompt,  \* prompt_msg_id, 0 if none
    menu,    \* menu_msg_id, 0 if none
    menus,   \* the menus on display in the chat, by message number
    prompts, \* the prompts on display
    seen,    \* the menus that were ever on display: taps on them may be handled late
    stage,   \* per handler what it does next with the chat
    about,   \* per handler the menu that was clicked, or the message it has sent
    posts,   \* number of messages sent
    owed,    \* history: messages a failed request left behind, or that no handler is to remember
    lone,    \* history: the handler at work, if there was no other at work all the time
    mingled  \* history: messages of handlers that ran at the same time as another

dialogueVars == <<state, prompt, menu, menus, prompts, seen, stage, about, posts, owed, lone, mingled>>

-----------------------------------------------------------------------------
\* wait_add_word, wait_edit_word and wait_delete_word, which are alike here.
Acts == {"wait"}

\* "routed" has only been chosen for an answer.
Stages == {"free", "routed", "forget", "drop", "clear", "reset", "retire", "prompt", "menu", "prompted", "listed"}
Free(h) == stage[h] = "free"
Works(h) == stage[h] \notin {"free", "routed"}
Alone(h) == \A g \in Talkers \ {h} : ~Works(g)

InitDialogue ==
    /\ state = "none" /\ prompt = 0 /\ menu = 0
    /\ menus = {} /\ prompts = {} /\ seen = {}
    /\ stage = [h \in Talkers |-> "free"] /\ about = [h \in Talkers |-> 0]
    /\ posts = 0
    /\ owed = {} /\ lone = {} /\ mingled = {}

\* h begins; the handlers at work are not alone any more.
Begins(h, at, what) ==
    /\ stage' = [stage EXCEPT ![h] = at]
    /\ about' = [about EXCEPT ![h] = what]
    /\ lone' = IF Alone(h) THEN {h} ELSE {}
    /\ mingled' = mingled \cup {about[g] : g \in {k \in Talkers \ {h} : stage[k] \in {"prompted", "listed"}}}

Goes(h, at) ==
    /\ stage' = [stage EXCEPT ![h] = at]
    /\ UNCHANGED <<about, lone, mingled>>

Ends(h) ==
    /\ stage' = [stage EXCEPT ![h] = "free"]
    /\ about' = [about EXCEPT ![h] = 0]
    /\ lone' = lone \ {h}
    /\ UNCHANGED mingled

\* The messages `gone` are deleted, those of `failed` in vain; `more` is forgotten on display.
Delete(gone, more) ==
    \E failed \in SUBSET gone :
        /\ menus' = menus \ (gone \ failed)
        /\ prompts' = prompts \ (gone \ failed)
        /\ owed' = (owed \ (gone \ failed)) \cup ((failed \cup more) \cap (menus \cup prompts))

\* /badwords: the old menu's number is deleted in the chat that is managed from now
\* on, which is this one only without an argument.
BadWordsCommand(h) ==
    /\ Free(h)
    /\ Begins(h, "menu", 0)
    /\ \E remote \in BOOLEAN : IF remote THEN Delete({}, {menu}) ELSE Delete({menu}, {})
    /\ UNCHANGED <<state, prompt, menu, seen, posts>>

\* /words: a menu of its own, which the session does not remember.
WordsCommand ==
    /\ posts < MaxPosts
    /\ posts' = posts + 1
    /\ menus' = menus \cup {posts'} /\ seen' = seen \cup {posts'}
    /\ owed' = owed \cup {posts'}
    /\ UNCHANGED <<state, prompt, menu, prompts, stage, about, lone, mingled>>

\* Mutation of Choose: the old prompt stays.
ChooseAnother(h) ==
    /\ Free(h) /\ seen # {}
    /\ Begins(h, "forget", 0)
    /\ UNCHANGED <<state, prompt, menu, menus, prompts, seen, posts, owed>>

\* A button of a menu: the old prompt is deleted ...
Choose(h) ==
    /\ Free(h) /\ seen # {}
    /\ Begins(h, "forget", 0)
    /\ Delete({prompt}, {})
    /\ UNCHANGED <<state, prompt, menu, seen, posts>>

\* ... and forgotten, and the state says what is awaited.
Forget(h) ==
    /\ stage[h] = "forget"
    /\ prompt' = 0
    /\ state' \in Acts
    /\ Goes(h, "prompt")
    /\ UNCHANGED <<menu, menus, prompts, seen, posts, owed>>

\* The button that closes begins in the same way, ...
Close(h) ==
    /\ Free(h)
    /\ \E clicked \in seen : Begins(h, "drop", clicked)
    /\ Delete({prompt}, {})
    /\ UNCHANGED <<state, prompt, menu, seen, posts>>

Drop(h) ==
    /\ stage[h] = "drop"
    /\ prompt' = 0
    /\ Goes(h, "clear")
    /\ UNCHANGED <<state, menu, menus, prompts, seen, posts, owed>>

\* ... deletes the prompt there is by now and the clicked menu, which need not be the one
\* that is remembered, ...
Clear(h) ==
    /\ stage[h] = "clear"
    /\ Delete({prompt, about[h]}, {menu} \ {about[h]})
    /\ Goes(h, "reset")
    /\ UNCHANGED <<state, prompt, menu, seen, posts>>

\* ... and resets the session.
Reset(h) ==
    /\ stage[h] = "reset"
    /\ state' = "none" /\ prompt' = 0 /\ menu' = 0
    /\ Ends(h)
    /\ UNCHANGED <<menus, prompts, seen, posts, owed>>

\* A message while an answer is awaited is given to the handler of answers ...
Route(h) ==
    /\ Free(h) /\ state # "none"
    /\ Goes(h, "routed")
    /\ UNCHANGED <<state, prompt, menu, menus, prompts, seen, posts, owed>>

\* ... which refuses it, and all stays as it is, ...
Refuse(h) ==
    /\ stage[h] = "routed"
    /\ Goes(h, "free")
    /\ UNCHANGED <<state, prompt, menu, menus, prompts, seen, posts, owed>>

\* ... or accepts it: the state ends, the prompt is deleted ...
AcceptAnswer(h) ==
    /\ stage[h] = "routed"
    /\ Begins(h, "retire", 0)
    /\ state' = "none"
    /\ Delete({prompt}, {})
    /\ UNCHANGED <<prompt, menu, seen, posts>>

\* ... and forgotten, the words are saved, and the menu is deleted, to be sent anew.
Retire(h) ==
    /\ stage[h] = "retire"
    /\ prompt' = 0
    /\ Delete({menu}, {})
    /\ Goes(h, "menu")
    /\ UNCHANGED <<state, menu, seen, posts>>

\* The message m is on display.
Shows(h, m) ==
    /\ posts < MaxPosts /\ posts' = m
    /\ IF stage[h] = "menu"
       THEN menus' = menus \cup {m} /\ seen' = seen \cup {m} /\ UNCHANGED prompts
       ELSE prompts' = prompts \cup {m} /\ UNCHANGED <<menus, seen>>

\* The message is sent.
Post(h) ==
    /\ stage[h] \in {"prompt", "menu"}
    /\ Shows(h, posts + 1)
    /\ stage' = [stage EXCEPT ![h] = IF @ = "menu" THEN "listed" ELSE "prompted"]
    /\ about' = [about EXCEPT ![h] = posts + 1]
    /\ mingled' = IF h \in lone THEN mingled ELSE mingled \cup {posts + 1}
    /\ UNCHANGED <<state, prompt, menu, owed, lone>>

\* It is sent and the answer is lost: the client tries again, or gives up.
LoseAnswer(h) ==
    /\ stage[h] \in {"prompt", "menu"}
    /\ Shows(h, posts + 1)
    /\ owed' = owed \cup {posts + 1}
    /\ UNCHANGED <<state, prompt, menu, stage, about, lone, mingled>>

\* It could not be sent: of a prompt the number 0 is remembered, of a menu none.
GiveUp(h) ==
    /\ stage[h] \in {"prompt", "menu"}
    /\ prompt' = IF stage[h] = "prompt" THEN 0 ELSE prompt
    /\ Ends(h)
    /\ UNCHANGED <<state, menu, menus, prompts, seen, posts, owed>>

\* What was sent is remembered.
Remember(h) ==
    /\ stage[h] \in {"prompted", "listed"}
    /\ IF stage[h] = "prompted"
       THEN prompt' = about[h] /\ UNCHANGED menu
       ELSE menu' = about[h] /\ UNCHANGED prompt
    /\ Ends(h)
    /\ UNCHANGED <<state, menus, prompts, seen, posts, owed>>

DialogueNext ==
    \/ WordsCommand
    \/ \E h \in Talkers :
          \/ BadWordsCommand(h) \/ Choose(h) \/ Forget(h) \/ Close(h) \/ Drop(h) \/ Clear(h) \/ Reset(h)
          \/ Route(h) \/ Refuse(h) \/ AcceptAnswer(h) \/ Retire(h)
          \/ Post(h) \/ LoseAnswer(h) \/ GiveUp(h) \/ Remember(h)

DialogueSpec == InitDialogue /\ [][DialogueNext]_dialogueVars

-----------------------------------------------------------------------------
\* The variables have their types.
DialogueTypeOK ==
    /\ state \in Acts \cup {"none"}
    /\ {prompt, menu} \subseteq 0..MaxPosts
    /\ menus \cup prompts \cup seen \cup owed \cup mingled \subseteq 1..posts
    /\ stage \in [Talkers -> Stages] /\ about \in [Talkers -> 0..posts]
    /\ lone \subseteq Talkers

Quiet == \A h \in Talkers : ~Works(h)

\* When no handler is at work, whatever the chat shows of the dialogue beside the menu and
\* the prompt that the session remembers was left there by a failed request, by /badwords
\* for another chat, by /words or by a late tap on another menu, or comes from a handler
\* that ran at the same time as another; and so does a prompt when no answer is awaited.
DialogueClean ==
    Quiet =>
        /\ menus \subseteq {menu} \cup owed \cup mingled
        /\ prompts \subseteq {prompt} \cup owed \cup mingled
        /\ state = "none" => prompts \subseteq owed \cup mingled
=============================================================================
