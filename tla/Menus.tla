--------------------------------- MODULE Menus ---------------------------------
(***************************************************************************)
(* Menus of one chat (menu.go): a tree of keyboards, under the text field  *)
(* (reply) or under a message (inline), through which the chat moves.      *)
(*                                                                         *)
(* The session keeps the current menu and the numbers of the messages that *)
(* show menus, so that the next menu can take them away.  _menu_history is *)
(* read by "back" and only ever emptied: "back" goes to the parent.        *)
(***************************************************************************)
EXTENDS Naturals, FiniteSets

CONSTANTS
    Updaters, \* workers with updates of this chat
    Nodes,    \* the menus
    Root,     \* the one without a parent
    Inline,   \* those with an inline keyboard; the others have a reply keyboard
    MaxMoves  \* bound: updates

VARIABLES
    current,  \* the session: _current_menu, None for none
    ids,      \* the session: _menu_msg_ids
    messages, \* per message in the chat the menu it shows
    deleting, \* messages whose deletion is under way
    workers,  \* per worker what it is at
    moves,    \* bound counter
    sent,     \* numbers the messages
    field,    \* the menu whose reply keyboard is under the text field, None for none
    wanted,   \* history: the menu that the chat last asked for, by what it had before it
    apart     \* history: session and chat may differ

menuVars == <<current, ids, messages, deleting, workers, moves, sent, field, wanted,
             apart>>

-----------------------------------------------------------------------------
None == "none"
Idle == [at |-> "idle", menu |-> None, ids |-> {}, on |-> 0]
Numbers == DOMAIN messages

\* Every menu but the root has the root as its parent.
Parent(menu) == IF menu = Root THEN None ELSE Root

InitMenus ==
    /\ current = None /\ ids = {}
    /\ messages = [n \in {} |-> None]
    /\ deleting = {}
    /\ workers = [u \in Updaters |-> Idle]
    /\ moves = 0 /\ sent = 0
    /\ field = None /\ wanted = None
    /\ apart = FALSE

Overlap(u) == \E v \in Updaters \ {u} : workers[v] # Idle
Update(u) == workers[u] = Idle /\ moves < MaxMoves /\ moves' = moves + 1

\* What SendMenu does first for a menu it finds: the messages before it are deleted in the
\* background, unless the answer edits one of them, and the menu becomes current.  on is
\* the message whose button was pressed, 0 for an update that is not a press.
Show(u, menu, on) ==
    LET edits == on # 0 /\ menu \in Inline
        reply == current # None /\ current \notin Inline /\ menu \in Inline
    IN  /\ current' = menu
        /\ deleting' = deleting \cup (IF edits THEN {} ELSE ids \cap Numbers)
        /\ workers' = [workers EXCEPT ![u] =
               [at |-> IF reply THEN "remove" ELSE IF edits THEN "edit" ELSE "send",
                menu |-> menu, on |-> on, ids |-> IF edits THEN ids ELSE {}]]

\* Mutation of SendMenu: "back" of a child stays where it is.
SendMenuStays(u, target, on) ==
    LET menu == IF target # "back" THEN target ELSE current
    IN  IF menu = None THEN UNCHANGED <<current, deleting, workers>> ELSE Show(u, menu, on)

\* SendMenu: "back" is the parent of the current menu.  An error when there is none.
SendMenu(u, target, on) ==
    LET menu == IF target # "back" THEN target ELSE IF current = None THEN None ELSE Parent(current)
    IN  IF menu = None THEN UNCHANGED <<current, deleting, workers>> ELSE Show(u, menu, on)

\* A command opens the root.
Command(u) ==
    /\ Update(u)
    /\ SendMenu(u, Root, 0) /\ wanted' = Root
    /\ apart' = (apart \/ Overlap(u))
    /\ UNCHANGED <<ids, messages, sent, field>>

\* A text is the label of a button of the current menu, which is a reply keyboard.
Text(u, target) ==
    /\ Update(u)
    /\ current # None /\ current \notin Inline
    /\ \/ target = "back" /\ Parent(current) # None
       \/ target \in Nodes /\ Parent(target) = current
    /\ SendMenu(u, target, 0) /\ wanted' = (IF target = "back" THEN Parent(field) ELSE target)
    /\ apart' = (apart \/ Overlap(u))
    /\ UNCHANGED <<ids, messages, sent, field>>

\* The label that closes it: its messages are deleted in the background.
CloseText(u) ==
    /\ Update(u)
    /\ current # None /\ current \notin Inline
    /\ deleting' = deleting \cup (ids \cap Numbers)
    /\ workers' = [workers EXCEPT ![u] = [Idle EXCEPT !.at = "close"]]
    /\ wanted' = None
    /\ apart' = (apart \/ Overlap(u))
    /\ UNCHANGED <<current, ids, messages, sent, field>>

\* A button of an inline menu that is still in the chat, whatever menu is current.
Callback(u, n, target) ==
    /\ Update(u)
    /\ n \in Numbers /\ messages[n] \in Inline
    /\ \/ target = "back" /\ Parent(messages[n]) # None
       \/ target \in Nodes /\ Parent(target) = messages[n]
    /\ SendMenu(u, target, n) /\ wanted' = (IF target = "back" THEN Parent(messages[n]) ELSE target)
    /\ apart' = (apart \/ Overlap(u) \/ messages[n] # current \/ n \in deleting)
    /\ UNCHANGED <<ids, messages, sent, field>>

\* The button that closes it.
CloseCallback(u, n) ==
    /\ Update(u)
    /\ n \in Numbers /\ messages[n] \in Inline
    /\ workers' = [workers EXCEPT ![u] = [Idle EXCEPT !.at = "close", !.on = n]]
    /\ wanted' = None
    /\ apart' = (apart \/ Overlap(u) \/ messages[n] # current \/ n \in deleting)
    /\ UNCHANGED <<current, ids, messages, deleting, sent, field>>

\* The message of the button is deleted; for a label a message takes the keyboard away.
\* Whether that worked or not, the session forgets all.
Closed(u) ==
    LET n == workers[u].on
    IN  /\ workers[u].at = "close"
        /\ workers' = [workers EXCEPT ![u] = Idle]
        /\ current' = None /\ ids' = {}
        /\ \/ /\ messages' = [m \in Numbers \ {n} |-> messages[m]]
              /\ deleting' = deleting \ {n}
              /\ field' = IF n = 0 THEN None ELSE field
              /\ apart' = (apart \/ Overlap(u))
           \/ UNCHANGED <<messages, deleting, field>> /\ apart' = TRUE
        /\ UNCHANGED <<moves, sent, wanted>>

\* Mutation of Send: the number is not kept.
SendForgets(u) ==
    LET w == workers[u]
    IN  /\ w.at \in {"send", "remove"}
        /\ workers' = [workers EXCEPT ![u] = Idle]
        /\ sent' = sent + 1
        /\ messages' = [n \in Numbers \cup {sent'} |-> IF n = sent' THEN w.menu ELSE messages[n]]
        /\ field' = IF w.at = "remove" THEN None ELSE IF w.menu \in Inline THEN field ELSE w.menu
        /\ apart' = (apart \/ Overlap(u))
        /\ UNCHANGED <<current, deleting, moves, ids, wanted>>

\* The menu goes out as a new message, and its number is kept with those there were.  For
\* a reply keyboard followed by an inline one the message takes the keyboard away, and an
\* edit adds the inline one; that the edit failed is ignored.
Send(u) ==
    LET w == workers[u]
    IN  /\ w.at \in {"send", "remove"}
        /\ workers' = [workers EXCEPT ![u] = Idle]
        /\ \/ /\ sent' = sent + 1
              /\ \E menu \in {w.menu} \cup (IF w.at = "remove" THEN {None} ELSE {}) :
                    /\ messages' = [n \in Numbers \cup {sent'} |-> IF n = sent' THEN menu ELSE messages[n]]
                    /\ apart' = (apart \/ Overlap(u) \/ menu = None)
              /\ ids' = w.ids \cup {sent'}
              /\ field' = IF w.at = "remove" THEN None ELSE IF w.menu \in Inline THEN field ELSE w.menu
           \/ UNCHANGED <<sent, messages, ids, field>> /\ apart' = TRUE
        /\ UNCHANGED <<current, deleting, moves, wanted>>

\* The message whose button was pressed is edited into the menu.
Edit(u) ==
    LET w == workers[u]
    IN  /\ w.at = "edit"
        /\ workers' = [workers EXCEPT ![u] = Idle]
        /\ \/ /\ w.on \in Numbers
              /\ messages' = [messages EXCEPT ![w.on] = w.menu]
              /\ ids' = w.ids \cup {w.on}
              /\ apart' = (apart \/ Overlap(u) \/ w.on \in deleting)
           \/ UNCHANGED <<messages, ids>> /\ apart' = TRUE
        /\ UNCHANGED <<current, deleting, moves, sent, field, wanted>>

\* A deletion in the background is done, or fails and is not tried again.
Delete(n) ==
    /\ n \in deleting
    /\ deleting' = deleting \ {n}
    /\ \/ messages' = [m \in Numbers \ {n} |-> messages[m]] /\ UNCHANGED apart
       \/ UNCHANGED messages /\ apart' = TRUE
    /\ UNCHANGED <<current, ids, workers, moves, sent, field, wanted>>

MenusNext ==
    \/ \E u \in Updaters :
          \/ Command(u) \/ CloseText(u) \/ Closed(u) \/ Send(u) \/ Edit(u)
          \/ \E t \in Nodes \cup {"back"} : Text(u, t) \/ \E n \in Numbers : Callback(u, n, t)
          \/ \E n \in Numbers : CloseCallback(u, n)
    \/ \E n \in deleting : Delete(n)

MenusSpec == InitMenus /\ [][MenusNext]_menuVars

-----------------------------------------------------------------------------
(***************************************************************************)
(* Properties                                                              *)
(***************************************************************************)
\* The variables have their types.
MenusTypeOK ==
    /\ current \in Nodes \cup {None} /\ field \in Nodes \cup {None}
    /\ ids \subseteq 1..MaxMoves /\ deleting \subseteq Numbers /\ Numbers \subseteq 1..sent
    /\ \A u \in Updaters : workers[u].at \in {"idle", "send", "remove", "edit", "close"}
    /\ apart \in BOOLEAN

\* While no request fails, no two updates of the chat are handled at the same time and
\* nobody presses a button of a menu left behind: the chat has one menu, the one that it
\* asked for by the button before and the session says, once the deletions under way are done; and no keyboard stays under the
\* text field when that menu is not a reply keyboard.
OneMenu ==
    ~apart /\ (\A u \in Updaters : workers[u] = Idle) =>
        LET left == Numbers \ deleting
        IN  /\ current = wanted
            /\ left = ids
            /\ Cardinality(left) = IF current = None THEN 0 ELSE 1
            /\ \A n \in left : messages[n] = current
            /\ field # None => field = current

-----------------------------------------------------------------------------
(***************************************************************************)
(* The invariant that makes OneMenu hold.                                  *)
(***************************************************************************)
MenuShapes ==
    /\ current \in Nodes \cup {None} /\ field \in Nodes \cup {None} /\ sent \in Nat
    /\ messages \in [Numbers -> Nodes \cup {None}] /\ ids \subseteq Nat
    /\ Numbers \subseteq 1..sent /\ deleting \subseteq Numbers
    /\ workers \in [Updaters -> [at : {"idle", "send", "remove", "edit", "close"}, menu : Nodes \cup {None},
                                 ids : SUBSET Nat, on : Nat]]
    /\ \A u \in Updaters : workers[u].at = "idle" => workers[u] = Idle

\* What stays when the deletions under way are done.
Left == Numbers \ deleting

\* A reply keyboard is under the text field when it is current, and no other one.
FieldFollows ==
    IF current = None \/ current \in Inline THEN field = None ELSE field = current

\* The one menu of the session is the one that stays in the chat.
Settled ==
    /\ current = wanted /\ Left = ids
    /\ IF current = None THEN ids = {} ELSE \E n \in ids : ids = {n} /\ messages[n] = current
    /\ FieldFollows

\* A worker has to send the menu, because none is left; or to edit the one that is left; or to
\* delete it.
Owes(w) ==
    /\ w.at # "close" => w.menu = current /\ current = wanted /\ current # None
    /\ w.at \in {"send", "remove"} => Left = {} /\ w.ids = {}
    /\ w.at = "send" => (current \in Inline => field = None)
    /\ w.at = "remove" => current \in Inline
    /\ w.at = "edit" => current \in Inline /\ field = None /\ Left = {w.on} /\ w.ids = {w.on}
    /\ w.at = "close" => /\ wanted = None
                         /\ IF w.on = 0 THEN Left = {} ELSE Left = {w.on} /\ field = None

MenuInv ==
    /\ MenuShapes
    /\ ~apart =>
          /\ \A u, v \in Updaters : workers[u] # Idle /\ workers[v] # Idle => u = v
          /\ \A u \in Updaters : workers[u] # Idle => Owes(workers[u])
          /\ (\A u \in Updaters : workers[u] = Idle) => Settled
=============================================================================
