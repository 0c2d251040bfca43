------------------------------ MODULE Pagination ------------------------------
(***************************************************************************)
(* A list sent page by page in one message (pagination.go), and the        *)
(* buttons with which a chat turns its pages and picks items.              *)
(*                                                                         *)
(* Which page is shown is kept apart from the message: in matrix mode in   *)
(* the cache, for 30 minutes; in standard mode in the session of the chat. *)
(* A handler reads that page and not the one its button was shown with.    *)
(***************************************************************************)
EXTENDS Integers, FiniteSets

CONSTANTS
    Updaters,   \* workers with updates of this chat
    Items,      \* how many items the list has
    PerPage,    \* how many of them a page shows
    MaxPresses, \* bound: buttons pressed
    MaxLosses   \* bound: how often the page kept is lost

VARIABLES
    builder, \* how the list is configured: [matrix, loop]
    shown,   \* the page of the message
    kept,    \* the page kept for it, None for none
    workers, \* per worker what it is at
    presses, losses, \* bound counters
    picked,  \* history: items picked, with the page and the button they were picked with
    parted   \* history: kept and shown may differ

pageVars == <<builder, shown, kept, workers, presses, losses, picked, parted>>

-----------------------------------------------------------------------------
None == -1
Idle == [at |-> "idle", page |-> 0, sure |-> TRUE]
Pages == IF Items = 0 THEN 1 ELSE (Items + PerPage - 1) \div PerPage

\* The page that a handler goes by.
Current == IF kept = None THEN 0 ELSE kept

\* SendPage: the message shows the page asked for; nothing is kept.
InitPagination ==
    /\ builder \in [matrix : BOOLEAN, loop : BOOLEAN]
    /\ shown \in 0..Pages - 1
    /\ kept = None
    /\ workers = [u \in Updaters |-> Idle]
    /\ presses = 0 /\ losses = 0
    /\ picked = {}
    /\ parted = (shown # 0)

Unsure == [v \in Updaters |-> IF workers[v] = Idle THEN Idle ELSE [workers[v] EXCEPT !.sure = FALSE]]
Overlap(u) == \E v \in Updaters \ {u} : workers[v] # Idle

\* The buttons that turn pages.  A standard page has none to where there is no page, and a
\* matrix has always both.
Buttons ==
    IF builder.matrix THEN {"prev", "next"}
    ELSE {b \in {"prev", "next"} : \/ builder.loop
                                   \/ b = "prev" /\ shown > 0
                                   \/ b = "next" /\ shown < Pages - 1}

\* Mutation of Turned: the list has one more page.
TurnedPast(page, button) ==
    IF button = "prev"
    THEN IF page > 0 THEN page - 1 ELSE IF builder.loop THEN Pages - 1 ELSE None
    ELSE IF page < Pages THEN page + 1 ELSE IF builder.loop THEN 0 ELSE None

\* The page that a button leads to, None when there is none.
Turned(page, button) ==
    IF button = "prev"
    THEN IF page > 0 THEN page - 1 ELSE IF builder.loop THEN Pages - 1 ELSE None
    ELSE IF page < Pages - 1 THEN page + 1 ELSE IF builder.loop THEN 0 ELSE None

\* A button is pressed, and its handler reads the page kept.  It answers that there is no
\* such page, or goes on to keep the new one.
Press(u, button) ==
    /\ workers[u] = Idle /\ presses < MaxPresses
    /\ button \in Buttons
    /\ presses' = presses + 1
    /\ LET page == Turned(Current, button)
       IN  workers' = [Unsure EXCEPT ![u] =
               IF page = None THEN Idle ELSE [at |-> "keep", page |-> page, sure |-> ~Overlap(u)]]
    /\ parted' = (parted \/ Overlap(u))
    /\ UNCHANGED <<builder, shown, kept, losses, picked>>

\* Mutation of Keep: the page is not kept.
KeepNothing(u) ==
    /\ workers[u].at = "keep"
    /\ workers' = [workers EXCEPT ![u].at = "edit"]
    /\ UNCHANGED <<builder, shown, kept, presses, losses, picked, parted>>

\* The page is kept.
Keep(u) ==
    /\ workers[u].at = "keep"
    /\ kept' = workers[u].page
    /\ workers' = [workers EXCEPT ![u].at = "edit"]
    /\ UNCHANGED <<builder, shown, presses, losses, picked, parted>>

\* The message is edited; that it could not be is ignored.  An edit on its own puts right
\* what had come apart.
Edit(u) ==
    /\ workers[u].at = "edit"
    /\ \/ shown' = workers[u].page /\ parted' = ~workers[u].sure
       \/ shown' = shown /\ parted' = TRUE
    /\ workers' = [workers EXCEPT ![u] = Idle]
    /\ UNCHANGED <<builder, kept, presses, losses, picked>>

\* Mutation of Pick: a place counts from 0.
PickNext(u, place) ==
    /\ workers[u] = Idle /\ presses < MaxPresses
    /\ builder.matrix
    /\ presses' = presses + 1
    /\ LET item == Current * PerPage + place
       IN  picked' = IF item >= Items THEN picked
                     ELSE picked \cup {[item |-> item, page |-> shown, place |-> place,
                                        sure |-> ~parted /\ ~Overlap(u)]}
    /\ UNCHANGED <<builder, shown, kept, workers, losses, parted>>

\* A matrix has a button for each place on a page.  It is handled; an item past the end of the list is
\* answered with a notice.
Pick(u, place) ==
    /\ workers[u] = Idle /\ presses < MaxPresses
    /\ builder.matrix
    /\ presses' = presses + 1
    /\ LET item == Current * PerPage + (place - 1)
       IN  picked' = IF item >= Items THEN picked
                     ELSE picked \cup {[item |-> item, page |-> shown, place |-> place,
                                        sure |-> ~parted /\ ~Overlap(u)]}
    /\ UNCHANGED <<builder, shown, kept, workers, losses, parted>>

\* What is kept goes: its 30 minutes are over, or the session is cleaned up.
Lose ==
    /\ losses < MaxLosses /\ kept # None
    /\ losses' = losses + 1
    /\ kept' = None
    /\ workers' = Unsure
    /\ parted' = TRUE
    /\ UNCHANGED <<builder, shown, presses, picked>>

PaginationNext ==
    \/ \E u \in Updaters :
          \/ \E b \in {"prev", "next"} : Press(u, b)
          \/ Keep(u) \/ Edit(u)
          \/ \E place \in 1..PerPage : Pick(u, place)
    \/ Lose

PaginationSpec == InitPagination /\ [][PaginationNext]_pageVars

-----------------------------------------------------------------------------
(***************************************************************************)
(* Properties                                                              *)
(***************************************************************************)
\* The variables have their types.
PaginationTypeOK ==
    /\ builder \in [matrix : BOOLEAN, loop : BOOLEAN]
    /\ shown \in Int /\ kept \in Int
    /\ \A u \in Updaters : workers[u].at \in {"idle", "keep", "edit"}
    /\ parted \in BOOLEAN

\* The message never leaves the list, and a place gets the item that the message
\* shows there when the press is handled - as long as the page kept is that of the message: it was sent with
\* its first page, what is kept has not expired, no edit has failed, and no two buttons were
\* handled at the same time.  One edit that goes through by itself puts the two in step
\* again, so that wrong items are not picked for ever after.
ItemsAsShown ==
    /\ shown \in 0..Pages - 1
    /\ \A p \in picked : p.sure => p.item = p.page * PerPage + p.place - 1
    /\ ~parted /\ (\A u \in Updaters : workers[u] = Idle) => Current = shown

-----------------------------------------------------------------------------
(***************************************************************************)
(* The invariant that makes ItemsAsShown hold.                             *)
(***************************************************************************)
PageShapes ==
    /\ kept \in {None} \cup (0..Pages - 1)
    /\ workers \in [Updaters -> {Idle} \cup [at : {"keep", "edit"}, page : 0..Pages - 1, sure : BOOLEAN]]

\* Who is sure of its page is alone, and has kept that page when it edits.
SureOfPage ==
    \A u \in Updaters : workers[u] # Idle /\ workers[u].sure =>
       /\ \A v \in Updaters \ {u} : workers[v] = Idle
       /\ workers[u].at = "edit" => kept = workers[u].page

PagesInv == PageShapes /\ SureOfPage /\ ItemsAsShown
=============================================================================
