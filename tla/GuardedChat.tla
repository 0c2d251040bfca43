----------------------------- MODULE GuardedChat -----------------------------
(***************************************************************************)
(* The guards of middleware.go and media_guard.go in the chain of one      *)
(* update, while administrators change the locks of the chat.              *)
(*                                                                         *)
(* A guard reads the message and the store, asks the service whether the   *)
(* sender is an administrator, and lets the update pass (Next), deletes    *)
(* the message and stops (Abort), or panics: several of them read          *)
(* c.Message.From without a check, and a channel's post has no sender.     *)
(* The message of a callback query is the bot's own; its sender is who     *)
(* pressed the button.                                                     *)
(*                                                                         *)
(* The chain is <<Recovery, guard, ..., handler>> of HandlerChain.         *)
(***************************************************************************)
EXTENDS HandlerChain

CONSTANTS
    Updates,     \* records [kind, author, sender, chat, has], see UpdateKinds
    GuardChains, \* sequences of names of guards
    Flags,       \* keys of the store that the guards read, all of one chat
    MaxChanges   \* bound: changes of flags during one update

VARIABLES
    update,   \* the update being handled
    guards,   \* its guards, in order
    flags,    \* the keys that hold true
    held,     \* history: keys that have held true since the update arrived
    touched,  \* history: keys that have held true at some time since
    unsure,   \* history: the query for administrators failed
    erased,   \* Ctx.Keys["_sys_msg_deleted"]
    deleted,  \* history: who had the message deleted, in order
    changes   \* bound counter

guardVars == <<update, guards, flags, held, touched, unsure, erased, deleted, changes>>

UpdateKinds ==
    [kind   : {"message", "callback", "query"},     \* "query" has no message
     author : {"none", "bot", "owner", "admin", "member"},
     sender : {"none", "owner", "admin", "member"},
     chat   : {"private", "supergroup", "channel"},
     has    : {"text", "link", "word", "caps", "long", "mention", "latin", "photo",
               "sticker", "forward", "reply", "join", "selfjoin", "spamjoin"}]

-----------------------------------------------------------------------------
HasMessage(u) == u.kind # "query"
IsGroup(u) == HasMessage(u) /\ u.chat = "supergroup"
IsPrivate(u) == HasMessage(u) /\ u.chat = "private"
Joins(u) == HasMessage(u) /\ u.has \in {"join", "selfjoin", "spamjoin"}
HasText(u) == HasMessage(u) /\ u.has \in {"text", "link", "word", "caps", "long", "mention", "latin", "reply"}
IsMedia(u) == HasMessage(u) /\ u.has \in {"photo", "sticker"}
NoAuthor(u) == HasMessage(u) /\ u.author = "none"
IsOwner(u) == u.sender = "owner"
OwnsMessage(u) == u.author = "owner"

\* What IsAdmin().Go() may answer: private chats, channels and updates without a
\* sender count as administrators, and the query may fail.
AdminAnswers(u) ==
    IF (HasMessage(u) /\ u.chat \in {"private", "channel"}) \/ u.sender = "none" THEN {"yes"}
    ELSE IF u.sender = "admin" THEN {"yes", "error"} ELSE {"no", "error"}

\* Mutation of Passes: only the owner of the bot passes.
PassesOwner(u, answer) == IsOwner(u)

Passes(u, answer) == IsOwner(u) \/ answer = "yes"
AuthorPasses(u, answer) == OwnsMessage(u) \/ answer = "yes"

Verdict(stops) == IF stops THEN "stop" ELSE "next"

\* A guard that reads From of a message it applies to, and then deletes it.
Strict(u, answer, applies, matches) ==
    IF applies /\ NoAuthor(u) THEN "panic"
    ELSE Verdict(applies /\ ~AuthorPasses(u, answer) /\ matches)

-----------------------------------------------------------------------------
(***************************************************************************)
(* The guards: what each makes of an update, an answer and the flags.      *)
(***************************************************************************)
AntiLink(u, a) == Verdict(HasText(u) /\ ~NoAuthor(u) /\ ~AuthorPasses(u, a) /\ u.has = "link")

AntiForward(u, a) == Strict(u, a, HasMessage(u) /\ u.has = "forward", TRUE)

AntiProfanity(u, a) == Strict(u, a, u.kind = "message" /\ HasText(u), u.has = "word")

AntiMedia(u, a) == Strict(u, a, HasMessage(u), IsMedia(u))

AntiCharLimit(u, a) == Strict(u, a, HasText(u), u.has = "long")

AntiCaps(u, a) == Strict(u, a, HasText(u), u.has = "caps")

AntiNight(u, a) == Strict(u, a, HasMessage(u) /\ "night" \in flags, TRUE)

\* The flag is the time of the join, noted by JoinGuard less than minInterval ago; it is
\* dropped by the first message, which also bans its sender if he is no administrator.
HasJoiner(u) == HasMessage(u) /\ ~NoAuthor(u) /\ ~IsPrivate(u)
AntiSelfBot(u, a) == Verdict(HasJoiner(u) /\ "just_joined" \in flags /\ ~AuthorPasses(u, a))
Consumed(g, u) == IF g = "AntiSelfBot" /\ HasJoiner(u) THEN {"just_joined"} ELSE {}

AntiSpamProfile(u, a) == Verdict(u.has = "spamjoin" /\ HasMessage(u))

AdminsOnly(u, a) == Verdict(a # "yes")

AdminOnly(u, a) == Verdict(~IsOwner(u))

SuperGroupOnly(u, a) == Verdict(~IsGroup(u))

Locs(u, a) == IF HasMessage(u) THEN Verdict(~IsGroup(u)) ELSE "panic"

Roles(u, a) == Verdict(~IsOwner(u) /\ a # "yes")

MandatoryAddGuard(u, a) ==
    Verdict(u.kind = "message" /\ ~NoAuthor(u) /\ ~Joins(u) /\ IsGroup(u) /\ a = "no"
              /\ "few_invites" \in flags)

ReplyGuard(u, a) == Verdict(IsGroup(u) /\ u.has = "reply" /\ ~Passes(u, a) /\ "lock_reply" \in flags)

UsernameGuard(u, a) == Verdict(IsGroup(u) /\ ~Passes(u, a) /\ "lock_username" \in flags /\ u.has = "mention")

EnglishGuard(u, a) ==
    Verdict(IsGroup(u) /\ ~Passes(u, a) /\ "lock_english" \in flags
              /\ u.has \in {"latin", "link", "mention", "caps"})

InternalRestrictGuard(u, a) ==
    Verdict(HasMessage(u) /\ ~NoAuthor(u) /\ ~IsPrivate(u) /\ "internal_mute" \in flags)

\* Media that the chat or the user may not send, by a setting or a restriction.
Blocked(u, keys) == IsMedia(u) /\ flags \cap keys # {}

\* The keys for one kind of media: a lock of the chat, a restriction of chat or user.
LockOf(has) == IF has = "photo" THEN "g_lock_photo" ELSE "g_lock_sticker"
BlockOf(has) == IF has = "photo" THEN "blocked_photo" ELSE "blocked_sticker"

\* Mutation of UserMediaGuard: "all" does not count as every kind of media.
UserMediaGuardNamed(u, a) ==
    Verdict(~NoAuthor(u) /\ ~Joins(u) /\ ~Passes(u, a) /\ Blocked(u, {BlockOf(u.has)}))

UserMediaGuard(u, a) ==
    Verdict(~NoAuthor(u) /\ ~Joins(u) /\ ~Passes(u, a) /\ Blocked(u, {"blocked_all", BlockOf(u.has)}))

ChatGuard(u, a) ==
    Verdict(/\ HasMessage(u) /\ ~NoAuthor(u) /\ ~IsPrivate(u) /\ ~Passes(u, a)
            /\ \/ flags \cap {"group_lock", "captcha_mute"} # {}
               \/ Blocked(u, {"g_lock", LockOf(u.has), "blocked_all", BlockOf(u.has)}))

\* Media of a chat with media_destroy passes and is deleted five minutes later;
\* otherwise a setting whose name ends in the kind of media stops it.
GroupGuard(u, a) ==
    Verdict(/\ IsGroup(u) /\ u.sender # "none" /\ ~Passes(u, a)
            /\ "media_destroy" \notin flags
            /\ Blocked(u, {LockOf(u.has)}))

\* A join by link or by the invitation of a member: the service message is
\* deleted and the newcomer banned and unbanned; the chain goes on.
Kicks(u, a) == IsGroup(u) /\ Joins(u) /\ "lock_link" \in flags /\ (u.has = "selfjoin" \/ ~AuthorPasses(u, a))
LinkLockGuard(u, a) == "next"

Judged(g, u, a) ==
    CASE g = "AntiLink" -> AntiLink(u, a)             [] g = "AntiForward" -> AntiForward(u, a)
      [] g = "AntiProfanity" -> AntiProfanity(u, a)   [] g = "AntiMedia" -> AntiMedia(u, a)
      [] g = "AntiCharLimit" -> AntiCharLimit(u, a)   [] g = "AntiCaps" -> AntiCaps(u, a)
      [] g = "AntiNight" -> AntiNight(u, a)           [] g = "AntiSpamProfile" -> AntiSpamProfile(u, a)
      [] g = "AdminsOnly" -> AdminsOnly(u, a)         [] g = "AdminOnly" -> AdminOnly(u, a)
      [] g = "SuperGroupOnly" -> SuperGroupOnly(u, a) [] g = "Locs" -> Locs(u, a)
      [] g = "Roles" -> Roles(u, a)                   [] g = "MandatoryAddGuard" -> MandatoryAddGuard(u, a)
      [] g = "ReplyGuard" -> ReplyGuard(u, a)         [] g = "UsernameGuard" -> UsernameGuard(u, a)
      [] g = "EnglishGuard" -> EnglishGuard(u, a)     [] g = "UserMediaGuard" -> UserMediaGuard(u, a)
      [] g = "InternalRestrictGuard" -> InternalRestrictGuard(u, a)
      [] g = "ChatGuard" -> ChatGuard(u, a)           [] g = "GroupGuard" -> GroupGuard(u, a)
      [] g = "LinkLockGuard" -> LinkLockGuard(u, a)   [] g = "AntiSelfBot" -> AntiSelfBot(u, a)

\* The keys of the store that a guard reads.
ReadBy(g) ==
    Flags \cap
    CASE g = "AntiNight" -> {"night"}                [] g = "AntiSelfBot" -> {"just_joined"}
      [] g = "MandatoryAddGuard" -> {"few_invites"}
      [] g = "ReplyGuard" -> {"lock_reply"}          [] g = "UsernameGuard" -> {"lock_username"}
      [] g = "EnglishGuard" -> {"lock_english"}      [] g = "InternalRestrictGuard" -> {"internal_mute"}
      [] g = "LinkLockGuard" -> {"lock_link"}        [] g = "UserMediaGuard" -> {"blocked_all", "blocked_photo"}
      [] g = "GroupGuard" -> {"media_destroy", "g_lock_photo"}
      [] g = "ChatGuard" -> {"group_lock", "captcha_mute", "g_lock", "g_lock_photo", "blocked_all"}
      [] OTHER -> {}

\* The guards that stop an update without deleting its message.
Lenient == {"AdminsOnly", "AdminOnly", "SuperGroupOnly", "Locs", "Roles", "AntiSpamProfile"}

-----------------------------------------------------------------------------
(***************************************************************************)
(* Actions                                                                 *)
(***************************************************************************)
InitGuards ==
    /\ InitChain
    /\ update = [kind |-> "query", author |-> "none", sender |-> "none", chat |-> "private", has |-> "text"]
    /\ guards = <<>>
    /\ flags = {} /\ held = {} /\ touched = {}
    /\ unsure = FALSE
    /\ erased = FALSE
    /\ deleted = <<>>
    /\ changes = 0

\* The guards are registered before the bot starts.
Register ==
    /\ guards = <<>>
    /\ guards' \in GuardChains
    /\ UNCHANGED <<chainVars, update, flags, held, touched, unsure, erased, deleted, changes>>

\* processUpdate: the chain of an update.
Receive ==
    /\ guards # <<>> /\ chain = <<>>
    /\ update' \in Updates
    /\ chain' = [k \in 1..(Len(guards) + 2) |-> 0]
    /\ index' = 0
    /\ stack' = <<Frame(0)>>
    /\ started' = <<0>>
    /\ held' = flags /\ touched' = flags
    /\ UNCHANGED <<piped, aborted, panics, guards, flags, unsure, erased, deleted, changes>>

\* An administrator switches a key, the hour changes, or a member is invited.
ChangeFlag ==
    /\ changes < MaxChanges
    /\ changes' = changes + 1
    /\ \E k \in DOMAIN guards : \E f \in ReadBy(guards[k]) :
          flags' = (flags \cup {f}) \ (flags \cap {f})
    /\ held' = held \cap flags'
    /\ touched' = touched \cup flags'
    /\ UNCHANGED <<chainVars, update, guards, unsure, erased, deleted>>

\* c.Del().Go(): the request may fail; after a success there is no other.
Del(who) ==
    \/ /\ ~erased
       /\ erased' = TRUE
       /\ deleted' = Append(deleted, who)
    \/ UNCHANGED <<erased, deleted>>

\* The guard on top runs.
GuardRuns ==
    /\ User /\ Top.pos <= Len(guards)
    /\ LET g == guards[Top.pos]
       IN  \E answer \in AdminAnswers(update) :
              LET verdict == Judged(g, update, answer)
              IN  /\ unsure' = (unsure \/ answer = "error")
                  /\ \/ verdict = "next" /\ CallNext
                     \/ verdict = "stop" /\ Abort
                     \/ verdict = "panic" /\ Panic
                  /\ IF \/ verdict = "stop" /\ g \notin Lenient
                        \/ g = "LinkLockGuard" /\ Kicks(update, answer)
                     THEN Del(g) ELSE UNCHANGED <<erased, deleted>>
              /\ flags' = flags \ Consumed(g, update)
              /\ held' = held \cap flags'
    /\ UNCHANGED <<update, guards, touched, changes>>

\* The bot's handler runs, at the end of the chain; it may delete the message too.
HandlerRuns ==
    /\ User /\ Top.pos = Len(guards) + 1
    /\ Skip
    /\ \/ HasMessage(update) /\ Del("handler")
       \/ UNCHANGED <<erased, deleted>>
    /\ UNCHANGED <<update, guards, flags, held, touched, unsure, changes>>

\* Recovery calls Next, and calls return.
ChainGoesOn ==
    /\ \/ AtTop("run") /\ Top.pos = 0 /\ CallNext
       \/ Return
    /\ UNCHANGED guardVars

GuardNext == Register \/ Receive \/ ChangeFlag \/ GuardRuns \/ HandlerRuns \/ ChainGoesOn

-----------------------------------------------------------------------------
(***************************************************************************)
(* Properties                                                              *)
(***************************************************************************)
\* The variables have their types.
GuardTypeOK ==
    /\ update \in UpdateKinds
    /\ guards \in GuardChains \cup {<<>>}
    /\ flags \subseteq Flags /\ held \subseteq flags
    /\ chain # <<>> => flags \subseteq touched
    /\ unsure \in BOOLEAN /\ erased \in BOOLEAN
    /\ changes \in 0..MaxChanges

Handled == chain # <<>> /\ Len(guards) + 1 \in {started[k] : k \in DOMAIN started}

\* What a guard promises to keep out while the keys hold.
KeepsOut(g, has, keys) ==
    CASE g = "ReplyGuard" -> has = "reply" /\ "lock_reply" \in keys
      [] g = "UsernameGuard" -> has = "mention" /\ "lock_username" \in keys
      [] g = "EnglishGuard" -> has = "latin" /\ "lock_english" \in keys
      [] g = "ChatGuard" -> \/ keys \cap {"group_lock", "captcha_mute"} # {}
                            \/ has = "photo" /\ keys \cap {"g_lock", "g_lock_photo", "blocked_all", "blocked_photo"} # {}
      [] g = "UserMediaGuard" -> has = "photo" /\ keys \cap {"blocked_all", "blocked_photo"} # {}
      [] g = "GroupGuard" -> has = "photo" /\ "g_lock_photo" \in keys /\ "media_destroy" \notin touched
      [] g = "InternalRestrictGuard" -> "internal_mute" \in keys
      [] OTHER -> FALSE

\* What a member sends into a group does not reach the handler past a guard that keeps
\* it out by a lock held ever since it arrived, whatever the query for administrators
\* answers, whichever guards run before, and whatever other locks are switched
\* meanwhile.
LocksHold ==
    Handled /\ update.kind = "message" /\ update.chat = "supergroup" /\ update.author = "member" =>
        \A k \in DOMAIN guards : ~KeepsOut(guards[k], update.has, held)

\* An administrator's message is not deleted by a guard, nor the bot's own one whose
\* button an administrator presses, unless the query for administrators failed; except
\* by a mute set for that administrator and after joining by a link that is locked.
AdminsKeepMessages ==
    update.sender = "admin" /\ ~unsure =>
        \A k \in DOMAIN deleted :
            \/ deleted[k] \in {"handler", "InternalRestrictGuard"}
            \/ deleted[k] = "LinkLockGuard" /\ update.has = "selfjoin"
=============================================================================
