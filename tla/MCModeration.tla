---------------------------- MODULE MCModeration ----------------------------
(***************************************************************************)
(* Finite instances, for TLC, of what happens to an update between its     *)
(* worker and its handlers: routing, the chain, guards, limits, settings,  *)
(* banned words, Bot.mu, and the limiter of requests.                      *)
(*                                                                         *)
(* The parts do not change each other's variables (what one needs of       *)
(* another, it chooses itself), so a behaviour is one of a single part.    *)
(***************************************************************************)
EXTENDS RateLimiter, Sequences, FiniteSets, TLC

CONSTANTS
    Parts,         \* the parts to check
    Workers, Processes,
    MaxIndex, MaxHandlers, MaxPipe,
    Flags, MaxChanges,
    Switches, OnByDefault, Scopes, Media, MaxOps, MaxPanels,
    Chats, BadWords, MaxLists, MaxJobs, MaxPosts,
    Texts, JoinCounts, Limit, Window, MaxMessages, MaxTime,
    Messages, MaxVersions, MaxUpdates, MaxTurns

VARIABLES
    part,
    chain, index, stack, started, piped, aborted, panics,
    update, guards, flags, held, touched, unsure, erased, deleted, changes,
    store, mutex, ops, captured, layouts, taps, panels, dialogs, writes, want, overlaid, crowded, used, tapped,
    file, lists, cache, jobs, begun, mixed, unsaved, missed,
    state, prompt, menu, menus, prompts, seen, stage, about, posts, owed, lone, mingled,
    guard, now, entry, records, counted, outcomes, locked, opened, late,
    routes, dialogue, kept, sent, routed, crossed, prev, taken,
    todo, asks, reading, leaked, writer, turns

-----------------------------------------------------------------------------
GuardNames ==
    {"AntiLink", "AntiForward", "AntiProfanity", "AntiMedia", "AntiCharLimit", "AntiCaps", "AntiNight",
     "AntiSelfBot", "AntiSpamProfile", "AdminsOnly", "AdminOnly", "SuperGroupOnly", "Locs", "Roles",
     "MandatoryAddGuard", "ReplyGuard", "UsernameGuard", "EnglishGuard", "UserMediaGuard",
     "InternalRestrictGuard", "ChatGuard", "GroupGuard", "LinkLockGuard"}

\* Each guard alone, and pairs of which the first may panic or delete.
GuardChains == {<<g>> : g \in GuardNames} \cup {<<"LinkLockGuard", "ChatGuard">>, <<"AntiForward", "AntiMedia">>}

From(author, sender, chat, has, kind) ==
    [kind |-> kind, author |-> author, sender |-> sender, chat |-> chat, has |-> has]

\* Messages in a group, posts of a channel, a private message, buttons, inline queries.
Updates ==
    {From(s, s, "supergroup", h, "message") : s \in {"owner", "admin", "member"},
        h \in {"text", "link", "word", "caps", "long", "mention", "latin", "photo", "forward", "reply",
               "join", "selfjoin", "spamjoin"}}
    \cup {From("none", "none", "channel", h, "message") : h \in {"text", "photo", "forward"}}
    \cup {From("member", "member", "private", "photo", "message")}
    \cup {From("bot", s, "supergroup", h, "callback") : s \in {"admin", "member"}, h \in {"link", "photo"}}
    \cup {From("none", "member", "private", "text", "query")}

RouteTables == {{"any", "edit"}, {"command", "state", "text", "edit", "checkout", "prefix", "_sys_join"}}

\* The counters and bounds are natural numbers, the handlers of a chain can be counted
\* by its index, and what stands for nobody is nobody.
ASSUME ModerationAssumption ==
    /\ MaxIndex \in Nat /\ MaxIndex >= 4
    /\ MaxHandlers \in Nat \ {0} /\ MaxHandlers <= MaxIndex /\ MaxPipe \in Nat
    /\ "none" \notin Processes /\ "other" \notin Messages
    /\ "free" \notin Workers /\ IsFiniteSet(BadWords)

\* What is counted against a limit and a window: a limit of nothing would let no message pass,
\* and AntiSpam lets at least one pass in a window.
ASSUME LimitsAssumption == Limit \in Nat \ {0} /\ Window \in Nat \ {0} /\ JoinCounts \subseteq Nat

WorkerSymmetry == Permutations(Workers)

-----------------------------------------------------------------------------
HC == INSTANCE HandlerChain
GC == INSTANCE GuardedChat
SE == INSTANCE Settings WITH Admins <- Workers
BW == INSTANCE BannedWords WITH Handlers <- Workers
WD == INSTANCE WordsDialogue WITH Talkers <- Workers
LI == INSTANCE Limits WITH jobs <- counted, excused <- late
RO == INSTANCE Routing WITH Updaters <- Workers, jobs <- routed, state <- dialogue
BL == INSTANCE BotLock

ChainVars == <<chain, index, stack, started, piped, aborted, panics>>
GuardVars == <<update, guards, flags, held, touched, unsure, erased, deleted, changes>>
SettingVars == <<store, mutex, ops, captured, layouts, taps, panels, dialogs, writes, want, overlaid, crowded, used, tapped>>
WordVars == <<file, lists, cache, jobs, begun, mixed, unsaved, missed>>
DialogueVars == <<state, prompt, menu, menus, prompts, seen, stage, about, posts, owed, lone, mingled>>
LimitVars == <<guard, now, entry, records, counted, outcomes, locked, opened, late>>
RoutingVars == <<routes, dialogue, kept, sent, routed, crossed, prev, taken>>
LockVars == <<todo, asks, reading, leaked, writer, turns>>

ModerationInit ==
    /\ part \in Parts
    /\ HC!InitChain /\ GC!InitGuards /\ SE!InitSettings /\ BW!InitWords /\ WD!InitDialogue
    /\ LI!InitLimits /\ RO!InitRouting /\ BL!InitLock /\ Init

ChainMoves ==
    /\ part = "chain"
    /\ HC!ChainNext
    /\ UNCHANGED <<part, GuardVars, SettingVars, WordVars, DialogueVars,
                   LimitVars, RoutingVars, LockVars, vars>>

GuardsMove ==
    /\ part = "guards"
    /\ GC!GuardNext
    /\ UNCHANGED <<part, SettingVars, WordVars, DialogueVars, LimitVars,
                   RoutingVars, LockVars, vars>>

SettingsMove ==
    /\ part = "settings"
    /\ SE!SettingsNext
    /\ UNCHANGED <<part, ChainVars, GuardVars, WordVars, DialogueVars,
                   LimitVars, RoutingVars, LockVars, vars>>

WordsMove ==
    /\ part = "words"
    /\ BW!WordsNext
    /\ UNCHANGED <<part, ChainVars, GuardVars, SettingVars, DialogueVars,
                   LimitVars, RoutingVars, LockVars, vars>>

DialogueMoves ==
    /\ part = "dialogue"
    /\ WD!DialogueNext
    /\ UNCHANGED <<part, ChainVars, GuardVars, SettingVars, WordVars,
                   LimitVars, RoutingVars, LockVars, vars>>

LimitsMove ==
    /\ part = "limits"
    /\ LI!LimitsNext
    /\ UNCHANGED <<part, ChainVars, GuardVars, SettingVars, WordVars,
                   DialogueVars, RoutingVars, LockVars, vars>>

RoutingMoves ==
    /\ part = "routing"
    /\ RO!RoutingNext
    /\ UNCHANGED <<part, ChainVars, GuardVars, SettingVars, WordVars,
                   DialogueVars, LimitVars, LockVars, vars>>

LockMoves ==
    /\ part = "lock"
    /\ BL!LockNext
    /\ UNCHANGED <<part, ChainVars, GuardVars, SettingVars, WordVars,
                   DialogueVars, LimitVars, RoutingVars, vars>>

LimiterMoves ==
    /\ part = "limiter"
    /\ Next
    /\ UNCHANGED <<part, ChainVars, GuardVars, SettingVars, WordVars,
                   DialogueVars, LimitVars, RoutingVars, LockVars>>

ModerationNext ==
    \/ ChainMoves \/ GuardsMove \/ SettingsMove \/ WordsMove \/ DialogueMoves
    \/ LimitsMove \/ RoutingMoves \/ LockMoves \/ LimiterMoves

moderationVars ==
    <<part, ChainVars, GuardVars, SettingVars, WordVars, DialogueVars, LimitVars, RoutingVars,
      LockVars, vars>>

ModerationSpec == ModerationInit /\ [][ModerationNext]_moderationVars

-----------------------------------------------------------------------------
\* The variables of every part have their types.
PartsTypeOK ==
    /\ HC!ChainTypeOK /\ SE!SettingsTypeOK /\ BW!WordsTypeOK /\ WD!DialogueTypeOK
    /\ LI!LimitsTypeOK /\ RO!RoutingTypeOK /\ BL!LockTypeOK
    /\ part = "guards" => GC!GuardTypeOK

\* The properties of the parts, each stated in full in its module.

\* Next, Abort and Recovery run the handlers of a chain in order, each at most once.
OnceInOrder == HC!OnceInOrder
\* A chain that nobody aborts runs to its end, also past a recovered panic.
AllRunUnlessAborted == HC!AllRunUnlessAborted
\* After an Abort no further handler of the chain begins.
AbortStops == HC!AbortStops
\* What a lock of the chat forbids does not reach the handler, but for those it exempts.
LocksHold == GC!LocksHold
\* The guards do not delete what administrators and the owner write.
AdminsKeepMessages == GC!AdminsKeepMessages
\* A change of a setting that overlaps no other has exactly the effect it was asked for.
LoneChangesHold == SE!LoneChangesHold
\* The lights of a panel show what the store holds.
LightsTellTruth == SE!LightsTellTruth
\* The banned words that messages are scanned for are those that were saved, and a scan finds them.
WordsKept == BW!WordsKept
\* The dialogue about banned words leaves no message behind but for failures, overlaps and late taps.
DialogueClean == WD!DialogueClean
\* What passes a middleware that limits over time is bounded in any stretch of time.
BurstsBounded == LI!BurstsBounded
\* A text repeated within a minute does not pass AntiRepeat.
RepeatsStopped == LI!RepeatsStopped
\* More joins than the limit within a window lock the chat.
RaidLocks == LI!RaidLocks
\* What the middlewares that count over time promise, together.
LimitsKept == BurstsBounded /\ RepeatsStopped /\ RaidLocks
\* An edit is told the text before it, and the cache keeps the last one.
TextOfLatest == RO!TextOfLatest
\* Goroutines stop for Bot.mu only through locks that are taken inside each other, or left behind.
OnlyNestedOrLeakedStop == BL!OnlyNestedOrLeakedStop
=============================================================================
