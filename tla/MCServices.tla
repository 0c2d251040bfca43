----------------------------- MODULE MCServices -----------------------------
(***************************************************************************)
(* Finite instances, for TLC, of what handlers use: warnings, sessions,    *)
(* wizards, surveys, captchas, transfers and their cancellation, sockets,  *)
(* the rotating log, background goroutines and purges.                     *)
(*                                                                         *)
(* As in MCModeration, a behaviour is one of a single part.  Because TLC   *)
(* pays for every variable in every state, the parts other than WarnEngine *)
(* share fifteen variables, which each of them names in its own way.      *)
(***************************************************************************)
EXTENDS WarnEngine, FiniteSets

CONSTANTS
    Parts,      \* the parts to check
    Chats, MaxWrites, MaxSaves, MaxDays, MaxFaults,
    Fields, Numeric, MaxWizards, MaxTexts, MaxTimers,
    Questions, MaxSurveys, MaxClicks,
    Timeout, MaxJoins,
    Cancellers, QueueCap, MaxRuns,
    Size, MaxRetries, MaxHops, MaxUploads, MaxVersions,
    Conns, Lengths, MaxSends, MaxPings,
    MaxSize, Backups, MaxLines, MaxRestarts,
    Purges, Room, Slack, LeastCount, MostCount, Counts, TopId, Visible,
    Items, PerPage, MaxPresses, MaxLosses,
    Nodes, Root, Inline, MaxMoves,
    MaxMessages, MaxDeletes, MaxReports,
    Sizes, Limit, MaxVolumes,
    Users, MaxRefused

\* What the constants are: the workers, or handlers, or tasks, are finitely many goroutines, and there
\* are some; durations, sizes, places and bounds are numbers, one of the sizes of archives is the largest,
\* and messages are numbered from 1.
ASSUME ServicesAssumption ==
    /\ IsFiniteSet(Handlers) /\ Handlers # {} /\ "handler" \notin Handlers /\ "free" \notin Handlers
    /\ Chats # {}
    /\ Timeout \in Nat /\ MaxWrites \in Nat
    /\ Room \in Nat /\ Slack \in Nat /\ TopId \in Nat /\ LeastCount \in Nat /\ MostCount \in Nat
    /\ Counts \subseteq Int /\ Visible \subseteq SUBSET (1..TopId)
    /\ Users \in Nat
    /\ Lengths \subseteq Nat /\ MaxSize \in Nat /\ Backups \in Nat
    /\ Size \in Nat /\ MaxVersions \in Nat
    /\ Limit \in Nat \ {0} /\ Sizes \subseteq Nat /\ \E n \in Sizes : \A m \in Sizes : m <= n

\* A form, a survey and a list have some questions or items, and a page has room for at least one; the
\* menus have a root, some are inline, and neither "none" nor the button back is one of them.
ASSUME ConversationAssumption ==
    /\ Fields \in Nat /\ Questions \in Nat
    /\ Items \in Nat /\ PerPage \in Nat \ {0}
    /\ Root \in Nodes /\ Inline \subseteq Nodes /\ "none" \notin Nodes /\ "back" \notin Nodes

VARIABLES part, s1, s2, s3, s4, s5, s6, s7, s8, s9, s10, s11, s12, s13, s14, s15

HandlerSymmetry == Permutations(Handlers)

shared == <<s1, s2, s3, s4, s5, s6, s7, s8, s9, s10, s11, s12, s13, s14, s15>>

-----------------------------------------------------------------------------
SS == INSTANCE SessionStore WITH table <- s1, held <- s2, saves <- s3, stopped <- s4, disk <- s5,
          writes <- s6, saved <- s7, days <- s8, faults <- s9, latest <- s10, parted <- s11,
          mixed <- s12
WZ == INSTANCE Wizards WITH Updaters <- Handlers, names <- s1, pointer <- s2, answers <- s3,
          workers <- s4, wizards <- s5, texts <- s6, wrong <- s7, persian <- s8, late <- s9,
          timers <- s10, forms <- s11, given <- s12, overlap <- s13
SU == INSTANCE Surveys WITH Updaters <- Handlers, callbacks <- s1, shown <- s2, answers <- s3,
          workers <- s4, surveys <- s5, clicks <- s6, late <- s7, completed <- s8, doubted <- s9
CA == INSTANCE Captcha WITH Clickers <- Handlers, inside <- s1, muted <- s2, joins <- s3,
          latest <- s4, clicks <- s5, crashes <- s6, waited <- s7, passed <- s8, kicked <- s9,
          unlucky <- s10
CR == INSTANCE CancelRegistry WITH Workers <- Handlers, queued <- s1, running <- s2,
          registry <- s3, cancels <- s4, runs <- s5, cancelled <- s6, meant <- s7
DO == INSTANCE Downloads WITH path <- s1, load <- s2, gone <- s3, runs <- s4
UP == INSTANCE Uploads WITH file <- s1, cached <- s2, up <- s3, posts <- s4, writers <- s5,
          uploads <- s6, versions <- s7
HU == INSTANCE Hub WITH Writers <- Handlers, conns <- s1, wire <- s2, tasks <- s3, sends <- s4,
          pings <- s5, texts <- s6, pending <- s7
LO == INSTANCE RotateLog WITH files <- s1, file <- s2, currSize <- s3, turning <- s4, lines <- s5,
          restarts <- s6, spoilt <- s7
BG == INSTANCE Background WITH Tasks <- Handlers, tasks <- s1, parent <- s2, chat <- s3,
          purges <- s4, flying <- s5, clouded <- s6
PA == INSTANCE Pagination WITH Updaters <- Handlers, builder <- s1, shown <- s2, kept <- s3,
          workers <- s4, presses <- s5, losses <- s6, picked <- s7, parted <- s8
ME == INSTANCE Menus WITH Updaters <- Handlers, current <- s1, ids <- s2, messages <- s3,
          deleting <- s4, workers <- s5, moves <- s6, sent <- s7, field <- s8, wanted <- s9,
          apart <- s10
AN == INSTANCE Analytics WITH Updaters <- Handlers, daily <- s1, lifetime <- s2, named <- s3,
          workers <- s4, report <- s5, messages <- s6, edits <- s7, deletes <- s8, reports <- s9,
          crashes <- s10, reported <- s11, mediaEdits <- s12, overlapped <- s13, straddled <- s14,
          torn <- s15
VO == INSTANCE Volumes WITH original <- s1, archive <- s2, parts <- s3, send <- s4, volumes <- s5,
          faults <- s6, posted <- s7, cut <- s8
BC == INSTANCE Broadcasts WITH Updaters <- Handlers, what <- s1, fresh <- s2, jobs <- s3,
          workers <- s4, sent <- s5, failed <- s6, refused <- s7, got <- s8, tried <- s9,
          results <- s10

-----------------------------------------------------------------------------
\* The part begins, and the variables that it has no name for stay 0.
ServicesInit ==
    /\ part \in Parts
    /\ Init
    /\ \/ part = "sessions" /\ SS!InitSessions /\ s13 = 0 /\ s14 = 0 /\ s15 = 0
       \/ part = "wizards" /\ WZ!InitWizards /\ s14 = 0 /\ s15 = 0
       \/ part = "surveys" /\ SU!InitSurveys /\ s10 = 0 /\ s11 = 0 /\ s12 = 0 /\ s13 = 0
             /\ s14 = 0 /\ s15 = 0
       \/ part = "captcha" /\ CA!InitCaptcha /\ s11 = 0 /\ s12 = 0 /\ s13 = 0 /\ s14 = 0
             /\ s15 = 0
       \/ part = "registry" /\ CR!InitRegistry /\ s8 = 0 /\ s9 = 0 /\ s10 = 0 /\ s11 = 0
             /\ s12 = 0 /\ s13 = 0 /\ s14 = 0 /\ s15 = 0
       \/ part = "download" /\ DO!InitDownloads /\ s5 = 0 /\ s6 = 0 /\ s7 = 0 /\ s8 = 0
             /\ s9 = 0 /\ s10 = 0 /\ s11 = 0 /\ s12 = 0 /\ s13 = 0 /\ s14 = 0 /\ s15 = 0
       \/ part = "upload" /\ UP!InitUploads /\ s8 = 0 /\ s9 = 0 /\ s10 = 0 /\ s11 = 0 /\ s12 = 0
             /\ s13 = 0 /\ s14 = 0 /\ s15 = 0
       \/ part = "hub" /\ HU!InitHub /\ s8 = 0 /\ s9 = 0 /\ s10 = 0 /\ s11 = 0 /\ s12 = 0
             /\ s13 = 0 /\ s14 = 0 /\ s15 = 0
       \/ part = "log" /\ LO!InitLog /\ s8 = 0 /\ s9 = 0 /\ s10 = 0 /\ s11 = 0 /\ s12 = 0
             /\ s13 = 0 /\ s14 = 0 /\ s15 = 0
       \/ part = "background" /\ BG!InitBackground /\ s7 = 0 /\ s8 = 0 /\ s9 = 0 /\ s10 = 0
             /\ s11 = 0 /\ s12 = 0 /\ s13 = 0 /\ s14 = 0 /\ s15 = 0
       \/ part = "warnings" /\ s1 = 0 /\ s2 = 0 /\ s3 = 0 /\ s4 = 0 /\ s5 = 0 /\ s6 = 0
             /\ s7 = 0 /\ s8 = 0 /\ s9 = 0 /\ s10 = 0 /\ s11 = 0 /\ s12 = 0 /\ s13 = 0
             /\ s14 = 0 /\ s15 = 0
       \/ part = "pages" /\ PA!InitPagination /\ s9 = 0 /\ s10 = 0 /\ s11 = 0 /\ s12 = 0
             /\ s13 = 0 /\ s14 = 0 /\ s15 = 0
       \/ part = "menus" /\ ME!InitMenus /\ s11 = 0 /\ s12 = 0 /\ s13 = 0 /\ s14 = 0
             /\ s15 = 0
       \/ part = "analytics" /\ AN!InitAnalytics
       \/ part = "volumes" /\ VO!InitVolumes /\ s9 = 0 /\ s10 = 0 /\ s11 = 0
             /\ s12 = 0 /\ s13 = 0 /\ s14 = 0 /\ s15 = 0
       \/ part = "broadcast" /\ BC!InitBroadcasts /\ s11 = 0 /\ s12 = 0 /\ s13 = 0 /\ s14 = 0
             /\ s15 = 0

SessionsMove ==
    /\ part = "sessions"
    /\ SS!SessionsNext
    /\ UNCHANGED <<part, vars, s13, s14, s15>>

WizardsMove ==
    /\ part = "wizards"
    /\ WZ!WizardsNext
    /\ UNCHANGED <<part, vars, s14, s15>>

SurveysMove ==
    /\ part = "surveys"
    /\ SU!SurveysNext
    /\ UNCHANGED <<part, vars, s10, s11, s12, s13, s14, s15>>

CaptchaMoves ==
    /\ part = "captcha"
    /\ CA!CaptchaNext
    /\ UNCHANGED <<part, vars, s11, s12, s13, s14, s15>>

RegistryMoves ==
    /\ part = "registry"
    /\ CR!RegistryNext
    /\ UNCHANGED <<part, vars, s8, s9, s10, s11, s12, s13, s14, s15>>

DownloadMoves ==
    /\ part = "download"
    /\ DO!DownloadsNext
    /\ UNCHANGED <<part, vars, s5, s6, s7, s8, s9, s10, s11, s12, s13, s14, s15>>

UploadMoves ==
    /\ part = "upload"
    /\ UP!UploadsNext
    /\ UNCHANGED <<part, vars, s8, s9, s10, s11, s12, s13, s14, s15>>

HubMoves ==
    /\ part = "hub"
    /\ HU!HubNext
    /\ UNCHANGED <<part, vars, s8, s9, s10, s11, s12, s13, s14, s15>>

LogMoves ==
    /\ part = "log"
    /\ LO!LogNext
    /\ UNCHANGED <<part, vars, s8, s9, s10, s11, s12, s13, s14, s15>>

BackgroundMoves ==
    /\ part = "background"
    /\ BG!BackgroundNext
    /\ UNCHANGED <<part, vars, s7, s8, s9, s10, s11, s12, s13, s14, s15>>

PagesMove ==
    /\ part = "pages"
    /\ PA!PaginationNext
    /\ UNCHANGED <<part, vars, s9, s10, s11, s12, s13, s14, s15>>

MenusMove ==
    /\ part = "menus"
    /\ ME!MenusNext
    /\ UNCHANGED <<part, vars, s11, s12, s13, s14, s15>>

AnalyticsMoves ==
    /\ part = "analytics"
    /\ AN!AnalyticsNext
    /\ UNCHANGED <<part, vars>>

VolumesMove ==
    /\ part = "volumes"
    /\ VO!VolumesNext
    /\ UNCHANGED <<part, vars, s9, s10, s11, s12, s13, s14, s15>>

BroadcastMoves ==
    /\ part = "broadcast"
    /\ BC!BroadcastsNext
    /\ UNCHANGED <<part, vars, s11, s12, s13, s14, s15>>

WarningsMove ==
    /\ part = "warnings"
    /\ Next
    /\ UNCHANGED <<part, shared>>

ServicesNext ==
    \/ SessionsMove \/ WizardsMove \/ SurveysMove \/ CaptchaMoves \/ RegistryMoves \/ DownloadMoves
    \/ UploadMoves \/ HubMoves \/ LogMoves \/ BackgroundMoves \/ PagesMove \/ MenusMove
    \/ AnalyticsMoves \/ VolumesMove \/ BroadcastMoves \/ WarningsMove

servicesVars == <<part, vars, shared>>

ServicesSpec == ServicesInit /\ [][ServicesNext]_servicesVars

-----------------------------------------------------------------------------
\* The variables of the part have their types.
ServicesTypeOK ==
    /\ TypeOK
    /\ part = "sessions" => SS!SessionsTypeOK
    /\ part = "wizards" => WZ!WizardsTypeOK
    /\ part = "surveys" => SU!SurveysTypeOK
    /\ part = "captcha" => CA!CaptchaTypeOK
    /\ part = "registry" => CR!RegistryTypeOK
    /\ part = "download" => DO!DownloadsTypeOK
    /\ part = "upload" => UP!UploadsTypeOK
    /\ part = "hub" => HU!HubTypeOK
    /\ part = "log" => LO!LogTypeOK
    /\ part = "background" => BG!BackgroundTypeOK
    /\ part = "pages" => PA!PaginationTypeOK
    /\ part = "menus" => ME!MenusTypeOK
    /\ part = "analytics" => AN!AnalyticsTypeOK
    /\ part = "volumes" => VO!VolumesTypeOK
    /\ part = "broadcast" => BC!BroadcastsTypeOK

\* Sessions survive saving and restarting as GOBStore promises (SessionStore.tla).
SessionsKept == part = "sessions" => SS!SessionsKept

\* A user who joins is let in or removed, not both and not neither (Captcha.tla).
CaptchaSettles == part = "captcha" => CA!CaptchaSettles

\* What several goroutines write is whole and in order: frames of the socket server, and the
\* lines of the rotating log but those that its rotation drops (Hub.tla, RotateLog.tla).
WrittenWhole ==
    /\ part = "hub" => HU!HubSound
    /\ part = "log" => LO!LogKept

\* Background goroutines stay within their semaphore, and purges delete what they were asked
\* to (Background.tla); a broadcast tries every user once (Broadcasts.tla).
BackgroundSound ==
    /\ part = "background" => BG!BackgroundSound
    /\ part = "broadcast" => BC!EachOnce

\* What a user answers, in a form or in a survey, comes out whole and in order, and what a
\* user picks, on a page or in a menu, is what the message shows (Wizards.tla, Surveys.tla,
\* Pagination.tla, Menus.tla).
AnswersKept ==
    /\ part = "wizards" => WZ!FormsWhole
    /\ part = "surveys" => SU!AnswersInOrder
    /\ part = "pages" => PA!ItemsAsShown
    /\ part = "menus" => ME!OneMenu

\* Files arrive whole, in volumes too, as far as the code can know; cancelling reaches the
\* transfers of a chat that run when it is asked for, and none that do not (Downloads.tla,
\* Uploads.tla, Volumes.tla, CancelRegistry.tla).
TransfersKept ==
    /\ part = "download" => DO!Intact
    /\ part = "upload" => UP!UploadedWhole
    /\ part = "volumes" => VO!PostedWhole
    /\ part = "registry" => CR!CancelReaches /\ CR!RegistryExact

\* The analytics counters lose no message and no lone deletion (Analytics.tla).
EverythingCounted == part = "analytics" => AN!MessagesCounted /\ AN!DeletionsCounted
=============================================================================
