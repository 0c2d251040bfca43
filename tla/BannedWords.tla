----------------------------- MODULE BannedWords -----------------------------
(***************************************************************************)
(* The banned words of chats (middleware.go 658-1265): a file per chat,    *)
(* one cache of all chats that is replaced as a whole, the handlers that   *)
(* add, edit and delete words and the scans of AntiProfanity.              *)
(*                                                                         *)
(* A list is an array: the cache, the handlers that change it and the      *)
(* scans share it, and editing and deleting write into it in place.        *)
(***************************************************************************)
EXTENDS Integers, Sequences, FiniteSets

CONSTANTS
    Chats,    \* chats
    BadWords, \* words
    Handlers, \* handlers of updates that run at the same time
    MaxLists, \* bound: arrays
    MaxJobs   \* bound: messages handled

VARIABLES
    file,     \* per chat the list on disk
    lists,    \* the arrays in memory, by number
    cache,    \* profanityCache: per chat the number of its array, 0 if absent
    jobs,     \* per handler what it is doing, or Rest
    begun,    \* bound counter: messages
    mixed,    \* history: two handlers that change the words or the map overlapped
    unsaved,  \* history: chats whose last write failed
    missed    \* history: a scan missed a word that its list held throughout

wordVars == <<file, lists, cache, jobs, begun, mixed, unsaved, missed>>

-----------------------------------------------------------------------------
Rest == [at |-> "rest"]
Busy(h) == jobs[h] # Rest
Changing(h) == Busy(h) /\ jobs[h].does # "scan"
FreshMap == [c \in Chats |-> 0]
Shorter(list) == SubSeq(list, 1, Len(list) - 1)
InOrder ==
    CHOOSE list \in [1..Cardinality(BadWords) -> BadWords] : \A i, j \in DOMAIN list : list[i] = list[j] => i = j
FirstFile == [c \in Chats |-> Shorter(InOrder)]
Has(list, w) == \E i \in DOMAIN list : list[i] = w

\* append(words[:i], words[i+1:]...) moves the tail in place; the array keeps its
\* length and its last word twice.
Shifted(list, i) == [k \in DOMAIN list |-> IF k >= i /\ k < Len(list) THEN list[k + 1] ELSE list[k]]

InitWords ==
    /\ file = FirstFile
    /\ lists = <<>>
    /\ cache = FreshMap
    /\ jobs = [h \in Handlers |-> Rest]
    /\ begun = 0
    /\ mixed = FALSE /\ unsaved = {} /\ missed = FALSE

history == <<mixed, unsaved, missed>>

-----------------------------------------------------------------------------
(***************************************************************************)
(* GetBannedWords and UpdateBannedWords                                    *)
(***************************************************************************)
\* h begins to handle a message: does is "add", "edit", "delete" or "scan".
Begin(h, does, c) ==
    /\ ~Busy(h) /\ begun < MaxJobs
    /\ begun' = begun + 1
    /\ jobs' = [jobs EXCEPT ![h] = [at |-> "load", does |-> does, chat |-> c,
                                    list |-> 0, map |-> FreshMap, next |-> 1, word |-> "", excused |-> FALSE]]
    /\ mixed' = (mixed \/ (does # "scan" /\ \E g \in Handlers : Changing(g) \/ (Busy(g) /\ jobs[g].at = "fill")))
    /\ UNCHANGED <<file, lists, cache, unsaved, missed>>

\* A hit, or a miss that reads the file ...
Load(h) ==
    /\ Busy(h) /\ jobs[h].at = "load"
    /\ LET c == jobs[h].chat
       IN  IF cache[c] # 0
           THEN /\ jobs' = [jobs EXCEPT ![h].at = "go", ![h].list = cache[c]]
                /\ UNCHANGED <<lists, mixed>>
           ELSE /\ Len(lists) < MaxLists
                /\ lists' = Append(lists, file[c])
                /\ jobs' = [jobs EXCEPT ![h].at = "fill", ![h].list = Len(lists'), ![h].map = cache]
                /\ mixed' = (mixed \/ \E g \in Handlers \ {h} : Changing(g))
    /\ UNCHANGED <<file, cache, begun, unsaved, missed>>

\* ... and puts the list into a copy of the map it loaded.
Fill(h) ==
    /\ Busy(h) /\ jobs[h].at = "fill"
    /\ cache' = [jobs[h].map EXCEPT ![jobs[h].chat] = jobs[h].list]
    /\ jobs' = [jobs EXCEPT ![h].at = "go", ![h].map = FreshMap]
    /\ UNCHANGED <<file, lists, begun, history>>

\* writeGroupBannedWords: a temporary file that replaces the old one, or an error
\* that is ignored; then profanityCache.Load.
WriteFile(h) ==
    /\ Busy(h) /\ jobs[h].at = "write"
    /\ LET c == jobs[h].chat
       IN  \/ /\ file' = [file EXCEPT ![c] = lists[jobs[h].list]]
              /\ unsaved' = unsaved \ {c}
           \/ /\ unsaved' = unsaved \cup {c}
              /\ UNCHANGED file
    /\ jobs' = [jobs EXCEPT ![h].at = "swap", ![h].map = cache]
    /\ UNCHANGED <<lists, cache, begun, mixed, missed>>

\* Mutation of Swap: only the file is written.
SwapNothing(h) ==
    /\ Busy(h) /\ jobs[h].at = "swap"
    /\ jobs' = [jobs EXCEPT ![h].at = "show", ![h].map = FreshMap]
    /\ UNCHANGED <<file, lists, cache, begun, history>>

\* The new list goes into a copy of the map loaded before.
Swap(h) ==
    /\ Busy(h) /\ jobs[h].at = "swap"
    /\ cache' = [jobs[h].map EXCEPT ![jobs[h].chat] = jobs[h].list]
    /\ jobs' = [jobs EXCEPT ![h].at = "show", ![h].map = FreshMap]
    /\ UNCHANGED <<file, lists, begun, history>>

-----------------------------------------------------------------------------
(***************************************************************************)
(* The handlers of the dialogue's answers                                  *)
(***************************************************************************)
\* An answer in the state wait_add_word, wait_edit_word or wait_delete_word.
Answer(h) == \E does \in {"add", "edit", "delete"}, c \in Chats : Begin(h, does, c)

\* The answer is invalid: a word of the list, a number that is not in it.
Refuse(h) ==
    /\ Busy(h) /\ jobs[h].at = "go" /\ Changing(h)
    /\ jobs' = [jobs EXCEPT ![h] = Rest]
    /\ UNCHANGED <<file, lists, cache, begun, history>>

\* A scan over this array is excused when its word goes, or when words move.
Excuse(js, list, words) ==
    [g \in Handlers |-> IF js[g] # Rest /\ js[g].does = "scan" /\ js[g].list = list /\ js[g].word \in words
                        THEN [js[g] EXCEPT !.excused = TRUE] ELSE js[g]]

\* Mutation of Accept: an edited word moves to the end.
AcceptMoved(h) ==
    /\ Busy(h) /\ jobs[h].at = "go" /\ Changing(h)
    /\ LET number == jobs[h].list
           list == lists[number]
       IN  \E i \in DOMAIN list, w \in BadWords :
              /\ lists' = [lists EXCEPT ![number] = [Shifted(list, i) EXCEPT ![Len(list)] = w]]
              /\ jobs' = Excuse([jobs EXCEPT ![h].at = "write"], number, {list[i]})
    /\ UNCHANGED <<file, cache, begun, history>>

\* AddWordState, EditWordState, DeleteWordState after their checks.
\* A list that gets longer or shorter gets an array of its own.  In the code the list that a
\* deletion leaves is a prefix of the old array, into whose last place the next addition may
\* write.  That is seen only by who still has the list from before the deletion: its last
\* place repeats the word before it, which stays, or what changes there was changed by an
\* edit or a deletion that excuses it.
Accept(h) ==
    /\ Busy(h) /\ jobs[h].at = "go" /\ Changing(h)
    /\ Len(lists) < MaxLists
    /\ LET list == lists[jobs[h].list]
           number == jobs[h].list
       IN  \/ /\ jobs[h].does = "add"
              /\ \E w \in BadWords : ~Has(list, w) /\ lists' = Append(lists, Append(list, w))
              /\ jobs' = [jobs EXCEPT ![h].at = "write", ![h].list = Len(lists')]
           \/ /\ jobs[h].does = "edit"
              /\ \E i \in DOMAIN list, w \in BadWords :
                    /\ lists' = [lists EXCEPT ![number][i] = w]
                    /\ jobs' = Excuse([jobs EXCEPT ![h].at = "write"], number, {list[i]})
           \/ /\ jobs[h].does = "delete"
              /\ \E i \in DOMAIN list :
                    lists' = Append([lists EXCEPT ![number] = Shifted(list, i)], Shorter(Shifted(list, i)))
              /\ jobs' = Excuse([jobs EXCEPT ![h].at = "write", ![h].list = Len(lists')], number, BadWords)
    /\ UNCHANGED <<file, cache, begun, history>>

\* The handler ends.
Show(h) ==
    /\ Busy(h) /\ jobs[h].at = "show"
    /\ jobs' = [jobs EXCEPT ![h] = Rest]
    /\ UNCHANGED <<file, lists, cache, begun, history>>

-----------------------------------------------------------------------------
(***************************************************************************)
(* AntiProfanity: a message with the word w is looked up word by word.     *)
(***************************************************************************)
Scan(h) == \E c \in Chats : Begin(h, "scan", c)

Look(h) ==
    /\ Busy(h) /\ jobs[h].at = "go" /\ jobs[h].does = "scan"
    /\ LET job == jobs[h]
           list == lists[job.list]
       IN  IF job.word = ""
           THEN \* the message's word is one that is banned now
                /\ \E w \in {list[i] : i \in DOMAIN list} :
                      jobs' = [jobs EXCEPT ![h].word = w]
                /\ UNCHANGED missed
           ELSE IF job.next > Len(list)
           THEN /\ jobs' = [jobs EXCEPT ![h] = Rest]
                /\ missed' = (missed \/ (Has(list, job.word) /\ ~job.excused))
           ELSE /\ jobs' = [jobs EXCEPT ![h] = IF list[job.next] = job.word THEN Rest
                                               ELSE [job EXCEPT !.next = @ + 1]]
                /\ UNCHANGED missed
    /\ UNCHANGED <<file, lists, cache, begun, mixed, unsaved>>

WordsNext ==
    \E h \in Handlers : \/ Answer(h) \/ Scan(h) \/ Load(h) \/ Fill(h) \/ Look(h)
                          \/ Refuse(h) \/ Accept(h) \/ WriteFile(h) \/ Swap(h) \/ Show(h)

-----------------------------------------------------------------------------
(***************************************************************************)
(* Properties                                                              *)
(***************************************************************************)
\* The variables have their types.
WordsTypeOK ==
    /\ cache \in [Chats -> 0..Len(lists)]
    /\ \A c \in Chats : file[c] \in Seq(BadWords)
    /\ begun \in 0..MaxJobs

\* The words that messages are scanned for are those on disk, unless a write
\* failed or two changes overlapped, of one chat or of two (each of them puts the
\* whole map back): also while lists are loaded by scans.
CacheIsFile ==
    ~mixed => \A c \in Chats \ unsaved :
        cache[c] # 0 /\ (\A h \in Handlers : Changing(h) => jobs[h].chat # c) => lists[cache[c]] = file[c]

\* A scan finds a word that its list holds from before it begins till it ends,
\* although the list is changed in place, unless a deletion moved the words.
ScansFind == ~missed

\* Both: what AntiProfanity reads is what the administrators have saved.
WordsKept == CacheIsFile /\ ScansFind

=============================================================================
