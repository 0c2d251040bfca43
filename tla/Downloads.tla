------------------------------ MODULE Downloads ------------------------------
(***************************************************************************)
(* Downloads to one path, one after the other: resilientDownload and       *)
(* ResolveDownloadURL (transfer.go), below DownloadChain.Go (context.go).  *)
(*                                                                         *)
(* The remote file is the sequence of its blocks; 0 is a block of another  *)
(* file, or a piece of one.  A link is the file itself or a page that      *)
(* leads on.  The length of a reply is known, or it comes in chunks, or it *)
(* ends with its connection; that the last kind has been cut short nobody  *)
(* notices.                                                                *)
(***************************************************************************)
EXTENDS Naturals, Sequences

CONSTANTS
    Size,        \* blocks of the remote file
    MaxRetries,  \* resilientDownload: attempts; five in the code
    MaxHops,     \* MaxResolveHops
    MaxRuns      \* bound: downloads

VARIABLES
    path,      \* the blocks of the local file
    load,      \* the download, or Idle
    gone,      \* its context is cancelled
    runs       \* downloads so far

downloadVars == <<path, load, gone, runs>>

-----------------------------------------------------------------------------
Remote == [i \in 1..Size |-> i]
Beginnings == {[i \in 1..n |-> i] : n \in 0..Size}
Idle == [at |-> "idle"]
Outcome(at, sound) == [at |-> at, sound |-> sound]

\* A page that leads to the file, one that leads to the former, two that lead to each
\* other, and one with nothing on it.
Links == [page |-> "file", far |-> "page", here |-> "there", there |-> "here", empty |-> "empty"]
Hop(link) == IF link \in DOMAIN Links THEN Links[link] ELSE link

\* ResolveDownloadURL: from link to link, until a page comes up again or the hops end.
Resolved(link) ==
    LET visited[hop \in 0..MaxHops] == IF hop = 0 THEN link ELSE Hop(visited[hop - 1])
        again == {hop \in 1..MaxHops : \E before \in 0..(hop - 1) : visited[before] = visited[hop]}
    IN  visited[IF again = {} THEN MaxHops ELSE CHOOSE hop \in again : \A other \in again : hop <= other]

InitDownloads ==
    /\ path \in {<<>>, <<1>>, <<0>>, Remote, Append(Remote, 0)}
    /\ load = Idle
    /\ gone = FALSE
    /\ runs = 0

\* Go: the link is resolved unless that fails, and the file that is there will be resumed.
Start ==
    /\ load = Idle /\ runs < MaxRuns
    /\ runs' = runs + 1
    /\ gone' = FALSE
    /\ \E link \in DOMAIN Links \cup {"file"}, works \in BOOLEAN :
          load' = [at |-> "try", link |-> IF works THEN Resolved(link) ELSE link, resolved |-> works,
                   have |-> Len(path), attempts |-> 0, total |-> 0, next |-> 0,
                   sound |-> path \in Beginnings]
    /\ UNCHANGED path

\* CancelDownload, or the end of the handler's context.
Cancel ==
    /\ load.at \in {"try", "read"} /\ ~gone
    /\ gone' = TRUE
    /\ UNCHANGED <<path, load, runs>>

-----------------------------------------------------------------------------
(***************************************************************************)
(* resilientDownload                                                       *)
(***************************************************************************)
Finish(outcome) == load' = Outcome(outcome, load.sound)

\* The attempt fails; after the last one the download does.
Fail(left) ==
    load' = IF left.attempts + 1 = MaxRetries THEN Outcome("error", left.sound)
            ELSE [left EXCEPT !.at = "try", !.attempts = @ + 1, !.total = 0, !.next = 0]

Trying == load.at = "try" /\ ~gone
Asking == Trying /\ load.link = "file"

Cancelled ==
    /\ load.at = "try" /\ gone
    /\ Finish("error")
    /\ UNCHANGED <<path, gone, runs>>

\* No answer, an error status, or a page; a page of a link not yet resolved is resolved.
\* Or the whole file comes, and the local one cannot be opened: its size is forgotten.
Refused ==
    /\ Trying
    /\ \/ Fail(load)
       \/ Asking /\ Fail([load EXCEPT !.have = 0])
       \/ /\ load.link # "file" /\ ~load.resolved
          /\ LET link == Resolved(load.link)
             IN  Fail(IF link = load.link THEN load ELSE [load EXCEPT !.link = link, !.resolved = TRUE])
    /\ UNCHANGED <<path, gone, runs>>

\* 416: there is nothing behind what is here.
NothingBehind ==
    /\ Asking /\ load.have >= Size
    /\ Finish("ok")
    /\ UNCHANGED <<path, gone, runs>>

\* 206: the rest of the file, which is appended.  Its length is known, or taken to be
\* one less than what is here.
Resume ==
    /\ Asking /\ load.have \in 1..(Size - 1)
    /\ \E total \in {Size, load.have - 1} :
          load' = [load EXCEPT !.at = "read", !.next = load.have + 1, !.total = total]
    /\ UNCHANGED <<path, gone, runs>>

\* Mutation of Whole: what is there is kept.
WholeAppended ==
    /\ Asking
    /\ \E total \in {Size, 0} :
          load' = [load EXCEPT !.at = "read", !.next = 1, !.have = 0, !.total = total]
    /\ UNCHANGED <<path, gone, runs>>

\* 200: the file from its first block; what is there is cut away.
Whole ==
    /\ Asking
    /\ \E total \in {Size, 0} :
          load' = [load EXCEPT !.at = "read", !.next = 1, !.have = 0, !.total = total]
    /\ path' = <<>>
    /\ UNCHANGED <<gone, runs>>

\* The next block is written and counted.
Read ==
    /\ load.at = "read" /\ ~gone /\ load.next <= Size
    /\ path' = Append(path, load.next)
    /\ load' = [load EXCEPT !.have = @ + 1, !.next = @ + 1]
    /\ UNCHANGED <<gone, runs>>

\* The reply breaks off, no byte comes until the watchdog cancels the attempt, or the
\* job is cancelled.
Broken ==
    /\ load.at = "read"
    /\ Fail(load)
    /\ UNCHANGED <<path, gone, runs>>

\* The disk is full: a piece of the block may be in the file, but is not counted.
ShortWrite ==
    /\ load.at = "read" /\ load.next <= Size
    /\ path' = Append(path, 0)
    /\ Fail([load EXCEPT !.sound = FALSE])
    /\ UNCHANGED <<gone, runs>>

\* The end of the reply.
End ==
    /\ load.at = "read" /\ load.next > Size
    /\ IF load.total > 0 /\ load.have # load.total THEN Fail(load) ELSE Finish("ok")
    /\ UNCHANGED <<path, gone, runs>>

\* A reply that ends with its connection is cut short: it looks like its end, and with no
\* length to compare with, the download succeeds.
EndsEarly ==
    /\ load.at = "read" /\ load.next <= Size /\ load.total = 0
    /\ load' = Outcome("ok", FALSE)
    /\ UNCHANGED <<path, gone, runs>>

\* Go returns.
Return ==
    /\ load.at \in {"ok", "error"}
    /\ load' = Idle
    /\ UNCHANGED <<path, gone, runs>>

DownloadsNext ==
    \/ Start \/ Cancel \/ Cancelled \/ Refused \/ NothingBehind \/ Resume \/ Whole
    \/ Read \/ Broken \/ ShortWrite \/ End \/ EndsEarly \/ Return

DownloadSpec == InitDownloads /\ [][DownloadsNext]_downloadVars

-----------------------------------------------------------------------------
(***************************************************************************)
(* Properties                                                              *)
(***************************************************************************)
\* The variables have their types.
DownloadsTypeOK ==
    /\ path \in Seq(0..Size) /\ Len(path) <= Size + MaxRetries
    /\ load.at \in {"idle", "try", "read", "ok", "error"}
    /\ gone \in BOOLEAN /\ runs \in 0..MaxRuns

\* A download that succeeds has left the remote file, whatever broke off, was resumed
\* or began anew, in this download or in those before it - if the file that was there
\* was the beginning of this one, no write was cut short, and no reply of unknown length was
\* that ends with its connection.
Intact == load.at = "ok" /\ load.sound => path = Remote

-----------------------------------------------------------------------------
(***************************************************************************)
(* The invariant that makes Intact hold.                                   *)
(***************************************************************************)
\* The link is whatever Resolved makes of the links before it.
Loads == {Idle} \cup {Outcome(at, sound) : at \in {"ok", "error"}, sound \in BOOLEAN}

LoadShapes ==
    /\ path \in Seq(Nat)
    /\ load \in Loads \/ load \in [at : {"try", "read"}, link : {load.link}, resolved : BOOLEAN, have : Nat,
                                   attempts : Nat, total : Nat, next : Nat, sound : BOOLEAN]

\* As long as it is sound, what is here is a beginning of the file, as long as the download
\* believes, unless that is forgotten; what comes next is the block behind it.
InStep ==
    load.at \in {"try", "read"} /\ load.sound =>
        /\ path \in Beginnings
        /\ load.have = Len(path) \/ (load.at = "try" /\ load.have = 0)
        /\ load.at = "read" => load.next = load.have + 1

DownloadInv == LoadShapes /\ InStep /\ Intact
=============================================================================
