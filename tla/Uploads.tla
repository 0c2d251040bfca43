------------------------------- MODULE Uploads -------------------------------
(***************************************************************************)
(* An upload with retries, and the ids of files that were uploaded before: *)
(* executeUpload, uploadMediaWithProgress and cacheUploadedID (send.go),   *)
(* BaseRequestMultipartWithProgress (transfer.go).                         *)
(*                                                                         *)
(* A file is its version and its blocks.  What has been read of it an      *)
(* attempt has sent, also when it fails; whether the server took it is not *)
(* known then.                                                             *)
(***************************************************************************)
EXTENDS Naturals, Sequences

CONSTANTS
    Size,        \* blocks of a file
    MaxRetries,  \* attempts; five in the code
    MaxUploads,  \* bound: uploads
    MaxVersions  \* bound: versions of the local file

VARIABLES
    file,    \* the version at the path, 0 when nothing is there
    cached,  \* fileCache: the version whose id the path stands for, 0 if none
    up,      \* the upload
    posts,   \* what the server has posted, in order: version, first block, whether answered
    writers, \* goroutines that still write into a pipe nobody reads
    uploads, versions

uploadVars == <<file, cached, up, posts, writers, uploads, versions>>

-----------------------------------------------------------------------------
Idle == [at |-> "idle"]
Post(version, from, answered) == [version |-> version, from |-> from, answered |-> answered]

InitUploads ==
    /\ file = 1
    /\ cached = 0
    /\ up = Idle
    /\ posts = <<>>
    /\ writers = 0
    /\ uploads = 0
    /\ versions = 1

\* Another file comes to lie at the path, or none does.
Change ==
    /\ versions < MaxVersions /\ up.at = "idle"
    /\ versions' = versions + 1
    /\ file' \in {0, versions'}
    /\ UNCHANGED <<cached, up, posts, writers, uploads>>

Begins == up = Idle /\ uploads < MaxUploads /\ uploads' = uploads + 1

Multipart(version, seeks, named) ==
    /\ \E progress \in BOOLEAN :
          up' = [at |-> "try", version |-> version, seeks |-> seeks, named |-> named, progress |-> progress,
                 read |-> 0, attempts |-> 0]
    /\ UNCHANGED <<file, cached, posts, writers, versions>>

\* A local file without a cached id is opened; os.File can seek.
Open == Begins /\ file # 0 /\ cached = 0 /\ Multipart(file, TRUE, TRUE)

\* An InputFile of the handler, which may be a reader that cannot seek.
Stream == Begins /\ \E seeks \in BOOLEAN : Multipart(MaxVersions + 1, seeks, FALSE)

\* A cached id is sent, or a string that is no file as if it were an id: one request.
SendId ==
    /\ Begins
    /\ file # 0 => cached # 0
    /\ \/ /\ file # 0
          /\ posts' = Append(posts, Post(cached, 1, TRUE))
          /\ up' = [at |-> "ok", whole |-> TRUE, stale |-> cached # file, version |-> file]
       \/ /\ up' = [at |-> "error"]
          /\ UNCHANGED posts
    /\ UNCHANGED <<file, cached, writers, versions>>

\* Mutation of First: no reader is moved back.
FirstRead == up.read + 1

\* Readers that can seek begin anew with every attempt.
First == IF up.seeks THEN 1 ELSE up.read + 1

\* The attempt fails after some of the file was read: it is repeated, at most MaxRetries
\* times.  With a progress callback the body hides that the pipe can be closed, and the
\* goroutine that fills it stays unless it has written everything.
Again(last) ==
    /\ up' = IF up.attempts + 1 = MaxRetries THEN [at |-> "error"]
             ELSE [up EXCEPT !.attempts = @ + 1, !.read = last]
    /\ writers' = IF up.progress /\ last < Size THEN writers + 1 ELSE writers
    /\ UNCHANGED <<file, cached, uploads, versions>>

\* No connection, a broken one, a 5xx or 429: not posted.
Failed ==
    /\ up.at = "try"
    /\ \E last \in (First - 1)..Size : Again(last)
    /\ UNCHANGED posts

\* Posted, but the answer is lost or is not JSON.
Lost ==
    /\ up.at = "try"
    /\ posts' = Append(posts, Post(up.version, First, FALSE))
    /\ Again(Size)

\* A 4xx, an answer that is not ok, or the context has been cancelled.
Refused ==
    /\ up.at = "try"
    /\ up' = [at |-> "error"]
    /\ UNCHANGED <<file, cached, posts, writers, uploads, versions>>

\* Posted: the id of a file with a name is kept for its path.
Posted ==
    /\ up.at = "try"
    /\ posts' = Append(posts, Post(up.version, First, TRUE))
    /\ up' = [at |-> "ok", whole |-> up.seeks \/ up.attempts = 0, stale |-> FALSE, version |-> up.version]
    /\ cached' = IF up.named THEN up.version ELSE cached
    /\ UNCHANGED <<file, writers, uploads, versions>>

Return ==
    /\ up.at \in {"ok", "error"}
    /\ up' = Idle
    /\ UNCHANGED <<file, cached, posts, writers, uploads, versions>>

UploadsNext ==
    \/ Change \/ Open \/ Stream \/ SendId \/ Failed \/ Lost \/ Refused \/ Posted \/ Return

UploadSpec == InitUploads /\ [][UploadsNext]_uploadVars

-----------------------------------------------------------------------------
(***************************************************************************)
(* Properties                                                              *)
(***************************************************************************)
\* The variables have their types.
UploadsTypeOK ==
    /\ file \in 0..MaxVersions /\ cached \in 0..MaxVersions
    /\ up.at \in {"idle", "try", "ok", "error"}
    /\ writers \in Nat /\ uploads \in 0..MaxUploads

\* An upload that succeeds has posted last the whole of the file that lies at the path,
\* after any failed attempts - unless the path had been cached for another file, or a
\* reader that cannot seek had been read before.
UploadedWhole ==
    up.at = "ok" /\ up.whole /\ ~up.stale =>
        posts[Len(posts)] = Post(up.version, 1, TRUE)

-----------------------------------------------------------------------------
(***************************************************************************)
(* The invariant that makes UploadedWhole hold.                            *)
(***************************************************************************)
Uploading ==
    [at : {"try"}, version : Nat, seeks : BOOLEAN, named : BOOLEAN, progress : BOOLEAN, read : Nat, attempts : Nat]

UploadShapes ==
    /\ file \in Nat /\ cached \in Nat /\ versions \in Nat
    /\ posts \in Seq([version : Nat, from : Nat, answered : BOOLEAN])
    /\ \/ up.at \in {"idle", "error"}
       \/ up \in [at : {"ok"}, whole : BOOLEAN, stale : BOOLEAN, version : Nat]
       \/ up \in Uploading

\* In the first attempt nothing has been read before.
ReadAnew == up.at = "try" /\ up.attempts = 0 => up.read = 0

UploadInv == UploadShapes /\ ReadAnew /\ (up.at = "ok" => posts # <<>>) /\ UploadedWhole
=============================================================================
