-------------------------------- MODULE Volumes --------------------------------
(***************************************************************************)
(* A large file sent in volumes (send.go): zipped in the temporary         *)
(* directory, cut into parts there, and posted part by part.               *)
(*                                                                         *)
(* The names of the archive and of its parts come from the base name of    *)
(* the file.  A part is removed once it is posted; a failure leaves the    *)
(* parts after it behind, for the next file of that name to write over.    *)
(* What the closing of the archive, and the syncing and closing of a part, *)
(* fail to write nobody looks for.                                         *)
(***************************************************************************)
EXTENDS Naturals, Sequences

CONSTANTS
    Sizes,      \* how many bytes an archive can have
    Limit,      \* how many a part can
    MaxVolumes, \* bound: sends
    MaxFaults   \* bound: what fails

VARIABLES
    original, \* whether the file to be sent is there
    archive,  \* the archive: its bytes, each with the send that wrote it; None for none
    parts,    \* the parts in the directory, a sequence with None for those that are not there
    send,     \* the send under way
    volumes, faults, \* bound counters; volumes numbers the sends
    posted,   \* what the send under way has posted
    cut       \* history: an error that is ignored has cut its archive or a part

volumeVars == <<original, archive, parts, send, volumes, faults, posted, cut>>

-----------------------------------------------------------------------------
None == <<<<0, 0>>>>   \* sends count from 1
Most == CHOOSE n \in Sizes : \A m \in Sizes : m <= n
Places == 1..(Most \div Limit + 1)
Resting == [at |-> "rest", size |-> 0, offset |-> 0, names |-> 0, next |-> 1, cleanup |-> FALSE]
Bytes(v, size) == [i \in 1..size |-> <<v, i>>]
Least(m, n) == IF m < n THEN m ELSE n

InitVolumes ==
    /\ original = TRUE
    /\ archive = None
    /\ parts = [i \in Places |-> None]
    /\ send = Resting
    /\ volumes = 0 /\ faults = 0
    /\ posted = <<>>
    /\ cut = FALSE

Fault == faults < MaxFaults /\ faults' = faults + 1

\* The send is over.  With Cleanup the file is removed in every case.
Ends ==
    /\ send' = Resting
    /\ original' = (original /\ ~send.cleanup)

\* SendChain.Go: a file beyond the limit is to be split.  It may be another one by now.
\* size is that of its archive, which may be smaller than the file.
Start(size, cleanup) ==
    /\ send = Resting /\ original /\ volumes < MaxVolumes
    /\ volumes' = volumes + 1
    /\ send' = [Resting EXCEPT !.at = "zip", !.size = size, !.cleanup = cleanup]
    /\ posted' = <<>>
    /\ cut' = FALSE
    /\ UNCHANGED <<original, archive, parts, faults>>

\* The archive is written over what there is of that name.  A failure takes it away, unless
\* it is one of closing the archive: then the send goes on with what has been written.
Compress ==
    /\ send.at = "zip"
    /\ \/ /\ archive' = Bytes(volumes, send.size)
          /\ send' = [send EXCEPT !.at = "split"]
          /\ UNCHANGED <<original, faults, cut>>
       \/ \E n \in 0..send.size - 1 :
          /\ Fault
          /\ archive' = Bytes(volumes, n)
          /\ send' = [send EXCEPT !.at = "split", !.size = n]
          /\ cut' = TRUE
          /\ UNCHANGED original
       \/ Fault /\ archive' = None /\ Ends /\ UNCHANGED cut
    /\ UNCHANGED <<parts, volumes, posted>>

\* Mutation of Piece: a part starts at the last byte of the part before it.
PieceAgain == SubSeq(archive, (IF send.offset = 0 THEN 1 ELSE send.offset), Least(send.offset + Limit, Len(archive)))

\* What the next part takes of the archive.
Piece == SubSeq(archive, send.offset + 1, Least(send.offset + Limit, Len(archive)))

\* The next part is written over what there is of that name, and after the last one the
\* archive goes.  It goes too when a part cannot be written; the parts stay.  A part that
\* cannot be synced or closed counts as written.
Split ==
    /\ send.at = "split"
    /\ IF send.offset < Len(archive)
       THEN \/ /\ parts' = [parts EXCEPT ![send.names + 1] = Piece]
               /\ send' = [send EXCEPT !.offset = Least(@ + Limit, Len(archive)), !.names = @ + 1]
               /\ UNCHANGED <<original, archive, faults, cut>>
            \/ \E n \in 0..Len(Piece) - 1 :
               /\ Fault
               /\ parts' = [parts EXCEPT ![send.names + 1] = SubSeq(Piece, 1, n)]
               /\ \/ archive' = None /\ Ends /\ UNCHANGED cut
                  \/ /\ send' = [send EXCEPT !.offset = Least(@ + Limit, Len(archive)), !.names = @ + 1]
                     /\ cut' = TRUE
                     /\ UNCHANGED <<original, archive>>
       ELSE /\ archive' = None
            /\ send' = [send EXCEPT !.at = "post"]
            /\ UNCHANGED <<original, parts, faults, cut>>
    /\ UNCHANGED <<volumes, posted>>

\* Mutation of Post: a part stays.
PostKeeps ==
    /\ send.at = "post" /\ send.next <= send.names
    /\ posted' = Append(posted, parts[send.next])
    /\ send' = [send EXCEPT !.next = @ + 1]
    /\ UNCHANGED <<original, faults, parts, archive, volumes, cut>>

\* The next part is posted and removed, and when it could not be posted the send is over.
Post ==
    /\ send.at = "post" /\ send.next <= send.names
    /\ parts' = [parts EXCEPT ![send.next] = None]
    /\ \/ /\ posted' = Append(posted, parts[send.next])
          /\ send' = [send EXCEPT !.next = @ + 1]
          /\ UNCHANGED <<original, faults>>
       \/ Fault /\ Ends /\ UNCHANGED posted
    /\ UNCHANGED <<archive, volumes, cut>>

\* All parts are posted, and the message of the last one is returned.
Return ==
    /\ send.at = "post" /\ send.next > send.names
    /\ send' = [Resting EXCEPT !.at = "sent", !.size = send.size]
    /\ original' = (original /\ ~send.cleanup)
    /\ UNCHANGED <<archive, parts, volumes, faults, posted, cut>>

\* The process dies wherever it is; nothing is removed.
Die ==
    /\ send.at \in {"zip", "split", "post"} /\ Fault
    /\ send' = Resting
    /\ UNCHANGED <<original, archive, parts, volumes, posted, cut>>

\* The caller goes on; the file may be written anew.
Again ==
    /\ send.at \in {"rest", "sent"} /\ volumes \in 1..MaxVolumes - 1
    /\ send # Resting \/ ~original
    /\ send' = Resting /\ original' = TRUE
    /\ UNCHANGED <<archive, parts, volumes, faults, posted, cut>>

VolumesNext ==
    \/ \E size \in Sizes, cleanup \in BOOLEAN : Start(size, cleanup)
    \/ Compress \/ Split \/ Post \/ Return \/ Die \/ Again

VolumesSpec == InitVolumes /\ [][VolumesNext]_volumeVars

-----------------------------------------------------------------------------
(***************************************************************************)
(* Properties                                                              *)
(***************************************************************************)
\* The variables have their types.
VolumesTypeOK ==
    /\ original \in BOOLEAN
    /\ send.at \in {"rest", "zip", "split", "post", "sent"}
    /\ \A i \in Places : parts[i] = None \/ Len(parts[i]) <= Limit
    /\ send.names <= Len(parts)

\* The pieces put together.
Joined(pieces) ==
    LET upTo[n \in 0..Len(pieces)] == IF n = 0 THEN <<>> ELSE upTo[n - 1] \o pieces[n]
    IN  upTo[Len(pieces)]

\* What is posted of a file are parts of its own archive, from the first on, each within the
\* limit and none left out, whatever an earlier send of the name left in the directory; when
\* the send returns without an error they are the whole of it, and of its own parts none is
\* left behind.  All this unless an error that the code ignores has cut the archive or a part:
\* then what is posted is not the whole, and the send returns without an error all the same.
PostedWhole ==
    ~cut =>
       /\ \A i \in 1..Len(posted) : Len(posted[i]) \in 1..Limit
       /\ \A i \in 1..Len(Joined(posted)) : Joined(posted)[i] = <<volumes, i>>
       /\ send.at = "sent" =>
             /\ Len(Joined(posted)) = send.size
             /\ \A i \in Places : parts[i] # None => \A b \in DOMAIN parts[i] : parts[i][b][1] # volumes

-----------------------------------------------------------------------------
(***************************************************************************)
(* The invariant that makes PostedWhole hold.                              *)
(***************************************************************************)
\* Part k of an archive, and the first n of them, each of which begins before its end.
Chunk(size, k) ==
    [i \in 1..(Least(k * Limit, size) - (k - 1) * Limit) |-> <<volumes, (k - 1) * Limit + i>>]
Chunks(size, n) == [k \in 1..n |-> Chunk(size, k)]
Within(size, n) == n \in Nat /\ (n = 0 \/ (n - 1) * Limit < size)

Sends == [at : {"rest", "zip", "split", "post", "sent"}, size : Nat, offset : Nat, names : Nat, next : Nat,
          cleanup : BOOLEAN]

VolumeShapes ==
    /\ original \in BOOLEAN /\ volumes \in Nat /\ send \in Sends /\ cut \in BOOLEAN
    /\ parts \in [Places -> Seq(Nat \X Nat)]
    /\ send.at # "rest" => volumes > 0 /\ send.size \in 0..Most

\* The bytes of a part come from the sends up to one.
Until(last, k) == \A b \in DOMAIN parts[k] : parts[k][b][1] <= last

\* The archive is cut from its beginning on.
CutSoFar ==
    /\ send.at \in {"split", "post"} =>
          /\ Within(send.size, send.names)
          /\ send.offset = Least(send.names * Limit, send.size)
    /\ send.at = "split" => archive = Bytes(volumes, send.size)
    /\ send.at = "post" => send.offset = send.size
    /\ send.at = "zip" => send.names = 0 /\ send.offset = 0

\* Of the parts in the directory those from the next one on that were cut are of this send, and
\* no others are; what was posted are those before.
Exact ==
    /\ send.at \in {"zip", "split", "post"} =>
          /\ posted = Chunks(send.size, send.next - 1)
          /\ \A k \in Places : IF k \in send.next..send.names THEN parts[k] = Chunk(send.size, k) ELSE Until(volumes - 1, k)
    /\ send.at = "sent" => /\ send.size <= Len(posted) * Limit
                           /\ Within(send.size, Len(posted)) /\ posted = Chunks(send.size, Len(posted))
                           /\ \A k \in Places : Until(volumes - 1, k)
    /\ send.at = "rest" => \E size \in 0..Most : Within(size, Len(posted)) /\ posted = Chunks(size, Len(posted))

PartsSoFar ==
    /\ send.at \in {"zip", "split"} => send.next = 1
    /\ send.at \in {"zip", "split", "post"} => send.next \in 1..(send.names + 1)
    /\ \A k \in Places : Until(volumes, k)
    /\ ~cut => Exact

VolumesInv == VolumeShapes /\ CutSoFar /\ PartsSoFar
=============================================================================
