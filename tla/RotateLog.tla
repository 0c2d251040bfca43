------------------------------ MODULE RotateLog ------------------------------
(***************************************************************************)
(* RotateWriter (logger.go): the log and its backups on disk.              *)
(*                                                                         *)
(* Lines are numbered in the order in which Write takes its mutex, under   *)
(* which it also rotates, so a write is one step; a crash may come between *)
(* the steps of a rotation.                                                *)
(***************************************************************************)
EXTENDS Naturals, Sequences

CONSTANTS
    MaxSize,    \* lines after which the log is rotated
    Backups,    \* how many backups are kept
    MaxLines,   \* bound: lines
    MaxRestarts \* bound: restarts

VARIABLES
    files,    \* 0 is the log, the others its backups; <<>> for no file as well
    file,     \* "open", or "nil"
    currSize, \* the size that the writer knows of
    turning,  \* the rotation: the next i of its loop, or Still
    lines,    \* lines taken so far
    restarts,
    spoilt    \* history: a call of the system has failed, or a crash cut a rotation

logVars == <<files, file, currSize, turning, lines, restarts, spoilt>>

-----------------------------------------------------------------------------
Still == Backups + 1
Places == 0..Backups

InitLog ==
    /\ files = [i \in Places |-> <<>>]
    /\ file = "open"
    /\ currSize = 0
    /\ turning = Still
    /\ lines = 0
    /\ restarts = 0
    /\ spoilt = FALSE

\* Write: a line is refused without a file.  A short write is not counted.
Write ==
    /\ turning = Still /\ lines < MaxLines
    /\ lines' = lines + 1
    /\ \/ /\ file = "open"
          /\ files' = [files EXCEPT ![0] = Append(@, lines')]
          /\ currSize' = currSize + 1
          /\ IF currSize' >= MaxSize THEN turning' = Backups /\ file' = "nil" ELSE UNCHANGED <<turning, file>>
          /\ UNCHANGED spoilt
       \/ /\ file = "open"
          /\ spoilt' = TRUE
          /\ UNCHANGED <<files, file, currSize, turning>>
       \/ /\ file = "nil"
          /\ UNCHANGED <<files, file, currSize, turning, spoilt>>
    /\ UNCHANGED restarts

Moved(from, to) ==
    [files EXCEPT ![to] = files[from], ![from] = <<>>]

\* Renames fail for a file that is not there, which leaves everything as it is.
Renamed(from, to) == IF files[from] = <<>> THEN files ELSE Moved(from, to)

\* Mutation of Turn: the log is moved before its backups.
TurnEarly ==
    /\ turning \in 0..Backups
    /\ \/ /\ files' = IF turning = Backups /\ Backups > 0 THEN Renamed(0, 1)
                      ELSE IF turning > 0 THEN Renamed(turning, turning + 1) ELSE files
          /\ UNCHANGED spoilt
       \/ /\ spoilt' = TRUE
          /\ UNCHANGED files
    /\ turning' = IF turning = 0 THEN Still + 1 ELSE turning - 1
    /\ UNCHANGED <<file, currSize, lines, restarts>>

\* rotate: the oldest backup goes, the others move up, the log becomes the first; with
\* no backups it is removed.  Errors are ignored.
Turn ==
    /\ turning \in 0..Backups
    /\ \/ /\ files' = IF turning = Backups THEN [files EXCEPT ![turning] = <<>>]
                      ELSE IF turning > 0 THEN Renamed(turning, turning + 1)
                      ELSE Renamed(0, 1)
          /\ UNCHANGED spoilt
       \/ /\ spoilt' = TRUE
          /\ UNCHANGED files
    /\ turning' = IF turning = 0 THEN Still + 1 ELSE turning - 1
    /\ UNCHANGED <<file, currSize, lines, restarts>>

\* openAndSetSize at the end of a rotation.  If it fails the writer stays without a file.
Reopen ==
    /\ turning = Still + 1
    /\ turning' = Still
    /\ \/ /\ file' = "open"
          /\ currSize' = Len(files[0])
          /\ UNCHANGED spoilt
       \/ /\ spoilt' = TRUE
          /\ UNCHANGED <<file, currSize>>
    /\ UNCHANGED <<files, lines, restarts>>

\* The process ends, perhaps amid a rotation, and NewRotateWriter opens what is there.
Restart ==
    /\ restarts < MaxRestarts
    /\ restarts' = restarts + 1
    /\ turning' = Still
    /\ \/ /\ file' = "open"
          /\ currSize' = Len(files[0])
          /\ UNCHANGED spoilt
       \/ /\ file' = "nil"
          /\ currSize' = 0
          /\ spoilt' = TRUE
    /\ UNCHANGED <<files, lines>>

LogNext == Write \/ Turn \/ Reopen \/ Restart

LogSpec == InitLog /\ [][LogNext]_logVars

-----------------------------------------------------------------------------
(***************************************************************************)
(* Properties                                                              *)
(***************************************************************************)
\* The variables have their types.
LogTypeOK ==
    /\ \A i \in Places : files[i] \in Seq(1..MaxLines)
    /\ file \in {"open", "nil"} /\ currSize \in 0..MaxLines
    /\ turning \in 0..(Still + 1) /\ lines \in 0..MaxLines

\* The backups from the oldest on, then the log.
KeptFrom[i \in Places] == IF i = 0 THEN files[0] ELSE files[i] \o KeptFrom[i - 1]
Kept == KeptFrom[Backups]

Consecutive(list) == \A i \in 1..(Len(list) - 1) : list[i + 1] = list[i] + 1

\* What is on disk are the last lines, in order and without a gap, also amid a rotation
\* and after a restart at any point of one, while no call of the system fails.
LogIsRecent ==
    ~spoilt => Consecutive(Kept) /\ (Kept # <<>> => Kept[Len(Kept)] = lines)

\* And after each rotation there are as many as there is room for.
LogIsFull ==
    ~spoilt /\ restarts = 0 /\ turning = Still =>
        Len(Kept) >= IF lines <= MaxSize * Backups THEN lines ELSE MaxSize * Backups

\* The two together.
LogKept == LogIsRecent /\ LogIsFull

-----------------------------------------------------------------------------
(***************************************************************************)
(* What always holds: every file has the lines between two of the numbers  *)
(* at which the log was cut.  A rotation moves one cut after the other up. *)
(***************************************************************************)
Run(after, last) == [k \in 1..(last - after) |-> after + k]

LogShapes ==
    /\ files \in [Places -> Seq(Nat)]
    /\ file \in {"open", "nil"} /\ currSize \in Nat
    /\ turning \in 0..(Still + 1) /\ lines \in Nat /\ restarts \in Nat

\* Place i has what lies between two cuts; the rotation has made the next place free.
CutInFiles(cuts) ==
    /\ cuts[0] = lines
    /\ \A i \in Places : cuts[i + 1] <= cuts[i] /\ files[i] = Run(cuts[i + 1], cuts[i])
    /\ turning < Backups => cuts[turning + 2] = cuts[turning + 1]
    /\ turning = Still => file = "open"

\* A file that is rotated is full, so what lies before a cut is nothing, or there are as many full
\* files behind it.  The places beyond the one to turn have their new cuts.
Full(cuts) ==
    /\ turning = Still => currSize + cuts[1] = lines
    /\ turning = Still + 1 => cuts[1] = lines
    /\ turning <= Backups => cuts[1] + MaxSize <= lines
    /\ \A i \in 1..Still :
          cuts[i] = 0 \/ cuts[i] + MaxSize * (i - 1) <= IF i <= turning + 1 THEN cuts[1] ELSE lines

LogInv ==
    /\ LogShapes
    /\ spoilt \/ \E cuts \in [0..Still -> 0..lines] : CutInFiles(cuts) /\ (restarts > 0 \/ Full(cuts))
=============================================================================
