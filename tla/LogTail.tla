------------------------------- MODULE LogTail -------------------------------
(***************************************************************************)
(* The log tailer (ingest/logtailer.go) against a writer and logrotate: the *)
(* writer appends lines in pieces, the log is renamed and recreated or      *)
(* truncated in place at any moment, and the events channel may be full.    *)
(* A file is a sequence of pieces <<line, k>>; piece LineLen ends its line. *)
(***************************************************************************)
EXTENDS Naturals, Sequences, SequencesExt

CONSTANTS
    MaxLines,      \* bound: lines the writer writes
    LineLen,       \* pieces in a line
    MaxPartial,    \* maxLogLineLen, in pieces
    Rotations,     \* how logrotate works here: subset of {"rename", "truncate"}
    MaxRotations,  \* bound: rotations
    QueueCap,      \* capacity of the events channel
    MaxTaken       \* bound: events the detection pipeline takes

ASSUME LogTailAssumption ==
    /\ MaxLines \in Nat \ {0} /\ LineLen \in Nat \ {0} /\ MaxPartial \in Nat
    /\ Rotations \subseteq {"rename", "truncate"} /\ MaxRotations \in Nat
    /\ QueueCap \in Nat /\ MaxTaken \in Nat

VARIABLES
    files,    \* every file the log ever was (inode -> contents)
    path,     \* the inode at lt.path, 0 while there is none
    wfile,    \* the inode the writer has open, 0 before it opens one
    nextP,    \* the next piece the writer writes
    rots,     \* rotations so far (bound only)
    cut,      \* history: the log was truncated in place
    pc, done, \* the tailer's control point; lt.done is closed
    warned,   \* open: the file was missing at least once
    f, pos,   \* the open file and its offset
    buf,      \* read into the bufio.Reader, not returned yet
    partial,  \* the unfinished line kept across reads
    line,     \* the line in hand
    queued,   \* events waiting in the channel
    taken,    \* events taken from it (bound only)
    handled,  \* history: the lines given to handleLine
    skipTo    \* history: the last piece in the file when the tailer opened it

logVars == <<files, path, wfile, nextP, rots, cut>>
tailVars == <<pc, warned, f, pos, buf, partial, line, handled, skipTo>>
vars == <<logVars, tailVars, done, queued, taken>>

Pieces == (1..MaxLines) \X (1..LineLen)
EndsLine(p) == p[2] = LineLen
Whole(n) == [k \in 1..LineLen |-> <<n, k>>]
Before(p, q) == p[1] < q[1] \/ (p[1] = q[1] /\ p[2] <= q[2])
NoPiece == <<0, LineLen>>
Content(i) == files[i]
Current == IF path = 0 THEN <<>> ELSE Content(path)

----------------------------------------------------------------------------
(* The environment: the SIP server's log and logrotate.                     *)

(* The writer reopens its log between lines (after a HUP).                  *)
WriterOpen ==
    /\ path # 0 /\ wfile # path /\ nextP[2] = 1
    /\ wfile' = path
    /\ UNCHANGED <<files, path, nextP, rots, cut, tailVars, done, queued, taken>>

Write ==
    /\ wfile # 0 /\ nextP \in Pieces
    /\ files' = [files EXCEPT ![wfile] = Append(@, nextP)]
    /\ nextP' = IF EndsLine(nextP) THEN <<nextP[1] + 1, 1>> ELSE <<nextP[1], nextP[2] + 1>>
    /\ UNCHANGED <<path, wfile, rots, cut, tailVars, done, queued, taken>>

RenameAway ==
    /\ "rename" \in Rotations /\ rots < MaxRotations /\ path # 0
    /\ path' = 0 /\ rots' = rots + 1
    /\ UNCHANGED <<files, wfile, nextP, cut, tailVars, done, queued, taken>>

CreateLog ==
    /\ path = 0
    /\ files' = Append(files, <<>>) /\ path' = Len(files')
    /\ UNCHANGED <<wfile, nextP, rots, cut, tailVars, done, queued, taken>>

(* copytruncate: the writer appends, so it goes on at offset 0.             *)
Truncate ==
    /\ "truncate" \in Rotations /\ rots < MaxRotations /\ path # 0
    /\ files' = [files EXCEPT ![path] = <<>>] /\ rots' = rots + 1 /\ cut' = TRUE
    /\ UNCHANGED <<path, wfile, nextP, tailVars, done, queued, taken>>

(* The detection pipeline takes an event.                                   *)
Take ==
    /\ queued > 0 /\ taken < MaxTaken
    /\ queued' = queued - 1 /\ taken' = taken + 1
    /\ UNCHANGED <<logVars, tailVars, done>>

Stop ==
    /\ ~done /\ done' = TRUE
    /\ UNCHANGED <<logVars, tailVars, queued, taken>>

----------------------------------------------------------------------------
(* The tailer.                                                              *)

(* open: a file present at startup is read from its end, one that had to be *)
(* waited for from its beginning.                                           *)
Open ==
    /\ pc = "open"
    /\ \/ /\ path # 0
          /\ f' = path
          /\ pos' = IF warned THEN 0 ELSE Len(Current)
          /\ skipTo' = IF warned \/ Current = <<>> THEN NoPiece ELSE Last(Current)
          /\ pc' = "top"
          /\ UNCHANGED warned
       \/ /\ path = 0 /\ ~warned
          /\ warned' = TRUE
          /\ UNCHANGED <<pc, f, pos, skipTo>>
       \/ /\ path = 0 /\ done
          /\ pc' = "stopped"
          /\ UNCHANGED <<warned, f, pos, skipTo>>
    /\ UNCHANGED <<logVars, done, queued, taken, buf, partial, line, handled>>

(* The loop head polls done.                                                *)
LoopHead ==
    /\ pc = "top"
    /\ pc' = IF done THEN "stopped" ELSE "read"
    /\ UNCHANGED <<logVars, done, queued, taken, warned, f, pos, buf, partial, line, handled, skipTo>>

Newline(s) == {k \in DOMAIN s : EndsLine(s[k])}
Unread == SubSeq(Content(f), pos + 1, Len(Content(f)))

(* ReadString finds a newline in the buffer: the line is complete.          *)
ReadLine ==
    /\ pc = "read" /\ Newline(buf) # {}
    /\ LET k == CHOOSE k \in Newline(buf) : \A j \in Newline(buf) : k <= j
       IN  /\ line' = partial \o SubSeq(buf, 1, k)
           /\ buf' = SubSeq(buf, k + 1, Len(buf))
    /\ partial' = <<>>
    /\ pc' = "line"
    /\ UNCHANGED <<logVars, done, queued, taken, warned, f, pos, handled, skipTo>>

(* It does not, so the buffer is filled with some of what is there.         *)
Fill ==
    /\ pc = "read" /\ Newline(buf) = {} /\ Unread # <<>>
    /\ \E n \in 1..Len(Unread) :
         /\ buf' = buf \o SubSeq(Unread, 1, n)
         /\ pos' = pos + n
    /\ UNCHANGED <<logVars, done, queued, taken, pc, warned, f, partial, line, handled, skipTo>>

(* Mutant: the unfinished line is thrown away.                              *)
ReadEOF_Drop ==
    /\ pc = "read" /\ Newline(buf) = {}
    /\ partial' = <<>> /\ buf' = <<>>
    /\ pc' \in {"check", "wait"}
    /\ UNCHANGED <<logVars, done, queued, taken, warned, f, pos, line, handled, skipTo>>

(* End of file, or a read that fails before it: keep the unfinished line    *)
(* unless it is too long, then look for a rotation if the last look is      *)
(* rotateCheck ago.                                                         *)
ReadEOF ==
    /\ pc = "read" /\ Newline(buf) = {}
    /\ partial' = IF Len(partial) + Len(buf) <= MaxPartial THEN partial \o buf ELSE <<>>
    /\ buf' = <<>>
    /\ pc' \in {"check", "wait"}
    /\ UNCHANGED <<logVars, done, queued, taken, warned, f, pos, line, handled, skipTo>>

(* checkRotation: compare what is open with what the path names; a missing  *)
(* path or an unchanged file means go on, a shorter file a rewind.          *)
CheckRotation ==
    /\ pc = "check"
    /\ IF path # 0 /\ path = f /\ Len(Current) < pos
       THEN /\ pos' = 0 /\ partial' = <<>>
            /\ pc' = "top"
       ELSE /\ pc' = IF path \notin {0, f} THEN "reopen" ELSE "wait"
            /\ UNCHANGED <<pos, partial>>
    /\ UNCHANGED <<logVars, done, queued, taken, warned, f, buf, line, handled, skipTo>>

(* Mutant: the old descriptor's offset is kept.                             *)
Reopen_KeepOffset ==
    /\ pc = "reopen" /\ path # 0
    /\ f' = path /\ partial' = <<>>
    /\ pc' = "top"
    /\ UNCHANGED <<logVars, done, queued, taken, warned, pos, buf, line, handled, skipTo>>

(* Open the path again; if it is gone by now the old file is kept.          *)
Reopen ==
    /\ pc = "reopen"
    /\ IF path # 0
       THEN f' = path /\ pos' = 0 /\ partial' = <<>> /\ pc' = "top"
       ELSE pc' = "wait" /\ UNCHANGED <<f, pos, partial>>
    /\ UNCHANGED <<logVars, done, queued, taken, warned, buf, line, handled, skipTo>>

(* At the end of the file: sleep for pollInterval, or until Stop.           *)
Wait ==
    /\ pc = "wait"
    /\ \/ pc' = "top"
       \/ done /\ pc' = "stopped"
    /\ UNCHANGED <<logVars, done, queued, taken, warned, f, pos, buf, partial, line, handled, skipTo>>

(* parseLine: some parser matches the line, which makes it an event, or none*)
(* does.                                                                    *)
ParseLine == {"send", "top"}

(* handleLine: a line no parser matches is only counted.                    *)
HandleLine ==
    /\ pc = "line"
    /\ handled' = Append(handled, line)
    /\ line' = <<>>
    /\ pc' \in ParseLine
    /\ UNCHANGED <<logVars, done, queued, taken, warned, f, pos, buf, partial, skipTo>>

(* Mutant: a plain send that does not listen to done.                       *)
Send_Blocking ==
    /\ pc = "send" /\ queued < QueueCap
    /\ queued' = queued + 1 /\ pc' = "top"
    /\ UNCHANGED <<logVars, done, taken, warned, f, pos, buf, partial, line, handled, skipTo>>

(* Mutant: the channel is never full.                                       *)
Send_Unbounded ==
    /\ pc = "send" /\ pc' = "top"
    /\ queued' = queued + 1
    /\ UNCHANGED <<logVars, done, taken, warned, f, pos, buf, partial, line, handled, skipTo>>

(* The event is sent, or given up when done is closed.                      *)
Send ==
    /\ pc = "send" /\ pc' = "top"
    /\ \/ queued < QueueCap /\ queued' = queued + 1
       \/ done /\ UNCHANGED queued
    /\ UNCHANGED <<logVars, done, taken, warned, f, pos, buf, partial, line, handled, skipTo>>

----------------------------------------------------------------------------
(* At startup the log may be missing, or hold lines and even half a line.   *)
Init ==
    /\ \/ files = <<>> /\ path = 0 /\ nextP = <<1, 1>>
       \/ \E k \in 0..LineLen :
            /\ files = <<SubSeq(Whole(1), 1, k)>> /\ path = 1
            /\ nextP = IF k = LineLen THEN <<2, 1>> ELSE <<1, k + 1>>
    /\ wfile = path /\ rots = 0 /\ cut = FALSE
    /\ pc = "open" /\ done = FALSE /\ warned = FALSE /\ f = 0 /\ pos = 0
    /\ buf = <<>> /\ partial = <<>> /\ line = <<>>
    /\ queued = 0 /\ taken = 0 /\ handled = <<>> /\ skipTo = NoPiece

TailStep ==
    \/ Open \/ LoopHead \/ ReadLine \/ Fill \/ ReadEOF \/ CheckRotation \/ Reopen \/ Wait
    \/ HandleLine \/ Send
Next ==
    \/ TailStep
    \/ WriterOpen \/ Write \/ RenameAway \/ CreateLog \/ Truncate \/ Take \/ Stop

Spec == Init /\ [][Next]_vars

(* The tailer is scheduled, a file that can be read is not found failing    *)
(* for ever, the one-second timer makes an end of file look for a rotation  *)
(* again and again, and a renamed log is recreated.  Nothing is assumed of  *)
(* the writer or of the pipeline behind the channel.                        *)
FairTail == WF_vars(TailStep) /\ SF_vars(Fill) /\ SF_vars(ReadEOF /\ pc' = "check")
FairSpec == Spec /\ FairTail /\ WF_vars(CreateLog)

----------------------------------------------------------------------------
(* Types of the log, the tailer and its history.                            *)
TypeOK ==
    /\ files \in Seq(Seq(Pieces)) /\ path \in 0..Len(files) /\ wfile \in 0..Len(files)
    /\ pc \in {"open", "top", "read", "check", "reopen", "wait", "line", "send", "stopped"}
    /\ f \in 0..Len(files) /\ pos \in Nat
    /\ {buf, partial, line} \subseteq Seq(Pieces) /\ handled \in Seq(Seq(Pieces))
    /\ queued \in 0..QueueCap /\ cut \in BOOLEAN /\ skipTo \in Pieces \cup {NoPiece}

(* Every line handed on is one whole line of the log, none twice and none   *)
(* out of order, whatever pieces the writer wrote it in and across rename   *)
(* rotations.  Only the line that was being written when the daemon started *)
(* may lack its beginning.  A truncation in place can cut a line.           *)
IsLine(l) == \/ \E n \in 1..MaxLines : l = Whole(n)
             \/ /\ l # <<>> /\ l[1][1] = skipTo[1] /\ ~Before(l[1], skipTo)
                /\ l = SubSeq(Whole(skipTo[1]), l[1][2], LineLen)
WholeLinesInOrder ==
    ~cut =>
        \A k \in DOMAIN handled :
            /\ IsLine(handled[k])
            /\ k > 1 => handled[k - 1][1][1] < handled[k][1][1]

(* A complete line in the file at the path that the tailer did not skip at  *)
(* startup is handled as long as the channel has room again and again,      *)
(* unless the path moves on, the log is cut or the daemon stops.            *)
LineAt(n) == Range(Whole(n)) \subseteq Range(Current)
Wanted(n) == pc # "open" /\ n > skipTo[1] /\ LineAt(n)
LinesAreFollowed ==
    []<>(queued < QueueCap) =>
        \A n \in 1..MaxLines :
            Wanted(n) ~> (Whole(n) \in Range(handled) \/ ~LineAt(n) \/ cut \/ done)

(* Stop ends the tailer, also while it is blocked on a full channel whose   *)
(* reader is gone or while the file is missing.                             *)
StopEnds == done ~> (pc = "stopped")
=============================================================================
