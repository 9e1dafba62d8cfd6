---------------------------- MODULE LogTailProofs ----------------------------
(***************************************************************************)
(* The log tailer hands on whole lines in order, for every number and       *)
(* length of lines and every number of rotations.  What the tailer holds of *)
(* an unfinished line, partial and the buffer, is the stretch of its file   *)
(* that ends at the offset and begins where a line began (Aligned); files   *)
(* are runs of consecutive pieces, later files hold later lines (LogOK);    *)
(* and every line given to handleLine is behind all that is still to be     *)
(* read (Behind).                                                           *)
(***************************************************************************)
EXTENDS LogTail, SequenceTheorems, WellFoundedInduction, TLAPS

(* A log line fits into what the tailer keeps of an unfinished line.        *)
Fits == LineLen <= MaxPartial + 1

After(p) == IF EndsLine(p) THEN <<p[1] + 1, 1>> ELSE <<p[1], p[2] + 1>>

(* A stretch of the log: consecutive pieces, from the beginning of a line.  *)
Orderly(c) ==
    /\ \A j, k \in DOMAIN c :
         j < k => \/ c[k][1] = c[j][1] /\ c[k][2] = c[j][2] + (k - j)
                  \/ c[j][1] < c[k][1] /\ \E m \in j..(k - 1) : EndsLine(c[m])
    /\ \A k \in DOMAIN c : (k = 1 \/ EndsLine(c[k - 1])) => c[k][2] = 1

GoesOn(c, p) == IF c = <<>> THEN p[2] = 1 ELSE p = After(c[Len(c)])

Control ==
    /\ path \in {0, Len(files)}
    /\ nextP \in (Nat \ {0}) \X (1..LineLen)
    /\ f = 0 => pc \in {"open", "stopped"} /\ handled = <<>> /\ partial = <<>> /\ buf = <<>>
    /\ pc = "open" => f = 0
    /\ pc \in {"check", "reopen"} => buf = <<>>
    /\ pc = "reopen" => f < Len(files)

LogOK ==
    /\ \A i \in DOMAIN files : Orderly(files[i])
    /\ wfile # 0 => GoesOn(files[wfile], nextP)
    /\ \A i \in DOMAIN files : i > wfile => files[i] = <<>>
    /\ \A i \in DOMAIN files : i < wfile => \A k \in DOMAIN files[i] : files[i][k][1] < nextP[1]
    /\ \A i, j \in DOMAIN files :
         i < j => \A k \in DOMAIN files[i], m \in DOMAIN files[j] : files[i][k][1] < files[j][m][1]

(* Where the unfinished line the tailer holds begins.                       *)
Begin == pos - Len(partial \o buf)

Aligned ==
    /\ pos <= Len(files[f]) /\ Begin \in Nat
    /\ \A k \in DOMAIN (partial \o buf) : (partial \o buf)[k] = files[f][Begin + k]
    /\ Begin = 0 \/ EndsLine(files[f][Begin]) \/ files[f][Begin] = skipTo
    /\ \A k \in DOMAIN partial : ~EndsLine(partial[k])

(* The lines handed on, the one on its way to handleLine included.          *)
Given == IF pc = "line" THEN Append(handled, line) ELSE handled

InOrder ==
    \A k \in DOMAIN Given : /\ IsLine(Given[k])
                            /\ k > 1 => Given[k - 1][1][1] < Given[k][1][1]

Behind ==
    \A k \in DOMAIN Given :
        /\ Given[k][1][1] < nextP[1]
        /\ \A i \in DOMAIN files : \A m \in DOMAIN files[i] :
             (i > f \/ (i = f /\ m > Begin)) => Given[k][1][1] < files[i][m][1]

Types == TypeOK /\ Control
Reads == ~cut => LogOK /\ (f # 0 => Aligned) /\ InOrder /\ Behind

----------------------------------------------------------------------------
(* Types and control, step by step.                                         *)

LEMMA Least ==
    ASSUME NEW T \in SUBSET Nat, T # {}
    PROVE  \E x \in T : \A y \in T : x <= y
<1> DEFINE R == OpToRel(<, Nat)
<1>1. IsWellFoundedOn(R, Nat)
  BY NatLessThanWellFounded
<1>2. PICK x \in T : \A y \in T : ~(<<y, x>> \in R)
  <2> HIDE DEF R
  <2>1. QED
    BY <1>1, WFMin
<1>3. \A y \in T : ~(y < x)
  BY <1>2 DEF OpToRel
<1>4. QED
  BY <1>3

LEMMA PieceType ==
    ASSUME NEW p \in Pieces
    PROVE  p[1] \in 1..MaxLines /\ p[2] \in 1..LineLen
BY DEF Pieces

LEMMA PairType ==
    ASSUME NEW p \in Pieces
    PROVE  p = <<p[1], p[2]>>
BY DEF Pieces

LEMMA WholeType ==
    ASSUME NEW n \in 1..MaxLines
    PROVE  /\ Whole(n) \in Seq(Pieces) /\ Len(Whole(n)) = LineLen
           /\ \A k \in 1..LineLen : Whole(n)[k] = <<n, k>>
<1>1. LineLen \in Nat /\ MaxLines \in Nat
  BY LogTailAssumption
<1>2. \A k \in 1..LineLen : <<n, k>> \in Pieces
  BY <1>1 DEF Pieces
<1>3. QED
  BY <1>1, <1>2 DEF Whole

LEMMA NewlineType ==
    ASSUME NEW s \in Seq(Pieces), Newline(s) # {}
    PROVE  LET k == CHOOSE k \in Newline(s) : \A j \in Newline(s) : k <= j
           IN  /\ k \in Newline(s) /\ k \in 1..Len(s)
               /\ \A j \in Newline(s) : k <= j
<1>1. Newline(s) \in SUBSET Nat /\ Newline(s) \subseteq 1..Len(s)
  BY DEF Newline
<1>2. \E k \in Newline(s) : \A j \in Newline(s) : k <= j
  BY <1>1, Least
<1>3. QED
  BY <1>1, <1>2

LEMMA InitTypes == Init => Types
<1> SUFFICES ASSUME Init PROVE Types
  OBVIOUS
<1>1. LineLen \in Nat \ {0} /\ MaxLines \in Nat \ {0}
  BY LogTailAssumption
<1>2. /\ files \in Seq(Seq(Pieces)) /\ path \in {0, Len(files)} /\ path \in 0..Len(files)
      /\ nextP \in (Nat \ {0}) \X (1..LineLen)
  <2>1. CASE files = <<>> /\ path = 0 /\ nextP = <<1, 1>>
    BY <1>1, <2>1
  <2>2. ASSUME NEW k \in 0..LineLen, files = <<SubSeq(Whole(1), 1, k)>>, path = 1,
               nextP = IF k = LineLen THEN <<2, 1>> ELSE <<1, k + 1>>
        PROVE  /\ files \in Seq(Seq(Pieces)) /\ path \in {0, Len(files)} /\ path \in 0..Len(files)
               /\ nextP \in (Nat \ {0}) \X (1..LineLen)
    <3>1. SubSeq(Whole(1), 1, k) \in Seq(Pieces)
      <4>1. Whole(1) \in Seq(Pieces) /\ Len(Whole(1)) = LineLen
        BY <1>1 DEF Whole, Pieces
      <4>2. QED
        BY <1>1, <4>1
    <3>2. QED
      BY <1>1, <2>2, <3>1
  <2>3. QED
    BY <2>1, <2>2 DEF Init
<1>3. /\ wfile = path /\ pc = "open" /\ f = 0 /\ pos = 0 /\ buf = <<>> /\ partial = <<>>
      /\ line = <<>> /\ handled = <<>> /\ queued = 0 /\ cut = FALSE /\ skipTo = NoPiece
  BY DEF Init
<1>4. queued \in 0..QueueCap /\ f \in 0..Len(files)
  BY <1>2, <1>3, LogTailAssumption
<1>5. TypeOK
  <2>1. buf \in Seq(Pieces) /\ partial \in Seq(Pieces) /\ line \in Seq(Pieces) /\ handled \in Seq(Seq(Pieces))
    BY <1>3
  <2>2. pos \in Nat /\ wfile \in 0..Len(files) /\ cut \in BOOLEAN /\ skipTo \in Pieces \cup {NoPiece}
    BY <1>2, <1>3
  <2>3. QED
    BY <1>2, <1>3, <1>4, <2>1, <2>2 DEF TypeOK
<1>6. Control
  BY <1>2, <1>3 DEF Control
<1>7. QED
  BY <1>5, <1>6 DEF Types

(* The writer, logrotate and the detection pipeline.                        *)
LEMMA EnvTypes ==
    ASSUME Types, WriterOpen \/ Write \/ RenameAway \/ CreateLog \/ Truncate \/ Take \/ Stop
    PROVE  Types'
<1>1. LineLen \in Nat \ {0} /\ MaxLines \in Nat \ {0} /\ QueueCap \in Nat
  BY LogTailAssumption
<1>2. TypeOK /\ Control
  BY DEF Types
<1>3. CASE WriterOpen
  BY <1>2, <1>3 DEF Types, TypeOK, Control, WriterOpen, tailVars
<1>4. CASE Write
  <2>1. wfile \in DOMAIN files /\ nextP \in Pieces /\ Append(files[wfile], nextP) \in Seq(Pieces)
    BY <1>2, <1>4 DEF TypeOK, Write
  <2>2. files' \in Seq(Seq(Pieces)) /\ Len(files') = Len(files)
    BY <1>2, <1>4, <2>1 DEF TypeOK, Write
  <2>3. nextP' \in (Nat \ {0}) \X (1..LineLen)
    BY <1>1, <1>4, <2>1 DEF Write, Pieces, EndsLine
  <2>4. TypeOK'
    BY <1>2, <1>4, <2>2 DEF TypeOK, Write, tailVars
  <2>5. Control'
    BY <1>2, <1>4, <2>2, <2>3 DEF Control, Write, tailVars
  <2>6. QED
    BY <2>4, <2>5 DEF Types
<1>5. CASE RenameAway
  BY <1>2, <1>5 DEF Types, TypeOK, Control, RenameAway, tailVars
<1>6. CASE CreateLog
  <2>1. files' \in Seq(Seq(Pieces)) /\ Len(files') = Len(files) + 1 /\ path' = Len(files')
    BY <1>2, <1>6 DEF TypeOK, CreateLog
  <2>2. UNCHANGED <<wfile, nextP, rots, cut, pc, warned, f, pos, buf, partial, line, handled, skipTo, queued>>
    BY <1>6 DEF CreateLog, tailVars
  <2>3. Len(files) \in Nat
    BY <1>2 DEF TypeOK
  <2>4. TypeOK'
    BY <1>2, <2>1, <2>2, <2>3 DEF TypeOK
  <2>5. Control'
    BY <1>2, <2>1, <2>2, <2>3 DEF TypeOK, Control
  <2>6. QED
    BY <2>4, <2>5 DEF Types
<1>7. CASE Truncate
  <2>1. files' \in Seq(Seq(Pieces)) /\ Len(files') = Len(files)
    BY <1>2, <1>7 DEF TypeOK, Truncate
  <2>2. TypeOK'
    BY <1>2, <1>7, <2>1 DEF TypeOK, Truncate, tailVars
  <2>3. Control'
    BY <1>2, <1>7, <2>1 DEF Control, Truncate, tailVars
  <2>4. QED
    BY <2>2, <2>3 DEF Types
<1>8. CASE Take
  BY <1>1, <1>2, <1>8 DEF Types, TypeOK, Control, Take, logVars, tailVars
<1>9. CASE Stop
  BY <1>2, <1>9 DEF Types, TypeOK, Control, Stop, logVars, tailVars
<1>10. QED
  BY <1>3, <1>4, <1>5, <1>6, <1>7, <1>8, <1>9

LEMMA ReadTypes ==
    ASSUME Types, ReadLine \/ Fill \/ ReadEOF
    PROVE  Types'
<1>1. TypeOK /\ Control
  BY DEF Types
<1>2. UNCHANGED <<files, path, wfile, nextP, cut, queued, f, handled, skipTo>> /\ pc = "read" /\ f # 0
  BY <1>1 DEF ReadLine, Fill, ReadEOF, logVars, Control
<1>3. buf \in Seq(Pieces) /\ partial \in Seq(Pieces) /\ line \in Seq(Pieces) /\ f \in DOMAIN files /\ pos \in Nat
  BY <1>1, <1>2 DEF TypeOK
<1>4. files[f] \in Seq(Pieces) /\ Unread \in Seq(Pieces)
  BY <1>1, <1>3 DEF TypeOK, Unread, Content
<1>5. CASE ReadLine
  <2> DEFINE k == CHOOSE k \in Newline(buf) : \A j \in Newline(buf) : k <= j
  <2>1. k \in 1..Len(buf)
    BY <1>3, <1>5, NewlineType DEF ReadLine
  <2>2. line' = partial \o SubSeq(buf, 1, k) /\ buf' = SubSeq(buf, k + 1, Len(buf)) /\ partial' = <<>>
        /\ pc' = "line" /\ pos' = pos
    BY <1>5 DEF ReadLine
  <2> HIDE DEF k
  <2>3. line' \in Seq(Pieces) /\ buf' \in Seq(Pieces) /\ partial' \in Seq(Pieces)
    BY <1>3, <2>1, <2>2
  <2>4. TypeOK'
    BY <1>1, <1>2, <2>2, <2>3 DEF TypeOK
  <2>5. Control'
    BY <1>1, <1>2, <2>2 DEF Control
  <2>6. QED
    BY <2>4, <2>5 DEF Types
<1>6. CASE Fill
  <2>1. PICK n \in 1..Len(Unread) : buf' = buf \o SubSeq(Unread, 1, n) /\ pos' = pos + n
    BY <1>6 DEF Fill
  <2>2. buf' \in Seq(Pieces) /\ pos' \in Nat
    BY <1>3, <1>4, <2>1
  <2>3. UNCHANGED <<pc, partial, line>>
    BY <1>6 DEF Fill
  <2>4. TypeOK'
    BY <1>1, <1>2, <2>2, <2>3 DEF TypeOK
  <2>5. Control'
    BY <1>1, <1>2, <2>3 DEF Control
  <2>6. QED
    BY <2>4, <2>5 DEF Types
<1>7. CASE ReadEOF
  <2>1. partial' \in Seq(Pieces) /\ buf' = <<>> /\ UNCHANGED <<pos, line>> /\ pc' \in {"check", "wait"}
    BY <1>3, <1>7 DEF ReadEOF
  <2>2. TypeOK'
    BY <1>1, <1>2, <2>1 DEF TypeOK
  <2>3. Control'
    BY <1>1, <1>2, <2>1 DEF Control
  <2>4. QED
    BY <2>2, <2>3 DEF Types
<1>8. QED
  BY <1>5, <1>6, <1>7

LEMMA OtherTypes ==
    ASSUME Types, Open \/ LoopHead \/ CheckRotation \/ Reopen \/ Wait \/ HandleLine \/ Send
    PROVE  Types'
<1>1. TypeOK /\ Control
  BY DEF Types
<1>2. UNCHANGED <<files, path, wfile, nextP, cut>>
  BY DEF Open, LoopHead, CheckRotation, Reopen, Wait, HandleLine, Send, logVars
<1>3. CASE Open
  <2>1. /\ UNCHANGED <<queued, buf, partial, line, handled>> /\ pc = "open" /\ pc' \in {"open", "top", "stopped"}
        /\ f' \in {f, path}
    BY <1>3 DEF Open
  <2>2. pos' \in Nat /\ skipTo' \in Pieces \cup {NoPiece}
    <3>1. CASE path = 0
      BY <1>1, <1>3, <3>1 DEF Open, TypeOK
    <3>2. CASE path # 0
      <4>1. Current \in Seq(Pieces) /\ path \in DOMAIN files
        BY <1>1, <3>2 DEF TypeOK, Current, Content
      <4>2. Len(Current) \in Nat /\ (Current # <<>> => Last(Current) \in Pieces)
        BY <4>1 DEF Last
      <4>3. QED
        BY <1>3, <3>2, <4>2 DEF Open
    <3>3. QED
      BY <3>1, <3>2
  <2>3. TypeOK'
    BY <1>1, <1>2, <2>1, <2>2 DEF TypeOK
  <2>4. f = 0 /\ handled = <<>> /\ partial = <<>> /\ buf = <<>> /\ (pc' = "open" => f' = f)
        /\ (f' = 0 => pc' \in {"open", "stopped"})
    BY <1>1, <1>3, <2>1 DEF Control, Open
  <2>5. Control'
    BY <1>1, <1>2, <2>1, <2>4 DEF Control
  <2>6. QED
    BY <2>3, <2>5 DEF Types
<1>4. CASE LoopHead
  BY <1>1, <1>2, <1>4 DEF Types, TypeOK, Control, LoopHead
<1>5. CASE CheckRotation
  <2>1. /\ UNCHANGED <<queued, buf, line, handled, f, skipTo>> /\ pc = "check" /\ pc' \in {"top", "reopen", "wait"}
        /\ (pos' = 0 \/ pos' = pos) /\ (partial' = <<>> \/ partial' = partial)
        /\ (pc' = "reopen" => path \notin {0, f})
    BY <1>5, Zenon DEF CheckRotation
  <2>2. TypeOK'
    <3>1. pos' \in Nat /\ partial' \in Seq(Pieces)
      <4>1. pos \in Nat /\ partial \in Seq(Pieces)
        BY <1>1 DEF TypeOK
      <4>2. <<>> \in Seq(Pieces) /\ 0 \in Nat
        OBVIOUS
      <4>3. QED
        BY <2>1, <4>1, <4>2, Zenon
    <3>2. QED
      BY <1>1, <1>2, <2>1, <3>1 DEF TypeOK
  <2>3. f # 0 /\ buf = <<>> /\ (pc' = "reopen" => f < Len(files))
    BY <1>1, <2>1 DEF Control, TypeOK
  <2>4. Control'
    BY <1>1, <1>2, <2>1, <2>3 DEF Control
  <2>5. QED
    BY <2>2, <2>4 DEF Types
<1>6. CASE Reopen
  <2>1. /\ UNCHANGED <<queued, buf, line, handled, skipTo>> /\ pc = "reopen" /\ pc' \in {"top", "wait"}
        /\ (pos' = 0 \/ pos' = pos) /\ (partial' = <<>> \/ partial' = partial)
        /\ (f' = f \/ (f' = path /\ path # 0))
    BY <1>6, Zenon DEF Reopen
  <2>2. TypeOK'
    <3>1. pos' \in Nat /\ partial' \in Seq(Pieces) /\ f' \in 0..Len(files)
      <4>1. pos \in Nat /\ partial \in Seq(Pieces) /\ f \in 0..Len(files) /\ path \in 0..Len(files)
        BY <1>1 DEF TypeOK
      <4>2. <<>> \in Seq(Pieces) /\ 0 \in Nat
        OBVIOUS
      <4>3. QED
        BY <2>1, <4>1, <4>2, Zenon
    <3>2. QED
      BY <1>1, <1>2, <2>1, <3>1 DEF TypeOK
  <2>3. Control'
    BY <1>1, <1>2, <2>1 DEF Control
  <2>4. QED
    BY <2>2, <2>3 DEF Types
<1>7. CASE Wait
  BY <1>1, <1>2, <1>7 DEF Types, TypeOK, Control, Wait
<1>8. CASE HandleLine
  <2>1. pc = "line" /\ line \in Seq(Pieces) /\ pc' \in {"send", "top"}
    BY <1>1, <1>8 DEF HandleLine, TypeOK, ParseLine
  <2>2. handled' \in Seq(Seq(Pieces)) /\ line' = <<>>
    BY <1>1, <1>8, <2>1 DEF HandleLine, TypeOK
  <2>3. UNCHANGED <<queued, f, pos, buf, partial, skipTo>>
    BY <1>8 DEF HandleLine
  <2>4. TypeOK'
    BY <1>1, <1>2, <2>1, <2>2, <2>3 DEF TypeOK
  <2>5. Control'
    BY <1>1, <1>2, <2>1, <2>3 DEF Control
  <2>6. QED
    BY <2>4, <2>5 DEF Types
<1>9. CASE Send
  <2>1. queued' \in 0..QueueCap
    BY <1>1, <1>9, LogTailAssumption DEF Send, TypeOK
  <2>2. QED
    BY <1>1, <1>2, <1>9, <2>1 DEF Types, TypeOK, Control, Send
<1>10. QED
  BY <1>3, <1>4, <1>5, <1>6, <1>7, <1>8, <1>9

LEMMA NextTypes == Types /\ [Next]_vars => Types'
<1> SUFFICES ASSUME Types, [Next]_vars PROVE Types'
  OBVIOUS
<1>1. CASE UNCHANGED vars
  BY <1>1 DEF Types, TypeOK, Control, vars, logVars, tailVars
<1>2. QED
  BY <1>1, EnvTypes, ReadTypes, OtherTypes DEF Next, TailStep

(* Types of the log, the tailer, the events channel and the history, and    *)
(* where the tailer may be with which file (Control), for Run, open,        *)
(* checkRotation and handleLine of logtailer.go under every rotation.       *)
THEOREM TypeCorrect == Spec => []TypeOK
<1>1. Types => TypeOK
  BY DEF Types
<1>2. Spec => []Types
  BY InitTypes, NextTypes, PTL DEF Spec
<1>3. QED
  BY <1>1, <1>2, PTL

----------------------------------------------------------------------------
(* Stretches of the log.                                                    *)

(* The next piece keeps a file a run of consecutive pieces.                 *)
LEMMA GrowsOrderly ==
    ASSUME NEW c \in Seq(Pieces), Orderly(c), NEW p \in Pieces, GoesOn(c, p)
    PROVE  Orderly(Append(c, p))
<1> DEFINE d == Append(c, p)
<1> DEFINE n == Len(c)
<1>1. n \in Nat /\ DOMAIN c = 1..n /\ DOMAIN d = 1..(n + 1) /\ d[n + 1] = p
      /\ (\A k \in 1..n : d[k] = c[k])
  OBVIOUS
<1>2. n > 0 => p = After(c[n]) /\ c[n][1] \in Nat /\ c[n][2] \in Nat
  <2>1. n > 0 => c # <<>> /\ c[n] \in Pieces
    OBVIOUS
  <2>2. QED
    BY <2>1, PieceType DEF GoesOn
<1>3. n = 0 => p[2] = 1
  <2>1. n = 0 => c = <<>>
    OBVIOUS
  <2>2. QED
    BY <2>1 DEF GoesOn
<1>4. n > 0 => IF EndsLine(c[n]) THEN p[1] = c[n][1] + 1 /\ p[2] = 1
               ELSE p[1] = c[n][1] /\ p[2] = c[n][2] + 1
  BY <1>2 DEF After
<1> HIDE DEF n, d
<1>5. ASSUME NEW j \in DOMAIN d, NEW k \in DOMAIN d, j < k
      PROVE  \/ d[k][1] = d[j][1] /\ d[k][2] = d[j][2] + (k - j)
             \/ d[j][1] < d[k][1] /\ \E m \in j..(k - 1) : EndsLine(d[m])
  <2>1. j \in 1..n
    BY <1>1, <1>5
  <2>2. CASE k \in 1..n
    <3>1. \/ c[k][1] = c[j][1] /\ c[k][2] = c[j][2] + (k - j)
          \/ c[j][1] < c[k][1] /\ \E m \in j..(k - 1) : EndsLine(c[m])
      BY <1>1, <1>5, <2>1, <2>2 DEF Orderly
    <3>2. \A m \in j..(k - 1) : d[m] = c[m]
      BY <1>1, <2>1, <2>2
    <3>3. QED
      BY <1>1, <2>1, <2>2, <3>1, <3>2
  <2>3. CASE k = n + 1
    <3>1. c[j][1] \in Nat /\ c[j][2] \in Nat /\ c[n][1] \in Nat /\ c[n][2] \in Nat
      BY <1>1, <2>1, PieceType
    <3>2. d[k] = p /\ d[j] = c[j] /\ d[n] = c[n]
      BY <1>1, <2>1, <2>3
    <3>3. CASE j = n
      <4>1. CASE EndsLine(c[n])
        BY <1>1, <1>4, <2>1, <2>3, <3>1, <3>2, <3>3, <4>1
      <4>2. CASE ~EndsLine(c[n])
        BY <1>1, <1>4, <2>1, <2>3, <3>1, <3>2, <3>3, <4>2
      <4>3. QED
        BY <4>1, <4>2
    <3>4. CASE j < n
      <4>1. \/ c[n][1] = c[j][1] /\ c[n][2] = c[j][2] + (n - j)
            \/ c[j][1] < c[n][1] /\ \E m \in j..(n - 1) : EndsLine(c[m])
        BY <1>1, <2>1, <3>4 DEF Orderly
      <4>2. CASE EndsLine(c[n])
        BY <1>1, <1>4, <2>1, <2>3, <3>1, <3>2, <4>1, <4>2
      <4>3. CASE ~EndsLine(c[n])
        <5>1. \A m \in j..(n - 1) : d[m] = c[m] /\ m \in j..(k - 1)
          BY <1>1, <2>1, <2>3
        <5>2. p[1] = c[n][1] /\ p[2] = c[n][2] + 1
          BY <1>1, <1>4, <2>1, <4>3
        <5>3. CASE c[n][1] = c[j][1] /\ c[n][2] = c[j][2] + (n - j)
          <6>1. p[1] = c[j][1] /\ p[2] = c[j][2] + (k - j)
            BY <1>1, <2>1, <2>3, <3>1, <5>2, <5>3
          <6>2. QED
            BY <3>2, <6>1
        <5>4. CASE c[j][1] < c[n][1] /\ \E m \in j..(n - 1) : EndsLine(c[m])
          <6>1. PICK m \in j..(n - 1) : EndsLine(c[m])
            BY <5>4
          <6>2. m \in j..(k - 1) /\ EndsLine(d[m])
            BY <5>1, <6>1
          <6>3. QED
            BY <3>2, <5>2, <5>4, <6>2
        <5>5. QED
          BY <4>1, <5>3, <5>4
      <4>4. QED
        BY <4>2, <4>3
    <3>5. QED
      BY <1>1, <2>1, <3>3, <3>4
  <2>4. QED
    BY <1>1, <2>2, <2>3
<1>6. ASSUME NEW k \in DOMAIN d, k = 1 \/ EndsLine(d[k - 1])
      PROVE  d[k][2] = 1
  <2>1. CASE k \in 1..n
    <3>1. k = 1 \/ EndsLine(c[k - 1])
      BY <1>1, <1>6, <2>1
    <3>2. QED
      BY <1>1, <2>1, <3>1 DEF Orderly
  <2>2. CASE k = n + 1
    <3>1. d[k] = p /\ (n > 0 => k # 1 /\ d[k - 1] = c[n])
      BY <1>1, <2>2
    <3>2. QED
      BY <1>1, <1>3, <1>4, <1>6, <2>2, <3>1
  <2>3. QED
    BY <1>1, <2>1, <2>2
<1>7. QED
  BY <1>5, <1>6 DEF Orderly, d

(* What follows the end of a line belongs to later lines.                   *)
LEMMA Past ==
    ASSUME NEW c \in Seq(Pieces), Orderly(c), NEW e \in DOMAIN c, NEW m \in DOMAIN c,
           EndsLine(c[e]), e < m
    PROVE  c[e][1] < c[m][1]
<1>1. c[e] \in Pieces /\ c[m] \in Pieces /\ e \in Nat /\ m \in Nat
  OBVIOUS
<1>2. c[m][2] \in 1..LineLen /\ c[e][2] = LineLen /\ LineLen \in Nat
  BY <1>1, PieceType, LogTailAssumption DEF EndsLine
<1>3. c[m][2] = c[e][2] + (m - e) \/ c[e][1] < c[m][1]
  BY DEF Orderly
<1>4. QED
  BY <1>1, <1>2, <1>3

(* A stretch with no line end in it but its last belongs to one line.       *)
LEMMA OneLine ==
    ASSUME NEW c \in Seq(Pieces), Orderly(c), NEW s \in Nat, NEW e \in DOMAIN c, s < e,
           \A k \in (s + 1)..(e - 1) : ~EndsLine(c[k])
    PROVE  \A k \in (s + 1)..e : c[k][1] = c[s + 1][1] /\ c[k][2] = c[s + 1][2] + (k - s - 1)
<1>1. e \in Nat /\ s + 1 \in DOMAIN c /\ (\A k \in (s + 1)..e : k \in DOMAIN c)
  OBVIOUS
<1>2. c[s + 1][1] \in Nat /\ c[s + 1][2] \in Nat
  BY <1>1, PieceType
<1> TAKE k \in (s + 1)..e
<1>3. CASE k = s + 1
  BY <1>2, <1>3
<1>4. CASE k > s + 1
  <2>1. \/ c[k][1] = c[s + 1][1] /\ c[k][2] = c[s + 1][2] + (k - (s + 1))
        \/ \E m \in (s + 1)..(k - 1) : EndsLine(c[m])
    BY <1>1, <1>4 DEF Orderly
  <2>2. \A m \in (s + 1)..(k - 1) : m \in (s + 1)..(e - 1)
    BY <1>1
  <2>3. QED
    BY <1>1, <1>2, <2>1, <2>2
<1>5. QED
  BY <1>3, <1>4

(* An unfinished line is shorter than a line.                               *)
LEMMA Unfinished ==
    ASSUME NEW c \in Seq(Pieces), Orderly(c), NEW s \in Nat, NEW e \in Nat, s <= e, e <= Len(c),
           \A k \in (s + 1)..e : ~EndsLine(c[k])
    PROVE  e - s <= LineLen - 1
<1>1. LineLen \in Nat \ {0}
  BY LogTailAssumption
<1>2. CASE s = e
  BY <1>1, <1>2
<1>3. CASE s < e
  <2>1. e \in DOMAIN c /\ s + 1 \in DOMAIN c /\ e \in (s + 1)..e /\ (\A k \in (s + 1)..(e - 1) : k \in (s + 1)..e)
    BY <1>3
  <2>2. c[e][2] = c[s + 1][2] + (e - s - 1)
    BY <1>3, <2>1, OneLine
  <2>3. c[e][2] \in 1..LineLen /\ c[s + 1][2] \in 1..LineLen /\ c[e][2] # LineLen
    BY <2>1, PieceType DEF EndsLine
  <2>4. QED
    BY <1>1, <1>3, <2>2, <2>3
<1>4. QED
  BY <1>2, <1>3

(* A stretch that begins where a line begins, or where the tailer began, and*)
(* ends with the line is a line.                                            *)
LEMMA MakesLine ==
    ASSUME NEW c \in Seq(Pieces), Orderly(c), NEW s \in Nat, NEW e \in DOMAIN c, s < e, EndsLine(c[e]),
           \A k \in (s + 1)..(e - 1) : ~EndsLine(c[k]),
           s = 0 \/ EndsLine(c[s]) \/ c[s] = skipTo,
           NEW l \in Seq(Pieces), Len(l) = e - s, \A k \in 1..(e - s) : l[k] = c[s + k]
    PROVE  IsLine(l) /\ l[1][1] = c[e][1] /\ l[1][1] = c[s + 1][1]
<1>1. LineLen \in Nat \ {0} /\ MaxLines \in Nat /\ e \in Nat /\ s + 1 \in DOMAIN c
  BY LogTailAssumption
<1> DEFINE n == c[s + 1][1]
<1> DEFINE a == c[s + 1][2]
<1>2. n \in 1..MaxLines /\ a \in 1..LineLen /\ a \in Nat
  BY <1>1, PieceType
<1>3. \A k \in (s + 1)..e : c[k][1] = n /\ c[k][2] = a + (k - s - 1)
  BY OneLine
<1> HIDE DEF n, a
<1>4. c[e][1] = n /\ LineLen = a + (e - s - 1)
  <2>1. e \in (s + 1)..e
    BY <1>1
  <2>2. QED
    BY <1>3, <2>1 DEF EndsLine
<1>5. \A k \in 1..(e - s) : l[k] = <<n, a + (k - 1)>>
  <2> TAKE k \in 1..(e - s)
  <2>1. s + k \in (s + 1)..e /\ s + k \in DOMAIN c /\ l[k] = c[s + k]
    BY <1>1
  <2>2. c[s + k][1] = n /\ c[s + k][2] = a + ((s + k) - s - 1)
    BY <1>3, <2>1
  <2>3. c[s + k] = <<c[s + k][1], c[s + k][2]>>
    <3>1. c[s + k] \in Pieces
      BY <2>1
    <3>2. QED
      BY <3>1, PairType
  <2>4. a + ((s + k) - s - 1) = a + (k - 1)
    BY <1>2
  <2>5. QED
    BY <2>1, <2>2, <2>3, <2>4
<1>6. l[1] = <<n, a>> /\ l # <<>>
  <2>1. 1 \in 1..(e - s) /\ a + (1 - 1) = a
    BY <1>1, <1>2
  <2>2. l[1] = <<n, a>>
    BY <1>5, <2>1
  <2>3. Len(l) # 0
    BY <1>1
  <2>4. QED
    BY <2>2, <2>3
<1>7. l = SubSeq(Whole(n), a, LineLen)
  <2>1. Whole(n) \in Seq(Pieces) /\ Len(Whole(n)) = LineLen /\ (\A k \in 1..LineLen : Whole(n)[k] = <<n, k>>)
    BY <1>2, WholeType
  <2> DEFINE r == SubSeq(Whole(n), a, LineLen)
  <2>2. r \in Seq(Pieces) /\ Len(r) = LineLen - a + 1 /\ (\A k \in 1..(LineLen - a + 1) : r[k] = Whole(n)[a + k - 1])
    BY <1>1, <1>2, <2>1
  <2>3. LineLen - a + 1 = e - s
    BY <1>1, <1>2, <1>4
  <2>4. \A k \in 1..(e - s) : r[k] = <<n, a + (k - 1)>>
    <3> TAKE k \in 1..(e - s)
    <3>1. a + k - 1 \in 1..LineLen /\ a + k - 1 = a + (k - 1)
      BY <1>1, <1>2, <2>3
    <3>2. QED
      BY <2>1, <2>2, <2>3, <3>1
  <2> HIDE DEF r
  <2>5. l = r
    <3>1. Len(l) = Len(r) /\ \A k \in 1..Len(l) : l[k] = r[k]
      BY <1>5, <2>2, <2>3, <2>4
    <3>2. QED
      BY <2>2, <3>1, SeqEqual
  <2>6. QED
    BY <2>5 DEF r
<1>8. a = 1 => l = Whole(n)
  <2>1. Whole(n) \in Seq(Pieces) /\ Len(Whole(n)) = LineLen
    BY <1>2, WholeType
  <2>2. SubSeq(Whole(n), 1, LineLen) = Whole(n)
    BY <1>1, <2>1
  <2>3. QED
    BY <1>7, <2>2
<1>9. a = 1 \/ (n = skipTo[1] /\ a = skipTo[2] + 1)
  <2>1. CASE s = 0 \/ EndsLine(c[s])
    <3>1. s + 1 = 1 \/ EndsLine(c[(s + 1) - 1])
      BY <2>1
    <3>2. QED
      BY <1>1, <3>1 DEF Orderly, a
  <2>2. CASE s # 0 /\ ~EndsLine(c[s]) /\ c[s] = skipTo
    <3>1. s \in DOMAIN c /\ s < s + 1 /\ (\A m \in s..((s + 1) - 1) : m = s) /\ (s + 1) - s = 1
      <4>1. DOMAIN c = 1..Len(c) /\ Len(c) \in Nat
        OBVIOUS
      <4>2. QED
        BY <1>1, <2>2, <4>1
    <3>2. c[s + 1][1] = c[s][1] /\ c[s + 1][2] = c[s][2] + ((s + 1) - s)
      BY <1>1, <2>2, <3>1 DEF Orderly
    <3>3. QED
      BY <2>2, <3>1, <3>2 DEF n, a
  <2>3. QED
    BY <2>1, <2>2
<1>10. IsLine(l)
  <2>1. CASE a = 1
    BY <1>2, <1>8, <2>1 DEF IsLine
  <2>2. CASE n = skipTo[1] /\ a = skipTo[2] + 1
    <3>1. l[1][1] = skipTo[1] /\ l[1][2] = a /\ l = SubSeq(Whole(skipTo[1]), l[1][2], LineLen)
      <4>1. l[1][1] = n /\ l[1][2] = a
        BY <1>6
      <4>2. QED
        BY <1>7, <2>2, <4>1, Zenon
    <3>2. CASE skipTo[2] \in Nat
      <4>1. ~Before(l[1], skipTo)
        BY <1>2, <2>2, <3>1, <3>2 DEF Before
      <4>2. QED
        BY <1>6, <3>1, <4>1 DEF IsLine
    <3>3. CASE a = 1
      BY <1>2, <1>8, <3>3 DEF IsLine
    <3>4. CASE s # 0 /\ c[s] = skipTo
      <4>1. c[s] \in Pieces
        BY <1>1, <3>4
      <4>2. skipTo[2] \in Nat
        BY <3>4, <4>1, PieceType, LogTailAssumption
      <4>3. QED
        BY <3>2, <4>2
    <3>5. CASE s = 0 \/ EndsLine(c[s])
      <4>1. s + 1 = 1 \/ EndsLine(c[(s + 1) - 1])
        BY <3>5
      <4>2. a = 1
        BY <1>1, <4>1 DEF Orderly, a
      <4>3. QED
        BY <3>3, <4>2
    <3>6. QED
      BY <3>4, <3>5
  <2>3. QED
    BY <1>9, <2>1, <2>2
<1>11. QED
  BY <1>4, <1>6, <1>10 DEF n

----------------------------------------------------------------------------
(* Reading the log, step by step, as long as nothing is cut.                *)

LEMMA HeldType ==
    ASSUME Types
    PROVE  /\ buf \in Seq(Pieces) /\ partial \in Seq(Pieces) /\ partial \o buf \in Seq(Pieces)
           /\ Len(partial \o buf) = Len(partial) + Len(buf) /\ pos \in Nat
           /\ Len(partial) \in Nat /\ Len(buf) \in Nat
           /\ \A i \in DOMAIN files : files[i] \in Seq(Pieces)
<1>1. buf \in Seq(Pieces) /\ partial \in Seq(Pieces) /\ pos \in Nat /\ \A i \in DOMAIN files : files[i] \in Seq(Pieces)
  BY DEF Types, TypeOK
<1>2. QED
  BY <1>1

LEMMA GivenType ==
    ASSUME InOrder, skipTo \in Pieces \cup {NoPiece}, NEW k \in DOMAIN Given
    PROVE  Given[k][1][1] \in Nat
<1> DEFINE l == Given[k]
<1>1. LineLen \in Nat \ {0} /\ MaxLines \in Nat
  BY LogTailAssumption
<1>2. skipTo[1] \in Nat
  BY <1>1 DEF Pieces, NoPiece
<1>3. IsLine(l)
  BY DEF InOrder
<1> HIDE DEF l
<1>4. l[1][1] \in Nat
  <2>1. CASE \E n \in 1..MaxLines : l = Whole(n)
    <3>1. PICK n \in 1..MaxLines : l = Whole(n)
      BY <2>1
    <3>2. l[1] = <<n, 1>>
      BY <1>1, <3>1, WholeType
    <3>3. QED
      BY <1>1, <3>2
  <2>2. CASE l[1][1] = skipTo[1]
    BY <1>2, <2>2
  <2>3. QED
    BY <1>3, <2>1, <2>2 DEF IsLine
<1>5. QED
  BY <1>4 DEF l

(* Steps that hand on no line.                                              *)
LEMMA KeepInOrder ==
    ASSUME InOrder, Given' = Given, skipTo' = skipTo
    PROVE  InOrder'
<1>1. \A l : IsLine(l)' <=> IsLine(l)
  BY DEF IsLine
<1>2. QED
  BY <1>1, Zenon DEF InOrder

LEMMA KeepBehind ==
    ASSUME Behind, Given' = Given, nextP' = nextP, files' = files,
           \A i \in DOMAIN files : \A m \in DOMAIN files[i] :
               (i > f' \/ (i = f' /\ m > Begin')) => (i > f \/ (i = f /\ m > Begin))
    PROVE  Behind'
BY DEF Behind

LEMMA KeepLog ==
    ASSUME LogOK, UNCHANGED <<files, wfile, nextP>>
    PROVE  LogOK'
BY DEF LogOK, Orderly, GoesOn, After, EndsLine

(* The tailer's hold on its file outlives whatever is appended.             *)
LEMMA KeepAligned ==
    ASSUME Types, f # 0, Aligned, UNCHANGED <<f, pos, partial, buf, skipTo>>,
           f \in DOMAIN files, files'[f] \in Seq(Pieces), Len(files[f]) <= Len(files'[f]),
           \A k \in DOMAIN files[f] : files'[f][k] = files[f][k]
    PROVE  Aligned' /\ Begin' = Begin
<1>1. Begin' = Begin /\ Begin \in Nat /\ pos <= Len(files[f]) /\ Len(files[f]) \in Nat /\ Len(files'[f]) \in Nat
  BY HeldType DEF Begin, Aligned
<1>2. pos \in Nat /\ Len(partial \o buf) \in Nat /\ Begin = pos - Len(partial \o buf)
      /\ DOMAIN (partial \o buf) = 1..Len(partial \o buf) /\ DOMAIN files[f] = 1..Len(files[f])
  BY HeldType DEF Begin
<1>3. \A k \in DOMAIN (partial \o buf) : Begin + k \in DOMAIN files[f]
  BY <1>1, <1>2
<1>4. \A k \in DOMAIN (partial \o buf) : (partial \o buf)[k] = files'[f][Begin + k]
  BY <1>3 DEF Aligned
<1>5. Begin # 0 => files'[f][Begin] = files[f][Begin]
  BY <1>1, <1>2
<1>6. pos <= Len(files'[f])
  BY <1>1, <1>2
<1>7. partial' = partial /\ buf' = buf /\ f' = f /\ pos' = pos /\ skipTo' = skipTo
  OBVIOUS
<1>8. Begin = 0 \/ EndsLine(files'[f][Begin]) \/ files'[f][Begin] = skipTo
  BY <1>5 DEF Aligned
<1>9. \A k \in DOMAIN partial : ~EndsLine(partial[k])
  BY DEF Aligned
<1>10. QED
  BY <1>1, <1>4, <1>6, <1>7, <1>8, <1>9 DEF Aligned, EndsLine

(* The writer opens the file at the path: a new one, between two lines.     *)
LEMMA WriterOpenReads ==
    ASSUME Types, Reads, WriterOpen
    PROVE  Reads'
<1> SUFFICES ASSUME ~cut PROVE LogOK' /\ (f' # 0 => Aligned') /\ InOrder' /\ Behind'
  BY DEF Reads, WriterOpen
<1>1. LogOK /\ (f # 0 => Aligned) /\ InOrder /\ Behind
  BY DEF Reads
<1>2. UNCHANGED <<files, nextP, f, pos, partial, buf, skipTo, pc, handled, line>> /\ nextP[2] = 1
      /\ wfile' = path /\ path # 0 /\ path # wfile
  BY DEF WriterOpen, tailVars
<1>3. path = Len(files) /\ wfile \in 0..Len(files) /\ Len(files) \in Nat /\ DOMAIN files = 1..Len(files)
      /\ path \in DOMAIN files /\ wfile < path
  BY <1>2 DEF Types, TypeOK, Control
<1>4. nextP[1] \in Nat /\ nextP[2] \in Nat
  BY LogTailAssumption DEF Types, Control
<1>5. LogOK'
  <2>1. files[path] = <<>>
    BY <1>1, <1>3 DEF LogOK
  <2>2. GoesOn(files[path], nextP)
    BY <1>2, <2>1 DEF GoesOn
  <2>3. ASSUME NEW k \in DOMAIN files[wfile], wfile # 0
        PROVE  files[wfile][k][1] < nextP[1]
    <3> DEFINE c == files[wfile]
    <3> DEFINE n == Len(c)
    <3>1. c \in Seq(Pieces) /\ wfile \in DOMAIN files /\ n \in Nat /\ DOMAIN c = 1..n
      BY <1>3, <2>3, HeldType
    <3>2. n \in DOMAIN c /\ k \in DOMAIN c /\ k <= n /\ c # <<>>
      BY <2>3, <3>1
    <3>3. Orderly(c) /\ nextP = After(c[n])
      BY <1>1, <2>3, <3>1, <3>2 DEF LogOK, GoesOn
    <3>4. c[n] \in Pieces /\ c[k] \in Pieces
      BY <3>1, <3>2
    <3> HIDE DEF c, n
    <3>5. c[n][1] \in Nat /\ c[n][2] \in Nat \ {0} /\ c[k][1] \in Nat
      BY <3>4, PieceType, LogTailAssumption
    <3>6. nextP[1] = c[n][1] + 1
      BY <1>2, <3>3, <3>5 DEF After
    <3>7. k < n => c[k][1] <= c[n][1]
      BY <3>2, <3>3, <3>5 DEF Orderly
    <3>8. c[k][1] <= c[n][1]
      BY <3>1, <3>2, <3>5, <3>7
    <3>9. c[k][1] < nextP[1]
      BY <3>5, <3>6, <3>8
    <3>10. QED
      BY <3>9 DEF c
  <2>4. ASSUME NEW i \in DOMAIN files, i < path, NEW k \in DOMAIN files[i]
        PROVE  files[i][k][1] < nextP[1]
    <3>1. CASE i < wfile
      BY <1>1, <3>1 DEF LogOK
    <3>2. CASE i = wfile
      BY <1>3, <2>3, <3>2
    <3>3. CASE i > wfile
      <4>1. files[i] = <<>>
        BY <1>1, <3>3 DEF LogOK
      <4>2. QED
        BY <2>4, <4>1
    <3>4. QED
      BY <1>3, <3>1, <3>2, <3>3
  <2>5. \A i \in DOMAIN files : ~(i > path)
    BY <1>3
  <2>6. QED
    BY <1>1, <1>2, <2>2, <2>4, <2>5 DEF LogOK, Orderly, GoesOn, After, EndsLine
<1>6. f' # 0 => Aligned'
  BY <1>1, <1>2 DEF Aligned, Begin, EndsLine
<1>7. Given' = Given /\ Begin' = Begin
  BY <1>2 DEF Given, Begin
<1>8. InOrder' /\ Behind'
  <2>1. InOrder'
    BY <1>1, <1>2, <1>7, KeepInOrder
  <2>2. Behind'
    BY <1>1, <1>2, <1>7, KeepBehind
  <2>3. QED
    BY <2>1, <2>2
<1>9. QED
  BY <1>5, <1>6, <1>8

(* The writer adds the next piece to the file it has open.                  *)
LEMMA WriteReads ==
    ASSUME Types, Reads, Write
    PROVE  Reads'
<1> SUFFICES ASSUME ~cut PROVE LogOK' /\ (f' # 0 => Aligned') /\ InOrder' /\ Behind'
  BY DEF Reads, Write
<1>1. LogOK /\ (f # 0 => Aligned) /\ InOrder /\ Behind
  BY DEF Reads
<1>2. UNCHANGED <<wfile, f, pos, partial, buf, skipTo, pc, handled, line>> /\ wfile # 0 /\ nextP \in Pieces
      /\ nextP' = After(nextP)
  BY DEF Write, tailVars, After
<1>3. /\ DOMAIN files' = DOMAIN files /\ wfile \in DOMAIN files
      /\ files'[wfile] = Append(files[wfile], nextP)
      /\ \A i \in DOMAIN files : i # wfile => files'[i] = files[i]
  BY DEF Write, Types, TypeOK
<1>4. DOMAIN files \subseteq Nat /\ wfile \in Nat /\ (\A i \in DOMAIN files : files[i] \in Seq(Pieces))
  BY DEF Types, TypeOK
<1> DEFINE c == files[wfile]
<1> DEFINE n == Len(c)
<1>5. c \in Seq(Pieces) /\ n \in Nat /\ DOMAIN c = 1..n
  BY <1>3, <1>4
<1>6. /\ files'[wfile] \in Seq(Pieces) /\ Len(files'[wfile]) = n + 1 /\ DOMAIN files'[wfile] = 1..(n + 1)
      /\ files'[wfile][n + 1] = nextP /\ files'[wfile] # <<>>
      /\ \A k \in 1..n : files'[wfile][k] = c[k]
  BY <1>2, <1>3, <1>5
<1>7. nextP[1] \in Nat /\ nextP'[1] \in Nat /\ nextP[1] <= nextP'[1]
  <2>1. nextP[1] \in Nat
    BY <1>2, PieceType, LogTailAssumption
  <2>2. nextP'[1] = nextP[1] \/ nextP'[1] = nextP[1] + 1
    BY <1>2, <2>1 DEF After
  <2>3. QED
    BY <2>1, <2>2
<1>8. Orderly(c) /\ GoesOn(c, nextP)
  BY <1>1, <1>2, <1>3 DEF LogOK
<1> HIDE DEF c, n
<1>9. \A i \in DOMAIN files : \A k \in DOMAIN files'[i] :
        \/ k \in DOMAIN files[i] /\ files'[i][k] = files[i][k]
        \/ i = wfile /\ files'[i][k] = nextP /\ k = n + 1
  <2> TAKE i \in DOMAIN files
  <2> TAKE k \in DOMAIN files'[i]
  <2>1. CASE i # wfile
    BY <1>3, <2>1
  <2>2. CASE i = wfile /\ k = n + 1
    BY <1>6, <2>2
  <2>3. CASE i = wfile /\ k # n + 1
    <3>1. k \in 1..n
      BY <1>5, <1>6, <2>3
    <3>2. QED
      BY <1>5, <1>6, <2>3, <3>1 DEF c
  <2>4. QED
    BY <2>1, <2>2, <2>3
<1>10. LogOK'
  <2>1. \A i \in DOMAIN files : Orderly(files'[i])
    <3>1. Orderly(files'[wfile])
      BY <1>2, <1>3, <1>5, <1>8, GrowsOrderly DEF c
    <3>2. QED
      BY <1>1, <1>3, <3>1 DEF LogOK
  <2>2. GoesOn(files'[wfile], nextP')
    BY <1>2, <1>6 DEF GoesOn
  <2>3. \A i \in DOMAIN files : i > wfile => files'[i] = <<>>
    BY <1>1, <1>3, <1>4 DEF LogOK
  <2>4. ASSUME NEW i \in DOMAIN files, i < wfile, NEW k \in DOMAIN files'[i]
        PROVE  files'[i][k][1] < nextP'[1]
    <3>1. files'[i] = files[i]
      BY <1>3, <1>4, <2>4
    <3>2. files[i][k][1] < nextP[1] /\ files[i][k] \in Pieces
      BY <1>1, <1>4, <2>4, <3>1 DEF LogOK
    <3>3. files[i][k][1] \in Nat
      BY <3>2, PieceType, LogTailAssumption
    <3>4. QED
      BY <1>7, <3>1, <3>2, <3>3
  <2>5. ASSUME NEW i \in DOMAIN files, NEW j \in DOMAIN files, i < j,
               NEW k \in DOMAIN files'[i], NEW m \in DOMAIN files'[j]
        PROVE  files'[i][k][1] < files'[j][m][1]
    <3>1. CASE i = wfile
      <4>1. files'[j] = <<>>
        BY <2>3, <2>5, <3>1
      <4>2. QED
        BY <2>5, <4>1
    <3>2. CASE i # wfile
      <4>1. files'[i] = files[i]
        BY <1>3, <3>2
      <4>2. CASE m \in DOMAIN files[j] /\ files'[j][m] = files[j][m]
        BY <1>1, <2>5, <4>1, <4>2 DEF LogOK
      <4>3. CASE j = wfile /\ files'[j][m] = nextP
        BY <1>1, <2>5, <4>1, <4>3 DEF LogOK
      <4>4. QED
        BY <1>9, <4>2, <4>3
    <3>3. QED
      BY <3>1, <3>2
  <2> DEFINE L(fs, w, p) ==
        /\ \A i \in DOMAIN fs : Orderly(fs[i])
        /\ w # 0 => GoesOn(fs[w], p)
        /\ \A i \in DOMAIN fs : i > w => fs[i] = <<>>
        /\ \A i \in DOMAIN fs : i < w => \A k \in DOMAIN fs[i] : fs[i][k][1] < p[1]
        /\ \A i, j \in DOMAIN fs :
             i < j => \A k \in DOMAIN fs[i], m \in DOMAIN fs[j] : fs[i][k][1] < fs[j][m][1]
  <2>6. L(files', wfile', nextP')
    BY <1>2, <1>3, <2>1, <2>2, <2>3, <2>4, <2>5
  <2>7. QED
    BY <2>6 DEF LogOK, Orderly, GoesOn, After, EndsLine
<1>11. f # 0 => Aligned' /\ Begin' = Begin
  <2> SUFFICES ASSUME f # 0 PROVE Aligned' /\ Begin' = Begin
    OBVIOUS
  <2>1. f \in DOMAIN files
    BY DEF Types, TypeOK
  <2>2. files'[f] \in Seq(Pieces) /\ Len(files[f]) <= Len(files'[f]) /\ \A k \in DOMAIN files[f] : files'[f][k] = files[f][k]
    <3>1. CASE f = wfile
      BY <1>5, <1>6, <3>1 DEF c, n
    <3>2. CASE f # wfile
      <4>1. files'[f] = files[f] /\ files[f] \in Seq(Pieces)
        BY <1>3, <1>4, <2>1, <3>2
      <4>2. Len(files[f]) \in Nat
        BY <4>1
      <4>3. QED
        BY <4>1, <4>2
    <3>3. QED
      BY <3>1, <3>2
  <2>3. QED
    BY <1>1, <1>2, <2>1, <2>2, KeepAligned
<1>12. Given' = Given /\ Begin' = Begin
  BY <1>2 DEF Given, Begin
<1>13. InOrder'
  BY <1>1, <1>2, <1>12, KeepInOrder
<1>14. Behind'
  <2>1. ASSUME NEW k \in DOMAIN Given
        PROVE  /\ Given[k][1][1] < nextP'[1]
               /\ \A i \in DOMAIN files : \A m \in DOMAIN files'[i] :
                     (i > f \/ (i = f /\ m > Begin)) => Given[k][1][1] < files'[i][m][1]
    <3> DEFINE g == Given[k][1][1]
    <3>1. g < nextP[1] /\ \A i \in DOMAIN files : \A m \in DOMAIN files[i] :
                     (i > f \/ (i = f /\ m > Begin)) => g < files[i][m][1]
      BY <1>1 DEF Behind
    <3>2. g \in Nat
      BY <1>1, GivenType DEF Types, TypeOK
    <3> HIDE DEF g
    <3>3. g < nextP'[1]
      BY <1>7, <3>1, <3>2
    <3>4. \A i \in DOMAIN files : \A m \in DOMAIN files'[i] :
             (i > f \/ (i = f /\ m > Begin)) => g < files'[i][m][1]
      BY <1>9, <3>1
    <3>5. QED
      BY <3>3, <3>4 DEF g
  <2>2. f' = f /\ DOMAIN files' = DOMAIN files
    BY <1>2, <1>3
  <2>3. QED
    BY <1>12, <2>1, <2>2 DEF Behind
<1>15. QED
  BY <1>2, <1>10, <1>11, <1>13, <1>14

(* logrotate creates the log anew, empty.                                   *)
LEMMA CreateLogReads ==
    ASSUME Types, Reads, CreateLog
    PROVE  Reads'
<1> SUFFICES ASSUME ~cut PROVE LogOK' /\ (f' # 0 => Aligned') /\ InOrder' /\ Behind'
  BY DEF Reads, CreateLog
<1>1. LogOK /\ (f # 0 => Aligned) /\ InOrder /\ Behind
  BY DEF Reads
<1>2. UNCHANGED <<wfile, nextP, f, pos, partial, buf, skipTo, pc, handled, line>>
  BY DEF CreateLog, tailVars
<1> DEFINE n == Len(files)
<1>3. /\ n \in Nat /\ DOMAIN files = 1..n /\ DOMAIN files' = 1..(n + 1) /\ files'[n + 1] = <<>>
      /\ \A i \in 1..n : files'[i] = files[i] /\ files[i] \in Seq(Pieces)
      /\ wfile \in 0..n /\ f \in 0..n
  BY DEF CreateLog, Types, TypeOK
<1> HIDE DEF n
<1>4. DOMAIN <<>> = {} /\ Orderly(<<>>)
  BY DEF Orderly
<1>5. \A i \in DOMAIN files' : (i \in 1..n /\ files'[i] = files[i]) \/ (i = n + 1 /\ files'[i] = <<>>)
  BY <1>3
<1>6. LogOK'
  <2>1. \A i \in DOMAIN files' : Orderly(files'[i])
    BY <1>1, <1>3, <1>4, <1>5 DEF LogOK
  <2>2. wfile # 0 => GoesOn(files'[wfile], nextP)
    BY <1>1, <1>3 DEF LogOK
  <2>3. \A i \in DOMAIN files' : i > wfile => files'[i] = <<>>
    BY <1>1, <1>3, <1>5 DEF LogOK
  <2>4. ASSUME NEW i \in DOMAIN files', i < wfile, NEW k \in DOMAIN files'[i]
        PROVE  files'[i][k][1] < nextP[1]
    BY <1>1, <1>3, <1>5, <2>4 DEF LogOK
  <2>5. ASSUME NEW i \in DOMAIN files', NEW j \in DOMAIN files', i < j,
               NEW k \in DOMAIN files'[i], NEW m \in DOMAIN files'[j]
        PROVE  files'[i][k][1] < files'[j][m][1]
    <3>1. i \in 1..n /\ j \in 1..n
      BY <1>3, <1>4, <1>5, <2>5
    <3>2. QED
      BY <1>1, <1>3, <2>5, <3>1 DEF LogOK
  <2>6. QED
    BY <1>2, <2>1, <2>2, <2>3, <2>4, <2>5 DEF LogOK, Orderly, GoesOn, After, EndsLine
<1>7. f # 0 => Aligned'
  <2> SUFFICES ASSUME f # 0 PROVE Aligned'
    OBVIOUS
  <2>1. f \in DOMAIN files /\ files'[f] = files[f] /\ files[f] \in Seq(Pieces)
    BY <1>3
  <2>2. Len(files[f]) \in Nat
    BY <2>1
  <2>3. QED
    BY <1>1, <1>2, <2>1, <2>2, KeepAligned
<1>8. Given' = Given /\ Begin' = Begin
  BY <1>2 DEF Given, Begin
<1>9. InOrder'
  BY <1>1, <1>2, <1>8, KeepInOrder
<1>10. Behind'
  <2>1. ASSUME NEW k \in DOMAIN Given, NEW i \in DOMAIN files', NEW m \in DOMAIN files'[i],
               i > f \/ (i = f /\ m > Begin)
        PROVE  Given[k][1][1] < files'[i][m][1]
    <3>1. i \in DOMAIN files /\ files'[i] = files[i]
      BY <1>3, <1>4, <1>5, <2>1
    <3>2. QED
      BY <1>1, <2>1, <3>1 DEF Behind
  <2>2. \A k \in DOMAIN Given : Given[k][1][1] < nextP[1]
    BY <1>1 DEF Behind
  <2>3. QED
    BY <1>2, <1>8, <2>1, <2>2 DEF Behind
<1>11. QED
  BY <1>2, <1>6, <1>7, <1>9, <1>10

(* Steps that touch neither the files nor what the tailer read of them.     *)
LEMMA FrameReads ==
    ASSUME Types, Reads, UNCHANGED <<files, wfile, nextP, f, pos, buf, partial, skipTo>>, Given' = Given,
           cut' \/ ~cut
    PROVE  Reads'
<1> SUFFICES ASSUME ~cut PROVE LogOK' /\ (f' # 0 => Aligned') /\ InOrder' /\ Behind'
  BY DEF Reads
<1>1. LogOK /\ (f # 0 => Aligned) /\ InOrder /\ Behind
  BY DEF Reads
<1>2. Begin' = Begin
  BY DEF Begin
<1>3. f' # 0 => Aligned'
  BY <1>1, <1>2 DEF Aligned, EndsLine
<1>4. LogOK' /\ InOrder' /\ Behind'
  BY <1>1, <1>2, KeepLog, KeepInOrder, KeepBehind
<1>5. QED
  BY <1>3, <1>4

LEMMA QuietReads ==
    ASSUME Types, Reads, \/ RenameAway \/ Truncate \/ Take \/ Stop \/ LoopHead \/ Wait \/ Send \/ HandleLine
                         \/ UNCHANGED vars
    PROVE  Reads'
<1>1. CASE Truncate
  BY <1>1 DEF Truncate, Reads
<1>2. CASE RenameAway \/ Take \/ Stop \/ UNCHANGED vars
  <2>1. UNCHANGED <<files, wfile, nextP, f, pos, buf, partial, skipTo, pc, handled, line, cut>>
    BY <1>2 DEF RenameAway, Take, Stop, vars, logVars, tailVars
  <2>2. Given' = Given
    BY <2>1 DEF Given
  <2>3. QED
    BY <2>1, <2>2, FrameReads DEF Types, TypeOK
<1>3. CASE LoopHead \/ Wait \/ Send
  <2>1. UNCHANGED <<files, wfile, nextP, f, pos, buf, partial, skipTo, handled, line, cut>>
        /\ pc # "line" /\ pc' # "line"
    BY <1>3 DEF LoopHead, Wait, Send, logVars
  <2>2. Given' = Given
    BY <2>1 DEF Given
  <2>3. QED
    BY <2>1, <2>2, FrameReads DEF Types, TypeOK
<1>4. CASE HandleLine
  <2>1. UNCHANGED <<files, wfile, nextP, f, pos, buf, partial, skipTo, cut>> /\ pc = "line" /\ pc' # "line"
        /\ handled' = Append(handled, line)
    BY <1>4 DEF HandleLine, logVars, ParseLine
  <2>2. Given' = Given
    BY <2>1 DEF Given
  <2>3. QED
    BY <2>1, <2>2, FrameReads DEF Types, TypeOK
<1>5. QED
  BY <1>1, <1>2, <1>3, <1>4

(* The file found at startup is read from its end, one waited for from its  *)
(* beginning.                                                               *)
LEMMA OpenReads ==
    ASSUME Types, Reads, Open
    PROVE  Reads'
<1> SUFFICES ASSUME ~cut PROVE LogOK' /\ (f' # 0 => Aligned') /\ InOrder' /\ Behind'
  BY DEF Reads, Open, logVars
<1>1. LogOK
  BY DEF Reads
<1>2. /\ UNCHANGED <<files, wfile, nextP, path, buf, partial, handled>>
      /\ pc = "open" /\ pc' # "line" /\ f = 0 /\ handled = <<>> /\ buf = <<>> /\ partial = <<>>
  BY DEF Open, logVars, Types, Control
<1>3. LogOK'
  BY <1>1, <1>2, KeepLog
<1>4. Given' = <<>>
  BY <1>2 DEF Given
<1>5. InOrder' /\ Behind'
  BY <1>4 DEF InOrder, Behind
<1>6. f' # 0 => Aligned'
  <2> SUFFICES ASSUME f' # 0 PROVE Aligned'
    OBVIOUS
  <2>1. path # 0 /\ f' = path
    BY <1>2 DEF Open
  <2>2. path \in DOMAIN files /\ Current = files[path]
    BY <2>1 DEF Types, TypeOK, Current, Content
  <2>3. files[path] \in Seq(Pieces)
    BY <2>2, HeldType
  <2>4. Len(files[path]) \in Nat
    BY <2>3
  <2>5. pos' = 0 \/ (pos' = Len(files[path]) /\ files[path] # <<>> /\ files[path][pos'] = skipTo')
    <3>1. /\ pos' = IF warned THEN 0 ELSE Len(Current)
          /\ skipTo' = IF warned \/ Current = <<>> THEN NoPiece ELSE Last(Current)
      BY <2>1 DEF Open
    <3>2. CASE warned \/ Current = <<>>
      BY <2>2, <2>3, <3>1, <3>2
    <3>3. CASE ~warned /\ Current # <<>>
      <4>1. pos' = Len(Current) /\ skipTo' = Last(Current)
        BY <3>1, <3>3
      <4>2. QED
        BY <2>2, <3>3, <4>1 DEF Last
    <3>4. QED
      BY <3>2, <3>3
  <2>6. Begin' = pos' /\ pos' \in Nat /\ pos' <= Len(files[path])
    <3>1. pos' \in Nat /\ pos' <= Len(files[path])
      BY <2>4, <2>5
    <3>2. Len(partial' \o buf') = 0
      BY <1>2
    <3>3. Begin' = pos' - Len(partial' \o buf')
      BY DEF Begin
    <3>4. Begin' = pos' - 0
      BY <3>2, <3>3, Zenon
    <3>5. pos' - 0 = pos'
      <4>1. \A x \in Nat : x - 0 = x
        OBVIOUS
      <4>2. QED
        BY <3>1, <4>1, Zenon
    <3>6. QED
      BY <3>1, <3>4, <3>5, Zenon
  <2>7. partial' = <<>> /\ DOMAIN (partial' \o buf') = {} /\ DOMAIN partial' = {}
    BY <1>2
  <2>8. files'[f'] = files[path]
    BY <1>2, <2>1
  <2>9. QED
    BY <2>5, <2>6, <2>7, <2>8 DEF Aligned
<1>7. QED
  BY <1>3, <1>5, <1>6

(* Filling the buffer moves the offset along with it.                       *)
LEMMA FillReads ==
    ASSUME Types, Reads, Fill
    PROVE  Reads'
<1> SUFFICES ASSUME ~cut PROVE LogOK' /\ (f' # 0 => Aligned') /\ InOrder' /\ Behind'
  BY DEF Reads, Fill, logVars
<1>1. UNCHANGED <<files, wfile, nextP, f, partial, skipTo, pc, handled, line>> /\ pc = "read" /\ f # 0
  BY DEF Fill, logVars, Types, Control
<1>2. LogOK /\ Aligned /\ InOrder /\ Behind
  BY <1>1 DEF Reads
<1>3. f \in DOMAIN files
  BY <1>1 DEF Types, TypeOK
<1> DEFINE c == files[f]
<1> DEFINE h == partial \o buf
<1>4. c \in Seq(Pieces) /\ h \in Seq(Pieces) /\ buf \in Seq(Pieces) /\ partial \in Seq(Pieces) /\ pos \in Nat
  BY <1>3, HeldType
<1>5. Len(c) \in Nat /\ Len(h) \in Nat /\ DOMAIN h = 1..Len(h)
  BY <1>4
<1>6. pos <= Len(c) /\ Begin \in Nat /\ Begin = pos - Len(h) /\ (\A k \in DOMAIN h : h[k] = c[Begin + k])
  BY <1>2 DEF Aligned, Begin
<1>7. PICK n \in 1..Len(Unread) : buf' = buf \o SubSeq(Unread, 1, n) /\ pos' = pos + n
  BY DEF Fill
<1>8. Unread \in Seq(Pieces) /\ Len(Unread) = Len(c) - pos /\ (\A k \in 1..Len(Unread) : Unread[k] = c[pos + k])
  BY <1>4, <1>5, <1>6 DEF Unread, Content
<1> DEFINE u == SubSeq(Unread, 1, n)
<1>9. u \in Seq(Pieces) /\ Len(u) = n /\ (\A k \in 1..n : u[k] = c[pos + k]) /\ n \in Nat
  BY <1>8
<1> HIDE DEF c, h, u
<1>10. partial' \o buf' = h \o u
  <2>1. (partial \o buf) \o u = partial \o (buf \o u)
    <3>1. partial \in Seq(Pieces) /\ buf \in Seq(Pieces) /\ u \in Seq(Pieces)
      BY <1>4, <1>9
    <3>2. QED
      BY <3>1, ConcatAssociative
  <2>2. QED
    BY <1>1, <1>7, <2>1 DEF h, u
<1>11. /\ h \o u \in Seq(Pieces) /\ Len(h \o u) = Len(h) + n /\ DOMAIN (h \o u) = 1..(Len(h) + n)
       /\ \A k \in 1..(Len(h) + n) : (h \o u)[k] = IF k <= Len(h) THEN h[k] ELSE u[k - Len(h)]
  <2>1. h \in Seq(Pieces) /\ u \in Seq(Pieces)
    BY <1>4, <1>9
  <2>2. /\ h \o u \in Seq(Pieces) /\ Len(h \o u) = Len(h) + Len(u)
        /\ \A k \in 1..(Len(h) + Len(u)) : (h \o u)[k] = IF k <= Len(h) THEN h[k] ELSE u[k - Len(h)]
    BY <2>1, ConcatProperties, Zenon
  <2>3. DOMAIN (h \o u) = 1..Len(h \o u)
    BY <2>2, LenProperties, Zenon
  <2>4. QED
    BY <1>9, <2>2, <2>3, Zenon
<1>12. Begin' = Begin /\ pos' <= Len(c)
  <2>1. Begin' = (pos + n) - (Len(h) + n)
    <3>1. Begin' = pos' - Len(partial' \o buf')
      BY DEF Begin
    <3>2. QED
      <4>1. pos' = pos + n /\ Len(h \o u) = Len(h) + n
        BY <1>7, <1>11, Zenon
      <4>2. Begin' = pos' - Len(h \o u)
        BY <1>10, <3>1, Zenon
      <4>3. QED
        BY <4>1, <4>2, Zenon
  <2>2. n <= Len(c) - pos
    BY <1>5, <1>7, <1>8, <1>4
  <2>3. QED
    BY <1>4, <1>5, <1>6, <1>7, <1>9, <2>1, <2>2
<1>13. \A k \in 1..(Len(h) + n) : (h \o u)[k] = c[Begin + k]
  <2> TAKE k \in 1..(Len(h) + n)
  <2>1. CASE k <= Len(h)
    BY <1>5, <1>6, <1>9, <1>11, <2>1
  <2>2. CASE k > Len(h)
    <3>1. k - Len(h) \in 1..n /\ pos + (k - Len(h)) = Begin + k /\ ~(k <= Len(h))
      BY <1>4, <1>5, <1>6, <1>9, <2>2
    <3>2. QED
      BY <1>9, <1>11, <3>1
  <2>3. QED
    BY <1>5, <1>9, <2>1, <2>2
<1>14. Aligned'
  <2>1. files'[f'] = c /\ DOMAIN (partial' \o buf') = 1..(Len(h) + n)
    BY <1>1, <1>10, <1>11 DEF c
  <2>2. Begin = 0 \/ EndsLine(c[Begin]) \/ c[Begin] = skipTo
    BY <1>2 DEF Aligned, c
  <2>3. \A k \in DOMAIN partial : ~EndsLine(partial[k])
    BY <1>2 DEF Aligned
  <2>4. pos' <= Len(c) /\ Begin' \in Nat
    BY <1>6, <1>12
  <2>5. \A k \in DOMAIN (partial' \o buf') : (partial' \o buf')[k] = c[Begin' + k]
    BY <1>10, <1>12, <1>13, <2>1
  <2>6. skipTo' = skipTo /\ partial' = partial
    BY <1>1
  <2>7. QED
    BY <1>12, <2>1, <2>2, <2>3, <2>4, <2>5, <2>6 DEF Aligned, EndsLine
<1>15. Given' = Given
  BY <1>1 DEF Given
<1>16. LogOK' /\ InOrder'
  BY <1>1, <1>2, <1>15, KeepLog, KeepInOrder
<1>17. Behind'
  BY <1>1, <1>2, <1>12, <1>15, KeepBehind
<1>18. QED
  BY <1>14, <1>16, <1>17

(* At the end of the file the unfinished line is kept: it fits.             *)
LEMMA ReadEOFReads ==
    ASSUME Fits, Types, Reads, ReadEOF
    PROVE  Reads'
<1> SUFFICES ASSUME ~cut PROVE LogOK' /\ (f' # 0 => Aligned') /\ InOrder' /\ Behind'
  BY DEF Reads, ReadEOF, logVars
<1>1. UNCHANGED <<files, wfile, nextP, f, pos, skipTo, handled, line>> /\ pc = "read" /\ f # 0 /\ pc' # "line"
      /\ Newline(buf) = {}
  BY DEF ReadEOF, logVars, Types, Control
<1>2. LogOK /\ Aligned /\ InOrder /\ Behind
  BY <1>1 DEF Reads
<1>3. f \in DOMAIN files
  BY <1>1 DEF Types, TypeOK
<1> DEFINE c == files[f]
<1> DEFINE h == partial \o buf
<1>4. c \in Seq(Pieces) /\ h \in Seq(Pieces) /\ buf \in Seq(Pieces) /\ partial \in Seq(Pieces) /\ pos \in Nat
      /\ Len(h) = Len(partial) + Len(buf) /\ Len(partial) \in Nat /\ Len(buf) \in Nat
  BY <1>3, HeldType
<1>5. Len(c) \in Nat /\ Len(h) \in Nat /\ DOMAIN h = 1..Len(h) /\ DOMAIN buf = 1..Len(buf)
      /\ DOMAIN partial = 1..Len(partial)
  BY <1>4
<1>6. pos <= Len(c) /\ Begin \in Nat /\ Begin = pos - Len(h) /\ (\A k \in DOMAIN h : h[k] = c[Begin + k])
      /\ (\A k \in DOMAIN partial : ~EndsLine(partial[k]))
  BY <1>2 DEF Aligned, Begin
<1>7. \A k \in 1..Len(h) : ~EndsLine(h[k])
  <2> TAKE k \in 1..Len(h)
  <2>1. CASE k <= Len(partial)
    <3>1. h[k] = partial[k] /\ k \in DOMAIN partial
      BY <1>4, <1>5, <2>1
    <3>2. QED
      BY <1>6, <3>1
  <2>2. CASE k > Len(partial)
    <3>1. h[k] = buf[k - Len(partial)] /\ k - Len(partial) \in DOMAIN buf
      BY <1>4, <1>5, <2>2
    <3>2. QED
      BY <1>1, <3>1 DEF Newline
  <2>3. QED
    BY <1>4, <2>1, <2>2
<1> HIDE DEF c, h
<1>8. Len(h) <= LineLen - 1
  <2>1. \A k \in (Begin + 1)..pos : ~EndsLine(c[k])
    <3> TAKE k \in (Begin + 1)..pos
    <3>1. k - Begin \in 1..Len(h) /\ Begin + (k - Begin) = k
      BY <1>4, <1>5, <1>6
    <3>2. h[k - Begin] = c[Begin + (k - Begin)]
      BY <1>5, <1>6, <3>1
    <3>3. QED
      BY <1>7, <3>1, <3>2
  <2>2. Orderly(c) /\ Begin <= pos
    BY <1>2, <1>3, <1>4, <1>5, <1>6 DEF LogOK, c
  <2>3. pos - Begin <= LineLen - 1
    BY <1>4, <1>6, <2>1, <2>2, Unfinished
  <2>4. QED
    BY <1>4, <1>5, <1>6, <2>3, LogTailAssumption
<1>9. partial' = h /\ buf' = <<>>
  <2>1. Len(partial) + Len(buf) <= MaxPartial
    BY <1>4, <1>5, <1>8, LogTailAssumption DEF Fits
  <2>2. QED
    BY <2>1 DEF ReadEOF, h
<1>10. partial' \o buf' = h
  BY <1>4, <1>9
<1>11. Begin' = Begin
  BY <1>1, <1>6, <1>10 DEF Begin
<1>12. Aligned'
  <2>1. files'[f'] = c /\ pos' = pos /\ skipTo' = skipTo
    BY <1>1 DEF c
  <2>2. Begin = 0 \/ EndsLine(c[Begin]) \/ c[Begin] = skipTo
    BY <1>2 DEF Aligned, c
  <2>3. \A k \in DOMAIN partial' : ~EndsLine(partial'[k])
    BY <1>5, <1>7, <1>9
  <2>4. QED
    BY <1>6, <1>10, <1>11, <2>1, <2>2, <2>3 DEF Aligned, EndsLine
<1>13. Given' = Given
  BY <1>1 DEF Given
<1>14. LogOK' /\ InOrder'
  BY <1>1, <1>2, <1>13, KeepLog, KeepInOrder
<1>15. Behind'
  BY <1>1, <1>2, <1>11, <1>13, KeepBehind
<1>16. QED
  BY <1>12, <1>14, <1>15

(* Nothing was cut, so the file is never shorter than what was read of it.  *)
LEMMA CheckRotationReads ==
    ASSUME Types, Reads, CheckRotation
    PROVE  Reads'
<1>1. CASE cut
  BY <1>1 DEF Reads, CheckRotation, logVars
<1>2. CASE ~cut
  <2>1. UNCHANGED <<files, wfile, nextP, f, buf, skipTo, handled, line, cut>> /\ pc = "check" /\ f # 0
    BY DEF CheckRotation, logVars, Types, Control
  <2>2. f \in DOMAIN files /\ pos <= Len(files[f]) /\ pos \in Nat /\ files[f] \in Seq(Pieces)
    BY <1>2, <2>1 DEF Types, TypeOK, Reads, Aligned
  <2>3. ~(path # 0 /\ path = f /\ Len(Current) < pos)
    <3>1. Len(files[f]) \in Nat
      BY <2>2
    <3>2. QED
      BY <2>2, <3>1 DEF Current, Content
  <2>4. UNCHANGED <<pos, partial>> /\ pc' # "line"
    BY <2>3 DEF CheckRotation
  <2>5. Given' = Given
    BY <2>1, <2>4 DEF Given
  <2>6. QED
    BY <1>2, <2>1, <2>4, <2>5, FrameReads
<1>3. QED
  BY <1>1, <1>2

(* The file reopened is a later one.                                        *)
LEMMA ReopenReads ==
    ASSUME Types, Reads, Reopen
    PROVE  Reads'
<1> SUFFICES ASSUME ~cut PROVE LogOK' /\ (f' # 0 => Aligned') /\ InOrder' /\ Behind'
  BY DEF Reads, Reopen, logVars
<1>1. UNCHANGED <<files, wfile, nextP, buf, skipTo, handled, line, cut>> /\ pc = "reopen" /\ f # 0 /\ pc' # "line"
      /\ buf = <<>> /\ f < Len(files)
  BY DEF Reopen, logVars, Types, Control
<1>2. LogOK /\ Aligned /\ InOrder /\ Behind
  BY <1>1 DEF Reads
<1>3. Given' = Given
  BY <1>1 DEF Given
<1>4. CASE path = 0
  <2>1. UNCHANGED <<f, pos, partial>>
    BY <1>4 DEF Reopen
  <2>2. Reads'
    BY <1>1, <1>3, <2>1, FrameReads
  <2>3. QED
    BY <1>1, <2>2 DEF Reads
<1>5. CASE path # 0
  <2>1. f' = path /\ pos' = 0 /\ partial' = <<>> /\ buf' = <<>>
    BY <1>1, <1>5 DEF Reopen
  <2>2. path = Len(files) /\ path \in DOMAIN files /\ f < path /\ f \in Nat /\ path \in Nat /\ DOMAIN files \subseteq Nat
    BY <1>1, <1>5 DEF Types, TypeOK, Control
  <2>3. files[path] \in Seq(Pieces)
    BY <2>2, HeldType
  <2>4. partial' \o buf' = <<>> /\ Len(<<>>) = 0 /\ DOMAIN <<>> = {} /\ Len(files[path]) \in Nat
    BY <2>1, <2>3
  <2>5. Begin' = 0
    <3>1. Begin' = pos' - Len(partial' \o buf')
      BY DEF Begin
    <3>2. Len(partial' \o buf') = 0
      BY <2>4
    <3>3. Begin' = 0 - 0
      BY <2>1, <3>1, <3>2, Zenon
    <3>4. QED
      BY <3>3
  <2>6. Aligned'
    <3>1. files'[f'] = files[path]
      BY <1>1, <2>1
    <3>2. QED
      BY <2>1, <2>4, <2>5, <3>1 DEF Aligned
  <2>7. \A i \in DOMAIN files : (i > f' \/ i = f') => i > f
    BY <2>1, <2>2
  <2>8. LogOK' /\ InOrder'
    BY <1>1, <1>2, <1>3, KeepLog, KeepInOrder
  <2>9. Behind'
    BY <1>1, <1>2, <1>3, <2>7, KeepBehind
  <2>10. QED
    BY <2>6, <2>8, <2>9
<1>6. QED
  BY <1>4, <1>5

(* A line is taken out: what the tailer held up to the first line end.      *)
LEMMA ReadLineReads ==
    ASSUME Types, Reads, ReadLine
    PROVE  Reads'
<1> SUFFICES ASSUME ~cut PROVE LogOK' /\ (f' # 0 => Aligned') /\ InOrder' /\ Behind'
  BY DEF Reads, ReadLine, logVars
<1>1. UNCHANGED <<files, wfile, nextP, f, pos, skipTo, handled>> /\ pc = "read" /\ f # 0 /\ pc' = "line"
      /\ Newline(buf) # {}
  BY DEF ReadLine, logVars, Types, Control
<1>2. LogOK /\ Aligned /\ InOrder /\ Behind
  BY <1>1 DEF Reads
<1>3. f \in DOMAIN files /\ DOMAIN files \subseteq Nat /\ wfile \in Nat /\ f \in Nat
  BY <1>1 DEF Types, TypeOK
<1> DEFINE c == files[f]
<1> DEFINE h == partial \o buf
<1> DEFINE k == CHOOSE k \in Newline(buf) : \A j \in Newline(buf) : k <= j
<1> DEFINE a == Len(partial)
<1> DEFINE b == Len(buf)
<1> DEFINE s == Begin
<1>4. c \in Seq(Pieces) /\ h \in Seq(Pieces) /\ buf \in Seq(Pieces) /\ partial \in Seq(Pieces) /\ pos \in Nat
      /\ Len(h) = a + b /\ a \in Nat /\ b \in Nat
  BY <1>3, HeldType
<1>5. Len(c) \in Nat /\ DOMAIN c = 1..Len(c) /\ DOMAIN h = 1..(a + b) /\ DOMAIN buf = 1..b /\ DOMAIN partial = 1..a
  BY <1>4
<1>6. \A x \in 1..(a + b) : h[x] = IF x <= a THEN partial[x] ELSE buf[x - a]
  BY <1>4, ConcatProperties
<1>7. pos <= Len(c) /\ s \in Nat /\ s = pos - (a + b) /\ (\A x \in 1..(a + b) : h[x] = c[s + x])
      /\ (\A x \in 1..a : ~EndsLine(partial[x])) /\ (s = 0 \/ EndsLine(c[s]) \/ c[s] = skipTo)
  BY <1>2, <1>4, <1>5 DEF Aligned, Begin
<1>8. k \in 1..b /\ EndsLine(buf[k]) /\ (\A j \in 1..b : j < k => ~EndsLine(buf[j])) /\ k \in Nat
  <2>1. k \in Newline(buf) /\ k \in 1..b /\ (\A j \in Newline(buf) : k <= j)
    BY <1>1, <1>4, NewlineType
  <2> HIDE DEF k
  <2>2. QED
    BY <1>4, <1>5, <2>1 DEF Newline
<1>9. line' = partial \o SubSeq(buf, 1, k) /\ buf' = SubSeq(buf, k + 1, Len(buf)) /\ partial' = <<>>
  BY DEF ReadLine
<1> HIDE DEF c, h, k
<1> DEFINE e == s + (a + k)
<1>10. e \in Nat /\ e \in DOMAIN c /\ s < e /\ e - s = a + k /\ e <= pos /\ s + 1 \in DOMAIN c
  BY <1>4, <1>5, <1>7, <1>8
<1>11. EndsLine(c[e]) /\ \A x \in (s + 1)..(e - 1) : ~EndsLine(c[x])
  <2>1. a + k \in 1..(a + b) /\ ~(a + k <= a) /\ (a + k) - a = k
    BY <1>4, <1>8
  <2>2. h[a + k] = buf[k] /\ h[a + k] = c[e]
    BY <1>6, <1>7, <2>1
  <2>3. ASSUME NEW x \in (s + 1)..(e - 1) PROVE ~EndsLine(c[x])
    <3>1. x - s \in 1..(a + b) /\ s + (x - s) = x /\ x - s < a + k
      BY <1>4, <1>7, <1>8, <1>10
    <3>2. h[x - s] = c[x]
      BY <1>7, <3>1
    <3>3. CASE x - s <= a
      <4>1. h[x - s] = partial[x - s] /\ x - s \in 1..a
        BY <1>4, <1>6, <3>1, <3>3
      <4>2. QED
        BY <1>7, <3>2, <4>1
    <3>4. CASE ~(x - s <= a)
      <4>1. h[x - s] = buf[(x - s) - a] /\ (x - s) - a \in 1..b /\ (x - s) - a < k
        BY <1>4, <1>6, <1>8, <3>1, <3>4
      <4>2. QED
        BY <1>8, <3>2, <4>1
    <3>5. QED
      BY <3>3, <3>4
  <2>4. QED
    BY <1>8, <2>2, <2>3
<1>12. line' \in Seq(Pieces) /\ Len(line') = a + k /\ \A x \in 1..(a + k) : line'[x] = c[s + x]
  <2> DEFINE q == SubSeq(buf, 1, k)
  <2>1. q \in Seq(Pieces) /\ Len(q) = k /\ \A x \in 1..k : q[x] = buf[x]
    BY <1>4, <1>8
  <2>2. line' = partial \o q
    BY <1>9
  <2> HIDE DEF q
  <2>3. /\ partial \o q \in Seq(Pieces) /\ Len(partial \o q) = a + k
        /\ \A x \in 1..(a + k) : (partial \o q)[x] = IF x <= a THEN partial[x] ELSE q[x - a]
    <3>1. /\ partial \o q \in Seq(Pieces) /\ Len(partial \o q) = Len(partial) + Len(q)
          /\ \A x \in 1..(Len(partial) + Len(q)) :
               (partial \o q)[x] = IF x <= Len(partial) THEN partial[x] ELSE q[x - Len(partial)]
      <4>1. partial \in Seq(Pieces) /\ q \in Seq(Pieces)
        BY <1>4, <2>1
      <4>2. QED
        BY <4>1, ConcatProperties, Zenon
    <3>2. QED
      BY <2>1, <3>1, Zenon
  <2>4. ASSUME NEW x \in 1..(a + k)
        PROVE  (partial \o q)[x] = c[s + x]
    <3>1. x \in 1..(a + b) /\ (~(x <= a) => x - a \in 1..k)
      BY <1>4, <1>8
    <3>2. (partial \o q)[x] = h[x]
      BY <1>6, <2>1, <2>3, <3>1
    <3>3. QED
      BY <1>7, <3>1, <3>2
  <2>5. QED
    BY <2>2, <2>3, <2>4, Zenon
<1>13. Orderly(c)
  BY <1>2, <1>3 DEF LogOK, c
<1> HIDE DEF s, e, a, b
<1>14. IsLine(line') /\ line'[1][1] = c[e][1] /\ line'[1][1] = c[s + 1][1]
  <2>1. \A x \in 1..(e - s) : line'[x] = c[s + x]
    BY <1>10, <1>12
  <2>2. Len(line') = e - s
    BY <1>10, <1>12
  <2>3. QED
    <3>1. c \in Seq(Pieces) /\ s \in Nat /\ e \in DOMAIN c /\ s < e /\ line' \in Seq(Pieces)
      BY <1>4, <1>7, <1>10, <1>12, Zenon
    <3>2. EndsLine(c[e]) /\ (\A x \in (s + 1)..(e - 1) : ~EndsLine(c[x]))
          /\ (s = 0 \/ EndsLine(c[s]) \/ c[s] = skipTo)
      BY <1>7, <1>11, Zenon
    <3>3. QED
      BY <1>13, <2>1, <2>2, <3>1, <3>2, MakesLine, Zenon
<1>15. buf' \in Seq(Pieces) /\ Len(buf') = b - k /\ \A x \in 1..(b - k) : buf'[x] = buf[k + x]
  BY <1>4, <1>8, <1>9 DEF b
<1>16. partial' \o buf' = buf'
  BY <1>9, <1>15, ConcatEmptySeq
<1>17. Begin' = e
  <2>1. Begin' = pos - (b - k)
    <3>1. Begin' = pos' - Len(partial' \o buf')
      BY DEF Begin
    <3>2. pos' = pos /\ Len(partial' \o buf') = b - k
      BY <1>1, <1>15, <1>16, Zenon
    <3>3. QED
      BY <3>1, <3>2, Zenon
  <2>2. QED
    BY <1>4, <1>7, <1>8, <2>1 DEF e
<1>18. Aligned'
  <2>1. files'[f'] = c /\ pos' = pos /\ skipTo' = skipTo /\ partial' = <<>> /\ DOMAIN partial' = {}
    BY <1>1, <1>9 DEF c
  <2>2. DOMAIN buf' = 1..(b - k)
    BY <1>15
  <2>3. ASSUME NEW x \in 1..(b - k)
        PROVE  buf'[x] = c[e + x]
    <3>1. buf'[x] = buf[k + x]
      BY <1>15
    <3>2. (a + k) + x \in 1..(a + b) /\ ~((a + k) + x <= a) /\ ((a + k) + x) - a = k + x /\ s + ((a + k) + x) = e + x
      BY <1>4, <1>7, <1>8 DEF e
    <3>3. h[(a + k) + x] = buf[k + x] /\ h[(a + k) + x] = c[e + x]
      BY <1>6, <1>7, <3>2
    <3>4. QED
      BY <3>1, <3>3
  <2>4. pos' <= Len(c) /\ Begin' \in Nat
    BY <1>7, <1>10, <1>17, <2>1
  <2>5. \A x \in DOMAIN (partial' \o buf') : (partial' \o buf')[x] = c[Begin' + x]
    BY <1>16, <1>17, <2>2, <2>3
  <2>6. EndsLine(c[Begin'])
    BY <1>11, <1>17
  <2>7. QED
    BY <2>1, <2>4, <2>5, <2>6 DEF Aligned, EndsLine
<1>19. LogOK'
  BY <1>1, <1>2, KeepLog
(* What is left in the file, later files and the writer are past the line.  *)
<1>20. c[e] \in Pieces /\ c[e][1] \in Nat
  BY <1>4, <1>10, PieceType, LogTailAssumption
<1>21. \A i \in DOMAIN files : \A m \in DOMAIN files[i] : (i > f \/ (i = f /\ m > e)) => c[e][1] < files[i][m][1]
  <2> TAKE i \in DOMAIN files
  <2> TAKE m \in DOMAIN files[i]
  <2>1. CASE i > f
    BY <1>2, <1>3, <1>10, <2>1 DEF LogOK, c
  <2>2. CASE i = f /\ m > e
    <3>1. m \in DOMAIN c /\ files[i][m] = c[m] /\ e < m
      BY <1>5, <1>10, <2>2 DEF c
    <3>2. QED
      BY <1>4, <1>10, <1>11, <1>13, <3>1, Past
  <2>3. QED
    BY <2>1, <2>2
<1>22. c[e][1] < nextP[1]
  <2>1. c # <<>>
    BY <1>10
  <2>2. CASE f < wfile
    BY <1>2, <1>3, <1>10, <2>2 DEF LogOK, c
  <2>3. CASE f = wfile
    <3> DEFINE n == Len(c)
    <3>1. nextP = After(c[n]) /\ n \in DOMAIN c /\ e <= n /\ n \in Nat
      BY <1>1, <1>2, <1>5, <1>10, <2>1, <2>3 DEF LogOK, GoesOn, c
    <3> HIDE DEF n
    <3>2. c[n] \in Pieces
      BY <1>4, <3>1
    <3>3. c[n][1] \in Nat
      BY <3>2, PieceType, LogTailAssumption
    <3>4. nextP[1] = IF EndsLine(c[n]) THEN c[n][1] + 1 ELSE c[n][1]
      BY <3>1, <3>3 DEF After
    <3>5. CASE e = n
      BY <1>11, <3>3, <3>4, <3>5
    <3>6. CASE e < n
      <4>1. c[e][1] < c[n][1]
        BY <1>4, <1>10, <1>11, <1>13, <3>1, <3>6, Past
      <4>2. QED
        BY <1>20, <3>3, <3>4, <4>1
    <3>7. QED
      BY <1>10, <3>1, <3>5, <3>6
  <2>4. CASE f > wfile
    BY <1>2, <1>3, <2>1, <2>4 DEF LogOK, c
  <2>5. QED
    BY <1>3, <2>2, <2>3, <2>4
<1> DEFINE g == Len(handled)
<1>23. /\ handled \in Seq(Seq(Pieces)) /\ g \in Nat /\ DOMAIN handled = 1..g
       /\ Given = handled /\ Given' = Append(handled, line')
  BY <1>1 DEF Given, Types, TypeOK
<1>24. DOMAIN Given' = 1..(g + 1) /\ Given'[g + 1] = line' /\ \A x \in 1..g : Given'[x] = handled[x]
  BY <1>12, <1>23
<1> HIDE DEF g
<1>25. InOrder'
  <2>1. ASSUME NEW x \in 1..(g + 1)
        PROVE  IsLine(Given'[x]) /\ (x > 1 => Given'[x - 1][1][1] < Given'[x][1][1])
    <3>1. CASE x \in 1..g
      <4>1. IsLine(handled[x]) /\ (x > 1 => handled[x - 1][1][1] < handled[x][1][1])
        BY <1>2, <1>23, <3>1 DEF InOrder
      <4>2. x > 1 => x - 1 \in 1..g
        BY <1>23, <3>1
      <4>3. QED
        BY <1>24, <3>1, <4>1, <4>2
    <3>2. CASE x = g + 1
      <4>1. x > 1 => g \in 1..g /\ x - 1 = g
        BY <1>23, <3>2
      <4>2. x > 1 => handled[g][1][1] < c[s + 1][1]
        <5>1. s + 1 \in DOMAIN files[f] /\ s + 1 > Begin
          BY <1>7, <1>10 DEF c, s
        <5>2. g \in 1..g => handled[g][1][1] < files[f][s + 1][1]
          BY <1>2, <1>3, <1>23, <5>1 DEF Behind
        <5>3. QED
          BY <4>1, <5>2 DEF c
      <4>3. QED
        BY <1>14, <1>24, <3>2, <4>1, <4>2
    <3>3. QED
      BY <1>23, <3>1, <3>2
  <2>2. QED
    BY <1>1, <1>24, <2>1 DEF InOrder, IsLine
<1>26. Behind'
  <2>1. ASSUME NEW x \in 1..(g + 1)
        PROVE  /\ Given'[x][1][1] < nextP[1]
               /\ \A i \in DOMAIN files : \A m \in DOMAIN files[i] :
                     (i > f \/ (i = f /\ m > e)) => Given'[x][1][1] < files[i][m][1]
    <3>1. CASE x \in 1..g
      <4>1. /\ handled[x][1][1] < nextP[1]
            /\ \A i \in DOMAIN files : \A m \in DOMAIN files[i] :
                  (i > f \/ (i = f /\ m > s)) => handled[x][1][1] < files[i][m][1]
        BY <1>2, <1>23, <3>1 DEF Behind, s
      <4>2. \A i \in DOMAIN files : \A m \in DOMAIN files[i] : m > e => m > s
        <5>1. \A i \in DOMAIN files : \A m \in DOMAIN files[i] : m \in Nat
          <6>1. \A i \in DOMAIN files : files[i] \in Seq(Pieces)
            BY HeldType
          <6>2. QED
            BY <6>1
        <5>2. QED
          BY <1>7, <1>10, <5>1
      <4>3. Given'[x] = handled[x]
        BY <1>24, <3>1
      <4>4. QED
        BY <4>1, <4>2, <4>3
    <3>2. CASE x = g + 1
      BY <1>14, <1>21, <1>22, <1>24, <3>2
    <3>3. QED
      BY <1>23, <3>1, <3>2
  <2>2. files' = files /\ f' = f /\ nextP' = nextP
    BY <1>1
  <2>3. QED
    BY <1>17, <1>24, <2>1, <2>2 DEF Behind
<1>27. QED
  BY <1>18, <1>19, <1>25, <1>26

----------------------------------------------------------------------------
(* A log that holds the beginning of a line, or one line.                   *)
LEMMA FirstFile ==
    ASSUME NEW k \in 0..LineLen
    PROVE  /\ Orderly(SubSeq(Whole(1), 1, k))
           /\ GoesOn(SubSeq(Whole(1), 1, k), IF k = LineLen THEN <<2, 1>> ELSE <<1, k + 1>>)
<1> DEFINE c == SubSeq(Whole(1), 1, k)
<1> DEFINE p == IF k = LineLen THEN <<2, 1>> ELSE <<1, k + 1>>
<1>1. LineLen \in Nat \ {0} /\ 1 \in 1..MaxLines
  BY LogTailAssumption
<1>2. Whole(1) \in Seq(Pieces) /\ Len(Whole(1)) = LineLen /\ \A x \in 1..LineLen : Whole(1)[x] = <<1, x>>
  BY <1>1, WholeType
<1>3. c \in Seq(Pieces) /\ Len(c) = k /\ DOMAIN c = 1..k /\ \A x \in 1..k : c[x] = <<1, x>>
  BY <1>1, <1>2
<1>4. k = LineLen => p = <<2, 1>>
  OBVIOUS
<1>5. k # LineLen => p = <<1, k + 1>>
  OBVIOUS
<1> HIDE DEF c, p
<1>6. Orderly(c)
  <2>1. \A x \in 1..k : c[x][1] = 1 /\ c[x][2] = x
    BY <1>3
  <2>2. \A x, y \in DOMAIN c : x < y => c[y][1] = c[x][1] /\ c[y][2] = c[x][2] + (y - x)
    BY <1>3, <2>1
  <2>3. ASSUME NEW x \in DOMAIN c, x = 1 \/ EndsLine(c[x - 1])
        PROVE  c[x][2] = 1
    <3>1. x \in 1..k
      BY <1>3
    <3>2. CASE x # 1
      <4>1. x - 1 \in 1..k /\ x - 1 # LineLen
        BY <1>1, <3>1, <3>2
      <4>2. QED
        BY <2>1, <2>3, <3>2, <4>1 DEF EndsLine
    <3>3. QED
      BY <2>1, <3>1, <3>2
  <2>4. QED
    BY <2>2, <2>3 DEF Orderly
<1>7. GoesOn(c, p)
  <2>1. CASE k = 0
    <3>1. c = <<>> /\ p[2] = 1
      BY <1>1, <1>3, <1>5, <2>1
    <3>2. QED
      BY <3>1 DEF GoesOn
  <2>2. CASE k # 0
    <3>1. c # <<>> /\ c[Len(c)] = <<1, k>>
      BY <1>3, <2>2
    <3>2. After(<<1, k>>) = p
      <4>1. CASE k = LineLen
        BY <1>4, <4>1 DEF After, EndsLine
      <4>2. CASE k # LineLen
        BY <1>5, <4>2 DEF After, EndsLine
      <4>3. QED
        BY <4>1, <4>2
    <3>3. QED
      BY <3>1, <3>2 DEF GoesOn
  <2>3. QED
    BY <2>1, <2>2
<1>8. QED
  BY <1>6, <1>7 DEF c, p

LEMMA InitReads == Init => Reads
<1> SUFFICES ASSUME Init PROVE LogOK /\ (f # 0 => Aligned) /\ InOrder /\ Behind
  BY DEF Reads
<1>1. f = 0 /\ Given = <<>> /\ wfile = path
  BY DEF Init, Given
<1>2. InOrder /\ Behind
  BY <1>1 DEF InOrder, Behind
<1>3. LogOK
  <2>1. CASE files = <<>> /\ path = 0
    BY <1>1, <2>1 DEF LogOK
  <2>2. ASSUME NEW k \in 0..LineLen, files = <<SubSeq(Whole(1), 1, k)>>, path = 1,
               nextP = IF k = LineLen THEN <<2, 1>> ELSE <<1, k + 1>>
        PROVE  LogOK
    <3> DEFINE c == SubSeq(Whole(1), 1, k)
    <3>1. Orderly(c) /\ GoesOn(c, nextP)
      BY <2>2, FirstFile
    <3>2. DOMAIN files = {1} /\ files[1] = c /\ wfile = 1
      BY <1>1, <2>2
    <3> HIDE DEF c
    <3>3. QED
      BY <3>1, <3>2 DEF LogOK
  <2>3. QED
    BY <2>1, <2>2 DEF Init
<1>4. QED
  BY <1>1, <1>2, <1>3

LEMMA NextReads == ASSUME Fits PROVE Types /\ Reads /\ [Next]_vars => Reads'
<1> SUFFICES ASSUME Types, Reads, [Next]_vars PROVE Reads'
  OBVIOUS
<1>1. CASE UNCHANGED vars
  BY <1>1, QuietReads
<1>2. CASE TailStep
  BY <1>2, OpenReads, QuietReads, ReadLineReads, FillReads, ReadEOFReads, CheckRotationReads, ReopenReads
     DEF TailStep
<1>3. CASE WriterOpen \/ Write \/ RenameAway \/ CreateLog \/ Truncate \/ Take \/ Stop
  BY <1>3, WriterOpenReads, WriteReads, CreateLogReads, QuietReads
<1>4. QED
  BY <1>1, <1>2, <1>3 DEF Next

(* Run and handleLine of logtailer.go: if a line fits into what the         *)
(* tailer keeps of an unfinished one (maxLogLineLen), every line handed to  *)
(* the parsers is one whole line of the log, each later than the one before,*)
(* however the writer's pieces, the reads and rename rotations interleave.  *)
(* Only the line being written when the tailer started may lack its         *)
(* beginning.  A longer line loses its beginning at an end of file.         *)
THEOREM LinesWhole == Fits => (Spec => []WholeLinesInOrder)
<1> SUFFICES ASSUME Fits PROVE Spec => []WholeLinesInOrder
  OBVIOUS
<1>1. Types /\ Reads => WholeLinesInOrder
  <2> SUFFICES ASSUME Types, Reads, ~cut, NEW k \in DOMAIN handled
               PROVE  IsLine(handled[k]) /\ (k > 1 => handled[k - 1][1][1] < handled[k][1][1])
    BY DEF WholeLinesInOrder
  <2>1. handled \in Seq(Seq(Pieces)) /\ line \in Seq(Pieces)
    BY DEF Types, TypeOK
  <2>2. k \in DOMAIN Given /\ Given[k] = handled[k] /\ (k > 1 => Given[k - 1] = handled[k - 1])
    BY <2>1 DEF Given
  <2>3. QED
    BY <2>2 DEF Reads, InOrder
<1>2. Init => Types /\ Reads
  BY InitTypes, InitReads
<1>3. Types /\ Reads /\ [Next]_vars => (Types /\ Reads)'
  BY NextTypes, NextReads
<1>4. QED
  BY <1>1, <1>2, <1>3, PTL DEF Spec
=============================================================================
