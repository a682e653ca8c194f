---- MODULE LogTail ----
(***************************************************************************)
(* The log viewer: the syslog daemon writes /var/log/ufw.log and rotates   *)
(* it, Helper::viewlog reads it line by line meanwhile and returns the     *)
(* firewall's lines after the last one that the viewer has, and LogViewer  *)
(* appends them to its list.  A refresh that KAuth refuses, being busy,    *)
(* changes nothing.                                                        *)
(***************************************************************************)
EXTENDS Naturals, Sequences

CONSTANTS
    MaxLines    \* bound on the lines that are ever logged

ASSUME LogTailAssumption == MaxLines \in Nat

VARIABLES
    file,       \* the log file
    written,    \* number of lines logged so far; it identifies a line
    list,       \* what LogViewer has parsed: one line for each row, but for
                \* lines that are too short for one
    lastLine,   \* the last line that a reply had
    call,       \* the refresh in flight
    reader,     \* the file as the helper has it open
    torn,       \* history: a reply has had a line that was not whole
    split       \* history: both parts of a line were read one after the other

vars == <<file, written, list, lastLine, call, reader, torn, split>>

\* Firewall lines are told apart by their kernel time stamp.  A line of
\* another kind does not have the mark " [UFW ".  What there is of a line is
\* all of it, or a part that is long enough to make a row or is not.
Lines   == [id : 1..MaxLines, ufw : BOOLEAN, part : {"short", "long", "whole"}]
NoLine  == [id |-> 0, ufw |-> FALSE, part |-> "short"]
NoCall  == [phase |-> "none", lines |-> <<>>]

\* current: the open file is still the log; lines: what it holds; pos: the
\* line that was read last; cut: what was there of that line, if not all.
Closed  == [current |-> FALSE, lines |-> <<>>, pos |-> 0, cut |-> NoLine]

Init ==
    /\ file = <<>> /\ written = 0
    /\ list = <<>> /\ lastLine = NoLine
    /\ call = NoCall /\ reader = Closed
    /\ torn = FALSE /\ split = FALSE

-----------------------------------------------------------------------------
(* The file *)

LastWhole == \A i \in DOMAIN file : i = Len(file) => file[i].part = "whole"

Write(lines) ==
    /\ file' = lines
    /\ reader' = IF reader.current THEN [reader EXCEPT !.lines = lines] ELSE reader
    /\ UNCHANGED <<list, lastLine, call, torn, split>>

\* The daemon writes a line, at once or in two parts; the mark can be in the
\* second one, or across both.
Log ==
    /\ written < MaxLines
    /\ LastWhole
    /\ written' = written + 1
    /\ \E ufw \in BOOLEAN, part \in {"short", "long", "whole"} :
         Write(Append(file, [id |-> written + 1, ufw |-> ufw, part |-> part]))

LogRest ==
    /\ ~LastWhole
    /\ \E ufw \in BOOLEAN :
         /\ file[Len(file)].ufw => ufw
         /\ Write([file EXCEPT ![Len(file)] = [id |-> @.id, ufw |-> ufw, part |-> "whole"]])
    /\ UNCHANGED written

\* A file that is renamed stays open.
Rotate ==
    /\ file # <<>> /\ LastWhole
    /\ file' = <<>>
    /\ reader' = [reader EXCEPT !.current = FALSE]
    /\ UNCHANGED <<written, list, lastLine, call, torn, split>>

-----------------------------------------------------------------------------
(* Helper::viewlog *)

Open ==
    /\ call.phase = "asked"
    /\ call' = [call EXCEPT !.phase = "reading"]
    /\ reader' = [Closed EXCEPT !.current = TRUE, !.lines = file]
    /\ UNCHANGED <<file, written, list, lastLine, torn, split>>

\* The log file cannot be opened.
OpenFails ==
    /\ call.phase = "asked"
    /\ call' = [call EXCEPT !.phase = "failed"]
    /\ UNCHANGED <<file, written, list, lastLine, reader, torn, split>>

\* The line at pos was read in part, and now there is more of it.
Rest == reader.cut # NoLine /\ reader.lines[reader.pos].part = "whole"

atEnd == reader.pos = Len(reader.lines) /\ ~Rest

\* readLine: the rest of a line that was read in part, or the next line as
\* far as it has been written.
readLine ==
    IF Rest
    THEN LET line == reader.lines[reader.pos]
         IN  {[id |-> line.id, ufw |-> ufw, part |-> part] :
                ufw \in {u \in BOOLEAN : u => line.ufw /\ ~reader.cut.ufw},
                part \in {"short", "long"}}
    ELSE {reader.lines[reader.pos + 1]}

\* Defects for Collect: the mark is not looked for; the last line is not.
MCollectsEverything(lines, line, last) ==
    IF last # NoLine /\ line = last THEN <<>> ELSE Append(lines, line)
MNeverClears(lines, line, last) == IF ~line.ufw THEN lines ELSE Append(lines, line)

\* A firewall line is collected; the caller's last line throws away what was
\* collected before it.
Collect(lines, line, last) ==
    IF ~line.ufw THEN lines
    ELSE IF last # NoLine /\ line = last THEN <<>>
    ELSE Append(lines, line)

\* Defect for NextPos: the loop ends at the caller's last line.
MBreaksAtLast(line) == IF line = lastLine THEN Len(reader.lines)
                       ELSE IF Rest THEN reader.pos ELSE reader.pos + 1

NextPos(line) == IF Rest THEN reader.pos ELSE reader.pos + 1

\* One turn of the loop.
ReadLine ==
    /\ call.phase = "reading" /\ ~atEnd
    /\ \E line \in readLine :
         /\ call' = [call EXCEPT !.lines = Collect(@, line, lastLine)]
         /\ reader' = [reader EXCEPT !.pos = NextPos(line),
                                     !.cut = IF Rest \/ line.part = "whole" THEN NoLine ELSE line]
         /\ torn' = (torn \/ (line.ufw /\ line.part # "whole"))
         /\ split' = (split \/ Rest)
    /\ UNCHANGED <<file, written, list, lastLine>>

ReadEnd ==
    /\ call.phase = "reading" /\ atEnd
    /\ call' = [call EXCEPT !.phase = "read"]
    /\ reader' = Closed
    /\ UNCHANGED <<file, written, list, lastLine, torn, split>>

-----------------------------------------------------------------------------
(* LogViewer *)

\* refresh(): a call that KAuth refuses leaves no trace.
Refresh ==
    /\ call.phase = "none"
    /\ call' = [NoCall EXCEPT !.phase = "asked"]
    /\ UNCHANGED <<file, written, list, lastLine, reader, torn, split>>

\* queryPerformed: each line is parsed and becomes the last line.
QueryPerformed ==
    /\ call.phase \in {"read", "failed"}
    /\ list' = list \o call.lines
    /\ lastLine' = IF call.lines = <<>> THEN lastLine ELSE call.lines[Len(call.lines)]
    /\ call' = NoCall
    /\ UNCHANGED <<file, written, reader, torn, split>>

\* parse() makes a row of a line that has enough words.
Rows(lines) == {i \in DOMAIN lines : lines[i].part # "short"}

Next == Log \/ LogRest \/ Rotate \/ Refresh \/ Open \/ OpenFails \/ ReadLine \/ ReadEnd
        \/ QueryPerformed

Spec == Init /\ [][Next]_vars

-----------------------------------------------------------------------------
(* Properties *)

\* Every variable keeps to its type; the viewer holds firewall lines only.
TypeOK ==
    /\ file \in Seq(Lines) /\ list \in Seq(Lines)
    /\ written \in 0..MaxLines
    /\ lastLine \in Lines \cup {NoLine}
    /\ call \in [phase : {"none", "asked", "reading", "read", "failed"}, lines : Seq(Lines)]
    /\ reader \in [current : BOOLEAN, lines : Seq(Lines), pos : Nat, cut : Lines \cup {NoLine}]
    /\ torn \in BOOLEAN /\ split \in BOOLEAN
    /\ \A i \in DOMAIN list : list[i].ufw

\* The list once a reply that is on its way has been shown.
Shown == list \o IF call.phase = "read" THEN call.lines ELSE <<>>

\* Across refreshes, rotations and failed reads, and whatever is logged while
\* the helper reads, every line is shown once, in the order in which it was
\* logged, until a reply has a part of a line: the search cannot find that
\* line again.
EachLineOnceInOrder ==
    ~torn => \A i, j \in Rows(Shown) : i < j => Shown[i].id < Shown[j].id

\* A refresh shows every whole firewall line that the file has when the
\* reading ends: the search for the last line skips nothing, not even after a
\* reply that ended with a part of a line.  Only a line that was completed
\* between two turns of the loop can be missed.
RefreshShowsAll ==
    [][call.phase = "reading" /\ call'.phase = "read" /\ ~split
         => \A i \in DOMAIN reader.lines :
              reader.lines[i].ufw /\ reader.lines[i].part = "whole"
              => \E k \in Rows(Shown') : Shown'[k] = reader.lines[i]]_vars
====
