---- MODULE LogTailProofs ----
(***************************************************************************)
(* The log viewer shows every line once and in order, and misses none,     *)
(* whatever is logged or rotated while the helper reads: theorems about    *)
(* LogTail.                                                                *)
(***************************************************************************)
EXTENDS LogTail, SequenceTheorems, TLAPS

-----------------------------------------------------------------------------
(* The inductive invariant *)

Elems(lines) == {lines[n] : n \in DOMAIN lines}

Rising(lines) == \A i, j \in DOMAIN lines : i < j => lines[i].id < lines[j].id

\* Only the last line can be unfinished.
Heads(lines) == \A i \in DOMAIN lines : i < Len(lines) => lines[i].part = "whole"

\* The file holds the last lines that were logged, without a gap.
FileInv ==
    /\ Len(file) <= written
    /\ \A i \in DOMAIN file : file[i].id + Len(file) = written + i
    /\ Heads(file)

\* A line that was read: if it was whole, the file has it as it was read.
Past(line) ==
    /\ line.id <= written
    /\ line.part = "whole" => \A i \in DOMAIN file : file[i].id = line.id => file[i] = line

CallInv ==
    /\ call.phase \in {"none", "asked", "failed"} => call.lines = <<>>
    /\ Past(lastLine) /\ (lastLine # NoLine => lastLine.ufw)
    /\ \A k \in DOMAIN call.lines : Past(call.lines[k]) /\ call.lines[k].ufw

\* The open file is the log, or it was rotated and all of it is older.
ReaderInv ==
    /\ call.phase # "reading" => reader = Closed
    /\ reader.current => reader.lines = file
    /\ reader.pos <= Len(reader.lines)
    /\ Rising(reader.lines) /\ Heads(reader.lines)
    /\ \A i \in DOMAIN reader.lines : reader.lines[i].id <= written
    /\ ~reader.current =>
         \A i \in DOMAIN reader.lines, j \in DOMAIN file : reader.lines[i].id < file[j].id
    /\ reader.cut # NoLine => reader.pos # 0 /\ (Rest \/ reader.lines[reader.pos] = reader.cut)
    /\ reader.cut = NoLine /\ reader.pos # 0 => reader.lines[reader.pos].part = "whole"
    /\ call.phase = "reading" =>
         \A k \in DOMAIN call.lines :
            reader.pos # 0 /\ call.lines[k].id <= reader.lines[reader.pos].id

Follow(lines, from) == \A i \in DOMAIN lines : i > from => lines[i].id > lastLine.id

\* While every reply had whole lines only: what was collected is newer than
\* what the viewer has, or the last line is still to be read.
OrderInv ==
    /\ lastLine # NoLine => lastLine.part = "whole"
    /\ \A i \in DOMAIN list : list[i].id <= lastLine.id
    /\ Rising(list) /\ Rising(call.lines)
    /\ \A k \in DOMAIN call.lines : call.lines[k].part = "whole"
    /\ \/ Follow(call.lines, 0) /\ Follow(reader.lines, reader.pos)
       \/ \E j \in DOMAIN reader.lines : j > reader.pos /\ reader.lines[j] = lastLine

\* All firewall lines up to the place of line last are among those held.
UpTo(lines, last, held) ==
    \A k \in DOMAIN lines : lines[k] = last =>
        \A i \in 1..k : lines[i].ufw => lines[i] \in held

Had == Elems(list) \cup Elems(call.lines)

\* While no line was read in two parts: nothing before the last line is
\* missing from the list.
ShowInv ==
    /\ UpTo(file, lastLine, Elems(list)) /\ UpTo(reader.lines, lastLine, Elems(list))
    /\ \A i \in 1..reader.pos :
         reader.lines[i].ufw /\ ~(i = reader.pos /\ Rest) => reader.lines[i] \in Had
    /\ call.phase = "read" /\ call.lines # <<>> => UpTo(file, call.lines[Len(call.lines)], Had)

IInv == /\ TypeOK /\ FileInv /\ CallInv /\ ReaderInv
        /\ ~torn => OrderInv
        /\ ~split => ShowInv

-----------------------------------------------------------------------------
(* The file changes *)

\* A line has a number of its own and is not the empty line.
LEMMA LineType == \A line \in Lines : /\ line.id \in 1..MaxLines /\ line.id \in Nat /\ line.id # 0
                                      /\ line.ufw \in BOOLEAN /\ line # NoLine
    BY LogTailAssumption DEF Lines, NoLine

\* The invariant holds before anything is logged or read.
LEMMA InitIInv == Init => IInv
<1> SUFFICES ASSUME Init PROVE IInv
    OBVIOUS
<1> USE DEF Init, NoCall, Closed, NoLine
<1>1. TypeOK
    <2>1. <<>> \in Seq(Lines)
        OBVIOUS
    <2>2. call \in [phase : {"none", "asked", "reading", "read", "failed"}, lines : Seq(Lines)]
        BY <2>1
    <2>3. reader \in [current : BOOLEAN, lines : Seq(Lines), pos : Nat, cut : Lines \cup {NoLine}]
        BY <2>1
    <2>4. 0 \in 0..MaxLines
        BY LogTailAssumption
    <2>5. torn \in BOOLEAN /\ split \in BOOLEAN
        OBVIOUS
    <2>6. file \in Seq(Lines) /\ list \in Seq(Lines) /\ \A i \in DOMAIN list : list[i].ufw
        BY <2>1
    <2>7. lastLine \in Lines \cup {NoLine} /\ written \in 0..MaxLines
        BY <2>4
    <2> QED  BY <2>2, <2>3, <2>5, <2>6, <2>7 DEF TypeOK
<1>2. FileInv /\ CallInv /\ ReaderInv
    BY DEF FileInv, CallInv, ReaderInv, Past, Rising, Heads, Rest
<1>3. OrderInv /\ ShowInv
    BY DEF OrderInv, ShowInv, Rising, Follow, UpTo, Elems, Had
<1> QED  BY <1>1, <1>2, <1>3 DEF IInv

\* What both ways of writing to the file have in common: the line that is
\* written is the last one, and no line that was read whole changes.
Written(lines) ==
    /\ lines \in Seq(Lines) /\ lines # <<>>
    /\ Len(lines) <= written'
    /\ written <= written' /\ written' \in 0..MaxLines
    /\ \A i \in DOMAIN lines : lines[i].id + Len(lines) = written' + i
    /\ Heads(lines)
    /\ Len(file) <= Len(lines)
    /\ \A i \in DOMAIN file : file[i].part = "whole" => lines[i] = file[i]
    /\ \A i \in DOMAIN lines :
         \/ i \in DOMAIN file /\ lines[i] = file[i]
         \/ i = Len(lines) /\ i \notin DOMAIN file /\ lines[i].id = written + 1
         \/ /\ i = Len(lines) /\ i \in DOMAIN file /\ file[i].part # "whole"
            /\ lines[i].id = file[i].id /\ lines[i].part = "whole"

\* Logging a line replaces the file by one that has only grown at its end.
LEMMA LogWrites ==
    ASSUME IInv, Log
    PROVE  \E lines \in Seq(Lines) : Written(lines) /\ Write(lines)
<1>1. PICK ufw \in BOOLEAN, part \in {"short", "long", "whole"} :
         Write(Append(file, [id |-> written + 1, ufw |-> ufw, part |-> part]))
    BY DEF Log
<1> DEFINE line == [id |-> written + 1, ufw |-> ufw, part |-> part]
           lines == Append(file, line)
<1>2. written' = written + 1 /\ written < MaxLines /\ written \in Nat /\ MaxLines \in Nat
    BY LogTailAssumption DEF Log, IInv, TypeOK
<1>3. line \in Lines /\ file \in Seq(Lines)
    BY <1>2 DEF Lines, IInv, TypeOK
<1>4. /\ lines \in Seq(Lines) /\ Len(lines) = Len(file) + 1
      /\ \A i \in DOMAIN file : i \in DOMAIN lines /\ lines[i] = file[i]
      /\ lines[Len(lines)] = line
      /\ DOMAIN lines = 1..Len(file) + 1 /\ DOMAIN file = 1..Len(file)
    BY <1>3
<1> HIDE DEF lines
<1>5. Heads(lines)
    BY <1>4 DEF Heads, Log, LastWhole, IInv, FileInv
<1>6. ASSUME NEW i \in DOMAIN lines
      PROVE  lines[i].id + Len(lines) = written' + i
    <2>1. CASE i = Len(lines)
        BY <1>2, <1>3, <1>4, <2>1
    <2>2. CASE i # Len(lines)
        <3>1. i \in DOMAIN file /\ i \in Nat /\ Len(file) \in Nat
            BY <1>3, <1>4, <2>2
        <3>2. file[i].id \in Nat /\ file[i].id + Len(file) = written + i
            BY <1>3, <3>1, LineType DEF IInv, FileInv
        <3>3. lines[i].id = file[i].id /\ Len(lines) = Len(file) + 1 /\ written' = written + 1
            BY <1>2, <1>4, <3>1
        <3> HIDE DEF line
        <3> QED  BY <1>2, <3>1, <3>2, <3>3
    <2> QED  BY <2>1, <2>2
<1>7. \A i \in DOMAIN lines :
         \/ i \in DOMAIN file /\ lines[i] = file[i]
         \/ i = Len(lines) /\ i \notin DOMAIN file /\ lines[i].id = written + 1
    BY <1>3, <1>4
<1>8. lines # <<>> /\ Len(file) <= written /\ Len(file) \in Nat
    BY <1>3, <1>4 DEF IInv, FileInv
<1>9. Written(lines)
    <2>1. lines \in Seq(Lines) /\ lines # <<>> /\ Len(lines) <= written' /\ Len(file) <= Len(lines)
        BY <1>2, <1>3, <1>4, <1>8
    <2>2. written <= written' /\ written' \in 0..MaxLines
        BY <1>2
    <2>3. \A i \in DOMAIN file : file[i].part = "whole" => lines[i] = file[i]
        BY <1>4
    <2> QED  BY <1>5, <1>6, <1>7, <2>1, <2>2, <2>3 DEF Written
<1> QED  BY <1>1, <1>4, <1>9 DEF lines

\* So does the rest of a line that was half written.
LEMMA LogRestWrites ==
    ASSUME IInv, LogRest
    PROVE  \E lines \in Seq(Lines) : Written(lines) /\ Write(lines)
<1>1. PICK ufw \in BOOLEAN :
         Write([file EXCEPT ![Len(file)] = [id |-> @.id, ufw |-> ufw, part |-> "whole"]])
    BY DEF LogRest
<1> DEFINE last  == Len(file)
           lines == [file EXCEPT ![last] = [id |-> @.id, ufw |-> ufw, part |-> "whole"]]
<1>2. /\ file \in Seq(Lines) /\ last \in DOMAIN file /\ file[last].part # "whole"
      /\ written' = written
    BY DEF LogRest, LastWhole, IInv, TypeOK
<1>3. file[last] \in Lines
    BY <1>2
<1>4. [id |-> file[last].id, ufw |-> ufw, part |-> "whole"] \in Lines
    BY <1>3 DEF Lines
<1>5. /\ lines \in Seq(Lines) /\ Len(lines) = Len(file)
      /\ DOMAIN lines = DOMAIN file /\ DOMAIN file = 1..Len(file)
      /\ \A i \in DOMAIN file : i # last => lines[i] = file[i]
      /\ lines[last] = [id |-> file[last].id, ufw |-> ufw, part |-> "whole"]
    BY <1>2, <1>4, ExceptSeq
<1> HIDE DEF lines
<1>6. lines[last].id = file[last].id /\ lines[last].part = "whole"
    BY <1>3, <1>5 DEF Lines
<1>7. Heads(lines)
    BY <1>2, <1>5, <1>6 DEF Heads, IInv, FileInv
<1>8. \A i \in DOMAIN lines : lines[i].id + Len(lines) = written' + i
    BY <1>2, <1>5, <1>6 DEF IInv, FileInv
<1>9. Written(lines)
    BY <1>2, <1>5, <1>6, <1>7, <1>8 DEF Written, IInv, FileInv, TypeOK, Heads
<1> QED  BY <1>1, <1>5, <1>9 DEF lines

\* A line that was read is not one that is written now.
LEMMA UpToWritten ==
    ASSUME NEW lines \in Seq(Lines), Written(lines), file \in Seq(Lines), written \in Nat,
           NEW last, Past(last), NEW held, UpTo(file, last, held)
    PROVE  UpTo(lines, last, held)
<1> SUFFICES ASSUME NEW k \in DOMAIN lines, lines[k] = last, NEW i \in 1..k, lines[i].ufw
             PROVE  lines[i] \in held
    BY DEF UpTo
<1>1. last.id \in Nat /\ DOMAIN lines = 1..Len(lines) /\ DOMAIN file = 1..Len(file)
    BY LineType
<1>2. k \in DOMAIN file /\ lines[k] = file[k]
    BY <1>1 DEF Written, Past
<1>3. i \in DOMAIN file /\ lines[i] = file[i]
    BY <1>1, <1>2 DEF Written
<1> QED  BY <1>2, <1>3 DEF UpTo

\* A file that has grown at its end keeps the invariant.
LEMMA WriteKeeps ==
    ASSUME IInv, NEW lines \in Seq(Lines), Written(lines), Write(lines)
    PROVE  IInv'
<1> USE DEF Write
<1>1. /\ file \in Seq(Lines) /\ list \in Seq(Lines) /\ written \in Nat
      /\ call.lines \in Seq(Lines) /\ reader.lines \in Seq(Lines)
      /\ reader.pos \in Nat /\ reader.current \in BOOLEAN
    BY LogTailAssumption DEF IInv, TypeOK
<1>2. /\ file' = lines /\ reader'.pos = reader.pos /\ reader'.cut = reader.cut
      /\ reader'.current = reader.current
      /\ reader'.lines = IF reader.current THEN lines ELSE reader.lines
    BY DEF IInv, TypeOK
<1>3. /\ DOMAIN lines = 1..Len(lines) /\ DOMAIN file = 1..Len(file) /\ written' \in Nat
      /\ DOMAIN reader.lines = 1..Len(reader.lines)
      /\ \A i \in DOMAIN lines : lines[i].id \in Nat
      /\ \A i \in DOMAIN file : /\ i \in DOMAIN lines /\ lines[i].id = file[i].id
                                /\ file[i].id \in Nat
      /\ \A i \in DOMAIN lines : i \notin DOMAIN file => lines[i].id = written + 1
      /\ \A i \in DOMAIN reader.lines : reader.lines[i].id \in Nat
    BY <1>1, LineType, LogTailAssumption DEF Written
<1>10. ASSUME NEW line, Past(line), line.id \in Nat
       PROVE  /\ line.id <= written'
              /\ line.part = "whole" =>
                   \A i \in DOMAIN lines : lines[i].id = line.id => lines[i] = line
    BY <1>1, <1>3, <1>10 DEF Written, Past
<1>11. Rising(lines) /\ \A i \in DOMAIN lines : lines[i].id <= written'
    <2>1. ASSUME NEW i \in DOMAIN lines
          PROVE  lines[i].id + Len(lines) = written' + i /\ i \in 1..Len(lines) /\ i \in Nat
        BY <1>3 DEF Written
    <2>2. Len(lines) \in Nat
        OBVIOUS
    <2>3. \A i \in DOMAIN lines : lines[i].id <= written'
        BY <1>3, <2>1, <2>2
    <2> QED  BY <1>3, <2>1, <2>2, <2>3 DEF Rising
<1>4. TypeOK'
    <2>1. reader' \in [current : BOOLEAN, lines : Seq(Lines), pos : Nat, cut : Lines \cup {NoLine}]
        BY DEF IInv, TypeOK
    <2> QED  BY <2>1 DEF IInv, TypeOK, Written
<1>5. FileInv'
    BY <1>2 DEF FileInv, Written
<1>6. CallInv'
    <2>1. lastLine.id \in Nat /\ \A k \in DOMAIN call.lines : call.lines[k].id \in Nat
        BY <1>1, LineType DEF IInv, TypeOK, NoLine
    <2>2. Past(lastLine)'
        BY <1>2, <1>10, <2>1 DEF IInv, CallInv, Past
    <2>3. \A k \in DOMAIN call.lines : Past(call.lines[k])'
        BY <1>2, <1>10, <2>1 DEF IInv, CallInv, Past
    <2> QED  BY <2>2, <2>3 DEF IInv, CallInv
<1>7. ReaderInv'
    <2> USE DEF IInv, ReaderInv
    <2>1. (call.phase # "reading" => reader = Closed)'
        <3>1. ~reader.current => reader' = reader
            OBVIOUS
        <3>2. call.phase # "reading" => ~reader.current
            BY DEF Closed
        <3> QED  BY <3>1, <3>2 DEF Closed
    <2>2. (reader.current => reader.lines = file)'
        BY <1>1, <1>2
    <2>3. (reader.pos <= Len(reader.lines))'
        BY <1>1, <1>2 DEF Written
    <2>5. Heads(reader.lines)' /\ Rising(reader.lines)'
        BY <1>2, <1>11 DEF Written, Heads, Rising
    <2>6. (\A i \in DOMAIN reader.lines : reader.lines[i].id <= written)'
        <3>1. CASE reader.current
            BY <1>2, <1>11, <3>1
        <3>2. CASE ~reader.current
            <4>1. \A i \in DOMAIN reader.lines : reader.lines[i].id <= written
                OBVIOUS
            <4>2. written <= written'
                BY DEF Written
            <4>3. \A i \in DOMAIN reader.lines : reader.lines[i].id \in Nat
                BY <1>3
            <4> HIDE DEF ReaderInv, IInv, Write
            <4>4. \A i \in DOMAIN reader.lines : reader.lines[i].id <= written'
                BY <1>1, <1>3, <4>1, <4>2, <4>3
            <4> QED  BY <1>2, <3>2, <4>4
        <3> QED  BY <3>1, <3>2
    <2>7. (~reader.current => \A i \in DOMAIN reader.lines, j \in DOMAIN file :
                                  reader.lines[i].id < file[j].id)'
        <3> SUFFICES ASSUME ~reader.current, NEW i \in DOMAIN reader.lines, NEW j \in DOMAIN lines
                     PROVE  reader.lines[i].id < lines[j].id
            BY <1>2
        <3>1. CASE j \in DOMAIN file
            BY <1>3, <3>1
        <3>2. CASE j \notin DOMAIN file
            BY <1>1, <1>3, <3>2
        <3> QED  BY <3>1, <3>2
    <2>8. (reader.cut # NoLine => reader.pos # 0 /\ (Rest \/ reader.lines[reader.pos] = reader.cut))'
        BY <1>1, <1>2 DEF Written, Rest
    <2>9. (reader.cut = NoLine /\ reader.pos # 0 => reader.lines[reader.pos].part = "whole")'
        BY <1>1, <1>2 DEF Written
    <2>10. (call.phase = "reading" => \A k \in DOMAIN call.lines :
               reader.pos # 0 /\ call.lines[k].id <= reader.lines[reader.pos].id)'
        BY <1>1, <1>2, <1>3
    <2> QED  BY <2>1, <2>2, <2>3, <2>5, <2>6, <2>7, <2>8, <2>9, <2>10
<1>8. ~torn' => OrderInv'
    <2> SUFFICES ASSUME ~torn PROVE OrderInv'
        OBVIOUS
    <2> USE DEF IInv, OrderInv
    <2>1. lastLine.id \in Nat /\ lastLine.id <= written
        BY LineType DEF TypeOK, NoLine, CallInv, Past
    <2>2. ASSUME Follow(call.lines, 0), Follow(reader.lines, reader.pos)
          PROVE  (Follow(call.lines, 0) /\ Follow(reader.lines, reader.pos))'
        <3>1. CASE ~reader.current
            BY <1>2, <2>2, <3>1 DEF Follow
        <3>2. CASE reader.current
            BY <1>1, <1>2, <1>3, <2>1, <2>2, <3>2 DEF Follow, ReaderInv
        <3> QED  BY <3>1, <3>2
    <2>3. ASSUME NEW j \in DOMAIN reader.lines, j > reader.pos, reader.lines[j] = lastLine
          PROVE  j \in DOMAIN reader'.lines /\ reader'.lines[j] = lastLine
        BY <1>1, <1>2, <2>3, LineType DEF Written, ReaderInv
    <2>4. (\/ Follow(call.lines, 0) /\ Follow(reader.lines, reader.pos)
           \/ \E j \in DOMAIN reader.lines : j > reader.pos /\ reader.lines[j] = lastLine)'
        BY <1>2, <2>2, <2>3
    <2> QED  BY <2>4 DEF Rising
<1>9. ~split' => ShowInv'
    <2> SUFFICES ASSUME ~split PROVE ShowInv'
        OBVIOUS
    <2> USE DEF IInv, ShowInv
    <2>1. UpTo(file, lastLine, Elems(list))' /\ UpTo(reader.lines, lastLine, Elems(list))'
        <3>1. UpTo(lines, lastLine, Elems(list))
            BY <1>1, UpToWritten DEF CallInv
        <3> QED  BY <1>2, <3>1 DEF UpTo, Elems
    <2>2. (\A i \in 1..reader.pos :
             reader.lines[i].ufw /\ ~(i = reader.pos /\ Rest) => reader.lines[i] \in Had)'
        <3> SUFFICES ASSUME NEW i \in 1..reader.pos, reader'.lines[i].ufw,
                            ~(i = reader.pos /\ Rest')
                     PROVE  reader'.lines[i] \in Had
            BY <1>2 DEF Had, Elems
        <3>1. CASE ~reader.current
            BY <1>2, <3>1 DEF Rest
        <3>2. CASE reader.current
            <4>1. i \in DOMAIN file /\ reader.lines = file
                BY <1>1, <3>2 DEF ReaderInv
            <4>2. lines[i] = file[i]
                BY <1>1, <1>2, <3>2, <4>1 DEF Written, ReaderInv, Rest
            <4> QED  BY <1>2, <3>2, <4>1, <4>2 DEF Rest
        <3> QED  BY <3>1, <3>2
    <2>3. (call.phase = "read" /\ call.lines # <<>> => UpTo(file, call.lines[Len(call.lines)], Had))'
        <3> SUFFICES ASSUME call.phase = "read", call.lines # <<>>
                     PROVE  UpTo(lines, call.lines[Len(call.lines)], Had)
            BY <1>2 DEF UpTo, Had, Elems
        <3>1. Len(call.lines) \in DOMAIN call.lines
            BY <1>1
        <3> QED  BY <1>1, <3>1, UpToWritten DEF CallInv
    <2> QED  BY <2>1, <2>2, <2>3
<1> QED  BY <1>4, <1>5, <1>6, <1>7, <1>8, <1>9 DEF IInv

\* A rotated file keeps it: the helper goes on reading the old one.
LEMMA RotateKeeps == IInv /\ Rotate => IInv'
<1> SUFFICES ASSUME IInv, Rotate PROVE IInv'
    OBVIOUS
<1>1. /\ file' = <<>> /\ reader'.current = FALSE /\ reader'.lines = reader.lines
      /\ reader'.pos = reader.pos /\ reader'.cut = reader.cut
      /\ (~reader.current => reader' = reader)
      /\ UNCHANGED <<written, list, lastLine, call, torn, split>>
    BY DEF Rotate, IInv, TypeOK
<1>2. TypeOK'
    <2>1. file' \in Seq(Lines)
        BY <1>1
    <2>2. reader' \in [current : BOOLEAN, lines : Seq(Lines), pos : Nat, cut : Lines \cup {NoLine}]
        BY DEF Rotate, IInv, TypeOK
    <2> QED  BY <1>1, <2>1, <2>2 DEF IInv, TypeOK
<1>3. FileInv' /\ CallInv'
    BY <1>1, LogTailAssumption DEF IInv, TypeOK, FileInv, CallInv, Heads, Past
<1>4. ReaderInv'
    <2>1. call.phase # "reading" => ~reader.current
        BY DEF IInv, ReaderInv, Closed
    <2>2. (call.phase # "reading" => reader = Closed)'
        BY <1>1, <2>1 DEF IInv, ReaderInv, Closed
    <2> QED  BY <1>1, <2>2 DEF IInv, ReaderInv, Rising, Heads, Rest
<1>5. ~torn' => OrderInv'
    BY <1>1 DEF IInv, OrderInv, Rising, Follow
<1>6. ~split' => ShowInv'
    BY <1>1 DEF IInv, ShowInv, UpTo, Elems, Had, Rest
<1> QED  BY <1>2, <1>3, <1>4, <1>5, <1>6 DEF IInv

-----------------------------------------------------------------------------
(* The helper reads the file *)

\* The lines of the file are numbered without a gap.
LEMMA FileRising ==
    ASSUME IInv
    PROVE  /\ Rising(file) /\ \A i \in DOMAIN file : file[i].id <= written
           /\ \A n \in Nat : n <= written /\ (\A i \in DOMAIN file : file[i].id # n)
                             => \A i \in DOMAIN file : n < file[i].id
<1>1. /\ file \in Seq(Lines) /\ DOMAIN file = 1..Len(file) /\ Len(file) \in Nat
      /\ written \in Nat /\ Len(file) <= written
    BY LogTailAssumption DEF IInv, TypeOK, FileInv
<1>2. \A i \in DOMAIN file : file[i].id \in Nat /\ file[i].id + Len(file) = written + i
    BY <1>1, LineType DEF IInv, FileInv
<1>3. Rising(file) /\ \A i \in DOMAIN file : file[i].id <= written
    BY <1>1, <1>2 DEF Rising
<1>4. ASSUME NEW n \in Nat, n <= written, \A i \in DOMAIN file : file[i].id # n,
             NEW i \in DOMAIN file
      PROVE  n < file[i].id
    <2> DEFINE k == n + Len(file) - written
    <2>1. SUFFICES ASSUME file[i].id <= n PROVE FALSE
        BY <1>1, <1>2
    <2>2. k \in DOMAIN file
        BY <1>1, <1>2, <1>4, <2>1
    <2>3. file[k].id + Len(file) = written + k
        BY <1>2, <2>2
    <2>4. file[k].id = n
        BY <1>1, <1>2, <2>2, <2>3
    <2> QED  BY <1>4, <2>2, <2>4
<1> QED  BY <1>3, <1>4

\* The helper opens the file.
LEMMA OpenKeeps == IInv /\ Open => IInv'
<1> SUFFICES ASSUME IInv, Open PROVE IInv'
    OBVIOUS
<1>1. /\ call.phase = "asked" /\ call.lines = <<>> /\ reader = Closed
      /\ call' = [phase |-> "reading", lines |-> <<>>]
      /\ reader' = [current |-> TRUE, lines |-> file, pos |-> 0, cut |-> NoLine]
      /\ UNCHANGED <<file, written, list, lastLine, torn, split>>
    BY DEF Open, IInv, TypeOK, CallInv, ReaderInv, Closed
<1>2. TypeOK'
    <2>1. <<>> \in Seq(Lines) /\ file \in Seq(Lines)
        BY DEF IInv, TypeOK
    <2> QED  BY <1>1, <2>1 DEF IInv, TypeOK
<1>3. FileInv' /\ CallInv'
    BY <1>1 DEF IInv, FileInv, CallInv, Heads, Past
<1>4. ReaderInv'
    BY <1>1, FileRising DEF IInv, TypeOK, FileInv, ReaderInv, Rising, Heads
<1>5. ~torn' => OrderInv'
    <2> SUFFICES ASSUME ~torn PROVE OrderInv'
        BY <1>1
    <2>2. lastLine.id \in Nat /\ lastLine.id <= written
        BY LineType DEF IInv, TypeOK, CallInv, Past, NoLine
    <2>3. CASE \A i \in DOMAIN file : file[i].id # lastLine.id
        <3>1. Follow(file, 0)
            BY <2>2, <2>3, FileRising, LineType DEF Follow, IInv, TypeOK
        <3> QED  BY <1>1, <3>1 DEF IInv, OrderInv, Follow, Rising
    <2>4. CASE \E i \in DOMAIN file : file[i].id = lastLine.id
        <3>1. PICK i \in DOMAIN file : file[i].id = lastLine.id
            BY <2>4
        <3>2. lastLine # NoLine /\ i > 0
            BY <3>1, LineType DEF IInv, TypeOK, NoLine
        <3>3. file[i] = lastLine
            BY <3>1, <3>2 DEF IInv, OrderInv, CallInv, Past
        <3> QED  BY <1>1, <3>1, <3>2, <3>3 DEF IInv, OrderInv, Rising
    <2> QED  BY <2>3, <2>4
<1>6. ~split' => ShowInv'
    BY <1>1 DEF IInv, ShowInv, UpTo, Elems, Had
<1> QED  BY <1>2, <1>3, <1>4, <1>5, <1>6 DEF IInv

\* The helper cannot open the file.
LEMMA OpenFailsKeeps == IInv /\ OpenFails => IInv'
<1> SUFFICES ASSUME IInv, OpenFails PROVE IInv'
    OBVIOUS
<1>1. /\ call.phase = "asked" /\ call.lines = <<>> /\ reader = Closed
      /\ call' = [phase |-> "failed", lines |-> <<>>]
      /\ UNCHANGED <<file, written, list, lastLine, reader, torn, split>>
    BY DEF OpenFails, IInv, TypeOK, CallInv, ReaderInv
<1>2. TypeOK' /\ FileInv' /\ CallInv'
    BY <1>1 DEF IInv, TypeOK, FileInv, CallInv, Heads, Past
<1>3. ReaderInv'
    BY <1>1 DEF IInv, ReaderInv, Rising, Heads, Rest
<1>4. (~torn' => OrderInv') /\ (~split' => ShowInv')
    BY <1>1 DEF IInv, OrderInv, Rising, Follow, ShowInv, UpTo, Elems, Had, Rest
<1> QED  BY <1>2, <1>3, <1>4 DEF IInv

\* The viewer asks for what follows its last line.
LEMMA RefreshKeeps == IInv /\ Refresh => IInv'
<1> SUFFICES ASSUME IInv, Refresh PROVE IInv'
    OBVIOUS
<1>1. /\ call.phase = "none" /\ call.lines = <<>> /\ reader = Closed
      /\ call' = [phase |-> "asked", lines |-> <<>>]
      /\ UNCHANGED <<file, written, list, lastLine, reader, torn, split>>
    BY DEF Refresh, NoCall, IInv, TypeOK, CallInv, ReaderInv
<1>2. TypeOK' /\ FileInv' /\ CallInv'
    BY <1>1 DEF IInv, TypeOK, FileInv, CallInv, Heads, Past
<1>3. ReaderInv'
    BY <1>1 DEF IInv, ReaderInv, Rising, Heads, Rest
<1>4. (~torn' => OrderInv') /\ (~split' => ShowInv')
    BY <1>1 DEF IInv, OrderInv, Rising, Follow, ShowInv, UpTo, Elems, Had, Rest
<1> QED  BY <1>2, <1>3, <1>4 DEF IInv

\* What one turn of the loop does to the reader.
LEMMA Turn ==
    ASSUME IInv, ReadLine
    PROVE  \E line \in Lines :
             /\ call.phase = "reading"
             /\ call' = [phase |-> "reading", lines |-> Collect(call.lines, line, lastLine)]
             /\ reader' = [current |-> reader.current, lines |-> reader.lines,
                           pos |-> NextPos(line),
                           cut |-> IF Rest \/ line.part = "whole" THEN NoLine ELSE line]
             /\ torn' = (torn \/ (line.ufw /\ line.part # "whole"))
             /\ split' = (split \/ Rest)
             /\ \/ /\ ~Rest /\ line = reader.lines[reader.pos + 1]
                   /\ reader.pos + 1 \in DOMAIN reader.lines
                \/ /\ Rest /\ reader.pos \in DOMAIN reader.lines /\ line.part # "whole"
                   /\ line.id = reader.lines[reader.pos].id
<1>1. PICK line \in readLine :
         /\ call' = [call EXCEPT !.lines = Collect(@, line, lastLine)]
         /\ reader' = [reader EXCEPT !.pos = NextPos(line),
                                     !.cut = IF Rest \/ line.part = "whole" THEN NoLine ELSE line]
         /\ torn' = (torn \/ (line.ufw /\ line.part # "whole"))
         /\ split' = (split \/ Rest)
    BY DEF ReadLine
<1>2. /\ reader.lines \in Seq(Lines) /\ DOMAIN reader.lines = 1..Len(reader.lines)
      /\ reader.pos \in Nat /\ reader.pos <= Len(reader.lines) /\ Len(reader.lines) \in Nat
    BY DEF IInv, TypeOK, ReaderInv
<1>3. CASE Rest
    <2>1. reader.pos \in DOMAIN reader.lines
        BY <1>2, <1>3 DEF Rest, IInv, ReaderInv
    <2>2. reader.lines[reader.pos] \in Lines
        BY <1>2, <2>1
    <2>3. PICK part \in {"short", "long"}, ufw \in BOOLEAN :
             line = [id |-> reader.lines[reader.pos].id, ufw |-> ufw, part |-> part]
        BY <1>1, <1>3 DEF readLine
    <2>4. line \in Lines /\ line.part # "whole" /\ line.id = reader.lines[reader.pos].id
        BY <2>2, <2>3 DEF Lines
    <2> QED  BY <1>1, <1>3, <2>1, <2>4 DEF ReadLine, IInv, TypeOK
<1>4. CASE ~Rest
    <2>1. reader.pos + 1 \in DOMAIN reader.lines
        BY <1>2, <1>4 DEF ReadLine, atEnd
    <2>2. line = reader.lines[reader.pos + 1] /\ line \in Lines
        BY <1>1, <1>2, <1>4, <2>1 DEF readLine
    <2> QED  BY <1>1, <1>4, <2>1, <2>2 DEF ReadLine, IInv, TypeOK
<1> QED  BY <1>3, <1>4

\* What is collected: nothing of the line, nothing but it was there before,
\* or the line as well.
LEMMA Collected ==
    ASSUME NEW lines \in Seq(Lines), NEW line \in Lines, NEW last
    PROVE  /\ Collect(lines, line, last) \in Seq(Lines)
           /\ ~line.ufw => Collect(lines, line, last) = lines
           /\ line.ufw /\ last # NoLine /\ line = last => Collect(lines, line, last) = <<>>
           /\ line.ufw /\ ~(last # NoLine /\ line = last) =>
                /\ Collect(lines, line, last) = Append(lines, line)
                /\ DOMAIN Append(lines, line) = 1..Len(lines) + 1
                /\ DOMAIN lines = 1..Len(lines)
                /\ \A i \in 1..Len(lines) : Append(lines, line)[i] = lines[i]
                /\ Append(lines, line)[Len(lines) + 1] = line
           /\ \A k \in DOMAIN Collect(lines, line, last) :
                \/ k \in DOMAIN lines /\ Collect(lines, line, last)[k] = lines[k]
                \/ k = Len(lines) + 1 /\ line.ufw /\ Collect(lines, line, last)[k] = line
    BY LineType DEF Collect

\* The helper reads a line, and collects it or passes it over.
LEMMA ReadLineKeeps == IInv /\ ReadLine => IInv'
<1> SUFFICES ASSUME IInv, ReadLine PROVE IInv'
    OBVIOUS
<1>1. PICK line \in Lines :
         /\ call.phase = "reading"
         /\ call' = [phase |-> "reading", lines |-> Collect(call.lines, line, lastLine)]
         /\ reader' = [current |-> reader.current, lines |-> reader.lines,
                       pos |-> NextPos(line),
                       cut |-> IF Rest \/ line.part = "whole" THEN NoLine ELSE line]
         /\ torn' = (torn \/ (line.ufw /\ line.part # "whole"))
         /\ split' = (split \/ Rest)
         /\ \/ /\ ~Rest /\ line = reader.lines[reader.pos + 1]
               /\ reader.pos + 1 \in DOMAIN reader.lines
            \/ /\ Rest /\ reader.pos \in DOMAIN reader.lines /\ line.part # "whole"
               /\ line.id = reader.lines[reader.pos].id
    BY Turn
<1> DEFINE lines == Collect(call.lines, line, lastLine)
           pos   == NextPos(line)
<1>2. UNCHANGED <<file, written, list, lastLine>>
    BY DEF ReadLine
<1>3. /\ reader.lines \in Seq(Lines) /\ DOMAIN reader.lines = 1..Len(reader.lines)
      /\ reader.pos \in Nat /\ Len(reader.lines) \in Nat /\ written \in Nat
      /\ file \in Seq(Lines) /\ call.lines \in Seq(Lines)
      /\ \A i \in DOMAIN reader.lines : reader.lines[i].id \in Nat
    BY LineType, LogTailAssumption DEF IInv, TypeOK
<1>4. /\ pos \in DOMAIN reader.lines /\ pos # 0 /\ line.id = reader.lines[pos].id
      /\ pos = (IF Rest THEN reader.pos ELSE reader.pos + 1)
    BY <1>1, <1>3 DEF NextPos
<1>5. lines \in Seq(Lines) /\ line.id \in Nat /\ line.ufw \in BOOLEAN
    BY <1>3, Collected, LineType
<1>6. \A k \in DOMAIN lines : \/ k \in DOMAIN call.lines /\ lines[k] = call.lines[k]
                              \/ k = Len(call.lines) + 1 /\ line.ufw /\ lines[k] = line
    BY <1>3, Collected
<1> HIDE DEF lines, pos
<1>7. call' = [phase |-> "reading", lines |-> lines] /\ reader'.pos = pos
      /\ reader'.lines = reader.lines /\ reader'.current = reader.current
      /\ reader'.cut = IF Rest \/ line.part = "whole" THEN NoLine ELSE line
    BY <1>1 DEF lines, pos
<1>8. TypeOK'
    <2>1. call' \in [phase : {"none", "asked", "reading", "read", "failed"}, lines : Seq(Lines)]
        BY <1>5, <1>7
    <2>2. reader' \in [current : BOOLEAN, lines : Seq(Lines), pos : Nat, cut : Lines \cup {NoLine}]
        BY <1>1, <1>3, <1>4 DEF pos, IInv, TypeOK
    <2>3. torn' \in BOOLEAN /\ split' \in BOOLEAN
        BY <1>1
    <2> QED  BY <1>2, <2>1, <2>2, <2>3 DEF IInv, TypeOK
<1>9. FileInv'
    BY <1>2 DEF IInv, FileInv, Heads
<1>10. CallInv'
    <2>1. line.id <= written
        BY <1>3, <1>4 DEF IInv, ReaderInv
    <2>2. ASSUME line.part = "whole", NEW i \in DOMAIN file, file[i].id = line.id
          PROVE  file[i] = line
        <3>1. line = reader.lines[pos]
            BY <1>1, <1>4, <2>2
        <3>2. CASE reader.current
            <4>1. reader.lines = file /\ Rising(file)
                BY <3>2, FileRising DEF IInv, ReaderInv
            <4>2. i = pos
                BY <1>3, <1>4, <2>2, <4>1 DEF Rising
            <4> QED  BY <3>1, <4>1, <4>2
        <3>3. CASE ~reader.current
            BY <1>3, <1>4, <2>2, <3>3 DEF IInv, ReaderInv
        <3> QED  BY <3>2, <3>3, <1>3 DEF IInv, TypeOK
    <2>3. Past(line)
        BY <2>1, <2>2 DEF Past
    <2>4. \A k \in DOMAIN lines : Past(lines[k]) /\ lines[k].ufw
        BY <1>6, <2>3 DEF IInv, CallInv
    <2> QED  BY <1>2, <1>7, <2>4 DEF IInv, CallInv, Past
<1>11. ReaderInv'
    <2>1. pos <= Len(reader.lines) /\ reader.pos <= pos
        BY <1>3, <1>4
    <2>2. (reader.cut # NoLine => reader.pos # 0 /\ (Rest \/ reader.lines[reader.pos] = reader.cut))'
        BY <1>1, <1>4, <1>7
    <2>3. (reader.cut = NoLine /\ reader.pos # 0 => reader.lines[reader.pos].part = "whole")'
        BY <1>1, <1>4, <1>7, LineType DEF Rest
    <2>4. \A k \in DOMAIN lines : lines[k].id <= reader.lines[pos].id
        <3>1. CASE Rest
            BY <1>1, <1>3, <1>4, <1>6, <3>1 DEF IInv, ReaderInv
        <3>2. CASE ~Rest
            <4>1. \A k \in DOMAIN call.lines : call.lines[k].id \in Nat
                BY <1>3, LineType
            <4>2. \A k \in DOMAIN call.lines :
                    reader.pos # 0 /\ call.lines[k].id <= reader.lines[reader.pos].id
                BY <1>1 DEF IInv, ReaderInv
            <4>3. reader.pos # 0 => reader.lines[reader.pos].id < reader.lines[pos].id
                BY <1>3, <1>4, <3>2 DEF IInv, ReaderInv, Rising
            <4>4. reader.pos # 0 => reader.pos \in DOMAIN reader.lines
                BY <1>3 DEF IInv, ReaderInv
            <4>5. \A k \in DOMAIN call.lines : call.lines[k].id <= reader.lines[pos].id
                BY <1>3, <1>4, <4>1, <4>2, <4>3, <4>4
            <4> QED  BY <1>3, <1>4, <1>6, <4>5
        <3> QED  BY <3>1, <3>2
    <2>5. Rising(reader.lines) /\ Heads(reader.lines)
        BY DEF IInv, ReaderInv
    <2> QED
        BY <1>1, <1>2, <1>4, <1>7, <2>1, <2>2, <2>3, <2>4, <2>5 DEF IInv, ReaderInv, Rising, Heads
<1>12. ~torn' => OrderInv'
    <2> SUFFICES ASSUME ~torn, line.ufw => line.part = "whole" PROVE OrderInv'
        BY <1>1
    <2>1. OrderInv /\ Rising(reader.lines)
        BY DEF IInv, ReaderInv
    <2>2. \A j \in DOMAIN reader.lines : reader.lines[j] = lastLine =>
              lastLine # NoLine /\ lastLine.ufw
        BY <1>3, LineType DEF IInv, CallInv
    <2>3. lastLine.id \in Nat /\ \A k \in DOMAIN call.lines : call.lines[k].id \in Nat
        BY <1>3, LineType DEF IInv, TypeOK, NoLine
    <2>4. CASE ~line.ufw
        <3>1. lines = call.lines
            BY <1>3, <2>4, Collected DEF lines
        <3>2. ASSUME Follow(reader.lines, reader.pos) PROVE Follow(reader.lines, pos)
            BY <1>3, <1>4, <3>2 DEF Follow
        <3>3. ASSUME NEW j \in DOMAIN reader.lines, j > reader.pos, reader.lines[j] = lastLine
              PROVE  j > pos
            BY <1>1, <1>3, <1>4, <2>2, <2>4, <3>3
        <3> QED  BY <1>2, <1>7, <2>1, <3>1, <3>2, <3>3 DEF OrderInv, Follow, Rising
    <2>5. CASE line.ufw
        <3>1. ~Rest /\ line = reader.lines[pos] /\ pos = reader.pos + 1 /\ line.part = "whole"
            BY <1>1, <1>4, <2>5
        <3>2. CASE lastLine # NoLine /\ line = lastLine
            <4>1. lines = <<>>
                BY <1>3, <2>5, <3>2, Collected DEF lines
            <4>2. Follow(reader.lines, pos)
                BY <1>3, <1>4, <2>1, <3>1, <3>2 DEF Follow, Rising
            <4> QED  BY <1>2, <1>7, <2>1, <4>1, <4>2 DEF OrderInv, Follow, Rising
        <3>3. CASE ~(lastLine # NoLine /\ line = lastLine)
            <4>1. lines = Append(call.lines, line)
                BY <1>3, <2>5, <3>3, Collected DEF lines
            <4>2. /\ DOMAIN lines = 1..Len(call.lines) + 1 /\ DOMAIN call.lines = 1..Len(call.lines)
                  /\ Len(call.lines) \in Nat
                  /\ \A i \in 1..Len(call.lines) : lines[i] = call.lines[i]
                  /\ lines[Len(call.lines) + 1] = line
                BY <1>3, <4>1
            <4>3. \A k \in DOMAIN call.lines : call.lines[k].id < line.id
                <5>1. reader.pos # 0 => reader.pos \in DOMAIN reader.lines
                    BY <1>3 DEF IInv, ReaderInv
                <5>2. reader.pos # 0 => reader.lines[reader.pos].id < reader.lines[pos].id
                    BY <1>3, <1>4, <2>1, <3>1, <5>1 DEF Rising
                <5>3. \A k \in DOMAIN call.lines :
                        reader.pos # 0 /\ call.lines[k].id <= reader.lines[reader.pos].id
                    BY <1>1 DEF IInv, ReaderInv
                <5> QED  BY <1>3, <1>4, <1>5, <2>3, <3>1, <5>1, <5>2, <5>3
            <4>4. Rising(lines) /\ \A k \in DOMAIN lines : lines[k].part = "whole"
                <5>1. ASSUME NEW i \in DOMAIN lines, NEW j \in DOMAIN lines, i < j
                      PROVE  lines[i].id < lines[j].id
                    <6>1. i \in DOMAIN call.lines
                        BY <4>2, <5>1
                    <6>2. j \in DOMAIN call.lines \/ j = Len(call.lines) + 1
                        BY <4>2
                    <6> QED  BY <2>1, <4>2, <4>3, <5>1, <6>1, <6>2 DEF OrderInv, Rising
                <5>2. \A k \in DOMAIN lines : lines[k].part = "whole"
                    BY <2>1, <3>1, <4>2 DEF OrderInv
                <5> QED  BY <5>1, <5>2 DEF Rising
            <4>5. ASSUME Follow(call.lines, 0), Follow(reader.lines, reader.pos)
                  PROVE  Follow(lines, 0) /\ Follow(reader.lines, pos)
                <5>1. line.id > lastLine.id
                    BY <1>3, <1>4, <3>1, <4>5 DEF Follow
                <5>2. Follow(lines, 0)
                    BY <4>2, <4>5, <5>1 DEF Follow
                <5> QED  BY <1>3, <1>4, <3>1, <4>5, <5>2 DEF Follow
            <4>6. ASSUME NEW j \in DOMAIN reader.lines, j > reader.pos, reader.lines[j] = lastLine
                  PROVE  j > pos
                BY <1>3, <1>4, <2>2, <3>1, <3>3, <4>6
            <4> QED  BY <1>2, <1>7, <2>1, <4>4, <4>5, <4>6 DEF OrderInv, Rising, Follow
        <3> QED  BY <3>2, <3>3
    <2> QED  BY <1>5, <2>4, <2>5
<1>13. ~split' => ShowInv'
    <2> SUFFICES ASSUME ~split, ~Rest PROVE ShowInv'
        BY <1>1
    <2>1. ShowInv /\ line = reader.lines[pos] /\ pos = reader.pos + 1 /\ ~Rest'
        BY <1>1, <1>4, <1>7 DEF IInv, Rest
    <2>2. \A n \in DOMAIN list : list[n] \in Elems(list)
        BY DEF Elems
    <2>3. ASSUME NEW i \in 1..pos, reader.lines[i].ufw
          PROVE  reader.lines[i] \in Elems(list) \cup Elems(lines)
        <3>1. CASE line.ufw /\ lastLine # NoLine /\ line = lastLine
            BY <1>4, <2>1, <2>3, <3>1 DEF ShowInv, UpTo
        <3>2. CASE ~line.ufw
            <4>1. lines = call.lines /\ i # pos
                BY <1>3, <2>1, <2>3, <3>2, Collected DEF lines
            <4>2. i \in 1..reader.pos
                BY <1>3, <2>1, <4>1
            <4> QED  BY <2>1, <2>3, <4>1, <4>2 DEF ShowInv, Had
        <3>3. CASE line.ufw /\ ~(lastLine # NoLine /\ line = lastLine)
            <4>1. lines = Append(call.lines, line)
                BY <1>3, <3>3, Collected DEF lines
            <4>2. line \in Elems(lines) /\ Elems(call.lines) \subseteq Elems(lines)
                <5>1. /\ DOMAIN lines = 1..Len(call.lines) + 1 /\ DOMAIN call.lines = 1..Len(call.lines)
                      /\ Len(call.lines) \in Nat
                      /\ \A n \in 1..Len(call.lines) : lines[n] = call.lines[n]
                      /\ lines[Len(call.lines) + 1] = line
                    BY <1>3, <4>1
                <5> QED  BY <5>1 DEF Elems
            <4>3. i \in 1..reader.pos \/ i = pos
                BY <1>3, <2>1
            <4> QED  BY <2>1, <2>3, <4>2, <4>3 DEF ShowInv, Had
        <3> QED  BY <1>5, <3>1, <3>2, <3>3
    <2>4. Had' = Elems(list) \cup Elems(lines)
        BY <1>2, <1>7 DEF Had, Elems
    <2>5. UpTo(file, lastLine, Elems(list))' /\ UpTo(reader.lines, lastLine, Elems(list))'
        BY <1>2, <1>7, <2>1 DEF ShowInv, UpTo, Elems
    <2> QED  BY <1>7, <2>1, <2>3, <2>4, <2>5 DEF ShowInv
<1> QED  BY <1>8, <1>9, <1>10, <1>11, <1>12, <1>13 DEF IInv

\* The helper reaches the end of the file.
LEMMA ReadEndKeeps == IInv /\ ReadEnd => IInv'
<1> SUFFICES ASSUME IInv, ReadEnd PROVE IInv'
    OBVIOUS
<1>1. /\ call.phase = "reading" /\ reader.pos = Len(reader.lines) /\ ~Rest
      /\ call' = [phase |-> "read", lines |-> call.lines] /\ reader' = Closed
      /\ UNCHANGED <<file, written, list, lastLine, torn, split>>
    BY DEF ReadEnd, atEnd, IInv, TypeOK
<1>2. /\ file \in Seq(Lines) /\ call.lines \in Seq(Lines) /\ reader.lines \in Seq(Lines)
      /\ DOMAIN reader.lines = 1..Len(reader.lines)
      /\ \A i \in DOMAIN reader.lines : reader.lines[i].id \in Nat
      /\ \A i \in DOMAIN file : file[i].id \in Nat
      /\ \A k \in DOMAIN call.lines : call.lines[k].id \in Nat
    BY LineType DEF IInv, TypeOK
<1>3. TypeOK'
    <2>1. <<>> \in Seq(Lines)
        OBVIOUS
    <2>2. Closed \in [current : BOOLEAN, lines : Seq(Lines), pos : Nat, cut : Lines \cup {NoLine}]
        BY <2>1 DEF Closed
    <2> QED  BY <1>1, <1>2, <2>2 DEF IInv, TypeOK
<1>4. FileInv' /\ CallInv'
    BY <1>1 DEF IInv, FileInv, CallInv, Heads, Past
<1>5. ReaderInv'
    BY <1>1 DEF IInv, ReaderInv, Closed, Rising, Heads
<1>6. ~torn' => OrderInv'
    <2> SUFFICES ASSUME ~torn PROVE OrderInv'
        BY <1>1
    <2>1. ~ \E j \in DOMAIN reader.lines : j > reader.pos
        BY <1>1, <1>2
    <2>2. OrderInv /\ Follow(call.lines, 0)
        BY <2>1 DEF IInv, OrderInv
    <2> QED  BY <1>1, <2>2 DEF OrderInv, Follow, Rising, Closed
<1>7. ~split' => ShowInv'
    <2> SUFFICES ASSUME ~split PROVE ShowInv'
        BY <1>1
    <2>1. ShowInv
        BY DEF IInv
    <2>2. \A i \in DOMAIN reader.lines : reader.lines[i].ufw => reader.lines[i] \in Had
        BY <1>1, <1>2, <2>1 DEF ShowInv
    <2>3. ASSUME call.lines # <<>> PROVE UpTo(file, call.lines[Len(call.lines)], Had)
        <3> DEFINE last == call.lines[Len(call.lines)]
        <3>1. Len(call.lines) \in DOMAIN call.lines
            BY <1>2, <2>3
        <3>2. CASE reader.current
            <4>1. reader.lines = file
                BY <3>2 DEF IInv, ReaderInv
            <4>2. \A k \in DOMAIN file : \A i \in 1..k : i \in DOMAIN file
                BY <1>2, <4>1
            <4> QED  BY <2>2, <4>1, <4>2 DEF UpTo
        <3>3. CASE ~reader.current
            <4>1. last.id <= reader.lines[reader.pos].id /\ reader.pos # 0
                BY <1>1, <3>1 DEF IInv, ReaderInv
            <4>2. reader.pos \in DOMAIN reader.lines
                BY <1>1, <1>2, <4>1
            <4>3. \A k \in DOMAIN file : reader.lines[reader.pos].id < file[k].id
                BY <3>3, <4>2 DEF IInv, ReaderInv
            <4>4. \A k \in DOMAIN file : file[k].id # last.id
                BY <1>2, <3>1, <4>1, <4>2, <4>3
            <4> QED  BY <4>4 DEF UpTo
        <3> QED  BY <1>2, <3>2, <3>3 DEF IInv, TypeOK
    <2> QED  BY <1>1, <2>1, <2>3 DEF ShowInv, UpTo, Elems, Had, Closed
<1> QED  BY <1>3, <1>4, <1>5, <1>6, <1>7 DEF IInv

-----------------------------------------------------------------------------
(* The viewer shows the reply *)

\* The places of a list that another is appended to.
LEMMA Appended ==
    ASSUME NEW front \in Seq(Lines), NEW rear \in Seq(Lines)
    PROVE  /\ front \o rear \in Seq(Lines)
           /\ DOMAIN (front \o rear) = 1..Len(front) + Len(rear)
           /\ Len(front) \in Nat /\ Len(rear) \in Nat
           /\ DOMAIN front = 1..Len(front) /\ DOMAIN rear = 1..Len(rear)
           /\ \A i \in DOMAIN front : (front \o rear)[i] = front[i]
           /\ \A i \in DOMAIN rear : /\ Len(front) + i \in DOMAIN (front \o rear)
                                     /\ (front \o rear)[Len(front) + i] = rear[i]
           /\ \A i \in DOMAIN (front \o rear) :
                 \/ i \in DOMAIN front
                 \/ /\ i - Len(front) \in DOMAIN rear
                    /\ (front \o rear)[i] = rear[i - Len(front)]
           /\ Elems(front \o rear) = Elems(front) \cup Elems(rear)
<1>1. /\ front \o rear \in Seq(Lines)
      /\ DOMAIN (front \o rear) = 1..Len(front) + Len(rear)
      /\ Len(front) \in Nat /\ Len(rear) \in Nat
      /\ DOMAIN front = 1..Len(front) /\ DOMAIN rear = 1..Len(rear)
      /\ \A i \in 1..Len(front) + Len(rear) :
            (front \o rear)[i] = IF i <= Len(front) THEN front[i] ELSE rear[i - Len(front)]
    OBVIOUS
<1> DEFINE all == front \o rear
<1> HIDE DEF all
<1>2. \A i \in DOMAIN front : i \in DOMAIN all /\ all[i] = front[i]
    BY <1>1 DEF all
<1>3. \A i \in DOMAIN rear : Len(front) + i \in DOMAIN all /\ all[Len(front) + i] = rear[i]
    BY <1>1 DEF all
<1>4. \A i \in DOMAIN all :
        \/ i \in DOMAIN front
        \/ i - Len(front) \in DOMAIN rear /\ all[i] = rear[i - Len(front)]
    BY <1>1 DEF all
<1>5. Elems(all) = Elems(front) \cup Elems(rear)
    BY <1>2, <1>3, <1>4 DEF Elems
<1> QED  BY <1>1, <1>2, <1>3, <1>4, <1>5 DEF all

\* Two lists of which the second is newer make one.
LEMMA RisingJoined ==
    ASSUME NEW front \in Seq(Lines), NEW rear \in Seq(Lines), Rising(front), Rising(rear),
           NEW n \in Nat, \A i \in DOMAIN front : front[i].id <= n,
           \A i \in DOMAIN rear : n < rear[i].id
    PROVE  Rising(front \o rear)
<1> DEFINE all  == front \o rear
           base == Len(front)
<1>1. /\ DOMAIN all = 1..base + Len(rear) /\ DOMAIN front = 1..base
      /\ base \in Nat /\ Len(rear) \in Nat
      /\ \A i \in DOMAIN front : all[i] = front[i]
      /\ \A i \in DOMAIN all :
           \/ i \in DOMAIN front
           \/ i - base \in DOMAIN rear /\ all[i] = rear[i - base]
    BY Appended
<1>2. /\ \A k \in DOMAIN front : front[k].id \in Nat
      /\ \A k \in DOMAIN rear : rear[k].id \in Nat
    BY LineType
<1> HIDE DEF all, base
<1>3. ASSUME NEW i \in DOMAIN all, NEW j \in DOMAIN all, i < j
      PROVE  all[i].id < all[j].id
    <2>1. CASE i \in DOMAIN front /\ j \in DOMAIN front
        BY <1>1, <1>3, <2>1 DEF Rising
    <2>2. CASE i \in DOMAIN front /\ j \notin DOMAIN front
        BY <1>1, <1>2, <2>2
    <2>3. CASE i \notin DOMAIN front /\ j \in DOMAIN front
        BY <1>1, <1>3, <2>3
    <2>4. CASE i \notin DOMAIN front /\ j \notin DOMAIN front
        <3>1. i \in Nat /\ j \in Nat /\ i - base < j - base
            BY <1>1, <1>3
        <3> QED  BY <1>1, <2>4, <3>1 DEF Rising
    <2> QED  BY <2>1, <2>2, <2>3, <2>4
<1> QED  BY <1>3 DEF all, Rising

\* The viewer appends what the helper has collected.
LEMMA QueryPerformedKeeps == IInv /\ QueryPerformed => IInv'
<1> SUFFICES ASSUME IInv, QueryPerformed PROVE IInv'
    OBVIOUS
<1>1. /\ call.phase \in {"read", "failed"} /\ reader = Closed
      /\ list' = list \o call.lines /\ call' = [phase |-> "none", lines |-> <<>>]
      /\ lastLine' = IF call.lines = <<>> THEN lastLine ELSE call.lines[Len(call.lines)]
      /\ UNCHANGED <<file, written, reader, torn, split>>
    BY DEF QueryPerformed, NoCall, IInv, ReaderInv
<1>2. /\ file \in Seq(Lines) /\ call.lines \in Seq(Lines) /\ list \in Seq(Lines)
      /\ DOMAIN call.lines = 1..Len(call.lines) /\ Len(call.lines) \in Nat
      /\ call.lines # <<>> => Len(call.lines) \in DOMAIN call.lines
      /\ \A k \in DOMAIN call.lines : call.lines[k].id \in Nat
      /\ \A i \in DOMAIN list : list[i].id \in Nat
      /\ lastLine.id \in Nat
    BY LineType DEF IInv, TypeOK, NoLine
<1> DEFINE all  == list \o call.lines
           last == call.lines[Len(call.lines)]
<1>3. all \in Seq(Lines) /\ Elems(all) = Had
    BY <1>2, Appended DEF Had
<1>9. /\ \A i \in DOMAIN list : all[i] = list[i]
      /\ \A i \in DOMAIN all : \/ i \in DOMAIN list
                              \/ /\ i - Len(list) \in DOMAIN call.lines
                                 /\ all[i] = call.lines[i - Len(list)]
    BY <1>2, Appended
<1> HIDE DEF all
<1>4. TypeOK'
    <2>1. \A i \in DOMAIN all : all[i].ufw
        BY <1>2, <1>9 DEF IInv, TypeOK, CallInv
    <2>2. lastLine' \in Lines \cup {NoLine}
        BY <1>1, <1>2 DEF IInv, TypeOK
    <2>3. call' \in [phase : {"none", "asked", "reading", "read", "failed"}, lines : Seq(Lines)]
        BY <1>1
    <2>4. list' = all
        BY <1>1 DEF all
    <2> QED  BY <1>1, <1>3, <2>1, <2>2, <2>3, <2>4 DEF IInv, TypeOK
<1>5. FileInv' /\ CallInv'
    BY <1>1, <1>2 DEF IInv, FileInv, CallInv, Heads, Past
<1>6. ReaderInv'
    BY <1>1 DEF IInv, ReaderInv, Closed, Rising, Heads
<1>7. ~torn' => OrderInv'
    <2> SUFFICES ASSUME ~torn PROVE OrderInv'
        BY <1>1
    <2>1. OrderInv /\ Follow(call.lines, 0)
        BY <1>1 DEF IInv, OrderInv, Closed
    <2>2. \A k \in DOMAIN call.lines : lastLine.id < call.lines[k].id
        BY <1>2, <2>1 DEF Follow
    <2>3. Rising(all)
        BY <1>2, <2>1, <2>2, RisingJoined DEF OrderInv, all
    <2>4. \A k \in DOMAIN call.lines : call.lines[k].id <= lastLine'.id
        <3> SUFFICES ASSUME NEW k \in DOMAIN call.lines PROVE call.lines[k].id <= lastLine'.id
            OBVIOUS
        <3>1. Len(call.lines) \in DOMAIN call.lines /\ lastLine' = last /\ k \in 1..Len(call.lines)
            BY <1>1, <1>2
        <3>2. k = Len(call.lines) \/ k < Len(call.lines)
            BY <1>2, <3>1
        <3>3. call.lines[k].id = last.id \/ call.lines[k].id < last.id
            BY <2>1, <3>1, <3>2 DEF OrderInv, Rising
        <3> QED  BY <1>2, <3>1, <3>3
    <2>5. \A i \in DOMAIN list : list[i].id <= lastLine'.id
        <3>1. CASE call.lines = <<>>
            BY <1>1, <2>1, <3>1 DEF OrderInv
        <3>2. CASE call.lines # <<>>
            <4>1. lastLine' = last /\ last.id \in Nat /\ lastLine.id < last.id
                BY <1>1, <1>2, <2>2, <3>2
            <4> QED  BY <1>2, <2>1, <4>1 DEF OrderInv
        <3> QED  BY <3>1, <3>2
    <2>6. \A i \in DOMAIN all : all[i].id <= lastLine'.id
        BY <1>9, <2>4, <2>5
    <2>7. lastLine' # NoLine => lastLine'.part = "whole"
        BY <1>1, <1>2, <2>1 DEF OrderInv
    <2>8. list' = all
        BY <1>1 DEF all
    <2> QED  BY <1>1, <2>3, <2>6, <2>7, <2>8 DEF OrderInv, Rising, Follow, Closed
<1>8. ~split' => ShowInv'
    <2> SUFFICES ASSUME ~split PROVE ShowInv'
        BY <1>1
    <2>1. ShowInv
        BY DEF IInv
    <2>2. UpTo(file, lastLine', Had)
        <3>1. CASE call.lines = <<>>
            BY <1>1, <2>1, <3>1 DEF ShowInv, UpTo, Had
        <3>2. CASE call.lines # <<>>
            BY <1>1, <2>1, <3>2 DEF ShowInv, IInv, CallInv
        <3> QED  BY <3>1, <3>2
    <2>3. Elems(list)' = Had
        BY <1>1, <1>3 DEF Elems, all
    <2>4. (UpTo(file, lastLine, Elems(list)) /\ UpTo(reader.lines, lastLine, Elems(list)))'
        <3>1. (DOMAIN reader.lines)' = {}
            BY <1>1 DEF Closed
        <3> QED  BY <1>1, <2>2, <2>3, <3>1 DEF UpTo, Elems
    <2>5. (reader.pos = 0 /\ call.phase # "read")'
        BY <1>1 DEF Closed
    <2> QED  BY <2>4, <2>5 DEF ShowInv
<1> QED  BY <1>4, <1>5, <1>6, <1>7, <1>8 DEF IInv

-----------------------------------------------------------------------------
(* The theorems *)

\* A step that changes nothing keeps the invariant.
LEMMA StutterKeeps == IInv /\ UNCHANGED vars => IInv'
    BY DEF IInv, TypeOK, FileInv, CallInv, ReaderInv, OrderInv, ShowInv, Past, Rising, Heads,
           Follow, UpTo, Elems, Had, Rest, vars

\* Every step keeps it.
LEMMA NextKeeps == IInv /\ [Next]_vars => IInv'
<1> SUFFICES ASSUME IInv, [Next]_vars PROVE IInv'
    OBVIOUS
<1>1. ASSUME Log PROVE IInv'
    BY <1>1, LogWrites, WriteKeeps
<1>2. ASSUME LogRest PROVE IInv'
    BY <1>2, LogRestWrites, WriteKeeps
<1> QED
    BY <1>1, <1>2, RotateKeeps, RefreshKeeps, OpenKeeps, OpenFailsKeeps, ReadLineKeeps,
       ReadEndKeeps, QueryPerformedKeeps, StutterKeeps DEF Next

\* The invariant holds throughout.
LEMMA Invariance == Spec => []IInv
    BY InitIInv, NextKeeps, PTL DEF Spec

\* The file, the open file, the reply and the list keep to their types.
THEOREM TypeCorrect == Spec => []TypeOK
<1>1. IInv => TypeOK
    BY DEF IInv
<1> QED  BY <1>1, Invariance, PTL

\* As long as no reply had a part of a line, the viewer's rows are in the
\* order in which the lines were logged, each of them once.
THEOREM EachLineOnce == Spec => []EachLineOnceInOrder
<1>1. ASSUME IInv PROVE EachLineOnceInOrder
    <2> SUFFICES ASSUME ~torn PROVE Rising(Shown)
        BY DEF EachLineOnceInOrder, Rows, Rising
    <2>1. /\ OrderInv /\ list \in Seq(Lines) /\ call.lines \in Seq(Lines)
          /\ lastLine.id \in Nat
          /\ \A k \in DOMAIN call.lines : call.lines[k].id \in Nat
        BY <1>1, LineType DEF IInv, TypeOK, NoLine
    <2>2. CASE call.phase = "read"
        <3>1. Follow(call.lines, 0)
            BY <1>1, <2>1, <2>2 DEF IInv, ReaderInv, OrderInv, Closed
        <3>2. \A k \in DOMAIN call.lines : lastLine.id < call.lines[k].id
            BY <2>1, <3>1 DEF Follow
        <3> QED  BY <2>1, <2>2, <3>2, RisingJoined DEF Shown, OrderInv
    <2>3. CASE call.phase # "read"
        <3>1. <<>> \in Seq(Lines) /\ Rising(<<>>)
            BY DEF Rising
        <3> QED  BY <2>1, <2>3, <3>1, RisingJoined DEF Shown, OrderInv
    <2> QED  BY <2>2, <2>3
<1> QED  BY <1>1, Invariance, PTL

\* As long as no line was read in two parts, the reply to a refresh brings
\* every whole line that the open file had at its end and the list lacked.
THEOREM RefreshIsComplete == Spec => RefreshShowsAll
<1>1. ASSUME IInv, IInv', [Next]_vars,
             call.phase = "reading", call'.phase = "read", ~split,
             NEW i \in DOMAIN reader.lines,
             reader.lines[i].ufw, reader.lines[i].part = "whole"
      PROVE  \E k \in Rows(Shown') : Shown'[k] = reader.lines[i]
    <2>1. ReadEnd
        <3>1. ~Log /\ ~LogRest /\ ~Rotate /\ ~UNCHANGED vars
            BY <1>1 DEF Log, LogRest, Rotate, Write, vars
        <3>2. ~Refresh /\ ~Open /\ ~OpenFails /\ ~QueryPerformed
            BY <1>1 DEF Refresh, Open, OpenFails, QueryPerformed
        <3>3. ~ReadLine
            BY <1>1, Turn
        <3> QED  BY <1>1, <3>1, <3>2, <3>3 DEF Next
    <2>2. /\ reader.pos = Len(reader.lines) /\ ~Rest /\ call'.lines = call.lines /\ list' = list
          /\ list \in Seq(Lines) /\ call.lines \in Seq(Lines)
          /\ DOMAIN reader.lines = 1..Len(reader.lines)
        BY <1>1, <2>1 DEF ReadEnd, atEnd, IInv, TypeOK
    <2>3. reader.lines[i] \in Elems(list) \cup Elems(call.lines)
        BY <1>1, <2>2 DEF IInv, ShowInv, Had
    <2>4. Shown' = list \o call.lines
        BY <1>1, <2>2 DEF Shown
    <2>5. reader.lines[i] \in Elems(Shown')
        BY <2>2, <2>3, <2>4, Appended
    <2> QED  BY <1>1, <2>5 DEF Elems, Rows
<1>2. IInv /\ IInv' /\ [Next]_vars =>
        [call.phase = "reading" /\ call'.phase = "read" /\ ~split
           => \A i \in DOMAIN reader.lines :
                reader.lines[i].ufw /\ reader.lines[i].part = "whole"
                => \E k \in Rows(Shown') : Shown'[k] = reader.lines[i]]_vars
    BY <1>1
<1> QED  BY <1>2, Invariance, PTL DEF Spec, RefreshShowsAll
====
