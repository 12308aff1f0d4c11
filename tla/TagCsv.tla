--------------------------------- MODULE TagCsv ---------------------------------
(* How a CSV file of Tags is read: the reader goes through the text one      *)
(* character at a time, and the rows it finds become Tags.  The text is what *)
(* any program may write for some rows: cells quoted or not, lines ended by  *)
(* LF, CR or both, the last of them perhaps not at all.                      *)
EXTENDS Integers, Sequences, SequencesExt, FiniteSets

CONSTANTS Cells,   \* cells a row may have, sequences of characters
          Lines    \* the sequences of rows a file may have

Quote == "q"
Comma == ","
LF == "lf"
CR == "cr"

VARIABLES source,  \* the rows that were written
          text, index, cell, quoted, closed, row, rows, outcome
vars == <<source, text, index, cell, quoted, closed, row, rows, outcome>>
-----------------------------------------------------------------------------
(* What writes the file: a cell with a quote, a comma or a line end in it    *)
(* has to be quoted, any other may be.                                       *)

Doubled(c) == FlattenSeq([i \in DOMAIN c |-> IF c[i] = Quote THEN <<Quote, Quote>> ELSE <<c[i]>>])
Written(c) == LET inQuotes == <<Quote>> \o Doubled(c) \o <<Quote>>
              IN IF ToSet(c) \cap {Quote, Comma, LF, CR} # {} THEN {inQuotes} ELSE {inQuotes, c}
Joined(cs) == FlattenSeq([i \in DOMAIN cs |-> IF i = 1 THEN cs[i] ELSE <<Comma>> \o cs[i]])
WrittenRow(r) == {Joined(w) : w \in {s \in [DOMAIN r -> UNION {Written(c) : c \in ToSet(r)}] :
                                        \A i \in DOMAIN r : s[i] \in Written(r[i])}}
Ends == {<<LF>>, <<CR>>, <<CR, LF>>}
WrittenAs(rs, end, last) ==
    {FlattenSeq([i \in DOMAIN rs |-> IF i = Len(rs) /\ ~last THEN w[i] ELSE w[i] \o end]) :
        w \in {s \in [DOMAIN rs -> UNION {WrittenRow(r) : r \in ToSet(rs)}] :
                    \A i \in DOMAIN rs : s[i] \in WrittenRow(rs[i])}}
-----------------------------------------------------------------------------
(* parseCsvRows                                                             *)

Init == \E end \in Ends, last \in BOOLEAN :
          /\ source \in Lines
          /\ text \in WrittenAs(source, end, last)
          /\ index = 1 /\ cell = << >> /\ quoted = FALSE /\ closed = FALSE
          /\ row = << >> /\ rows = << >> /\ outcome = "reading"

Now == text[index]
Is(c) == index < Len(text) /\ text[index + 1] = c

InQuotes ==
    /\ quoted
    /\ \/ /\ Now # Quote /\ cell' = Append(cell, Now) /\ index' = index + 1
          /\ UNCHANGED <<quoted, closed>>
       \/ /\ Now = Quote /\ Is(Quote) /\ cell' = Append(cell, Quote) /\ index' = index + 2
          /\ UNCHANGED <<quoted, closed>>
       \/ /\ Now = Quote /\ ~Is(Quote) /\ quoted' = FALSE /\ closed' = TRUE /\ index' = index + 1
          /\ UNCHANGED cell
    /\ UNCHANGED <<row, rows, outcome>>

Refused == \/ ~quoted /\ closed /\ Now \notin {Comma, LF, CR}
           \/ ~quoted /\ Now = Quote /\ cell # << >>
Refuse == Refused /\ outcome' = "refused" /\ UNCHANGED <<index, cell, quoted, closed, row, rows>>

OpenQuote == /\ ~quoted /\ ~Refused /\ Now = Quote /\ quoted' = TRUE /\ index' = index + 1
             /\ UNCHANGED <<cell, closed, row, rows, outcome>>
Plain == /\ ~quoted /\ ~Refused /\ Now \notin {Quote, Comma, LF, CR}
         /\ cell' = Append(cell, Now) /\ index' = index + 1
         /\ UNCHANGED <<quoted, closed, row, rows, outcome>>

\* Mutant: the mark of a closed quote is left for the next cell.
FinishCell_StaysClosed == cell' = << >> /\ UNCHANGED <<closed, quoted>>

FinishCell == cell' = << >> /\ closed' = FALSE /\ UNCHANGED quoted
AtComma == /\ ~quoted /\ Now = Comma /\ FinishCell /\ row' = Append(row, cell) /\ index' = index + 1
           /\ UNCHANGED <<rows, outcome>>

\* finishRow: a LF after a CR belongs to it.
AtEnd == /\ ~quoted /\ Now \in {LF, CR} /\ FinishCell
         /\ rows' = Append(rows, Append(row, cell)) /\ row' = << >>
         /\ index' = IF Now = CR /\ Is(LF) THEN index + 2 ELSE index + 1
         /\ UNCHANGED outcome

\* The text is at its end: what is left is a row, unless there is nothing.
Stop == /\ outcome' = IF quoted THEN "refused" ELSE "read"
        /\ rows' = IF ~quoted /\ (cell # << >> \/ row # << >> \/ closed) THEN Append(rows, Append(row, cell)) ELSE rows
        /\ UNCHANGED <<index, cell, quoted, closed, row>>

Next == /\ outcome = "reading" /\ UNCHANGED <<source, text>>
        /\ IF index > Len(text) THEN Stop
           ELSE InQuotes \/ Refuse \/ OpenQuote \/ Plain \/ AtComma \/ AtEnd
Spec == Init /\ [][Next]_vars
-----------------------------------------------------------------------------
(* Rows without a cell that is blank, as Tags are imported from.             *)
Kept(rs) == SelectSeq(rs, LAMBDA r : \E i \in DOMAIN r : r[i] # << >>)

(* Whatever cells were quoted and lines ended by, the rows that are read     *)
(* are those that were written; blank ones may come and go.                  *)
ReadAsWritten == outcome # "reading" => outcome = "read" /\ Kept(rows) = Kept(source)
=============================================================================
