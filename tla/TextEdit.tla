------------------------------ MODULE TextEdit ------------------------------
(* The editing delegates of text_delegates.hpp: TextField and Password (one  *)
(* line, scrolled sideways) and TextArea (wrapped rows, scrolled down).  A    *)
(* character is "c" or "n", a newline.  The caret is an offset into the text, *)
(* kept by the node and not by the field, which the application may set.      *)
(* Unit: the width of a character, the height of a row; a press is in halves. *)
EXTENDS Integers, Sequences, SequencesExt

CONSTANTS Inputs,      \* texts a TextInput event carries
          Replacements,\* texts the application or an observer may set
          Widths,      \* widths of the text area, in characters
          TextRows,    \* TextArea::rows
          Limits,      \* max_length; 0 is no limit
          MaxText,     \* bound on the text
          Clicks       \* where the mouse is pressed: <<half columns, row>>

VARIABLE ed

Newline == "n"

-----------------------------------------------------------------------------
(* wrap_lines and the two conversions.                                        *)

LineStart(v, i) == CHOOSE s \in 0..i : /\ s = 0 \/ v[s] = Newline
                                       /\ \A j \in (s + 1)..i : v[j] # Newline
LineEnd(v, i) == CHOOSE s \in i..Len(v) : /\ s = Len(v) \/ v[s + 1] = Newline
                                          /\ \A j \in (i + 1)..s : v[j] # Newline

\* A row starts where a line does, and after every max characters of one.
RowStarts(v, max) ==
    {i \in 0..Len(v) : \/ i = LineStart(v, i)
                       \/ (i - LineStart(v, i)) % max = 0 /\ i < LineEnd(v, i)}

WrapLines(v, width) ==
    LET max == IF width = 0 THEN 1 ELSE width
        starts == SetToSortSeq(RowStarts(v, max), <)
    IN [n \in DOMAIN starts |->
            LET rest == LineEnd(v, starts[n]) - starts[n]
            IN [start |-> starts[n], length |-> IF rest < max THEN rest ELSE max]]

RowEnd(rows, n) == rows[n].start + rows[n].length

\* A mutant: the end of a line belongs to the row that follows.
CursorToLineColSoft(c, rows) ==
    LET hits == {n \in DOMAIN rows : \/ c < RowEnd(rows, n)
                                     \/ c = RowEnd(rows, n) /\ n = Len(rows)}
    IN IF hits = {} THEN [line |-> Len(rows), col |-> rows[Len(rows)].length]
       ELSE LET n == CHOOSE m \in hits : \A k \in hits : m <= k
            IN [line |-> n, col |-> c - rows[n].start]

CursorToLineCol(c, rows) ==
    LET hits == {n \in DOMAIN rows :
                    \/ c < RowEnd(rows, n)
                    \/ /\ c = RowEnd(rows, n)
                       /\ n = Len(rows) \/ rows[n + 1].start > RowEnd(rows, n)}
    IN IF hits = {} THEN [line |-> Len(rows), col |-> rows[Len(rows)].length]
       ELSE LET n == CHOOSE m \in hits : \A k \in hits : m <= k
            IN [line |-> n, col |-> c - rows[n].start]

LineColToCursor(line, col, rows) ==
    LET n == IF line > Len(rows) THEN Len(rows) ELSE line
    IN rows[n].start + (IF col < rows[n].length THEN col ELSE rows[n].length)

-----------------------------------------------------------------------------
(* Edits of the text, and the scroll offset that follows the caret.           *)

Insert(v, at, s) == SubSeq(v, 1, at) \o s \o SubSeq(v, at + 1, Len(v))
Erase(v, at) == SubSeq(v, 1, at) \o SubSeq(v, at + 2, Len(v))

\* max_length cuts what is inserted.
Admitted(e, s) ==
    IF e.limit > 0 /\ Len(e.value) + Len(s) > e.limit
    THEN SubSeq(s, 1, IF Len(e.value) < e.limit THEN e.limit - Len(e.value) ELSE 0)
    ELSE s

Clamp(x, low, high) == IF x < low THEN low ELSE IF x > high THEN high ELSE x

\* A mutant: the rows of the text before the edit place the caret.
FollowRowsStale(e) ==
    LET row == CursorToLineCol(e.caret, WrapLines(ed.value, e.width)).line - 1
        down == IF row - e.scroll > TextRows - 1 THEN row - TextRows + 1 ELSE e.scroll
    IN [e EXCEPT !.scroll = IF row < down THEN row ELSE down]

FollowRows(e) ==
    LET row == CursorToLineCol(e.caret, WrapLines(e.value, e.width)).line - 1
        down == IF row - e.scroll > TextRows - 1 THEN row - TextRows + 1 ELSE e.scroll
    IN [e EXCEPT !.scroll = IF row < down THEN row ELSE down]

FollowColumn(e) ==
    LET right == IF e.caret - e.scroll > e.width THEN e.caret - e.width ELSE e.scroll
    IN [e EXCEPT !.scroll = IF e.caret < right THEN e.caret ELSE right]

Follow(e) == IF e.kind = "area" THEN FollowRows(e) ELSE FollowColumn(e)

\* TextArea clamps the caret when an event begins, TextField does not.
Begin(e) == IF e.kind = "area" THEN [e EXCEPT !.caret = Clamp(@, 0, Len(e.value))]
            ELSE e

\* std::string::insert and erase throw out of range; nothing catches it.
Throws(e, at) == at > Len(e.value)

-----------------------------------------------------------------------------
TextInit ==
    ed \in [kind : {"field", "area"}, limit : Limits, width : Widths, value : {<<>>},
            caret : {0}, scroll : {0}, threw : {FALSE}, cut : {FALSE}, fresh : {TRUE}]

\* field.set calls the observers, and one of them may set another text.
Edited(e, v, caret) ==
    \E w \in {v} \union Replacements :
        ed' = Follow([e EXCEPT !.value = w, !.caret = caret, !.fresh = TRUE,
                               !.cut = Len(w) < caret])

Moved(e, caret) == ed' = Follow([e EXCEPT !.caret = caret, !.fresh = TRUE])

Fails == ed' = [ed EXCEPT !.threw = TRUE]

TypeText ==
    \E s \in Inputs : LET e == Begin(ed)
                          new == Admitted(e, s)
                      IN /\ ~ed.threw
                         /\ Len(e.value) + Len(new) <= MaxText
                         /\ CASE new = <<>> -> Moved(e, e.caret)
                              [] new # <<>> /\ Throws(e, e.caret) -> Fails
                              [] OTHER -> Edited(e, Insert(e.value, e.caret, new),
                                                 e.caret + Len(new))

PressEnter ==
    LET e == Begin(ed)
    IN /\ ~ed.threw /\ e.kind = "area"
       /\ Len(e.value) < MaxText
       /\ IF e.limit = 0 \/ Len(e.value) < e.limit
          THEN Edited(e, Insert(e.value, e.caret, <<Newline>>), e.caret + 1)
          ELSE Moved(e, e.caret)

PressBackspace ==
    LET e == Begin(ed)
    IN /\ ~ed.threw
       /\ CASE e.caret = 0 -> Moved(e, 0)
            [] e.caret > 0 /\ Throws(e, e.caret - 1) -> Fails
            [] OTHER -> Edited(e, Erase(e.value, e.caret - 1), e.caret - 1)

PressDelete ==
    LET e == Begin(ed)
    IN /\ ~ed.threw
       /\ IF e.caret < Len(e.value) THEN Edited(e, Erase(e.value, e.caret), e.caret)
          ELSE Moved(e, e.caret)

PressArrow ==
    LET e == Begin(ed)
    IN /\ ~ed.threw
       /\ \/ Moved(e, IF e.caret > 0 THEN e.caret - 1 ELSE 0)
          \/ Moved(e, IF e.caret < Len(e.value) THEN e.caret + 1 ELSE e.caret)

FieldHomeEnd ==
    LET e == ed
    IN /\ ~ed.threw /\ e.kind = "field"
       /\ \/ Moved(e, 0)
          \/ Moved(e, IF e.caret < Len(e.value) THEN Len(e.value) ELSE e.caret)

AreaHomeEndUpDown ==
    LET e == Begin(ed)
        rows == WrapLines(e.value, e.width)
        at == CursorToLineCol(e.caret, rows)
    IN /\ ~ed.threw /\ e.kind = "area"
       /\ \/ Moved(e, LineColToCursor(at.line, 0, rows))
          \/ Moved(e, LineColToCursor(at.line, rows[at.line].length, rows))
          \/ Moved(e, IF at.line > 1 THEN LineColToCursor(at.line - 1, at.col, rows)
                      ELSE e.caret)
          \/ Moved(e, IF at.line < Len(rows) THEN LineColToCursor(at.line + 1, at.col, rows)
                      ELSE e.caret)

PressMouse ==
    \E p \in Clicks :
        LET e == Begin(ed)
            rows == WrapLines(e.value, e.width)
            row == Clamp(p[2] + e.scroll, 0, Len(rows) - 1) + 1
        IN /\ ~ed.threw
           /\ Moved(e, IF e.kind = "field"
                       THEN Clamp((p[1] + 2 * e.scroll + 1) \div 2, 0, Len(e.value))
                       ELSE LineColToCursor(row, Clamp((p[1] + 1) \div 2, 0, rows[row].length),
                                            rows))

\* The application sets the field, or a layout gives the node another width.
SetText ==
    /\ ~ed.threw
    /\ \E v \in Replacements : /\ v # ed.value
                               /\ ed' = [ed EXCEPT !.value = v, !.fresh = FALSE,
                                                   !.cut = @ \/ Len(v) < ed.caret]
Resize ==
    /\ ~ed.threw
    /\ \E w \in Widths \ {ed.width} : ed' = [ed EXCEPT !.width = w, !.fresh = FALSE]

TextNext == \/ TypeText \/ PressEnter \/ PressBackspace \/ PressDelete \/ PressArrow
            \/ FieldHomeEnd \/ AreaHomeEndUpDown \/ PressMouse \/ SetText \/ Resize

TextSpec == TextInit /\ [][TextNext]_ed

-----------------------------------------------------------------------------
\* The rows text_area_record draws.
DrawnRows(e) == {n \in DOMAIN WrapLines(e.value, e.width) :
                    n - 1 - e.scroll >= -1 /\ n - 1 - e.scroll <= TextRows}

TextTypeOK ==
    /\ ed.value \in Seq({"c", Newline}) /\ ed.caret \in Nat /\ ed.scroll \in Nat

\* Once an event has been handled the caret is drawn inside of the text area,
\* whatever the observers of the edit made of the text (the tail of the two
\* handlers, text_delegates.hpp:127 and 351, against what record draws).
CaretInView ==
    ed.fresh =>
        IF ed.kind = "field"
        THEN ed.scroll <= ed.caret /\ ed.caret - ed.scroll <= ed.width
        ELSE LET row == CursorToLineCol(ed.caret, WrapLines(ed.value, ed.width)).line
             IN row - 1 - ed.scroll \in 0..(TextRows - 1) /\ row \in DrawnRows(ed)

\* Only a single-line field throws, and only when the application or an observer
\* cut the text in front of its caret (text_delegates.hpp:86 and 94, line 262).
ThrowsOnlyWhenCut == ed.threw => ed.kind = "field" /\ ed.cut

\* Each character but a newline is in one row, the rows are in order and no wider
\* than the text area, and every place of the caret has a cell which stands for
\* that place and no other (wrap_lines, cursor_to_line_col, line_col_to_cursor).
RowsHoldText ==
    LET rows == WrapLines(ed.value, ed.width)
        Cell(c) == CursorToLineCol(c, rows)
    IN /\ \A i \in DOMAIN ed.value :
            LET holders == {n \in DOMAIN rows : i - 1 >= rows[n].start /\ i <= RowEnd(rows, n)}
            IN IF ed.value[i] = Newline THEN holders = {} ELSE \E n \in DOMAIN rows : holders = {n}
       /\ \A n \in DOMAIN rows : /\ rows[n].length <= IF ed.width = 0 THEN 1 ELSE ed.width
                                 /\ n > 1 => rows[n - 1].start < rows[n].start
       /\ \A c \in 0..Len(ed.value) : LineColToCursor(Cell(c).line, Cell(c).col, rows) = c
       /\ \A c, d \in 0..Len(ed.value) : c # d => Cell(c) # Cell(d)
=============================================================================
