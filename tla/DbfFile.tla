------------------------------ MODULE DbfFile ------------------------------
(***************************************************************************)
(* tool_file: a dBASE file on the disk (CDBF) and the writer that fills it  *)
(* one record at a time (TgwDBFOperHelper).                                *)
(*                                                                         *)
(* A file is the record count of its header and the records behind it; a   *)
(* record is Blank or what was filled into it.  The columns of the header  *)
(* never change and are given to the operators as cols.  Every operator    *)
(* gives the file or the handle after the call, or Failed for DBF_FAIL.    *)
(* The locks are no-ops outside Windows.                                   *)
(***************************************************************************)
EXTENDS Integers, Sequences, FiniteSets, SequencesExt

CONSTANTS Blank,    \* a record of spaces
          Failed,   \* DBF_FAIL
          NoFile    \* no file of that name

MaxFields == 255

C(name, width) == [name |-> name, type |-> "C", width |-> width, dec |-> 0]
N(name, width, dec) == [name |-> name, type |-> "N", width |-> width, dec |-> dec]

-----------------------------------------------------------------------------
(* Creating and opening                                                    *)

\* AddField: the columns collected so far, with one more.
AddField(cols, c) ==
    IF cols = Failed \/ Len(cols) >= MaxFields \/ c.type \notin {"C", "N", "D"}
    THEN Failed
    ELSE Append(cols, c)

\* Create of the helper: every column is added, then the header is written.
Create(cols) ==
    LET added == FoldLeft(AddField, <<>>, cols)
    IN  IF added = Failed \/ added = <<>> THEN Failed
        ELSE [num |-> 0, recs |-> <<>>]

\* The size of a record: its deletion mark and its columns.
RecSize(cols) == 1 + FoldLeft(LAMBDA n, c : n + c.width, 0, cols)

\* Close forgets the structure of the file, so that nothing more can be added.
Closed == [open |-> FALSE, size |-> 0]

\* Open reads the header; a handle opens one file at a time.
Open(h, file, cols) ==
    IF h.open \/ file = NoFile THEN Failed ELSE [open |-> TRUE, size |-> RecSize(cols)]

\* FindFld: the position of a column, 0 when there is none.
FindFld(cols, name) == SelectInSeq(cols, LAMBDA c : c.name = name)

-----------------------------------------------------------------------------
(* A record is added in three writes: blank, counted, filled               *)

\* GetRecordNum reads the count from the header each time.
GetRecordNum(file) == file.num

\* AddNewRecord, first write: spaces behind the last counted record.
WriteBlank(h, file) ==
    IF ~h.open \/ h.size = 0 THEN Failed
    ELSE [file EXCEPT !.recs = Append(SubSeq(@, 1, GetRecordNum(file)), Blank)]

\* Mutant of CountRecord: the count is one ahead.
CountRecord_Ahead(file) == [file EXCEPT !.num = Len(file.recs) + 1]

\* AddNewRecord, second write: the count in the header.
CountRecord(file) == [file EXCEPT !.num = @ + 1]

\* GoToRec: 0 when there is no such record.
GoToRec(file, n) == IF n > GetRecordNum(file) THEN 0 ELSE n

\* FillFldValue for every value of the row, into the buffer: one of the names
\* may not be a column.
Fill(cols, names, row) ==
    IF \E n \in names : FindFld(cols, n) = 0 THEN Failed ELSE row

\* UpdateRecord: the buffer goes to the current record.
UpdateRecord(file, cur, data) == [file EXCEPT !.recs[cur] = data]

\* Append of the helper, after AddNewRecord.
FillNew(file, cols, names, row) ==
    LET cur == GoToRec(file, GetRecordNum(file))
        data == Fill(cols, names, row)
    IN  IF cur = 0 \/ data = Failed THEN Failed ELSE UpdateRecord(file, cur, data)
=============================================================================
