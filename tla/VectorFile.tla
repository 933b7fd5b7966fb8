------------------------------- MODULE VectorFile -------------------------------
(***************************************************************************)
(* The file of embedding vectors (src/internal/embedding/vector_file.go):  *)
(* rows of one length, numbered from 0, with the database beside it saying *)
(* which row belongs to which text.  A vector is written and flushed before *)
(* the database names its row, so a crash leaves rows nobody names, the    *)
(* last of them possibly incomplete.                                       *)
(***************************************************************************)
EXTENDS Integers, Sequences, FiniteSetsExt

(* A file is its complete rows, and whether bytes of a further one follow. *)
EmptyFile == [rows |-> <<>>, torn |-> FALSE]

(* Append computes the row from the size, which must be aligned. *)
NextRow(file) == Len(file.rows)

Appended(file, vectors) == [file EXCEPT !.rows = file.rows \o vectors]

(* What an append leaves that is cut off: some of the rows, and possibly a  *)
(* part of the next one.                                                    *)
CutOff(file, vectors) ==
  {[rows |-> file.rows \o SubSeq(vectors, 1, n), torn |-> torn] :
     n \in 0..Len(vectors) - 1, torn \in BOOLEAN} \cup {Appended(file, vectors)}

HasRow(file, row) == row < Len(file.rows)

Row(file, row) == file.rows[row + 1]

-----------------------------------------------------------------------------
(* The rows the database names: a function from messages to records with a  *)
(* text and a row.                                                          *)
MaximumRow(named) ==
  IF DOMAIN named = {} THEN -1 ELSE Max({named[m].row : m \in DOMAIN named})

(* OpenVectorFile refuses a file that lacks a row the database names. *)
Shorter(file, named) == Len(file.rows) < MaximumRow(named) + 1

(* Mutant: the last row that is named is truncated with the others. *)
RepairedShortMutant(file, named) ==
  [rows |-> SubSeq(file.rows, 1, MaximumRow(named)), torn |-> FALSE]

(* Mutant: a file of which no row is named is left as it is. *)
RepairedNamedMutant(file, named) ==
  IF MaximumRow(named) < 0 THEN file
  ELSE [rows |-> SubSeq(file.rows, 1, MaximumRow(named) + 1), torn |-> FALSE]

Repaired(file, named) ==
  [rows |-> SubSeq(file.rows, 1, MaximumRow(named) + 1), torn |-> FALSE]

(* Every row the database names is in the file, is the vector the model has *)
(* for the text, and is named once.                                         *)
Matches(file, named, model) ==
  \A m \in DOMAIN named :
    /\ HasRow(file, named[m].row)
    /\ Row(file, named[m].row) = <<model, named[m].text>>
    /\ \A n \in DOMAIN named \ {m} : named[n].row # named[m].row
=============================================================================
