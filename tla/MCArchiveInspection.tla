-------------------------- MODULE MCArchiveInspection --------------------------
(***************************************************************************)
(* Databases for ArchiveInspection: tables whose names tell everything or  *)
(* nothing, texts and blobs of several sizes, and more objects, columns,   *)
(* indexes, rows and bytes than the limits let through.                    *)
(***************************************************************************)
EXTENDS ArchiveInspection

Col(names, type, key) == [names |-> names, type |-> type, key |-> key]

Cell(type, size, stamp, inside) ==
  [type |-> type, size |-> size, stamp |-> stamp, inside |-> inside]

Number == Cell("number", 0, 0, {})
Null == Cell("null", 0, 0, {})
Word == Cell("text", 1, 0, {})
Moment == Cell("text", 4, 2, {})       \* longer than MaxCell, the stamp is kept
LateMoment == Cell("text", 4, 4, {})   \* the stamp is behind the cut
Cyrillic == Cell("text", 4, 0, {1, 3})
Blob == Cell("blob", 4, 0, {})

Table(columns, indexes, foreign, rows) ==
  [type |-> "table", columns |-> columns, indexes |-> indexes, foreign |-> foreign,
   rows |-> rows]

(* time, signal id and value, named so, and a column beyond MaxColumns.     *)
Telling == Table(<<Col({"time"}, "date", FALSE), Col({"signal", "id"}, "text", TRUE),
                   Col({"value"}, "numeric", FALSE), Col({"quality"}, "text", FALSE)>>,
                 <<<<1, 2>>, <<2>>, <<3>>>>, <<2>>,
                 <<<<Moment, Word, Number, Word>>, <<Moment, Word, Number, Word>>,
                   <<LateMoment, Word, Null, Word>>>>)

(* The same kinds of columns, indexes and rows under names that say nothing.*)
Opaque3 == Table(<<Col({}, "date", FALSE), Col({}, "numeric", TRUE),
                   Col({}, "numeric", FALSE)>>,
                 <<<<2, 1>>, <<3>>>>, <<2>>,
                 [i \in 1..5 |-> <<Number, Number, Number>>])

Wide == Table(<<Col({"value"}, "text", FALSE), Col({"time"}, "none", FALSE)>>, <<>>, <<>>,
              <<<<Word, Word>>, <<Cyrillic, Moment>>>>)

Blobs == Table(<<Col({}, "none", FALSE)>>, <<>>, <<1, 1>>, [i \in 1..3 |-> <<Blob>>])

(* One column that many rows make the identifier of a signal, and one not.   *)
Ident == Table(<<Col({"id"}, "none", FALSE)>>, <<>>, <<>>, [i \in 1..4 |-> <<Word>>])

View == [Telling EXCEPT !.type = "view"]

Archives == {<<Telling, Ident>>, <<View, Blobs, Opaque3>>, <<Wide>>, <<Opaque3, Ident>>, <<>>}
===============================================================================
