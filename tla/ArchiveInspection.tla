--------------------------- MODULE ArchiveInspection ---------------------------
(***************************************************************************)
(* WindowsDiscoveryEnvironment::inspect_sqlite on one database, and the    *)
(* ArchiveSchemaAnalyzer it ends with: for every table the inspector reads *)
(* columns, indexes, foreign keys, a bounded count and a few sample rows   *)
(* out of one byte budget, while a deadline may cut any query that runs    *)
(* long; the analyzer guesses from that which columns hold the time, the   *)
(* signal and the value of an archived sample, and how sure it is.         *)
(*                                                                         *)
(* The database is data: a sequence of objects [type, columns, indexes,    *)
(* foreign, rows].  A column is [names, type, key]: the words its name     *)
(* contains, its declared type and whether it is a primary key.  A cell is *)
(* [type, size, stamp, inside]: the byte of a text at which a character    *)
(* that looks like a timestamp stands (0: none), and the bytes after which *)
(* a cut leaves half a character.  A sample keeps of a cell what the       *)
(* analyzer sees of it and how many bytes it costs.                        *)
(***************************************************************************)
EXTENDS Integers, SequencesExt

CONSTANTS Databases,       \* the databases a file may hold
          MaxObjects,      \* maximum_objects, also the LIMIT of the query
          MaxColumns,      \* maximum_columns
          MaxIndexes,      \* maximum_indexes
          MaxForeign,      \* maximum_foreign_keys
          MaxRows,         \* maximum_sample_rows
          MaxCell,         \* the 512 bytes sqlite_value keeps of a cell
          MaxBytes         \* maximum_sample_bytes

ASSUME LimitAssumption ==
  {MaxObjects, MaxColumns, MaxIndexes, MaxForeign, MaxRows, MaxCell, MaxBytes}
    \subseteq Nat \ {0}

(* What a text, a blob or another value can be: no cut at its end tears it.  *)
StoredCell ==
  {c \in [type : {"null", "number", "text", "blob"}, size : Nat, stamp : Nat,
          inside : SUBSET Nat] : c.size \notin c.inside}

StoredColumn ==
  [names : SUBSET {"time", "signal", "id", "value", "quality"},
   type : {"date", "numeric", "text", "none"}, key : BOOLEAN]

StoredObject ==
  [type : {"table", "view"}, columns : Seq(StoredColumn), indexes : Seq(Seq(Nat)),
   foreign : Seq(Nat), rows : Seq(Seq(StoredCell))]

ASSUME DatabaseAssumption == Databases \subseteq Seq(StoredObject)

VARIABLES
  database,           \* what the file holds
  query,              \* the query that is next
  overdue,            \* the deadline has passed
  errcode,            \* sqlite3_errcode of the last query: ok, interrupt, other
  objects,            \* inspection.objects
  remaining,          \* sample_bytes_remaining
  schema_candidates,  \* inspection.schema_candidates
  error               \* inspection.error

inspectVars == <<database, query, overdue, errcode, objects, remaining,
                 schema_candidates, error>>

Least(a, b) == IF a < b THEN a ELSE b
First(s, n) == SubSeq(s, 1, Least(n, Len(s)))
Current == Len(objects)
Source == database[Current]
NoObject == [type |-> "none", columns |-> <<>>, indexes |-> {}, foreign |-> {},
             samples |-> <<>>]

InspectInit ==
  /\ database \in Databases
  /\ query = "open" /\ overdue = FALSE /\ errcode = "ok"
  /\ objects = <<>> /\ remaining = MaxBytes
  /\ schema_candidates = {} /\ error = "none"
-------------------------------------------------------------------------------
(* ArchiveSchemaAnalyzer.  Scores of one column of what was read of a table.*)
Populated(o, c) ==
  {i \in 1..Len(o.samples) : c <= Len(o.samples[i]) /\ o.samples[i][c].seen # "null"}

Having(o, c, kinds) == Cardinality({i \in Populated(o, c) : o.samples[i][c].seen \in kinds})

Repeats_Swapped(n) == IF n <= 2 THEN 1 ELSE 0

Repeats(n) == IF n >= 2 THEN 1 ELSE 0

sample_score(o, c, role) ==
  LET many == Repeats(Cardinality(Populated(o, c)))
  IN Least(10, CASE role = "timestamp" -> 2 * Having(o, c, {"number"})
                                            + 3 * Having(o, c, {"stamped"}) + 2 * many
                 [] role = "value"     -> 2 * Having(o, c, {"number"}) + 2 * many
                 [] role = "signal_id" -> 3 * many
                 [] role = "quality"   -> 2 * many)

If(p, n) == IF p THEN n ELSE 0
Numeric(col) == col.type = "numeric"
Textual(col) == col.type = "text"

name_score(col, role) ==
  CASE role = "timestamp" -> If("time" \in col.names, 15)
    [] role = "signal_id" -> If("signal" \in col.names, 12) + If("id" \in col.names, 7)
    [] role = "value"     -> If("value" \in col.names, 15)
    [] role = "quality"   -> If("quality" \in col.names, 15)

metadata_score(o, c, role) ==
  LET col == o.columns[c]
      indexed == \E ix \in o.indexes : \E i \in 1..Len(ix) : ix[i] = c
  IN If(indexed, IF role = "value" THEN 1 ELSE 4)
       + CASE role = "timestamp" -> If(col.type = "date" \/ Numeric(col), 4)
           [] role = "signal_id" -> If(Textual(col) \/ Numeric(col), 3)
                                      + If(col.key \/ c \in o.foreign, 4)
           [] role = "value"     -> If(Numeric(col), 7)
           [] role = "quality"   -> If(Textual(col) \/ Numeric(col), 3)

role_score(o, c, role) ==
  sample_score(o, c, role) + name_score(o.columns[c], role) + metadata_score(o, c, role)

Roles == {"timestamp", "signal_id", "value", "quality"}
Columns(o) == 1..Len(o.columns)
Threshold(role) == IF role = "quality" THEN 12 ELSE 10

best_score(o, role) == Max({0} \cup {role_score(o, c, role) : c \in Columns(o)})

(* The first of the columns with the best score, 0 when it is too low.      *)
best_column(o, role) ==
  LET best == best_score(o, role)
  IN IF best < Threshold(role) THEN 0
     ELSE Min({c \in Columns(o) : role_score(o, c, role) = best})

Needed == {"timestamp", "signal_id", "value"}
Complete(o) == Cardinality({r \in Needed : best_column(o, r) # 0})
Total(o) == best_score(o, "timestamp") + best_score(o, "signal_id") + best_score(o, "value")

(* 3 High, 2 Medium, 1 Low, 0 no candidate.                                 *)
candidate_confidence_Eager(o) ==
  IF o.type # "table" \/ o.columns = <<>> THEN 0
  ELSE Max({0} \cup {g \in 1..3 : Complete(o) >= g /\ Total(o) >= <<0, 30, 50>>[g]})

candidate_confidence(o) ==
  IF o.type # "table" \/ o.columns = <<>> THEN 0
  ELSE Max({0} \cup {g \in 1..3 : Complete(o) >= g /\ Total(o) >= <<0, 30, 55>>[g]})

Candidate(i) == [table |-> i, confidence |-> candidate_confidence(objects[i]),
                 timestamp |-> best_column(objects[i], "timestamp"), range |-> "unread"]
-------------------------------------------------------------------------------
(* The queries.  A query that completes resets the error code; one that     *)
(* runs long after the deadline is cut by the progress handler, and one may *)
(* fail at any time, of a writer's lock or a damaged page.                  *)
Completes == errcode' = "ok"

Interrupted == overdue /\ errcode' = "interrupt"

Breaks == Interrupted \/ errcode' = "other"

(* A loop over at most `most' of the `len' rows of a query ends after n:    *)
(* the last step found no more rows, was not taken, or broke off.           *)
EndsAfter(n, len, most) == \/ n = len /\ n < most /\ Completes
                           \/ n = most /\ n <= len /\ Completes
                           \/ n < most /\ Breaks

Expire == /\ query \notin {"open", "done", "thrown"} /\ ~overdue
          /\ overdue' = TRUE
          /\ UNCHANGED <<database, query, errcode, objects, remaining, schema_candidates,
                         error>>

Reads(o) == objects' = [objects EXCEPT ![Current] = o]

Rest == UNCHANGED <<database, overdue, schema_candidates, error>>

Open == /\ query = "open"
        /\ \/ query' = "objects" /\ UNCHANGED error
           \/ query' = "done" /\ error' = "cannot open"
        /\ UNCHANGED <<database, overdue, errcode, objects, remaining, schema_candidates>>

(* The query of the objects stays open over the queries of each of them:    *)
(* at MaxObjects it is not stepped again.                                   *)
NextObject ==
  /\ query = "objects"
  /\ \/ /\ Current < Least(MaxObjects, Len(database)) /\ Completes
        /\ objects' = Append(objects, [NoObject EXCEPT !.type = database[Current + 1].type])
        /\ query' = "columns"
     \/ /\ \/ Current = MaxObjects /\ UNCHANGED errcode
           \/ Current < MaxObjects /\ Current = Len(database) /\ Completes
           \/ Current < MaxObjects /\ Breaks
        /\ query' = "analyze"
        /\ UNCHANGED objects
  /\ UNCHANGED remaining
  /\ Rest

ReadColumns ==
  /\ query = "columns"
  /\ \E n \in 0..Len(Source.columns) :
       /\ EndsAfter(n, Len(Source.columns), MaxColumns)
       /\ Reads([objects[Current] EXCEPT !.columns = First(Source.columns, n)])
  /\ query' = IF Source.type = "table" THEN "indexes" ELSE "objects"
  /\ UNCHANGED remaining
  /\ Rest

(* The columns of an index are read with it, by a query that may break off. *)
ReadIndexes ==
  /\ query = "indexes"
  /\ \E n \in 0..Len(Source.indexes) : \E most \in [1..n -> 0..MaxColumns] :
       /\ EndsAfter(n, Len(Source.indexes), MaxIndexes)
       /\ Reads([objects[Current] EXCEPT
                   !.indexes = {First(Source.indexes[i], most[i]) : i \in 1..n}])
  /\ query' = "keys"
  /\ UNCHANGED remaining
  /\ Rest

ReadForeignKeys ==
  /\ query = "keys"
  /\ \E n \in 0..Len(Source.foreign) :
       /\ EndsAfter(n, Len(Source.foreign), MaxForeign)
       /\ Reads([objects[Current] EXCEPT !.foreign = {Source.foreign[i] : i \in 1..n}])
  /\ query' = "count"
  /\ UNCHANGED remaining
  /\ Rest

(* The count only words the evidence.                                       *)
Count == /\ query = "count"
         /\ Completes \/ Breaks
         /\ query' = IF objects[Current].columns # <<>> /\ remaining > 0 THEN "samples"
                     ELSE "objects"
         /\ UNCHANGED <<objects, remaining>>
         /\ Rest

(* sqlite_value: what is kept of a cell, and what the analyzer sees of it.  *)
Sized(cell) == cell.type \in {"text", "blob"}

Kept_Whole(cell, budget) == IF Sized(cell) THEN Least(cell.size, MaxCell) ELSE 0

Kept(cell, budget) == IF Sized(cell) THEN Least(cell.size, Least(budget, MaxCell)) ELSE 0

(* A blob is replaced by words, "<blob n bytes>", which have a t.           *)
Seen(cell, kept) ==
  IF cell.type = "blob" THEN "stamped"
  ELSE IF cell.type # "text" THEN cell.type
  ELSE IF kept \in cell.inside THEN "torn"
  ELSE IF cell.stamp \in 1..kept THEN "stamped" ELSE "plain"

(* The budget left after the first i cells of a row.                        *)
Left(row, budget) ==
  LET left[i \in 0..Len(row)] ==
        IF i = 0 THEN budget ELSE left[i - 1] - Kept(row[i], left[i - 1])
  IN left

Cells(row, budget) ==
  LET left == Left(row, budget)
      n == Cardinality({i \in 1..Least(Len(row), MaxColumns) : left[i - 1] > 0})
  IN [i \in 1..n |-> LET kept == Kept(row[i], left[i - 1])
                     IN [seen |-> Seen(row[i], kept), bytes |-> kept]]

Bytes(cells) == FoldLeft(LAMBDA n, cell : n + cell.bytes, 0, cells)

ReadRow ==
  /\ query = "samples"
  /\ LET n == Len(objects[Current].samples)
         more == n < MaxRows /\ remaining > 0
     IN \/ /\ more /\ n < Len(Source.rows) /\ Completes
           /\ LET cells == Cells(Source.rows[n + 1], remaining)
              IN /\ Reads([objects[Current] EXCEPT !.samples = Append(@, cells)])
                 /\ remaining' = remaining - Bytes(cells)
           /\ UNCHANGED query
        \/ /\ \/ more /\ n = Len(Source.rows) /\ Completes
              \/ more /\ Breaks
              \/ ~more /\ UNCHANGED errcode
           /\ query' = "objects"
           /\ UNCHANGED <<objects, remaining>>
  /\ Rest
-------------------------------------------------------------------------------
(* The end.  A text that was cut within a character cannot be dumped.       *)
Torn == \E i \in 1..Len(objects) : \E r \in 1..Len(objects[i].samples) :
          \E c \in 1..Len(objects[i].samples[r]) :
            /\ objects[i].samples[r][c].seen = "torn"
            /\ objects[i].type = "table" /\ c <= Len(objects[i].columns)

Analyze == /\ query = "analyze"
           /\ IF Torn
              THEN query' = "thrown" /\ UNCHANGED schema_candidates
              ELSE /\ schema_candidates' = {c \in {Candidate(i) : i \in 1..Len(objects)} :
                                            c.confidence > 0}
                   /\ query' = "ranges"
           /\ UNCHANGED <<database, overdue, errcode, objects, remaining, error>>

Supported(o, c) == \E ix \in o.indexes : \E i \in 1..Len(ix) : ix[i] = c

(* MIN and MAX of a candidate's timestamps, for those of them that have one *)
(* in an index.                                                             *)
ReadRange == /\ query = "ranges"
             /\ \E c \in schema_candidates :
                  /\ c.range = "unread"
                  /\ IF c.timestamp # 0 /\ Supported(objects[c.table], c.timestamp)
                     THEN /\ Completes \/ Breaks
                          /\ schema_candidates' = (schema_candidates \ {c})
                                                \cup {[c EXCEPT !.range = "read"]}
                     ELSE /\ schema_candidates' = (schema_candidates \ {c})
                                                \cup {[c EXCEPT !.range = "skipped"]}
                          /\ UNCHANGED errcode
             /\ UNCHANGED <<database, query, overdue, objects, remaining, error>>

Finish == /\ query = "ranges" /\ \A c \in schema_candidates : c.range # "unread"
          /\ error' = IF errcode = "interrupt" THEN "deadline" ELSE "none"
          /\ query' = "done"
          /\ UNCHANGED <<database, overdue, errcode, objects, remaining, schema_candidates>>
-------------------------------------------------------------------------------
Inspect == \/ Open \/ NextObject \/ ReadColumns \/ ReadIndexes \/ ReadForeignKeys
           \/ Count \/ ReadRow \/ Analyze \/ ReadRange \/ Finish

InspectNext == Expire \/ Inspect

InspectSpec == InspectInit /\ [][InspectNext]_inspectVars
-------------------------------------------------------------------------------
Types == /\ database \in Databases
         /\ query \in {"open", "objects", "columns", "indexes", "keys", "count", "samples",
                       "analyze", "ranges", "done", "thrown"}
         /\ overdue \in BOOLEAN
         /\ errcode \in {"ok", "interrupt", "other"}
         /\ error \in {"none", "cannot open", "deadline"}
         /\ remaining \in 0..MaxBytes
         /\ \A c \in schema_candidates :
              c.table \in 1..Len(objects) /\ c.confidence \in 1..3

RowBytes(o) == FoldLeft(LAMBDA n, row : n + Bytes(row), 0, o.samples)

SampleBytes(os) == FoldLeft(LAMBDA n, o : n + RowBytes(o), 0, os)

(* Every variable has its type.  However the texts of the rows, the blobs,  *)
(* the limit of a cell and the tables that share the budget fall together,  *)
(* the report stays within the limits of the inspector, and what is left of *)
(* the budget is what the bytes read of texts and blobs have not used.      *)
(* These alone are charged, so this does not bound the samples by the       *)
(* 64 KiB of docs/archive-discovery.md:9: numbers are free, and so are the  *)
(* words that stand for a blob when nothing is left of the budget.          *)
WithinLimits == /\ Types
                /\ Len(objects) <= MaxObjects
                /\ SampleBytes(objects) + remaining = MaxBytes
                /\ \A i \in 1..Len(objects) :
                     /\ Len(objects[i].columns) <= MaxColumns
                     /\ Cardinality(objects[i].indexes) <= MaxIndexes
                     /\ \A ix \in objects[i].indexes : Len(ix) <= MaxColumns
                     /\ Cardinality(objects[i].foreign) <= MaxForeign
                     /\ Len(objects[i].samples) <= MaxRows
                     /\ \A r \in 1..Len(objects[i].samples) :
                          /\ Len(objects[i].samples[r]) <= MaxColumns
                          /\ \A c \in 1..Len(objects[i].samples[r]) :
                               objects[i].samples[r][c].bytes <= MaxCell

(* A table whose columns' names say nothing.                                *)
Opaque(o) == \A c \in Columns(o) : o.columns[c].names = {}

(* Types, samples and indexes alone never make the analyzer sure: with      *)
(* names that say nothing the confidence is at most Medium.                 *)
OpaqueNeverHigh ==
  \A c \in schema_candidates : c.confidence = 3 => ~Opaque(objects[c.table])

(* What a table would be known to be without limits and deadline.           *)
Whole(t) == [type |-> t.type, columns |-> t.columns,
             indexes |-> ToSet(t.indexes), foreign |-> ToSet(t.foreign),
             samples |-> [r \in 1..Len(t.rows) |->
                            [c \in 1..Len(t.rows[r]) |->
                               [seen |-> Seen(t.rows[r][c], t.rows[r][c].size),
                                bytes |-> t.rows[r][c].size]]]]

(* Whatever the limits, the budget and the deadline keep from the analyzer, *)
(* it is never surer of a table than it would be of the whole of it.        *)
CutNeverRaises ==
  \A c \in schema_candidates :
    c.confidence <= candidate_confidence(Whole(database[c.table]))
===============================================================================
