---------------------------- MODULE SampleTable ----------------------------
(***************************************************************************)
(* The samples of a temperature or humidity sensor in its SQLite file, and *)
(* the average a rule takes of the last of them (tempsensor_db.c,          *)
(* csqlite3.c, temp_ave_rule_exec of tempsensor.c).                        *)
(*                                                                         *)
(* Two threads: the application's adds a row per sample, the timer's       *)
(* searches the rows of an interval.  Each opens the file for itself, but  *)
(* both write the text of their device id into the one global column table *)
(* (tempsensor_column) before they build their statement from it: the      *)
(* search a pointer to dev->device_id, the insert a pointer to a buffer on *)
(* its own stack, which is left there when the insert returns.             *)
(*                                                                         *)
(* Temperatures are counted in hundredths, as "%.2f" writes them, and the  *)
(* average is rounded exactly; the error of a double is left out.          *)
(***************************************************************************)
EXTENDS Integers, FiniteSets, FiniteSetsExt

CONSTANTS
    Dev,       \* dev->device_id
    Junk,      \* any other text
    Values,    \* temperatures, in hundredths
    Interval,  \* interval of the average
    MaxTime    \* bound on the clock

ASSUME ConstantsAssumption ==
    /\ Dev # Junk
    /\ Values \subseteq Int
    /\ Interval \in Nat /\ MaxTime \in Nat

VARIABLES
    now,      \* GetTimestampInt()
    created,  \* whether the file has the table
    table,    \* its rows; the time stamp is the primary key
    reading,  \* whether a search holds the file's shared lock
    column,   \* where the device column's key_value points
    add,      \* what the application's thread does next
    row,      \* the row of its statement
    tmr,      \* what the timer thread does next
    start,    \* the time its window ends
    id,       \* the device id of its statement
    found,    \* the rows handed to temp_ave_rule_cb
    window,   \* the rows of the window when they were read
    failed,   \* whether SQLite failed the search: to open the file, or in it
    crossed,  \* whether an insert put its pointer over the search's and returned
    average   \* what temp_ave_rule_exec returned last, and the result it took

fileVars == <<created, table>>
addVars == <<add, row>>
tmrVars == <<tmr, start, id, found, window, failed>>
vars == <<now, fileVars, reading, column, addVars, tmrVars, crossed, average>>

Rows == [stamp : 0..MaxTime, id : {Dev, Junk}, value : Values]
Pointers == {"null", "own", "stack", "dangling"}

Init ==
    /\ now = 0
    /\ created \in BOOLEAN /\ table = {}
    /\ reading = FALSE
    /\ column = "null"
    /\ add = "idle" /\ row \in [stamp : {0}, id : {Junk}, value : Values]
    /\ tmr = "idle" /\ start = 0 /\ id = Junk
    /\ found = {} /\ window = {} /\ failed = FALSE /\ crossed = FALSE
    /\ average = [ret |-> 1, value |-> 0]

\* The texts a statement may get from the column table: both threads store the
\* same id; freed stack may hold anything, NULL is printed as "(null)".
TextOf(pointer) ==
    CASE pointer \in {"own", "stack"} -> {Dev}
      [] pointer = "dangling" -> {Dev, Junk}
      [] pointer = "null" -> {Junk}

Tick ==
    /\ now < MaxTime
    /\ now' = now + 1
    /\ UNCHANGED <<fileVars, reading, column, addVars, tmrVars, crossed, average>>

-----------------------------------------------------------------------------
(* TempsensorDataToDb, on the application's thread                         *)

Sample(v) ==
    /\ add = "idle"
    /\ row' = [row EXCEPT !.value = v]
    /\ add' = "create"
    /\ UNCHANGED <<now, fileVars, reading, column, tmrVars, crossed, average>>

\* sql_database_init and sql_create_table: the table is there or gets created; a
\* count of -1, the failure to look for it, is taken for its presence; a failure
\* to open the file or to create the table ends the insert.
CreateTable ==
    /\ add = "create"
    /\ \/ created' \in {created, TRUE} /\ add' = "set"
       \/ created' = created /\ add' = "idle"
    /\ UNCHANGED <<now, table, reading, column, row, tmrVars, crossed, average>>

\* tempsensor_table_add fills in the columns and takes the time.
SetColumns ==
    /\ add = "set"
    /\ column' = "stack"
    /\ row' = [row EXCEPT !.stamp = now]
    /\ add' = "build"
    /\ UNCHANGED <<now, fileVars, reading, tmrVars, crossed, average>>

\* The loop of sql_insert_column_data over the column table.
BuildInsert ==
    /\ add = "build"
    /\ \E text \in TextOf(column) : row' = [row EXCEPT !.id = text]
    /\ add' = "insert"
    /\ UNCHANGED <<now, fileVars, reading, column, tmrVars, crossed, average>>

\* sql_exec repeats the statement while the file is locked; any other error, as
\* a missing table, a second row for the same time or a full disk, is only logged.
Insert ==
    /\ add = "insert"
    /\ ~reading
    /\ \/ table' = table
       \/ /\ created
          /\ \A r \in table : r.stamp # row.stamp
          /\ table' = table \cup {row}
    /\ add' = "return"
    /\ UNCHANGED <<now, created, reading, column, row, tmrVars, crossed, average>>

\* The buffers of tempsensor_table_add are gone.
AddReturns ==
    /\ add = "return"
    /\ column' = IF column = "stack" THEN "dangling" ELSE column
    /\ crossed' = (crossed \/ (tmr = "build" /\ column = "stack"))
    /\ add' = "idle"
    /\ UNCHANGED <<now, fileVars, reading, row, tmrVars, average>>

-----------------------------------------------------------------------------
(* temp_ave_rule_exec, on the timer thread                                 *)

\* The rows of the interval.
Matching == {r \in table : r.stamp \in (start - Interval)..start}

AverageStart ==
    /\ tmr = "idle"
    /\ start' = now
    /\ tmr' = "set"
    /\ UNCHANGED <<now, fileVars, reading, column, addVars, id, found, window, failed,
                   crossed, average>>

\* sql_database_init cannot open the file, and temp_ave_rule_exec does not look
\* at what TempsensorTableSearchByTime returns.
SearchOpenFails ==
    /\ tmr = "set"
    /\ found' = {} /\ window' = Matching /\ failed' = TRUE
    /\ crossed' = FALSE
    /\ tmr' = "average"
    /\ UNCHANGED <<now, fileVars, reading, column, addVars, start, id, average>>

\* A slip of the next: the search trusts what the column table holds.
SearchKeepsColumn ==
    /\ tmr = "set"
    /\ failed' = FALSE /\ crossed' = FALSE
    /\ tmr' = "build"
    /\ UNCHANGED <<now, fileVars, reading, column, addVars, start, id, found, window,
                   average>>

\* TempsensorTableSearchByTime.
SearchSetsColumn ==
    /\ tmr = "set"
    /\ column' = "own"
    /\ failed' = FALSE /\ crossed' = FALSE
    /\ tmr' = "build"
    /\ UNCHANGED <<now, fileVars, reading, addVars, start, id, found, window, average>>

\* A slip of the next: the search takes its pointer out of the table again.
BuildSearchResets ==
    /\ tmr = "build"
    /\ id' \in TextOf(column)
    /\ column' = "null"
    /\ tmr' = "exec"
    /\ UNCHANGED <<now, fileVars, reading, addVars, start, found, window, failed,
                   crossed, average>>

\* sql_search_range.
BuildSearch ==
    /\ tmr = "build"
    /\ id' \in TextOf(column)
    /\ tmr' = "exec"
    /\ UNCHANGED <<now, fileVars, reading, column, addVars, start, found, window,
                   failed, crossed, average>>

\* Without a table, with a text that is no string of SQL, or when SQLite fails for
\* a reason of its own, the statement is an error, which nobody looks at.
SearchError ==
    /\ tmr = "exec"
    /\ failed' \in BOOLEAN
    /\ ~created \/ id = Junk \/ failed'
    /\ found' = {} /\ window' = Matching
    /\ tmr' = "average"
    /\ UNCHANGED <<now, fileVars, reading, column, addVars, start, id, crossed, average>>

SearchBegins ==
    /\ tmr = "exec"
    /\ created
    /\ reading' = TRUE
    /\ tmr' = "read"
    /\ UNCHANGED <<now, fileVars, column, addVars, start, id, found, window, failed,
                   crossed, average>>

\* An error half way, as of the disk: the rows before it were handed over.
SearchBreaks ==
    /\ tmr = "read"
    /\ window' = Matching
    /\ \E t \in 0..MaxTime : found' = {r \in window' : r.id = id /\ r.stamp < t}
    /\ failed' = TRUE
    /\ reading' = FALSE
    /\ tmr' = "average"
    /\ UNCHANGED <<now, fileVars, column, addVars, start, id, crossed, average>>

\* A slip of the next: the lock outlives the statement.
SearchKeepsLock ==
    /\ tmr = "read"
    /\ window' = Matching
    /\ found' = {r \in window' : r.id = id}
    /\ tmr' = "average"
    /\ UNCHANGED <<now, fileVars, reading, column, addVars, start, id, failed, crossed,
                   average>>

\* One call of temp_ave_rule_cb per row.
SearchReads ==
    /\ tmr = "read"
    /\ window' = Matching
    /\ found' = {r \in window' : r.id = id}
    /\ reading' = FALSE
    /\ tmr' = "average"
    /\ UNCHANGED <<now, fileVars, column, addVars, start, id, failed, crossed, average>>

\* Division as C does it, towards zero.
Quotient(a, b) == IF a >= 0 THEN a \div b ELSE -((-a) \div b)

\* A slip of the next: no half is added before the cut.
RoundedDown(sum, count) == Quotient(sum, count)

\* (int)((result+0.005)*100) of the average result = sum/count.
Rounded(sum, count) == Quotient(2 * sum + count, 2 * count)

SumOf(rows) == MapThenSumSet(LAMBDA r : r.value, rows)

\* A slip of the next: the number of samples is returned instead of 0.
AverageReturnsSamples(rows) ==
    LET value == IF rows = {} THEN 0 ELSE Rounded(SumOf(rows), Cardinality(rows))
    IN  [ret |-> IF value = 0 THEN 1 ELSE Cardinality(rows), value |-> value]

\* An average of zero is taken for a failed search.
AverageOf(rows) ==
    LET value == IF rows = {} THEN 0 ELSE Rounded(SumOf(rows), Cardinality(rows))
    IN  [ret |-> IF value = 0 THEN 1 ELSE 0, value |-> value]

\* The rows go with the memory of ave.
AverageEnds ==
    /\ tmr = "average"
    /\ average' = AverageOf(found)
    /\ found' = {} /\ window' = {}
    /\ tmr' = "idle"
    /\ UNCHANGED <<now, fileVars, reading, column, addVars, start, id, failed, crossed>>

-----------------------------------------------------------------------------
Adder ==
    \/ CreateTable
    \/ SetColumns \/ BuildInsert
    \/ Insert
    \/ AddReturns
Timer ==
    \/ SearchOpenFails \/ SearchSetsColumn \/ BuildSearch
    \/ SearchError \/ SearchBegins \/ SearchBreaks \/ SearchReads
    \/ AverageEnds

Next == Tick \/ (\E v \in Values : Sample(v)) \/ Adder \/ AverageStart \/ Timer

Spec == Init /\ [][Next]_vars

\* Both threads run.  An attempt to write comes every second and a search takes
\* the file for milliseconds once in an interval, so that of attempts that can
\* succeed again and again one does.
FairSpec == Spec /\ WF_vars(Timer) /\ WF_vars(Adder)
                 /\ SF_vars(Insert)

-----------------------------------------------------------------------------
(* Properties                                                              *)

\* Types of the column table's pointer, the rows and the two threads.
TypeOK ==
    /\ now \in 0..MaxTime
    /\ {created, reading, failed, crossed} \subseteq BOOLEAN
    /\ table \in SUBSET Rows /\ found \in SUBSET Rows /\ window \in SUBSET Rows
    /\ column \in Pointers
    /\ add \in {"idle", "create", "set", "build", "insert", "return"}
    /\ row \in Rows
    /\ tmr \in {"idle", "set", "build", "exec", "read", "average"}
    /\ start \in 0..MaxTime
    /\ id \in {Dev, Junk}
    /\ average \in [ret : {0, 1}, value : Int]

\* Whatever the timer thread does to the shared column table between the moment
\* an insert stores its pointer there and the moment the statement is built, the
\* row is filed under its own device.
RowsAreFiled == \A r \in table : r.id = Dev

\* The rule averages rows of its window only; unless SQLite failed the search,
\* which the rule does not notice, all of them or none, and none only if an insert
\* put its own pointer over that of the search and returned, all before the search
\* had built its statement (tempsensor_db.c:77, 141).
WindowIsAveraged ==
    tmr = "average" =>
        /\ found \subseteq window
        /\ failed \/ found = window \/ (found = {} /\ crossed)

\* The average that is put on chain is that of the rows: to half a hundredth if it
\* is positive, and less than one and a half too high if it is negative; it fails
\* on rows only when their average is as small as that (tempsensor.c:79-85).
AverageIsClose ==
    [][AverageEnds /\ found # {} =>
         LET n == Cardinality(found)
             error == 2 * (n * average'.value - SumOf(found))
         IN  IF SumOf(found) >= 0 THEN error \in (1 - n)..n
             ELSE error \in 1..(3 * n - 1)]_vars

\* A sample is in the table, or refused by it, at some time, and an average comes
\* to an end: neither thread is held off by the other for ever (csqlite3.c:76).
StatementsEnd ==
    /\ add = "insert" ~> add = "idle"
    /\ tmr = "exec" ~> tmr = "idle"
=============================================================================
