----------------------------- MODULE JsonStore ------------------------------
(***************************************************************************)
(* One table of the persistence layer (aastar/src/database) on each of its *)
(* adapters.  "json" keeps it in a file: every call reads the whole file,  *)
(* and a write truncates it and writes all rows anew.  "columns" is a      *)
(* Postgres table, served statement by statement.  "document" is a row     *)
(* whose data is one column (transfers, the BLS configuration on           *)
(* Postgres): an update selects the row, merges, and writes the row.       *)
(*                                                                         *)
(* rows is the table a reader finds in the file when nobody is writing it. *)
(* Reading and writing the file, and a statement, may each fail while the  *)
(* process goes on.                                                        *)
(***************************************************************************)
CONSTANTS Id, Field, Value, None, Call

VARIABLES
  adapter, \* what onModuleInit chose, and for "document" the kind of table
  rows,    \* the table
  torn,    \* the file is truncated and not written yet
  calls    \* the calls in flight, each with the await it is at

vars == <<adapter, rows, torn, calls>>

Row == [Field -> Value]
Absent == [f \in Field |-> None]
Table == [Id -> Row \cup {Absent}]
Empty == [i \in Id |-> Absent]
Idle == [kind |-> "idle"]
Rejected == [kind |-> "rejected"]

Requests ==
  [kind : {"save"}, id : Id, row : Row]
    \cup [kind : {"update"}, id : Id, field : Field, value : Value]
    \cup [kind : {"find"}, id : Id]

IsWrite(r) == r.kind \in {"save", "update"}

-----------------------------------------------------------------------------
(* Bug: an update of a row that is not there adds one. *)
ChangedOrAdded(table, r) ==
  CASE r.kind = "save" -> [table EXCEPT ![r.id] = r.row]
    [] r.kind = "update" /\ table[r.id] # Absent ->
         [table EXCEPT ![r.id] = [table[r.id] EXCEPT ![r.field] = r.value]]
    [] r.kind = "update" /\ table[r.id] = Absent ->
         [table EXCEPT ![r.id] = [f \in Field |-> r.value]]
    [] OTHER -> table

(* Bug: an update takes the place of the row. *)
ChangedByReplacing(table, r) ==
  CASE r.kind = "save" -> [table EXCEPT ![r.id] = r.row]
    [] r.kind = "update" /\ table[r.id] # Absent ->
         [table EXCEPT ![r.id] = [Absent EXCEPT ![r.field] = r.value]]
    [] OTHER -> table

(* push of saveX; the spread { ...row, ...updates } of updateX, which does *)
(* nothing to a row that is not there.                                     *)
Changed(table, r) ==
  CASE r.kind = "save" -> [table EXCEPT ![r.id] = r.row]
    [] r.kind = "update" /\ table[r.id] # Absent ->
         [table EXCEPT ![r.id] = [table[r.id] EXCEPT ![r.field] = r.value]]
    [] OTHER -> table

(* readJSON: what cannot be parsed is an empty table ... *)
Contents == IF torn THEN Empty ELSE rows

(* ... and so is what could not be read. *)
ReadBy(c) == IF calls[c].misread THEN Empty ELSE Contents

InFlight(c) == calls[c].kind = "call"
At(c, step) == InFlight(c) /\ calls[c].step = step
Writers == {c \in Call : InFlight(c) /\ IsWrite(calls[c].request)}

Found(answer) == [kind |-> "found", answer |-> answer]

-----------------------------------------------------------------------------
Init ==
  /\ adapter \in {"json", "columns", "document"}
  /\ rows = Empty
  /\ torn = FALSE
  /\ calls = [c \in Call |-> Idle]

(* Rows are saved under ids that no row has or is about to have (uuid).    *)
Fresh(r) ==
  r.kind = "save" =>
    /\ rows[r.id] = Absent
    /\ \A d \in Call : InFlight(d) /\ calls[d].request.kind = "save" => calls[d].request.id # r.id

(* alone is history: no other writer has been in flight since. *)
Requested(c, r) ==
  [d \in Call |->
    IF d = c THEN [kind |-> "call", request |-> r, alone |-> Writers = {},
                   step |-> "read", copy |-> Empty, overtaken |-> FALSE, misread |-> FALSE]
    ELSE IF InFlight(d) /\ IsWrite(r) THEN [calls[d] EXCEPT !.alone = FALSE]
    ELSE calls[d]]

(* A service calls the adapter. *)
Request(c) ==
  /\ ~InFlight(c)
  /\ \E r \in Requests : Fresh(r) /\ calls' = Requested(c, r)
  /\ UNCHANGED <<adapter, rows, torn>>

(* readFile rejects, whatever the reason; the catch of readJSON swallows it. *)
ReadFails(c) ==
  /\ adapter = "json"
  /\ At(c, "read") /\ ~calls[c].misread
  /\ calls' = [calls EXCEPT ![c].misread = TRUE]
  /\ UNCHANGED <<adapter, rows, torn>>

(* readJSON has answered: finds and updates of no row are over, the others *)
(* have their copy to write.                                               *)
ReadFile(c) ==
  LET r == calls[c].request IN
  /\ adapter = "json"
  /\ At(c, "read")
  /\ calls' = [calls EXCEPT ![c] =
       IF r.kind = "find" THEN Found(ReadBy(c)[r.id])
       ELSE IF r.kind = "update" /\ ReadBy(c)[r.id] = Absent THEN Idle
       ELSE [@ EXCEPT !.step = "open", !.copy = Changed(ReadBy(c), r)]]
  /\ UNCHANGED <<adapter, rows, torn>>

(* writeFile opens the file, which truncates it ... *)
Truncate(c) ==
  /\ At(c, "open")
  /\ torn' = TRUE
  /\ calls' = [calls EXCEPT ![c].step = "write"]
  /\ UNCHANGED <<adapter, rows>>

(* A text is written over that of the calls that are about to write. *)
Written(c, outcome) ==
  [d \in Call |->
    IF d = c THEN outcome
    ELSE IF At(d, "write") THEN [calls[d] EXCEPT !.overtaken = TRUE]
    ELSE calls[d]]

(* ... and writes it.  If another call has written since, the longer text  *)
(* of the two may stick out, and the file cannot be parsed.                *)
WriteFile(c) ==
  /\ At(c, "write")
  /\ rows' \in {calls[c].copy} \cup (IF calls[c].overtaken THEN {Empty} ELSE {})
  /\ torn' = FALSE
  /\ calls' = Written(c, Idle)
  /\ UNCHANGED adapter

(* writeFile cannot open the file, which stays as it was ... *)
OpenRejects(c) ==
  /\ At(c, "open")
  /\ calls' = [calls EXCEPT ![c] = Rejected]
  /\ UNCHANGED <<adapter, rows, torn>>

(* ... or fails after it has truncated it: it has written all, some that   *)
(* cannot be parsed, or nothing.                                           *)
WriteRejects(c) ==
  /\ At(c, "write")
  /\ rows' \in {calls[c].copy, Empty, Contents}
  /\ torn' = FALSE
  /\ calls' = Written(c, Rejected)
  /\ UNCHANGED adapter

(* Postgres serves a statement: an insert, a select, an update by columns. *)
Statement(c) ==
  LET r == calls[c].request IN
  /\ At(c, "read")
  /\ adapter = "columns" \/ (adapter = "document" /\ r.kind # "update")
  /\ rows' = Changed(rows, r)
  /\ calls' = [calls EXCEPT ![c] = IF IsWrite(r) THEN Idle ELSE Found(rows[r.id])]
  /\ UNCHANGED <<adapter, torn>>

(* updateTransfer, updateBlsConfig: the row is selected and merged, and the *)
(* update of a transfer that is not there throws ...                       *)
SelectDocument(c) ==
  LET r == calls[c].request IN
  /\ At(c, "read") /\ adapter = "document" /\ r.kind = "update"
  /\ calls' = [calls EXCEPT ![c] =
       IF rows[r.id] = Absent THEN Rejected
       ELSE [@ EXCEPT !.step = "put", !.copy = Changed(rows, r)]]
  /\ UNCHANGED <<adapter, rows, torn>>

(* ... and its document written as it was merged. *)
PutDocument(c) ==
  /\ At(c, "put")
  /\ rows' = [rows EXCEPT ![calls[c].request.id] = calls[c].copy[calls[c].request.id]]
  /\ calls' = [calls EXCEPT ![c] = Idle]
  /\ UNCHANGED <<adapter, torn>>

(* A statement fails, or its answer is lost after it was served; one that  *)
(* only selects changes nothing.                                           *)
StatementRejects(c) ==
  LET r == calls[c].request IN
  /\ adapter # "json"
  /\ At(c, "read") \/ At(c, "put")
  /\ rows' \in {rows} \cup
       (IF At(c, "put") THEN {[rows EXCEPT ![r.id] = calls[c].copy[r.id]]}
        ELSE IF adapter = "columns" \/ r.kind # "update" THEN {Changed(rows, r)}
        ELSE {})
  /\ calls' = [calls EXCEPT ![c] = Rejected]
  /\ UNCHANGED <<adapter, torn>>

(* The process dies: the calls are gone, a file that was being written may *)
(* be cut short and is empty to the next one.                              *)
Crash ==
  /\ calls' = [c \in Call |-> Idle]
  /\ rows' \in {Contents} \cup (IF \E c \in Call : At(c, "write") THEN {Empty} ELSE {})
  /\ torn' = FALSE
  /\ UNCHANGED adapter

Next ==
  \/ Crash
  \/ \E c \in Call :
       \/ Request(c)
       \/ ReadFails(c) \/ ReadFile(c) \/ Truncate(c) \/ WriteFile(c)
       \/ OpenRejects(c) \/ WriteRejects(c)
       \/ Statement(c) \/ SelectDocument(c) \/ PutDocument(c) \/ StatementRejects(c)

Spec == Init /\ [][Next]_vars

-----------------------------------------------------------------------------
Steps == {"read", "open", "write", "put"}

(* Every call in flight has a request, a step and a table to write; the    *)
(* file is torn only while a call is between its two halves of writeFile.  *)
TypeOK ==
  /\ adapter \in {"json", "columns", "document"}
  /\ rows \in Table
  /\ torn \in BOOLEAN
  /\ calls \in [Call -> {Idle, Rejected} \cup [kind : {"found"}, answer : Row \cup {Absent}]
       \cup [kind : {"call"}, request : Requests, alone : BOOLEAN, step : Steps,
             copy : Table, overtaken : BOOLEAN, misread : BOOLEAN]]
  /\ torn => \E c \in Call : At(c, "write")

(* A call as the row store has it: whether it is in flight, alone, has     *)
(* misread the table, and what it found.                                   *)
Seen(call) ==
  IF call.kind = "call"
  THEN [kind |-> "call", request |-> call.request, alone |-> call.alone, misread |-> call.misread]
  ELSE call

Store == INSTANCE RowStore WITH exact <- adapter = "columns",
                                ops <- [c \in Call |-> Seen(calls[c])]

(* All adapters are the row store the services take them for (database/    *)
(* persistence.interface.ts): the Postgres table always, the file and the  *)
(* documents as far as no two writers of the table overlap.  A call whose  *)
(* own read of the file failed is served as if the table were empty, so    *)
(* that saving one row loses all others; a rejected write of the file may  *)
(* have emptied it; nothing else is lost.                                  *)
ImplementsRowStore == Store!Spec
=============================================================================
