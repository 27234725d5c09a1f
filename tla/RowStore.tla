------------------------------ MODULE RowStore ------------------------------
(***************************************************************************)
(* What the services take the persistence layer for: a table of rows, each *)
(* a function from fields to values, changed row by row.  A call takes     *)
(* effect exactly as asked when it is the only writer from its beginning   *)
(* to its end, or when the store is exact.  Of writers that overlap        *)
(* nothing is promised but that they leave a table, and of the answers to  *)
(* finds beside them nothing at all.                                       *)
(*                                                                         *)
(* The medium may fail a call.  An exact store then rejects it, and has    *)
(* served it or not.  Any other store may also take a table it could not   *)
(* read for an empty one and serve the call from that, which leaves of the *)
(* table the row being saved alone; and a write it rejects may have        *)
(* emptied the table.                                                      *)
(***************************************************************************)
CONSTANTS
  Id,     \* the ids of rows
  Field,  \* the fields of a row
  Value,  \* the values of a field
  None,   \* no value: a row of None is absent
  Call    \* slots for calls in flight

VARIABLES
  exact,  \* TRUE: every call is exact, whatever overlaps it
  rows,   \* the table
  ops     \* the calls in flight, the answers of finds that are over, the
          \* calls that were rejected

Row == [Field -> Value]
Absent == [f \in Field |-> None]
Tables == [Id -> Row \cup {Absent}]
Empty == [i \in Id |-> Absent]
Idle == [kind |-> "idle"]

(* The calls a service can make. *)
Requests ==
  [kind : {"save"}, id : Id, row : Row]
    \cup [kind : {"update"}, id : Id, field : Field, value : Value]
    \cup [kind : {"find"}, id : Id]

IsWrite(r) == r.kind \in {"save", "update"}

(* The table after request r has been served. *)
Applied(table, r) ==
  CASE r.kind = "save" -> [table EXCEPT ![r.id] = r.row]
    [] r.kind = "update" /\ table[r.id] # Absent ->
         [table EXCEPT ![r.id] = [table[r.id] EXCEPT ![r.field] = r.value]]
    [] OTHER -> table

(* What a call takes for the table, and the table it leaves: one that      *)
(* misread the table finds no row to update.                               *)
Taken(call) == IF call.misread THEN Empty ELSE rows
Served(call) ==
  IF call.misread /\ call.request.kind = "update" THEN rows
  ELSE Applied(Taken(call), call.request)

(* A call in flight: whether it has been the only writer so far, and       *)
(* whether it has misread the table.                                       *)
Pending(r, alone, misread) ==
  [kind |-> "call", request |-> r, alone |-> alone, misread |-> misread]

InFlight(c) == ops[c].kind = "call"
Sound(c) == exact \/ ops[c].alone
Writers == {c \in Call : InFlight(c) /\ IsWrite(ops[c].request)}

Init ==
  /\ exact \in BOOLEAN
  /\ rows = Empty
  /\ ops = [c \in Call |-> Idle]

(* A call begins.  If it writes, no other call in flight is alone any more. *)
Began(c, r) ==
  [d \in Call |->
     IF d = c THEN Pending(r, Writers = {}, FALSE)
     ELSE IF InFlight(d) /\ IsWrite(r) THEN Pending(ops[d].request, FALSE, ops[d].misread)
     ELSE ops[d]]

Begin(c) ==
  /\ ~InFlight(c)
  /\ \E r \in Requests : ops' = Began(c, r)
  /\ UNCHANGED <<exact, rows>>

(* The table cannot be read, and the call is served as if it were empty. *)
Misread(c) ==
  /\ ~exact /\ InFlight(c)
  /\ ops' = [ops EXCEPT ![c] = Pending(ops[c].request, ops[c].alone, TRUE)]
  /\ UNCHANGED <<exact, rows>>

End(c) ==
  LET r == ops[c].request IN
  /\ InFlight(c)
  /\ rows' \in IF ~IsWrite(r) THEN {rows} ELSE IF Sound(c) THEN {Served(ops[c])} ELSE Tables
  /\ \E answer \in Row \cup {Absent} :
       /\ Sound(c) => answer = Taken(ops[c])[r.id]
       /\ ops' = [ops EXCEPT ![c] = IF IsWrite(r) THEN Idle ELSE [kind |-> "found", answer |-> answer]]
  /\ UNCHANGED exact

(* The call is rejected, and what it was to do is done, or not, or an      *)
(* inexact store is left empty.                                            *)
Reject(c) ==
  /\ InFlight(c)
  /\ rows' \in IF ~IsWrite(ops[c].request) THEN {rows}
              ELSE IF exact THEN {rows, Served(ops[c])}
              ELSE IF ops[c].alone THEN {rows, Served(ops[c]), Empty}
              ELSE Tables
  /\ ops' = [ops EXCEPT ![c] = [kind |-> "rejected"]]
  /\ UNCHANGED exact

(* The process dies; a store that is not exact may be left with any table *)
(* if it was being written.                                               *)
Crash ==
  /\ ops' = [c \in Call |-> Idle]
  /\ rows' \in IF exact \/ Writers = {} THEN {rows} ELSE Tables
  /\ UNCHANGED exact

Next == Crash \/ \E c \in Call : Begin(c) \/ Misread(c) \/ End(c) \/ Reject(c)

Spec == Init /\ [][Next]_<<exact, rows, ops>>
=============================================================================
