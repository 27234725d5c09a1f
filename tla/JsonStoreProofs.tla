-------------------------- MODULE JsonStoreProofs ---------------------------
(***************************************************************************)
(* Every adapter of the persistence layer implements the row store, for    *)
(* any rows, fields, values and calls in flight.                           *)
(***************************************************************************)
EXTENDS JsonStore, TLAPS

InFlightCalls ==
  [kind : {"call"}, request : Requests, alone : BOOLEAN, step : Steps,
   copy : Table, overtaken : BOOLEAN, misread : BOOLEAN]

(* What a call takes for the table, and the table it is to leave. *)
Taken(c) == IF calls[c].misread THEN Empty ELSE rows
Served(c) ==
  IF calls[c].misread /\ calls[c].request.kind = "update" THEN rows
  ELSE Changed(Taken(c), calls[c].request)

(* A call that is alone has no other writer beside it, and what it is      *)
(* about to write is the table it takes there to be, changed as it was     *)
(* asked.                                                                  *)
GoodCall(c) ==
  /\ calls[c].alone => Writers \subseteq {c}
  /\ calls[c].step # "read" => adapter # "columns" /\ IsWrite(calls[c].request)
  /\ calls[c].step \in {"open", "write"} => adapter = "json"
  /\ calls[c].step = "put" => adapter = "document" /\ calls[c].request.kind = "update"
  /\ calls[c].alone /\ calls[c].step # "read" =>
       /\ calls[c].copy = Served(c)
       /\ ~calls[c].overtaken
  /\ calls[c].misread => adapter = "json"
  /\ calls[c].step \in {"read", "open"} => ~calls[c].overtaken

IInv == TypeOK /\ \A c \in Call : InFlight(c) => GoodCall(c)

(* A table stays a table whatever request changes it. *)
LEMMA ChangedType ==
  ASSUME NEW table \in Table, NEW r \in Requests
  PROVE  Changed(table, r) \in Table
BY DEF Changed, Table, Row, Requests, Absent

LEMMA CopyType ==
  ASSUME TypeOK, NEW c \in Call, InFlight(c)
  PROVE  calls[c] \in InFlightCalls
BY DEF TypeOK, InFlight, InFlightCalls, Idle, Rejected

LEMMA InitInv == Init => IInv
<1> SUFFICES ASSUME Init PROVE IInv
  OBVIOUS
<1>1. rows \in Table
  BY DEF Init, Empty, Table
<1>2. calls \in [Call -> {Idle}]
  BY DEF Init
<1>3. \A c \in Call : ~InFlight(c)
  BY <1>2 DEF InFlight, Idle
<1> QED
  BY <1>1, <1>2, <1>3 DEF Init, IInv, TypeOK

LEMMA ContentsType == TypeOK => Contents \in Table
BY DEF TypeOK, Contents, Empty, Table

(* A new request leaves the calls of the other slots as they were, but for *)
(* their being alone.                                                      *)
LEMMA RequestInv ==
  ASSUME IInv, NEW c \in Call, Request(c) PROVE IInv'
<1>0. PICK r \in Requests : Fresh(r) /\ calls' = Requested(c, r)
  BY DEF Request
<1>1. /\ r \in Requests
      /\ calls' = [d \in Call |->
          IF d = c THEN [kind |-> "call", request |-> r, alone |-> Writers = {},
                         step |-> "read", copy |-> Empty, overtaken |-> FALSE, misread |-> FALSE]
          ELSE IF InFlight(d) /\ IsWrite(r) THEN [calls[d] EXCEPT !.alone = FALSE]
          ELSE calls[d]]
  <2>1. calls' = Requested(c, r)
    BY <1>0
  <2> QED BY <1>0, <2>1 DEF Requested
<1>2. ~InFlight(c) /\ UNCHANGED <<adapter, rows, torn>>
  BY DEF Request
<1>3. /\ calls'[c] = [kind |-> "call", request |-> r, alone |-> Writers = {},
                      step |-> "read", copy |-> Empty, overtaken |-> FALSE, misread |-> FALSE]
      /\ \A d \in Call \ {c} :
           calls'[d] = IF InFlight(d) /\ IsWrite(r) THEN [calls[d] EXCEPT !.alone = FALSE]
                       ELSE calls[d]
  BY <1>1
<1>4. /\ calls'[c] \in InFlightCalls
      /\ \A d \in Call \ {c} : InFlight(d) => calls'[d] \in InFlightCalls
  <2>1. Empty \in Table
    BY DEF Empty, Table
  <2>2. calls'[c] \in InFlightCalls
    BY <1>3, <2>1 DEF InFlightCalls, Steps
  <2>3. ASSUME NEW d \in Call \ {c}, InFlight(d) PROVE calls'[d] \in InFlightCalls
    <3>1. calls[d] \in InFlightCalls
      BY <2>3, CopyType DEF IInv
    <3> QED
      BY <3>1, <2>3, <1>3 DEF InFlightCalls
  <2> QED
    BY <2>2, <2>3
<1>5. \A d \in Call \ {c} : ~InFlight(d) => calls'[d] = calls[d]
  BY <1>3
<1>6. TypeOK'
  <2>1. calls' \in [Call -> {Idle, Rejected} \cup [kind : {"found"}, answer : Row \cup {Absent}]
                       \cup InFlightCalls]
    BY <1>1, <1>4, <1>5 DEF IInv, TypeOK, InFlightCalls
  <2>2. torn => \E d \in Call : At(d, "write")'
    <3>1. SUFFICES ASSUME torn PROVE \E d \in Call : At(d, "write")'
      OBVIOUS
    <3>2. PICK d \in Call : At(d, "write")
      BY <3>1 DEF IInv, TypeOK
    <3>3. d # c /\ calls[d] \in InFlightCalls
      BY <3>2, <1>2, CopyType DEF At, IInv
    <3>4. calls'[d].kind = "call" /\ calls'[d].step = "write"
      BY <3>2, <3>3, <1>3 DEF At, InFlight, InFlightCalls
    <3> QED
      BY <3>4 DEF At, InFlight
  <2> QED
    BY <1>2, <2>1, <2>2 DEF IInv, TypeOK, InFlightCalls
<1>7. Writers \subseteq Writers' /\ Writers' = IF IsWrite(r) THEN Writers \cup {c} ELSE Writers
  <2>1. \A d \in Call \ {c} : InFlight(d) => calls[d] \in InFlightCalls
    BY CopyType DEF IInv
  <2>2. \A d \in Call \ {c} : d \in Writers' <=> d \in Writers
    BY <2>1, <1>3 DEF Writers, InFlight, InFlightCalls
  <2>3. c \notin Writers /\ (c \in Writers' <=> IsWrite(r))
    BY <1>2, <1>3 DEF Writers, InFlight
  <2>4. Writers \subseteq Call /\ Writers' \subseteq Call
    BY DEF Writers
  <2> QED
    BY <2>2, <2>3, <2>4
<1>8. GoodCall(c)'
  <2>1. Writers = {} => Writers' \subseteq {c}
    BY <1>7
  <2>2. /\ calls'[c].alone = (Writers = {})
        /\ calls'[c].step = "read" /\ calls'[c].overtaken = FALSE
        /\ calls'[c].misread = FALSE
    BY <1>3
  <2> QED
    BY <2>1, <2>2 DEF GoodCall
<1>9. ASSUME NEW d \in Call \ {c}, InFlight(d)' PROVE GoodCall(d)'
  <2>1. InFlight(d) /\ calls[d] \in InFlightCalls
    BY <1>9, <1>3, CopyType DEF InFlight, IInv
  <2>2. GoodCall(d)
    BY <2>1 DEF IInv
  <2>3. /\ calls'[d].request = calls[d].request /\ calls'[d].step = calls[d].step
        /\ calls'[d].copy = calls[d].copy /\ calls'[d].overtaken = calls[d].overtaken
        /\ calls'[d].misread = calls[d].misread
        /\ calls'[d].alone => calls[d].alone /\ ~IsWrite(r)
    BY <2>1, <1>3 DEF InFlightCalls
  <2> QED
    BY <2>2, <2>3, <1>2, <1>7 DEF GoodCall, Served, Taken
<1> QED
  BY <1>6, <1>8, <1>9 DEF IInv

(* A step of one call that keeps its request, and changes the table only   *)
(* when it writes and is over, keeps the invariant if its own call is good *)
(* after it.                                                               *)
LEMMA OneCallInv ==
  ASSUME IInv, NEW c \in Call, InFlight(c), NEW new,
         calls' = [calls EXCEPT ![c] = new],
         new \in {Idle, Rejected} \cup [kind : {"found"}, answer : Row \cup {Absent}] \cup InFlightCalls,
         new.kind = "call" =>
           /\ new.request = calls[c].request /\ new.alone = calls[c].alone
           /\ GoodCall(c)'
         ,
         adapter' = adapter, rows' \in Table,
         rows' # rows => IsWrite(calls[c].request),
         torn' \in BOOLEAN, torn' => \E d \in Call : At(d, "write")'
  PROVE  IInv'
<1>1. calls'[c] = new /\ \A d \in Call \ {c} : calls'[d] = calls[d]
  BY DEF IInv, TypeOK
<1>2. TypeOK'
  BY <1>1 DEF IInv, TypeOK, InFlightCalls
<1>3. Writers' \subseteq Writers
  BY <1>1 DEF Writers, InFlight
<1>4. ASSUME NEW d \in Call \ {c}, InFlight(d)' PROVE GoodCall(d)'
  <2>1. InFlight(d) /\ calls'[d] = calls[d] /\ GoodCall(d)
    BY <1>4, <1>1 DEF InFlight, IInv
  <2>2. calls[d].alone => rows' = rows
    <3>1. CASE rows' = rows
      BY <3>1
    <3>2. CASE rows' # rows
      <4>1. c \in Writers
        BY <3>2 DEF Writers
      <4> QED
        BY <4>1, <2>1 DEF GoodCall
    <3> QED
      BY <3>1, <3>2
  <2> QED
    BY <2>1, <2>2, <1>3 DEF GoodCall, Served, Taken
<1>5. InFlight(c)' => GoodCall(c)'
  BY <1>1 DEF InFlight
<1> QED
  BY <1>2, <1>4, <1>5 DEF IInv

LEMMA ReadByType ==
  ASSUME TypeOK, NEW c \in Call, InFlight(c) PROVE ReadBy(c) \in Table
BY ContentsType DEF ReadBy, Empty, Table

LEMMA ReadFailsInv ==
  ASSUME IInv, NEW c \in Call, ReadFails(c) PROVE IInv'
<1> DEFINE new == [calls[c] EXCEPT !.misread = TRUE]
<1>1. /\ InFlight(c) /\ calls[c].step = "read" /\ calls[c] \in InFlightCalls /\ GoodCall(c)
      /\ calls' = [calls EXCEPT ![c] = new] /\ UNCHANGED <<adapter, rows, torn>>
      /\ adapter = "json"
  BY CopyType DEF ReadFails, At, IInv
<1>2. /\ new \in InFlightCalls /\ new.kind = "call" /\ new.step = "read"
      /\ new.request = calls[c].request /\ new.alone = calls[c].alone
      /\ new.overtaken = calls[c].overtaken
  BY <1>1 DEF InFlightCalls
<1> HIDE DEF new
<1>3. calls'[c] = new /\ \A d \in Call \ {c} : calls'[d] = calls[d]
  BY <1>1 DEF IInv, TypeOK
<1>4. Writers' \subseteq Writers
  BY <1>1, <1>2, <1>3 DEF Writers, InFlight
<1>5. GoodCall(c)'
  BY <1>1, <1>2, <1>3, <1>4 DEF GoodCall
<1>6. torn' => \E d \in Call : At(d, "write")'
  BY <1>1, <1>2, <1>3 DEF IInv, TypeOK, At, InFlight
<1>7. rows' \in Table /\ torn' \in BOOLEAN
  BY <1>1 DEF IInv, TypeOK
<1> QED
  BY <1>1, <1>2, <1>5, <1>6, <1>7, OneCallInv

LEMMA ReadFileInv ==
  ASSUME IInv, NEW c \in Call, ReadFile(c) PROVE IInv'
<1> DEFINE r == calls[c].request
           new == IF r.kind = "find" THEN Found(ReadBy(c)[r.id])
                  ELSE IF r.kind = "update" /\ ReadBy(c)[r.id] = Absent THEN Idle
                  ELSE [calls[c] EXCEPT !.step = "open", !.copy = Changed(ReadBy(c), r)]
<1>1. /\ adapter = "json" /\ InFlight(c) /\ calls[c].step = "read" /\ calls[c] \in InFlightCalls
      /\ calls' = [calls EXCEPT ![c] = new] /\ UNCHANGED <<adapter, rows, torn>>
  BY CopyType DEF ReadFile, At, IInv
<1>2. r \in Requests /\ r.id \in Id /\ r.kind \in {"save", "update", "find"}
  BY <1>1 DEF InFlightCalls, Requests
<1>3. ReadBy(c) \in Table /\ Changed(ReadBy(c), r) \in Table
  BY <1>1, <1>2, ReadByType, ChangedType DEF IInv
<1>4. new \in {Idle, Rejected} \cup [kind : {"found"}, answer : Row \cup {Absent}] \cup InFlightCalls
  BY <1>1, <1>2, <1>3 DEF InFlightCalls, Steps, Found, Table
<1>5. GoodCall(c)
  BY <1>1 DEF IInv
<1>6. \E d \in Call : torn => At(d, "write") /\ d # c
  BY <1>1 DEF IInv, TypeOK, At
<1>7. calls'[c] = new /\ \A d \in Call \ {c} : calls'[d] = calls[d]
  BY <1>1 DEF IInv, TypeOK
<1>8. torn' => \E d \in Call : At(d, "write")'
  BY <1>1, <1>6, <1>7 DEF At, InFlight
<1>9. ASSUME new.kind = "call"
      PROVE  /\ new.request = r /\ new.alone = calls[c].alone /\ GoodCall(c)'
  <2>1. /\ new = [calls[c] EXCEPT !.step = "open", !.copy = Changed(ReadBy(c), r)]
        /\ r.kind # "find"
    BY <1>9 DEF Found, Idle
  <2>2. /\ new.step = "open" /\ new.copy = Changed(ReadBy(c), r) /\ new.request = r
        /\ new.alone = calls[c].alone /\ new.overtaken = calls[c].overtaken
        /\ new.misread = calls[c].misread
    BY <2>1, <1>1 DEF InFlightCalls
  <2>3. IsWrite(r)
    BY <2>1, <1>2 DEF IsWrite
  <2>4. Writers' \subseteq Writers
    BY <1>7, <2>2, <2>3, <1>1 DEF Writers, InFlight
  <2>5. calls[c].alone => ReadBy(c) = Taken(c)
    <3> SUFFICES ASSUME calls[c].alone, torn PROVE FALSE
      BY DEF ReadBy, Contents, Taken
    <3>1. PICK d \in Call : At(d, "write") /\ d # c
      BY <1>6
    <3>2. d \in Writers
      BY <3>1 DEF Writers, At, IInv, GoodCall
    <3> QED
      BY <3>1, <3>2, <1>5 DEF GoodCall
  <2>7. calls[c].misread => r.kind # "update"
    <3> SUFFICES ASSUME calls[c].misread, r.kind = "update" PROVE FALSE
      OBVIOUS
    <3>1. ReadBy(c)[r.id] = Absent
      BY <1>2 DEF ReadBy, Empty
    <3> QED
      BY <3>1, <1>9 DEF Idle
  <2>8. Served(c) = Changed(Taken(c), r)
    BY <2>7 DEF Served
  <2> HIDE DEF new
  <2>9. Served(c)' = Served(c)
    BY <2>2, <1>1, <1>7 DEF Served, Taken
  <2>6. /\ calls'[c].alone => Writers' \subseteq {c}
        /\ calls'[c].step = "open" /\ IsWrite(calls'[c].request) /\ adapter' = "json"
        /\ calls'[c].alone => calls'[c].copy = Served(c)'
        /\ ~calls'[c].overtaken
    BY <2>2, <2>3, <2>4, <2>5, <2>8, <2>9, <1>1, <1>5, <1>7 DEF GoodCall
  <2> QED
    BY <2>2, <2>6 DEF GoodCall
<1>10. rows' \in Table /\ torn' \in BOOLEAN
  BY <1>1 DEF IInv, TypeOK
<1> HIDE DEF new
<1> QED
  BY <1>1, <1>4, <1>8, <1>9, <1>10, OneCallInv

LEMMA TruncateInv ==
  ASSUME IInv, NEW c \in Call, Truncate(c) PROVE IInv'
<1> DEFINE new == [calls[c] EXCEPT !.step = "write"]
<1>1. /\ InFlight(c) /\ calls[c].step = "open" /\ calls[c] \in InFlightCalls /\ GoodCall(c)
      /\ calls' = [calls EXCEPT ![c] = new] /\ UNCHANGED <<adapter, rows>> /\ torn' = TRUE
  BY CopyType DEF Truncate, At, IInv
<1>2. /\ new \in InFlightCalls /\ new.kind = "call" /\ new.step = "write"
      /\ new.request = calls[c].request /\ new.alone = calls[c].alone
      /\ new.copy = calls[c].copy /\ new.overtaken = calls[c].overtaken
      /\ new.misread = calls[c].misread
  BY <1>1 DEF InFlightCalls, Steps
<1> HIDE DEF new
<1>3. calls'[c] = new /\ \A d \in Call \ {c} : calls'[d] = calls[d]
  BY <1>1 DEF IInv, TypeOK
<1>4. Writers' \subseteq Writers
  BY <1>1, <1>2, <1>3 DEF Writers, InFlight
<1>5. GoodCall(c)'
  BY <1>1, <1>2, <1>3, <1>4 DEF GoodCall, Served, Taken
<1>6. At(c, "write")' /\ rows' \in Table /\ torn' \in BOOLEAN
  BY <1>1, <1>2, <1>3 DEF At, InFlight, IInv, TypeOK
<1> QED
  BY <1>1, <1>2, <1>5, <1>6, OneCallInv

LEMMA StatementInv ==
  ASSUME IInv, NEW c \in Call, Statement(c) PROVE IInv'
<1> DEFINE r == calls[c].request
           new == IF IsWrite(r) THEN Idle ELSE Found(rows[r.id])
<1>1. /\ InFlight(c) /\ calls[c].step = "read" /\ calls[c] \in InFlightCalls
      /\ calls' = [calls EXCEPT ![c] = new] /\ rows' = Changed(rows, r)
      /\ UNCHANGED <<adapter, torn>> /\ adapter # "json"
  BY CopyType DEF Statement, At, IInv
<1>2. r \in Requests /\ r.id \in Id /\ r.kind \in {"save", "update", "find"} /\ rows \in Table
  BY <1>1 DEF InFlightCalls, Requests, IInv, TypeOK
<1>3. rows' \in Table
  BY <1>1, <1>2, ChangedType
<1>4. rows' # rows => IsWrite(r)
  BY <1>1, <1>2 DEF Changed, IsWrite
<1>5. new \in {Idle, Rejected} \cup [kind : {"found"}, answer : Row \cup {Absent}]
  BY <1>2 DEF Found, Table
<1>6. new.kind # "call"
  BY DEF Idle, Found
<1>7. torn = FALSE
  BY <1>1 DEF IInv, TypeOK, At, GoodCall
<1> HIDE DEF new
<1> QED
  BY <1>1, <1>3, <1>4, <1>5, <1>6, <1>7, OneCallInv

LEMMA SelectDocumentInv ==
  ASSUME IInv, NEW c \in Call, SelectDocument(c) PROVE IInv'
<1> DEFINE r == calls[c].request
           new == IF rows[r.id] = Absent THEN Rejected
                  ELSE [calls[c] EXCEPT !.step = "put", !.copy = Changed(rows, r)]
<1>1. /\ InFlight(c) /\ calls[c].step = "read" /\ calls[c] \in InFlightCalls /\ GoodCall(c)
      /\ calls' = [calls EXCEPT ![c] = new] /\ UNCHANGED <<adapter, rows, torn>>
      /\ adapter = "document" /\ r.kind = "update"
  BY CopyType DEF SelectDocument, At, IInv
<1>2. r \in Requests /\ rows \in Table /\ Changed(rows, r) \in Table
  BY <1>1, ChangedType DEF InFlightCalls, IInv, TypeOK
<1>3. new \in {Rejected} \cup InFlightCalls
  BY <1>1, <1>2 DEF InFlightCalls, Steps
<1>4. calls'[c] = new /\ \A d \in Call \ {c} : calls'[d] = calls[d]
  BY <1>1 DEF IInv, TypeOK
<1>5. ASSUME new.kind = "call"
      PROVE  new.request = r /\ new.alone = calls[c].alone /\ GoodCall(c)'
  <2>1. new = [calls[c] EXCEPT !.step = "put", !.copy = Changed(rows, r)]
    BY <1>5 DEF Rejected
  <2>2. /\ new.step = "put" /\ new.copy = Changed(rows, r) /\ new.request = r
        /\ new.alone = calls[c].alone /\ new.overtaken = calls[c].overtaken
        /\ new.misread = FALSE
    BY <2>1, <1>1 DEF InFlightCalls, GoodCall
  <2> HIDE DEF new
  <2>3. Writers' \subseteq Writers
    BY <1>1, <1>4, <2>2 DEF Writers, InFlight
  <2>4. IsWrite(r)
    BY <1>1 DEF IsWrite
  <2> QED
    BY <1>1, <1>4, <2>2, <2>3, <2>4 DEF GoodCall, Served, Taken
<1>6. torn = FALSE
  BY <1>1 DEF IInv, TypeOK, At, GoodCall
<1>7. rows' \in Table /\ rows' = rows /\ torn' = torn
  BY <1>1, <1>2
<1> HIDE DEF new
<1> QED
  BY <1>1, <1>3, <1>5, <1>6, <1>7, OneCallInv

LEMMA PutDocumentInv ==
  ASSUME IInv, NEW c \in Call, PutDocument(c) PROVE IInv'
<1> DEFINE i == calls[c].request.id
<1>1. /\ InFlight(c) /\ calls[c] \in InFlightCalls /\ GoodCall(c) /\ calls[c].step = "put"
      /\ calls' = [calls EXCEPT ![c] = Idle] /\ UNCHANGED <<adapter, torn>>
      /\ rows' = [rows EXCEPT ![i] = calls[c].copy[i]]
  BY CopyType DEF PutDocument, At, IInv
<1>2. rows' \in Table
  <2>1. i \in Id /\ calls[c].copy \in Table /\ rows \in Table
    BY <1>1 DEF InFlightCalls, Requests, IInv, TypeOK
  <2> QED
    BY <2>1, <1>1 DEF Table
<1>3. IsWrite(calls[c].request) /\ torn = FALSE
  BY <1>1 DEF GoodCall, IInv, TypeOK, At
<1>4. Idle.kind # "call"
  BY DEF Idle
<1> QED
  BY <1>1, <1>2, <1>3, <1>4, OneCallInv

(* A write of the file touches the other calls that are about to write it; *)
(* none of them is alone.                                                  *)
LEMMA WrittenInv ==
  ASSUME IInv, NEW c \in Call, At(c, "write"), NEW outcome \in {Idle, Rejected},
         calls' = Written(c, outcome), torn' = FALSE, adapter' = adapter,
         rows' \in {calls[c].copy, Empty, Contents}
  PROVE  IInv'
<1>1. /\ InFlight(c) /\ calls[c].step = "write" /\ calls[c] \in InFlightCalls /\ GoodCall(c)
      /\ torn' = FALSE /\ adapter' = adapter
      /\ rows' \in {calls[c].copy, Empty, Contents}
  BY CopyType DEF At, IInv
<1>2. calls' = [d \in Call |-> IF d = c THEN outcome
                 ELSE IF At(d, "write") THEN [calls[d] EXCEPT !.overtaken = TRUE]
                 ELSE calls[d]]
  BY DEF Written
<1>3. rows' \in Table
  BY <1>1, ContentsType DEF InFlightCalls, Empty, Table, IInv
<1>4. c \in Writers
  BY <1>1 DEF GoodCall, Writers
<1>5. ASSUME NEW d \in Call \ {c}, InFlight(d)
      PROVE  /\ calls'[d] \in InFlightCalls /\ ~calls[d].alone
             /\ calls'[d].request = calls[d].request /\ calls'[d].alone = calls[d].alone
             /\ calls'[d].step = calls[d].step /\ calls'[d].misread = calls[d].misread
             /\ calls[d].step # "write" => calls'[d] = calls[d]
  <2>1. calls[d] \in InFlightCalls
    BY <1>5, CopyType DEF IInv
  <2>2. ~calls[d].alone
    BY <1>4, <1>5 DEF IInv, GoodCall
  <2> QED
    BY <2>1, <2>2, <1>2 DEF InFlightCalls, At
<1>6. calls'[c] = outcome /\ \A d \in Call \ {c} : ~InFlight(d) => calls'[d] = calls[d]
  BY <1>2 DEF At, InFlight
<1>7. TypeOK'
  <2>1. calls' \in [Call -> {Idle, Rejected} \cup [kind : {"found"}, answer : Row \cup {Absent}]
                       \cup InFlightCalls]
    <3> DEFINE S == {Idle, Rejected} \cup [kind : {"found"}, answer : Row \cup {Absent}] \cup InFlightCalls
    <3>1. \A d \in Call : calls[d] \in S
      BY DEF IInv, TypeOK, InFlightCalls
    <3>2. \A d \in Call : calls'[d] \in S
      BY <3>1, <1>5, <1>6
    <3> HIDE DEF S
    <3>3. calls' \in [Call -> S]
      BY <3>2, <1>2
    <3> QED
      BY <3>3 DEF S
  <2> QED
    BY <2>1, <1>1, <1>3 DEF IInv, TypeOK, InFlightCalls
<1>8. ASSUME NEW d \in Call, InFlight(d)' PROVE GoodCall(d)'
  <2>1. d # c /\ InFlight(d)
    BY <1>8, <1>6 DEF InFlight, Idle, Rejected
  <2>2. GoodCall(d)
    BY <2>1 DEF IInv
  <2>3. calls[d].step \in {"read", "open"} => calls'[d].step = calls[d].step /\ ~calls'[d].overtaken
    BY <2>1, <2>2, <1>5 DEF GoodCall
  <2> QED
    BY <2>1, <2>2, <2>3, <1>1, <1>5 DEF GoodCall, Served, Taken
<1> QED
  BY <1>7, <1>8 DEF IInv

(* A rejected call is over, and the file and the calls beside it are as    *)
(* they were, or as its statement left them.                               *)
LEMMA OpenRejectsInv ==
  ASSUME IInv, NEW c \in Call, OpenRejects(c) PROVE IInv'
<1>1. /\ InFlight(c) /\ calls[c].step = "open"
      /\ calls' = [calls EXCEPT ![c] = Rejected] /\ UNCHANGED <<adapter, rows, torn>>
  BY DEF OpenRejects, At
<1>2. torn' => \E d \in Call : At(d, "write")'
  BY <1>1 DEF IInv, TypeOK, At, InFlight
<1>3. rows' \in Table /\ torn' \in BOOLEAN
  BY <1>1 DEF IInv, TypeOK
<1>4. Rejected.kind # "call"
  BY DEF Rejected
<1> QED
  BY <1>1, <1>2, <1>3, <1>4, OneCallInv

LEMMA StatementRejectsInv ==
  ASSUME IInv, NEW c \in Call, StatementRejects(c) PROVE IInv'
<1> DEFINE r == calls[c].request
<1>1. /\ InFlight(c) /\ calls[c] \in InFlightCalls /\ GoodCall(c)
      /\ calls' = [calls EXCEPT ![c] = Rejected] /\ UNCHANGED <<adapter, torn>>
      /\ adapter # "json"
  BY CopyType DEF StatementRejects, At, IInv
<1>2. r \in Requests /\ r.id \in Id /\ r.kind \in {"save", "update", "find"}
  BY <1>1 DEF InFlightCalls, Requests
<1>3. rows \in Table /\ Changed(rows, r) \in Table /\ calls[c].copy \in Table
  BY <1>1, <1>2, ChangedType DEF InFlightCalls, IInv, TypeOK
<1>4. \/ rows' = rows
      \/ At(c, "put") /\ rows' = [rows EXCEPT ![r.id] = calls[c].copy[r.id]]
      \/ rows' = Changed(rows, r)
  BY DEF StatementRejects
<1>5. rows' \in Table
  BY <1>2, <1>3, <1>4 DEF Table
<1>6. rows' # rows => IsWrite(r)
  <2>1. At(c, "put") => IsWrite(r)
    BY <1>1 DEF At, GoodCall
  <2>2. Changed(rows, r) # rows => IsWrite(r)
    BY <1>2 DEF Changed, IsWrite
  <2> QED
    BY <1>4, <2>1, <2>2
<1>7. torn = FALSE
  BY <1>1 DEF IInv, TypeOK, At, GoodCall
<1>8. Rejected.kind # "call"
  BY DEF Rejected
<1> QED
  BY <1>1, <1>5, <1>6, <1>7, <1>8, OneCallInv

LEMMA CrashInv == IInv /\ Crash => IInv'
<1> SUFFICES ASSUME IInv, Crash PROVE IInv'
  OBVIOUS
<1>1. calls' = [c \in Call |-> Idle] /\ rows' \in Table
  <2>1. Empty \in Table
    BY DEF Empty, Table
  <2> QED
    BY <2>1, ContentsType DEF Crash, IInv
<1>2. \A c \in Call : ~InFlight(c)'
  BY <1>1 DEF InFlight, Idle
<1> QED
  BY <1>1, <1>2 DEF IInv, TypeOK, Crash

LEMMA NextInv == IInv /\ [Next]_vars => IInv'
<1> SUFFICES ASSUME IInv, [Next]_vars PROVE IInv'
  OBVIOUS
<1>1. CASE Crash
  BY <1>1, CrashInv
<1>2. ASSUME NEW c \in Call, Request(c) PROVE IInv'
  BY <1>2, RequestInv
<1>3. ASSUME NEW c \in Call, ReadFile(c) PROVE IInv'
  BY <1>3, ReadFileInv
<1>4. ASSUME NEW c \in Call, Truncate(c) PROVE IInv'
  BY <1>4, TruncateInv
<1>5. ASSUME NEW c \in Call, WriteFile(c) PROVE IInv'
  BY <1>5, WrittenInv DEF WriteFile
<1>6. ASSUME NEW c \in Call, Statement(c) PROVE IInv'
  BY <1>6, StatementInv
<1>7. ASSUME NEW c \in Call, SelectDocument(c) PROVE IInv'
  BY <1>7, SelectDocumentInv
<1>8. ASSUME NEW c \in Call, PutDocument(c) PROVE IInv'
  BY <1>8, PutDocumentInv
<1>9. ASSUME NEW c \in Call, ReadFails(c) PROVE IInv'
  BY <1>9, ReadFailsInv
<1>10. ASSUME NEW c \in Call, OpenRejects(c) PROVE IInv'
  BY <1>10, OpenRejectsInv
<1>11. ASSUME NEW c \in Call, WriteRejects(c) PROVE IInv'
  BY <1>11, WrittenInv DEF WriteRejects
<1>12. ASSUME NEW c \in Call, StatementRejects(c) PROVE IInv'
  BY <1>12, StatementRejectsInv
<1>13. CASE UNCHANGED vars
  BY <1>13 DEF vars, IInv, TypeOK, GoodCall, InFlight, Writers, At, Served, Taken
<1> QED
  BY <1>1, <1>2, <1>3, <1>4, <1>5, <1>6, <1>7, <1>8, <1>9, <1>10, <1>11, <1>12, <1>13 DEF Next

(* The calls, the table and the file keep their types; a file is torn only *)
(* while a call is writing it.                                             *)
THEOREM TypeCorrect == Spec => []TypeOK
<1>1. IInv => TypeOK
  BY DEF IInv
<1> QED
  BY <1>1, InitInv, NextInv, PTL DEF Spec

-----------------------------------------------------------------------------
(* The refinement: what the services see of the calls and of the table.    *)
View == [c \in Call |-> Seen(calls[c])]

LEMMA SameDefinitions ==
  /\ Store!Empty = Empty
  /\ Store!Row = Row /\ Store!Absent = Absent /\ Store!Tables = Table /\ Store!Requests = Requests
  /\ Store!Idle = Idle
  /\ \A r : Store!IsWrite(r) = IsWrite(r)
  /\ \A t, r : Store!Applied(t, r) = Changed(t, r)
BY DEF Store!Row, Row, Store!Absent, Absent, Store!Tables, Table, Store!Requests, Requests,
       Store!Idle, Idle, Store!IsWrite, IsWrite, Store!Applied, Changed, Store!Empty, Empty

LEMMA SameCalls ==
  ASSUME IInv
  PROVE  /\ \A c \in Call : Store!InFlight(c) <=> InFlight(c)
         /\ Store!Writers = Writers
         /\ \A c \in Call : InFlight(c) => View[c] = [kind |-> "call", request |-> calls[c].request,
                alone |-> calls[c].alone, misread |-> calls[c].misread]
         /\ \A c \in Call : ~InFlight(c) => View[c] = calls[c]
<1>1. \A c \in Call : InFlight(c) => View[c] = [kind |-> "call", request |-> calls[c].request,
       alone |-> calls[c].alone, misread |-> calls[c].misread]
  BY DEF View, Seen, InFlight
<1>2. \A c \in Call : ~InFlight(c) => View[c] = calls[c]
  BY DEF View, Seen, InFlight
<1>3. \A c \in Call : View[c].kind = "call" <=> InFlight(c)
  BY DEF View, Seen, InFlight
<1>4. \A c \in Call : Store!InFlight(c) <=> View[c].kind = "call"
  BY DEF Store!InFlight, View
<1>5. \A c \in Call : InFlight(c) => View[c].request = calls[c].request
  BY DEF View, Seen, InFlight
<1>6. Store!Writers = {c \in Call : View[c].kind = "call" /\ IsWrite(View[c].request)}
  BY <1>4, SameDefinitions DEF Store!Writers, View
<1>7. Store!Writers = Writers
  BY <1>3, <1>5, <1>6 DEF Writers
<1> QED
  BY <1>1, <1>2, <1>3, <1>4, <1>7

LEMMA InitRefines == Init => Store!Init
<1> SUFFICES ASSUME Init PROVE Store!Init
  OBVIOUS
<1>1. \A c \in Call : Seen(calls[c]) = Idle
  BY DEF Init, Seen, Idle
<1> QED
  BY <1>1, SameDefinitions DEF Init, Store!Init, Empty

LEMMA RequestRefines ==
  ASSUME IInv, NEW c \in Call, Request(c) PROVE Store!Begin(c)
<1>0. PICK r \in Requests : Fresh(r) /\ calls' = Requested(c, r)
  BY DEF Request
<1>1. /\ r \in Requests
      /\ calls' = [d \in Call |->
          IF d = c THEN [kind |-> "call", request |-> r, alone |-> Writers = {},
                         step |-> "read", copy |-> Empty, overtaken |-> FALSE, misread |-> FALSE]
          ELSE IF InFlight(d) /\ IsWrite(r) THEN [calls[d] EXCEPT !.alone = FALSE]
          ELSE calls[d]]
  <2>1. calls' = Requested(c, r)
    BY <1>0
  <2> QED BY <1>0, <2>1 DEF Requested
<1>2. Seen(calls'[c]) = [kind |-> "call", request |-> r, alone |-> Writers = {}, misread |-> FALSE]
  BY <1>1 DEF Seen
<1>3. ASSUME NEW d \in Call \ {c}, InFlight(d), IsWrite(r)
      PROVE  Seen(calls'[d]) = Store!Pending(View[d].request, FALSE, View[d].misread)
  <2>1. calls[d] \in InFlightCalls
    BY <1>3, CopyType DEF IInv
  <2>2. calls'[d] = [calls[d] EXCEPT !.alone = FALSE]
    BY <1>1, <1>3
  <2>3. /\ calls'[d].kind = "call" /\ calls'[d].request = calls[d].request
        /\ calls'[d].alone = FALSE /\ calls'[d].misread = calls[d].misread
    BY <2>1, <2>2 DEF InFlightCalls
  <2>4. View[d].request = calls[d].request /\ View[d].misread = calls[d].misread
    BY <1>3 DEF View, Seen, InFlight
  <2>5. Seen(calls'[d]) = [kind |-> "call", request |-> calls[d].request, alone |-> FALSE,
                           misread |-> calls[d].misread]
    BY <2>3 DEF Seen
  <2> QED
    BY <2>4, <2>5 DEF Store!Pending
<1>4. ASSUME NEW d \in Call \ {c}, ~(InFlight(d) /\ IsWrite(r)) PROVE Seen(calls'[d]) = View[d]
  BY <1>1, <1>4 DEF View
<1>5. [d \in Call |-> Seen(calls'[d])] = Store!Began(c, r)
  BY <1>2, <1>3, <1>4, SameCalls, SameDefinitions DEF Store!Began, Store!Pending, View
<1>6. ~Store!InFlight(c) /\ UNCHANGED <<adapter, rows>>
  BY SameCalls DEF Request
<1> QED
  BY <1>5, <1>6, SameDefinitions DEF Store!Begin

(* The table a call takes there to be, and the one it is to leave, are     *)
(* those of the row store.                                                 *)
LEMMA SameServed ==
  ASSUME IInv, NEW c \in Call, InFlight(c)
  PROVE  /\ View[c].request = calls[c].request /\ View[c].alone = calls[c].alone
         /\ View[c].misread = calls[c].misread
         /\ Store!Taken(View[c]) = Taken(c) /\ Store!Served(View[c]) = Served(c)
<1>1. View[c] = [kind |-> "call", request |-> calls[c].request,
                 alone |-> calls[c].alone, misread |-> calls[c].misread]
  BY SameCalls
<1>2. /\ View[c].request = calls[c].request /\ View[c].alone = calls[c].alone
      /\ View[c].misread = calls[c].misread
  BY <1>1
<1>3. Store!Taken(View[c]) = Taken(c)
  BY <1>2, SameDefinitions DEF Store!Taken, Taken
<1> QED
  BY <1>2, <1>3, SameDefinitions DEF Store!Served, Served

(* A call that ends is an end in the row store: it is exact, or it is not  *)
(* alone, and then any table and any answer will do.                       *)
LEMMA EndRefines ==
  ASSUME IInv, NEW c \in Call, InFlight(c), NEW answer \in Row \cup {Absent},
         adapter' = adapter, rows' \in Table,
         \A d \in Call \ {c} : Seen(calls'[d]) = Seen(calls[d]),
         calls'[c] = IF IsWrite(calls[c].request) THEN Idle ELSE Found(answer),
         ~IsWrite(calls[c].request) => rows' = rows,
         adapter = "columns" \/ calls[c].alone =>
           IF IsWrite(calls[c].request) THEN rows' = Served(c)
           ELSE answer = Taken(c)[calls[c].request.id]
  PROVE  Store!End(c)
<1> DEFINE r == calls[c].request
<1>2. View[c].request = r /\ View[c].alone = calls[c].alone /\ Store!InFlight(c)
  BY SameServed, SameCalls
<1>3. Taken(c)[r.id] \in Row \cup {Absent}
  <2>1. calls[c] \in InFlightCalls
    BY CopyType DEF IInv
  <2>2. r \in Requests /\ Taken(c) \in Table
    BY <2>1 DEF InFlightCalls, IInv, TypeOK, Taken, Empty, Table
  <2> QED
    BY <2>2 DEF Requests, Table
<1>5. rows' \in IF ~IsWrite(r) THEN {rows}
                ELSE IF adapter = "columns" \/ View[c].alone THEN {Served(c)}
                ELSE Table
  BY <1>2
<1>6. PICK said \in Row \cup {Absent} :
        /\ adapter = "columns" \/ View[c].alone => said = Taken(c)[r.id]
        /\ IsWrite(r) \/ said = answer
  BY <1>2, <1>3
<1>7. [d \in Call |-> Seen(calls'[d])]
        = [View EXCEPT ![c] = IF IsWrite(r) THEN Idle ELSE [kind |-> "found", answer |-> said]]
  <2>1. Seen(calls'[c]) = IF IsWrite(r) THEN Idle ELSE [kind |-> "found", answer |-> said]
    BY <1>6 DEF Seen, Idle, Found
  <2> QED
    BY <2>1 DEF View
<1>8. /\ Store!Sound(c) <=> adapter = "columns" \/ View[c].alone
      /\ Store!Taken(View[c]) = Taken(c) /\ Store!Served(View[c]) = Served(c)
  BY SameServed DEF Store!Sound, View
<1> HIDE DEF r
<1>9. /\ rows' \in IF ~Store!IsWrite(View[c].request) THEN {rows}
                    ELSE IF Store!Sound(c) THEN {Store!Served(View[c])} ELSE Store!Tables
      /\ Store!Sound(c) => said = Store!Taken(View[c])[View[c].request.id]
      /\ [d \in Call |-> Seen(calls'[d])]
           = [View EXCEPT ![c] = IF Store!IsWrite(View[c].request) THEN Store!Idle
                                 ELSE [kind |-> "found", answer |-> said]]
      /\ said \in Store!Row \cup {Store!Absent}
  BY <1>2, <1>5, <1>6, <1>7, <1>8, SameDefinitions
<1> QED
  BY <1>2, <1>9 DEF Store!End, View

(* A rejected call is a rejection in the row store, if what it leaves is   *)
(* what that allows.                                                       *)
LEMMA RejectRefines ==
  ASSUME IInv, NEW c \in Call, InFlight(c), adapter' = adapter, rows' \in Table,
         \A d \in Call \ {c} : Seen(calls'[d]) = Seen(calls[d]), calls'[c] = Rejected,
         \/ rows' = rows
         \/ /\ IsWrite(calls[c].request)
            /\ adapter = "columns" \/ calls[c].alone =>
                 rows' = Served(c) \/ (adapter # "columns" /\ rows' = Empty)
  PROVE  Store!Reject(c)
<1> DEFINE r == calls[c].request
<1>1. /\ View[c].request = r /\ View[c].alone = calls[c].alone /\ Store!InFlight(c)
      /\ Store!Served(View[c]) = Served(c)
  BY SameServed, SameCalls
<1>2. rows' \in IF ~IsWrite(r) THEN {rows}
                ELSE IF adapter = "columns" THEN {rows, Served(c)}
                ELSE IF View[c].alone THEN {rows, Served(c), Empty}
                ELSE Table
  BY <1>1
<1>3. [d \in Call |-> Seen(calls'[d])] = [View EXCEPT ![c] = [kind |-> "rejected"]]
  <2>1. Seen(calls'[c]) = [kind |-> "rejected"]
    BY DEF Seen, Rejected
  <2> QED
    BY <2>1 DEF View
<1> HIDE DEF r
<1>4. rows' \in IF ~Store!IsWrite(View[c].request) THEN {rows}
                ELSE IF adapter = "columns" THEN {rows, Store!Served(View[c])}
                ELSE IF View[c].alone THEN {rows, Store!Served(View[c]), Store!Empty}
                ELSE Store!Tables
  BY <1>1, <1>2, SameDefinitions
<1> QED
  BY <1>1, <1>3, <1>4 DEF Store!Reject, View

(* A step that shows the services nothing is a stutter of the row store.   *)
Unseen == View' = View /\ rows' = rows /\ adapter' = adapter

LEMMA UnseenStep ==
  ASSUME IInv, NEW c \in Call, InFlight(c), NEW new \in InFlightCalls,
         calls' = [calls EXCEPT ![c] = new],
         new.request = calls[c].request, new.alone = calls[c].alone,
         new.misread = calls[c].misread, rows' = rows, adapter' = adapter
  PROVE  Unseen
<1>1. Seen(new) = Seen(calls[c])
  BY DEF Seen, InFlight, InFlightCalls
<1>2. \A d \in Call : Seen(calls'[d]) = Seen(calls[d])
  BY <1>1 DEF IInv, TypeOK
<1> QED
  BY <1>2 DEF Unseen, View

(* The failed read of the file is a misreading in the row store. *)
LEMMA ReadFailsRefines ==
  ASSUME IInv, NEW c \in Call, ReadFails(c) PROVE Store!Misread(c)
<1> DEFINE new == [calls[c] EXCEPT !.misread = TRUE]
<1>1. /\ InFlight(c) /\ calls[c] \in InFlightCalls /\ calls' = [calls EXCEPT ![c] = new]
      /\ UNCHANGED <<adapter, rows>> /\ adapter = "json"
  BY CopyType DEF ReadFails, At, IInv
<1>2. /\ new.kind = "call" /\ new.request = calls[c].request /\ new.alone = calls[c].alone
      /\ new.misread = TRUE
  BY <1>1 DEF InFlightCalls
<1> HIDE DEF new
<1>3. Seen(new) = [kind |-> "call", request |-> calls[c].request, alone |-> calls[c].alone,
                   misread |-> TRUE]
  BY <1>2 DEF Seen
<1>4. View[c].request = calls[c].request /\ View[c].alone = calls[c].alone
  BY <1>1, SameServed
<1>5. Seen(new) = Store!Pending(View[c].request, View[c].alone, TRUE)
  BY <1>3, <1>4 DEF Store!Pending
<1>6. /\ calls'[c] = new /\ \A d \in Call \ {c} : calls'[d] = calls[d]
  BY <1>1 DEF IInv, TypeOK
<1>7. [d \in Call |-> Seen(calls'[d])] = [View EXCEPT ![c] = Store!Pending(View[c].request, View[c].alone, TRUE)]
  BY <1>5, <1>6 DEF View
<1>8. Store!InFlight(c)
  BY <1>1, SameCalls
<1> QED
  BY <1>1, <1>7, <1>8 DEF Store!Misread, View

LEMMA ReadFileRefines ==
  ASSUME IInv, NEW c \in Call, ReadFile(c) PROVE Store!End(c) \/ Unseen
<1> DEFINE r == calls[c].request
<1>1. /\ adapter = "json" /\ InFlight(c) /\ calls[c].step = "read" /\ calls[c] \in InFlightCalls
      /\ UNCHANGED <<adapter, rows, torn>> /\ GoodCall(c) /\ rows \in Table
      /\ calls' = [calls EXCEPT ![c] =
           IF r.kind = "find" THEN Found(ReadBy(c)[r.id])
           ELSE IF r.kind = "update" /\ ReadBy(c)[r.id] = Absent THEN Idle
           ELSE [calls[c] EXCEPT !.step = "open", !.copy = Changed(ReadBy(c), r)]]
  BY CopyType DEF ReadFile, At, IInv, TypeOK
<1>2. r \in Requests /\ r.id \in Id /\ ReadBy(c) \in Table /\ Changed(ReadBy(c), r) \in Table
  <2>1. r \in Requests
    BY <1>1 DEF InFlightCalls
  <2> QED
    BY <2>1, <1>1, ReadByType, ChangedType DEF IInv, Requests
<1>3. calls[c].alone => ReadBy(c) = Taken(c)
  <2> SUFFICES ASSUME calls[c].alone, torn PROVE FALSE
    BY DEF ReadBy, Contents, Taken
  <2>1. PICK d \in Call : At(d, "write")
    BY DEF IInv, TypeOK
  <2>2. d \in Writers /\ d # c
    BY <2>1, <1>1 DEF Writers, At, IInv, GoodCall
  <2> QED
    BY <2>2, <1>1 DEF GoodCall
<1>4. \A d \in Call \ {c} : Seen(calls'[d]) = Seen(calls[d])
  BY <1>1
<1>5. CASE r.kind = "find"
  <2>1. ~IsWrite(r) /\ calls'[c] = Found(ReadBy(c)[r.id]) /\ ReadBy(c)[r.id] \in Row \cup {Absent}
    BY <1>1, <1>2, <1>5 DEF IsWrite, Table, IInv, TypeOK
  <2>2. calls[c].alone => ReadBy(c)[r.id] = Taken(c)[r.id]
    BY <1>3
  <2> QED
    BY <1>1, <1>4, <2>1, <2>2, EndRefines
<1>6. CASE r.kind = "update" /\ ReadBy(c)[r.id] = Absent
  <2>1. IsWrite(r) /\ calls'[c] = Idle
    BY <1>1, <1>6 DEF IsWrite, IInv, TypeOK
  <2>2. calls[c].alone => Served(c) = rows
    BY <1>3, <1>6 DEF Changed, Served, Taken
  <2>3. Absent \in Row \cup {Absent}
    OBVIOUS
  <2> QED
    BY <1>1, <1>4, <2>1, <2>2, <2>3, EndRefines
<1>7. CASE r.kind # "find" /\ ~(r.kind = "update" /\ ReadBy(c)[r.id] = Absent)
  <2> DEFINE new == [calls[c] EXCEPT !.step = "open", !.copy = Changed(ReadBy(c), r)]
  <2>1. new \in InFlightCalls /\ new.request = r /\ new.alone = calls[c].alone
       /\ new.misread = calls[c].misread
    BY <1>1, <1>2 DEF InFlightCalls, Steps
  <2>2. calls' = [calls EXCEPT ![c] = new]
    BY <1>1, <1>7
  <2> HIDE DEF new
  <2> QED
    BY <1>1, <2>1, <2>2, UnseenStep
<1> QED
  BY <1>5, <1>6, <1>7

LEMMA TruncateRefines ==
  ASSUME IInv, NEW c \in Call, Truncate(c) PROVE Unseen
<1> DEFINE new == [calls[c] EXCEPT !.step = "write"]
<1>1. /\ InFlight(c) /\ calls[c] \in InFlightCalls /\ calls' = [calls EXCEPT ![c] = new]
      /\ UNCHANGED <<adapter, rows>>
  BY CopyType DEF Truncate, At, IInv
<1>2. /\ new \in InFlightCalls /\ new.request = calls[c].request /\ new.alone = calls[c].alone
      /\ new.misread = calls[c].misread
  BY <1>1 DEF InFlightCalls, Steps
<1> HIDE DEF new
<1> QED
  BY <1>1, <1>2, UnseenStep

(* A text written over that of other calls shows them nothing. *)
LEMMA WrittenSeen ==
  ASSUME IInv, NEW c \in Call, NEW outcome, calls' = Written(c, outcome)
  PROVE  /\ calls'[c] = outcome
         /\ \A d \in Call \ {c} : Seen(calls'[d]) = Seen(calls[d])
<1>2. calls' = [d \in Call |-> IF d = c THEN outcome
                 ELSE IF At(d, "write") THEN [calls[d] EXCEPT !.overtaken = TRUE]
                 ELSE calls[d]]
  BY DEF Written
<1>6. ASSUME NEW d \in Call \ {c} PROVE Seen(calls'[d]) = Seen(calls[d])
  <2>1. CASE At(d, "write")
    <3>1. InFlight(d) /\ calls[d] \in InFlightCalls /\ calls'[d] = [calls[d] EXCEPT !.overtaken = TRUE]
      BY <2>1, <1>2, CopyType DEF At, IInv
    <3>2. /\ calls'[d].kind = "call" /\ calls[d].kind = "call"
          /\ calls'[d].request = calls[d].request /\ calls'[d].alone = calls[d].alone
          /\ calls'[d].misread = calls[d].misread
      BY <3>1 DEF InFlightCalls
    <3> QED
      BY <3>2 DEF Seen
  <2>2. CASE ~At(d, "write")
    BY <2>2, <1>2
  <2> QED
    BY <2>1, <2>2
<1> QED
  BY <1>2, <1>6

LEMMA WriteFileRefines ==
  ASSUME IInv, NEW c \in Call, WriteFile(c) PROVE Store!End(c)
<1>1. /\ InFlight(c) /\ calls[c].step = "write" /\ calls[c] \in InFlightCalls /\ GoodCall(c)
      /\ adapter' = adapter /\ calls' = Written(c, Idle)
      /\ rows' \in {calls[c].copy} \cup (IF calls[c].overtaken THEN {Empty} ELSE {})
  BY CopyType DEF WriteFile, At, IInv
<1>2. rows' \in Table
  BY <1>1 DEF InFlightCalls, Empty, Table
<1>3. IsWrite(calls[c].request) /\ adapter = "json"
  BY <1>1 DEF GoodCall
<1>4. calls[c].alone => rows' = Served(c)
  BY <1>1 DEF GoodCall
<1>5. /\ calls'[c] = Idle /\ \A d \in Call \ {c} : Seen(calls'[d]) = Seen(calls[d])
      /\ Absent \in Row \cup {Absent}
  BY <1>1, WrittenSeen
<1> QED
  BY <1>1, <1>2, <1>3, <1>4, <1>5, EndRefines

LEMMA OpenRejectsRefines ==
  ASSUME IInv, NEW c \in Call, OpenRejects(c) PROVE Store!Reject(c)
<1>1. /\ InFlight(c) /\ calls' = [calls EXCEPT ![c] = Rejected]
      /\ UNCHANGED <<adapter, rows>> /\ rows \in Table
  BY DEF OpenRejects, At, IInv, TypeOK
<1>2. calls'[c] = Rejected /\ \A d \in Call \ {c} : Seen(calls'[d]) = Seen(calls[d])
  BY <1>1 DEF IInv, TypeOK
<1> QED
  BY <1>1, <1>2, RejectRefines

LEMMA WriteRejectsRefines ==
  ASSUME IInv, NEW c \in Call, WriteRejects(c) PROVE Store!Reject(c)
<1>1. /\ InFlight(c) /\ calls[c].step = "write" /\ calls[c] \in InFlightCalls /\ GoodCall(c)
      /\ adapter' = adapter /\ calls' = Written(c, Rejected)
      /\ rows' \in {calls[c].copy, Empty, Contents}
  BY CopyType DEF WriteRejects, At, IInv
<1>2. rows' \in Table
  BY <1>1, ContentsType DEF InFlightCalls, Empty, Table, IInv
<1>3. IsWrite(calls[c].request) /\ adapter # "columns"
  BY <1>1 DEF GoodCall
<1>4. calls[c].alone => rows' \in {Served(c), Empty, rows}
  BY <1>1 DEF GoodCall, Contents
<1>5. /\ calls'[c] = Rejected /\ \A d \in Call \ {c} : Seen(calls'[d]) = Seen(calls[d])
  BY <1>1, WrittenSeen
<1> QED
  BY <1>1, <1>2, <1>3, <1>4, <1>5, RejectRefines

LEMMA StatementRefines ==
  ASSUME IInv, NEW c \in Call, Statement(c) PROVE Store!End(c)
<1> DEFINE r == calls[c].request
<1>1. /\ InFlight(c) /\ calls[c] \in InFlightCalls /\ UNCHANGED <<adapter, torn>>
      /\ calls' = [calls EXCEPT ![c] = IF IsWrite(r) THEN Idle ELSE Found(rows[r.id])]
      /\ rows' = Changed(rows, r) /\ calls[c].misread = FALSE
  BY CopyType DEF Statement, At, IInv, GoodCall, InFlightCalls
<1>2. r \in Requests /\ r.id \in Id /\ rows \in Table
  <2>1. r \in Requests /\ rows \in Table
    BY <1>1 DEF InFlightCalls, IInv, TypeOK
  <2> QED
    BY <2>1 DEF Requests
<1>3. rows' \in Table /\ rows[r.id] \in Row \cup {Absent}
  BY <1>1, <1>2, ChangedType DEF Table
<1>4. ~IsWrite(r) => rows' = rows
  BY <1>1 DEF IsWrite, Changed
<1>5. /\ calls'[c] = IF IsWrite(r) THEN Idle ELSE Found(rows[r.id])
      /\ \A d \in Call \ {c} : Seen(calls'[d]) = Seen(calls[d])
  BY <1>1 DEF IInv, TypeOK
<1>6. Served(c) = Changed(rows, r) /\ Taken(c) = rows
  BY <1>1 DEF Served, Taken
<1> QED
  BY <1>1, <1>3, <1>4, <1>5, <1>6, EndRefines

LEMMA SelectDocumentRefines ==
  ASSUME IInv, NEW c \in Call, SelectDocument(c) PROVE Store!Reject(c) \/ Unseen
<1> DEFINE r == calls[c].request
<1>1. /\ InFlight(c) /\ calls[c] \in InFlightCalls /\ UNCHANGED <<adapter, rows, torn>>
      /\ r.kind = "update"
      /\ calls' = [calls EXCEPT ![c] =
           IF rows[r.id] = Absent THEN Rejected
           ELSE [calls[c] EXCEPT !.step = "put", !.copy = Changed(rows, r)]]
  BY CopyType DEF SelectDocument, At, IInv
<1>2. r \in Requests /\ rows \in Table /\ Changed(rows, r) \in Table
  BY <1>1, ChangedType DEF InFlightCalls, IInv, TypeOK
<1>3. CASE rows[r.id] = Absent
  <2>1. calls'[c] = Rejected /\ \A d \in Call \ {c} : Seen(calls'[d]) = Seen(calls[d])
    BY <1>1, <1>3 DEF IInv, TypeOK
  <2> QED
    BY <1>1, <1>2, <2>1, RejectRefines
<1>4. CASE rows[r.id] # Absent
  <2> DEFINE new == [calls[c] EXCEPT !.step = "put", !.copy = Changed(rows, r)]
  <2>1. new \in InFlightCalls /\ new.request = r /\ new.alone = calls[c].alone
       /\ new.misread = calls[c].misread
    BY <1>1, <1>2 DEF InFlightCalls, Steps
  <2>2. calls' = [calls EXCEPT ![c] = new]
    BY <1>1, <1>4
  <2> HIDE DEF new
  <2> QED
    BY <1>1, <2>1, <2>2, UnseenStep
<1> QED
  BY <1>3, <1>4

(* The document of a call that is alone is the row as the call is to leave *)
(* it.                                                                     *)
LEMMA PutServed ==
  ASSUME IInv, NEW c \in Call, At(c, "put"), calls[c].alone
  PROVE  [rows EXCEPT ![calls[c].request.id] = calls[c].copy[calls[c].request.id]] = Served(c)
<1> DEFINE r == calls[c].request
<1>1. InFlight(c) /\ calls[c] \in InFlightCalls /\ GoodCall(c) /\ calls[c].step = "put"
  BY CopyType DEF At, IInv
<1>2. r \in Requests /\ r.id \in Id /\ rows \in Table /\ r.kind = "update"
  <2>1. r \in Requests /\ rows \in Table
    BY <1>1 DEF InFlightCalls, IInv, TypeOK
  <2> QED
    BY <2>1, <1>1 DEF Requests, GoodCall
<1>3. calls[c].misread = FALSE
  BY <1>1 DEF GoodCall, InFlightCalls
<1>4. calls[c].copy = Changed(rows, r) /\ Served(c) = Changed(rows, r)
  BY <1>1, <1>3 DEF GoodCall, Served, Taken
<1>5. CASE rows[r.id] = Absent
  BY <1>2, <1>4, <1>5 DEF Changed, Table
<1>6. CASE rows[r.id] # Absent
  BY <1>2, <1>4, <1>6 DEF Changed, Table
<1> QED
  BY <1>5, <1>6

LEMMA PutDocumentRefines ==
  ASSUME IInv, NEW c \in Call, PutDocument(c) PROVE Store!End(c)
<1> DEFINE r == calls[c].request
<1>1. /\ InFlight(c) /\ calls[c] \in InFlightCalls /\ GoodCall(c) /\ At(c, "put")
      /\ calls' = [calls EXCEPT ![c] = Idle] /\ UNCHANGED <<adapter, torn>>
      /\ rows' = [rows EXCEPT ![r.id] = calls[c].copy[r.id]]
  BY CopyType DEF PutDocument, At, IInv
<1>2. r \in Requests /\ r.id \in Id /\ rows \in Table /\ calls[c].copy \in Table
  <2>1. r \in Requests /\ rows \in Table /\ calls[c].copy \in Table
    BY <1>1 DEF InFlightCalls, IInv, TypeOK
  <2> QED
    BY <2>1 DEF Requests
<1>3. rows' \in Table /\ IsWrite(r) /\ adapter = "document"
  BY <1>1, <1>2 DEF Table, GoodCall, At
<1>4. calls[c].alone => rows' = Served(c)
  BY <1>1, PutServed
<1>5. /\ calls'[c] = Idle /\ \A d \in Call \ {c} : Seen(calls'[d]) = Seen(calls[d])
      /\ Absent \in Row \cup {Absent}
  BY <1>1 DEF IInv, TypeOK
<1> QED
  BY <1>1, <1>3, <1>4, <1>5, EndRefines

LEMMA StatementRejectsRefines ==
  ASSUME IInv, NEW c \in Call, StatementRejects(c) PROVE Store!Reject(c)
<1> DEFINE r == calls[c].request
           put == [rows EXCEPT ![r.id] = calls[c].copy[r.id]]
<1>1. /\ InFlight(c) /\ calls[c] \in InFlightCalls /\ GoodCall(c)
      /\ calls' = [calls EXCEPT ![c] = Rejected] /\ adapter' = adapter /\ adapter # "json"
      /\ \/ rows' = rows
         \/ At(c, "put") /\ rows' = put
         \/ rows' = Changed(rows, r)
  BY CopyType DEF StatementRejects, At, IInv
<1>2. r \in Requests /\ r.id \in Id /\ rows \in Table /\ calls[c].copy \in Table
  <2>1. r \in Requests /\ rows \in Table /\ calls[c].copy \in Table
    BY <1>1 DEF InFlightCalls, IInv, TypeOK
  <2> QED
    BY <2>1 DEF Requests
<1>3. rows' \in Table
  BY <1>1, <1>2, ChangedType DEF Table
<1>4. calls'[c] = Rejected /\ \A d \in Call \ {c} : Seen(calls'[d]) = Seen(calls[d])
  BY <1>1 DEF IInv, TypeOK
<1>5. Served(c) = Changed(rows, r)
  BY <1>1 DEF GoodCall, InFlightCalls, Served, Taken
<1>6. At(c, "put") => IsWrite(r) /\ adapter # "columns"
  BY <1>1 DEF At, GoodCall
<1>7. At(c, "put") /\ calls[c].alone => put = Served(c)
  BY PutServed
<1>8. r.kind \in {"save", "update", "find"}
  BY <1>2 DEF Requests
<1>9. ~IsWrite(r) => Changed(rows, r) = rows
  BY <1>8 DEF IsWrite, Changed
<1> HIDE DEF r, put
<1>10. \/ rows' = rows
       \/ /\ IsWrite(r)
          /\ adapter = "columns" \/ calls[c].alone =>
               rows' = Served(c) \/ (adapter # "columns" /\ rows' = Empty)
  BY <1>1, <1>5, <1>6, <1>7, <1>9
<1> QED
  BY <1>1, <1>3, <1>4, <1>10, RejectRefines DEF r

LEMMA CrashRefines == IInv /\ Crash => Store!Crash
<1> SUFFICES ASSUME IInv, Crash PROVE Store!Crash
  OBVIOUS
<1>1. /\ calls' = [c \in Call |-> Idle] /\ adapter' = adapter
      /\ rows' \in {Contents} \cup (IF \E c \in Call : At(c, "write") THEN {Empty} ELSE {})
  BY DEF Crash
<1>2. [c \in Call |-> Seen(calls'[c])] = [c \in Call |-> Idle]
  BY <1>1 DEF Seen, Idle
<1>3. rows' \in IF adapter = "columns" \/ Writers = {} THEN {rows} ELSE Table
  <2>1. CASE \E c \in Call : At(c, "write")
    <3>1. PICK c \in Call : At(c, "write")
      BY <2>1
    <3>2. c \in Writers /\ adapter = "json"
      BY <3>1 DEF Writers, At, IInv, GoodCall
    <3>3. Empty \in Table
      BY DEF Empty, Table
    <3> QED
      BY <3>2, <3>3, <1>1, ContentsType DEF IInv
  <2>2. CASE ~\E c \in Call : At(c, "write")
    BY <2>2, <1>1 DEF Contents, IInv, TypeOK
  <2> QED
    BY <2>1, <2>2
<1> QED
  BY <1>1, <1>2, <1>3, SameCalls, SameDefinitions DEF Store!Crash

LEMMA NextRefines ==
  IInv /\ [Next]_vars => Store!Next \/ Unseen
<1> SUFFICES ASSUME IInv, [Next]_vars PROVE Store!Next \/ Unseen
  OBVIOUS
<1>1. CASE Crash
  BY <1>1, CrashRefines DEF Store!Next
<1>2. ASSUME NEW c \in Call, Request(c) PROVE Store!Next
  BY <1>2, RequestRefines DEF Store!Next
<1>3. ASSUME NEW c \in Call, ReadFile(c) PROVE Store!Next \/ Unseen
  BY <1>3, ReadFileRefines DEF Store!Next
<1>4. ASSUME NEW c \in Call, Truncate(c) PROVE Unseen
  BY <1>4, TruncateRefines
<1>5. ASSUME NEW c \in Call, WriteFile(c) PROVE Store!Next
  BY <1>5, WriteFileRefines DEF Store!Next
<1>6. ASSUME NEW c \in Call, Statement(c) PROVE Store!Next
  BY <1>6, StatementRefines DEF Store!Next
<1>7. ASSUME NEW c \in Call, SelectDocument(c) PROVE Store!Next \/ Unseen
  BY <1>7, SelectDocumentRefines DEF Store!Next
<1>8. ASSUME NEW c \in Call, PutDocument(c) PROVE Store!Next
  BY <1>8, PutDocumentRefines DEF Store!Next
<1>9. ASSUME NEW c \in Call, ReadFails(c) PROVE Store!Next
  BY <1>9, ReadFailsRefines DEF Store!Next
<1>10. ASSUME NEW c \in Call, OpenRejects(c) PROVE Store!Next
  BY <1>10, OpenRejectsRefines DEF Store!Next
<1>11. ASSUME NEW c \in Call, WriteRejects(c) PROVE Store!Next
  BY <1>11, WriteRejectsRefines DEF Store!Next
<1>12. ASSUME NEW c \in Call, StatementRejects(c) PROVE Store!Next
  BY <1>12, StatementRejectsRefines DEF Store!Next
<1>13. CASE UNCHANGED vars
  BY <1>13 DEF vars, Unseen, View, Seen
<1> QED
  BY <1>1, <1>2, <1>3, <1>4, <1>5, <1>6, <1>7, <1>8, <1>9, <1>10, <1>11, <1>12, <1>13 DEF Next

(* Every adapter implements the row store: the initial states map to its   *)
(* initial states and every step to one of its steps or to none - a read   *)
(* that fails and is taken for an empty table, and a write that is         *)
(* rejected half way, to the steps the row store has for them.             *)
THEOREM Implements == Spec => ImplementsRowStore
<1>1. IInv /\ [Next]_vars => [Store!Next]_<<adapter = "columns", rows, View>>
  BY NextRefines DEF Unseen
<1>2. IInv /\ [Next]_vars
        => [Store!Next]_<<adapter = "columns", rows, [c \in Call |-> Seen(calls[c])]>>
  BY <1>1 DEF View
<1> QED
  BY <1>2, InitInv, NextInv, InitRefines, PTL DEF Spec, ImplementsRowStore, Store!Spec
=============================================================================
