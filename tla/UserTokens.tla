----------------------------- MODULE UserTokens -----------------------------
(* A user's tokens (UserTokenService): one file that each call reads whole   *)
(* and writes whole.  Between reading and writing only the addition waits,   *)
(* for the token's data on the chain.  A file that cannot be read, for the   *)
(* time being or because a write was cut short, is no tokens.                *)
(*                                                                           *)
(* Over it the list of tokens on the transfer page (TokenSelector): a load   *)
(* with balances answers with the rows it read at its start, once the chain  *)
(* has answered for each of them.  The list is read when the page learns the *)
(* account, after an addition, and on the user's wish.                       *)
EXTENDS Naturals, FiniteSets

CONSTANTS
  Token,    \* addresses of token contracts
  Preset,   \* those every list can be initialised with
  Bad,      \* those that are no token contract
  MaxRows,  \* bound: rows that are ever created
  MaxCalls, \* bound: calls of the service that write
  MaxReads  \* bound: loads

VARIABLES
  ui,    \* the component's state; of: the load it is of; crossed, excused: history
  calls, \* requests under way
  world  \* file: the rows; has: the tokens whose row was promised and not deleted

vars == <<ui, calls, world>>

Row(t, n) == [address |-> t, n |-> n, active |-> TRUE]

InitialFile ==
  [file |-> {}, unread |-> FALSE, n |-> 0, writes |-> 0, has |-> {}, overlapped |-> FALSE, misread |-> FALSE]

(* loadUserTokensFromFile *)
Loaded == IF world.unread THEN {} ELSE world.file

Listed == {r \in Loaded : r.active}
RowsOf(t) == {r \in Loaded : r.address = t}

(* Every call writes all it has read; the promise is of the row, which a     *)
(* removal leaves.                                                           *)
Saved(rows, has) == [world EXCEPT !.file = rows, !.unread = FALSE, !.has = has, !.writes = @ + 1]

Revived(t) == (Loaded \ RowsOf(t)) \cup {[r EXCEPT !.active = TRUE] : r \in RowsOf(t)}

-----------------------------------------------------------------------------
(* addUserToken as far as it goes at once: a row that is not active is       *)
(* active again, one that is, is refused.                                    *)
Revives(c) ==
  /\ c.kind = "add" /\ world.writes < MaxCalls /\ RowsOf(c.token) # {} /\ c.token \notin {r.address : r \in Listed}
  /\ world' = Saved(Revived(c.token), world.has \cup {c.token})

Refuses(c) == c.kind = "add" /\ c.token \in {r.address : r \in Listed} /\ UNCHANGED world

(* Bug: what is read is the list that is shown. *)
ReadActive(c) == [c EXCEPT !.kind = "fetch", !.rows = Listed, !.at = world.writes]

ReadAll(c) == [c EXCEPT !.kind = "fetch", !.rows = Loaded, !.at = world.writes]

Fetches(c) ==
  /\ c.kind = "add" /\ RowsOf(c.token) = {}
  /\ calls' = (calls \ {c}) \cup {ReadAll(c)}
  /\ UNCHANGED world

(* The answer of the chain: the rows are those that were read before it.     *)
Adds(c) ==
  /\ c.kind = "fetch" /\ c.token \notin Bad /\ world.writes < MaxCalls /\ world.n < MaxRows
  /\ world' = [Saved(c.rows \cup {Row(c.token, world.n + 1)}, world.has \cup {c.token})
                 EXCEPT !.n = @ + 1, !.overlapped = @ \/ c.at # world.writes]

FailsToFetch(c) == c.kind = "fetch" /\ UNCHANGED world

-----------------------------------------------------------------------------
(* Calls that read and write in one go.                                      *)
InitializeDefaultTokens ==
  /\ world.writes < MaxCalls /\ world.n + Cardinality(Preset) <= MaxRows
  /\ world' = [Saved({Row(t, world.n + 1) : t \in Preset}, Preset) EXCEPT !.n = @ + Cardinality(Preset)]

UpdateUserToken(r, active) ==
  /\ world.writes < MaxCalls /\ r \in Loaded
  /\ world' = Saved((Loaded \ {r}) \cup {[r EXCEPT !.active = active]}, world.has)

RemoveUserToken(r) == UpdateUserToken(r, FALSE)

(* When a late addition left two rows the promise is of the other still.     *)
DeleteUserToken(r) ==
  /\ world.writes < MaxCalls /\ r \in Loaded
  /\ world' = Saved(Loaded \ {r}, IF RowsOf(r.address) = {r} THEN world.has \ {r.address} ELSE world.has)

(* Reads of the file fail, or it is torn: its writing failed half way, or    *)
(* the process ended.  Reads may go well again, unless it is torn.           *)
Unreadable == world' = [world EXCEPT !.unread = TRUE, !.misread = TRUE]

Readable == world' = [world EXCEPT !.unread = FALSE]

-----------------------------------------------------------------------------
(* But for an addition that others wrote around, and until the file could    *)
(* not be read, each promised row is in the file ...                         *)
PromisedIsKept ==
  world.overlapped \/ world.misread \/ world.has = {r.address : r \in world.file}

(* ... and there is one row of a token.                                      *)
OneRowEach ==
  world.overlapped \/ \A r1, r2 \in world.file : r1.address = r2.address => r1 = r2

-----------------------------------------------------------------------------
Load(account) == [kind |-> "load", n |-> ui.reads + 1, with |-> account, rows |-> {}, read |-> FALSE]

Init ==
  /\ ui = [account |-> FALSE, tokens |-> {}, with |-> FALSE, of |-> 0, loading |-> TRUE, balances |-> FALSE,
           modal |-> FALSE, validating |-> FALSE, reads |-> 1,
           crossed |-> FALSE, excused |-> FALSE]
  /\ calls = {[kind |-> "load", n |-> 1, with |-> FALSE, rows |-> {}, read |-> FALSE]}
  /\ world = InitialFile

(* loadTokens *)
AccountKnown ==
  /\ ~ui.account /\ ui.reads < MaxReads
  /\ ui' = [ui EXCEPT !.account = TRUE, !.loading = TRUE, !.reads = @ + 1]
  /\ calls' = calls \cup {Load(TRUE)}
  /\ UNCHANGED world

Visible == ~ui.loading

(* loadBalances, by the refresh button of a token. *)
RefreshSingleTokenBalance ==
  /\ Visible /\ ui.account /\ ui.tokens # {} /\ ui.reads < MaxReads
  /\ ui' = [ui EXCEPT !.balances = TRUE, !.reads = @ + 1]
  /\ calls' = calls \cup {[Load(TRUE) EXCEPT !.kind = "refresh"]}
  /\ UNCHANGED world

(* The service reads its file; balances take their time. *)
ServiceReads(c) ==
  /\ c.kind \in {"load", "refresh"} /\ ~c.read
  /\ calls' = (calls \ {c}) \cup {[c EXCEPT !.read = TRUE, !.rows = Listed]}
  /\ UNCHANGED <<ui, world>>

Ended(c, u) == IF c.kind = "load" THEN [u EXCEPT !.loading = FALSE] ELSE [u EXCEPT !.balances = FALSE]

Answered(c) ==
  /\ c.kind \in {"load", "refresh"} /\ c.read
  /\ ui' = Ended(c, [ui EXCEPT !.tokens = c.rows, !.with = c.with, !.of = c.n, !.crossed = @ \/ c.n < ui.of])
  /\ calls' = calls \ {c} /\ UNCHANGED world

Unanswered(c) ==
  /\ c.kind \in {"load", "refresh"}
  /\ ui' = Ended(c, [ui EXCEPT !.excused = TRUE])
  /\ calls' = calls \ {c} /\ UNCHANGED world

-----------------------------------------------------------------------------
ShowCustomTokenModal ==
  /\ Visible /\ ~ui.validating
  /\ ui' = [ui EXCEPT !.modal = ~@]
  /\ UNCHANGED <<calls, world>>

AddCustomToken(t) ==
  /\ Visible /\ ui.modal /\ ~ui.validating
  /\ ui' = [ui EXCEPT !.validating = TRUE]
  /\ calls' = calls \cup {[kind |-> "add", token |-> t, rows |-> {}, at |-> 0]}
  /\ UNCHANGED world

(* Bug: the list is not read again. *)
AddedOnly(c) ==
  /\ ui' = [ui EXCEPT !.modal = FALSE, !.validating = FALSE]
  /\ calls' = calls \ {c}

(* The button waits for the list as well; while it loads it is not shown.    *)
Added(c) ==
  /\ ui.reads < MaxReads
  /\ ui' = [ui EXCEPT !.modal = FALSE, !.validating = FALSE, !.loading = TRUE, !.reads = @ + 1]
  /\ calls' = (calls \ {c}) \cup {Load(ui.account)}

NotAdded(c) ==
  /\ ui' = [ui EXCEPT !.validating = FALSE]
  /\ calls' = calls \ {c}

(* The user's other clients, and the file system. *)
Elsewhere ==
  /\ \/ InitializeDefaultTokens \/ Unreadable \/ Readable
     \/ \E r \in Loaded : RemoveUserToken(r) \/ DeleteUserToken(r) \/ UpdateUserToken(r, TRUE)
  /\ ui' = [ui EXCEPT !.excused = TRUE]
  /\ UNCHANGED calls

Next ==
  \/ AccountKnown \/ RefreshSingleTokenBalance \/ ShowCustomTokenModal \/ Elsewhere
  \/ \E t \in Token : AddCustomToken(t)
  \/ \E c \in calls :
       \/ ServiceReads(c) \/ Answered(c) \/ Unanswered(c)
       \/ Fetches(c) /\ UNCHANGED ui
       \/ (Adds(c) \/ Revives(c)) /\ Added(c)
       \/ (Refuses(c) \/ FailsToFetch(c)) /\ NotAdded(c)

Spec == Init /\ [][Next]_vars

-----------------------------------------------------------------------------
(* What the user added is listed when nothing is under way, unless a load    *)
(* failed, was overtaken by another, the list was changed elsewhere, or the  *)
(* file could not be read.                                                   *)
AddedIsListed ==
  calls = {} /\ ~ui.crossed /\ ~ui.excused => Listed \subseteq ui.tokens
=============================================================================
