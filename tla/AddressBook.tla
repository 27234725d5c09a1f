----------------------------- MODULE AddressBook -----------------------------
(* The address book: AddressBookService, whose calls each read and write the *)
(* user's file in one go, and the page over it.  Transfers count in the book *)
(* as well, from elsewhere.  A save ends with the form or the edit that is   *)
(* open then, whichever it was.  A file that cannot be read, for the time    *)
(* being or because it is torn, is an empty book.                            *)
EXTENDS Naturals

CONSTANTS
  Address,
  Name,     \* names; "" is none
  None,
  MaxReads, \* bound: loads of the book
  MaxUses,  \* bound: transfers to one address
  MaxSaves  \* bound: names that are saved

VARIABLES
  ui,    \* the page; of: the load its book is of; cut, crossed, excused: history
  calls, \* requests under way
  world  \* book; used: transfers to each address since it was removed last; lost: history

vars == <<ui, calls, world>>

Init ==
  /\ ui = [book |-> None, loading |-> TRUE, form |-> FALSE, editing |-> None, name |-> "",
           reads |-> 1, of |-> 0, saves |-> 0, cut |-> FALSE, crossed |-> FALSE, excused |-> FALSE]
  /\ calls = {[kind |-> "load", n |-> 1, book |-> None, then |-> "stay"]}
  /\ world = [book |-> [a \in Address |-> None], used |-> [a \in Address |-> 0], lost |-> FALSE]

Empty == [a \in Address |-> None]

(* loadUserAddressBook; a read that fails is an empty book.                  *)
Read == {world.book, Empty}
Misread(read) == read # world.book

(* What is written is what was read, and the change.                         *)
Change(read, a, entry) ==
  [world EXCEPT !.book = [read EXCEPT ![a] = entry], !.lost = @ \/ Misread(read)]

Uses(read, a) == IF read[a] = None THEN 0 ELSE read[a].count

-----------------------------------------------------------------------------
(* AddressBookService; addresses are the same in whatever case.              *)
RecordSuccessfulTransfer(a) ==
  /\ world.used[a] < MaxUses
  /\ \E read \in Read :
     LET entry == IF read[a] = None THEN [name |-> "", count |-> 1] ELSE [read[a] EXCEPT !.count = @ + 1]
     IN world' = [Change(read, a, entry) EXCEPT !.used[a] = @ + 1]
  /\ ui' = [ui EXCEPT !.excused = TRUE]
  /\ UNCHANGED calls

(* Bug: a name makes a new entry. *)
NamedAnew(read, a, name) == Change(read, a, [name |-> name, count |-> 0])

Named(read, a, name) ==
  Change(read, a, IF read[a] = None THEN [name |-> name, count |-> 0] ELSE [read[a] EXCEPT !.name = name])

(* What is not found is not written. *)
Removed(read, a) ==
  IF read[a] = None THEN world ELSE [Change(read, a, None) EXCEPT !.used[a] = 0]

-----------------------------------------------------------------------------
(* loadAddressBook; while it runs there is nothing but the spinner.          *)
Load(c, then) == [kind |-> "load", n |-> ui.reads + 1, book |-> None, then |-> then]

Reads(c) ==
  /\ c.kind = "load" /\ c.book = None
  /\ \E read \in Read :
       /\ calls' = (calls \ {c}) \cup {[c EXCEPT !.book = read]}
       /\ ui' = [ui EXCEPT !.excused = @ \/ Misread(read)]
  /\ UNCHANGED world

(* What follows the load of a save: the form is closed, the edit is ended.   *)
Closed(u, c) ==
  CASE c.then = "added" -> [u EXCEPT !.form = FALSE]
    [] c.then = "updated" -> [u EXCEPT !.editing = None, !.name = ""]
    [] OTHER -> u

Loaded(c) ==
  /\ c.kind = "load" /\ c.book # None
  /\ ui' = Closed([ui EXCEPT !.book = c.book, !.of = c.n, !.loading = FALSE, !.crossed = @ \/ c.n < ui.of], c)
  /\ calls' = calls \ {c} /\ UNCHANGED world

(* A load that fails is taken for one that went well. *)
LoadFailed(c) ==
  /\ c.kind = "load"
  /\ ui' = Closed([ui EXCEPT !.loading = FALSE, !.excused = TRUE], c)
  /\ calls' = calls \ {c} /\ UNCHANGED world

-----------------------------------------------------------------------------
Shown == {a \in Address : ui.book # None /\ (IF ui.book # None THEN ui.book[a] # None ELSE FALSE)}
Page == ~ui.loading

ToggleForm ==
  /\ Page
  /\ ui' = [ui EXCEPT !.form = ~@]
  /\ UNCHANGED <<calls, world>>

Saving(kind, a, name, then) == [kind |-> kind, address |-> a, name |-> name, then |-> then]

(* An address that is in the book already takes the name, or none.           *)
HandleAddAddress(a, name) ==
  /\ Page /\ ui.form /\ ui.saves < MaxSaves
  /\ ui' = [ui EXCEPT !.saves = @ + 1]
  /\ calls' = calls \cup {Saving("name", a, name, "added")}
  /\ UNCHANGED world

StartEdit(a) ==
  /\ Page /\ a \in Shown /\ ui.editing # a
  /\ ui' = [ui EXCEPT !.editing = a, !.name = ui.book[a].name,
                      !.cut = @ \/ \E c \in calls : c.then = "deleted"]
  /\ UNCHANGED <<calls, world>>

EditName(name) ==
  /\ Page /\ ui.editing \in Shown /\ name # ui.name
  /\ ui' = [ui EXCEPT !.name = name]
  /\ UNCHANGED <<calls, world>>

CancelEdit ==
  /\ Page /\ ui.editing \in Shown
  /\ ui' = [ui EXCEPT !.editing = None, !.name = ""]
  /\ UNCHANGED <<calls, world>>

HandleUpdateName ==
  /\ Page /\ ui.editing \in Shown /\ ui.saves < MaxSaves
  /\ ui' = [ui EXCEPT !.saves = @ + 1]
  /\ calls' = calls \cup {Saving("name", ui.editing, ui.name, "updated")}
  /\ UNCHANGED world

(* Bug: the entry that is edited can be deleted. *)
DeletableWhileEdited(a) == Page /\ a \in Shown

Deletable(a) == Page /\ a \in Shown /\ ui.editing # a

HandleDeleteAddress(a) ==
  /\ Deletable(a) /\ ui.saves < MaxSaves
  /\ ui' = [ui EXCEPT !.saves = @ + 1]
  /\ calls' = calls \cup {Saving("delete", a, "", "deleted")}
  /\ UNCHANGED world

(* Bug: the book is not loaded again. *)
ReloadsNot(c, u) ==
  /\ ui' = Closed(u, c)
  /\ calls' = calls \ {c}

Reloads(c, u) ==
  /\ ui.reads < MaxReads
  /\ ui' = [u EXCEPT !.loading = TRUE, !.reads = @ + 1]
  /\ calls' = (calls \ {c}) \cup {Load(c, c.then)}

Saved(c) ==
  /\ c.kind = "name"
  /\ \E read \in Read :
       /\ world' = Named(read, c.address, c.name)
       /\ Reloads(c, [ui EXCEPT !.excused = @ \/ Misread(read)])

(* Once it is gone already the service says so, and the page loads the same. *)
Deleted(c) ==
  c.kind = "delete" /\ (\E read \in Read : world' = Removed(read, c.address)) /\ Reloads(c, ui)

NotSaved(c) ==
  /\ c.kind \in {"name", "delete"}
  /\ calls' = calls \ {c} /\ UNCHANGED <<ui, world>>

(* A write fails or the process ends half way, and the file is torn.         *)
Torn(c) ==
  /\ c.kind \in {"name", "delete"}
  /\ world' = [world EXCEPT !.book = Empty, !.lost = TRUE]
  /\ ui' = [ui EXCEPT !.excused = TRUE]
  /\ calls' = calls \ {c}

(* A behaviour is followed until answers crossed.                            *)
Next ==
  /\ ~ui.crossed
  /\ \/ ToggleForm \/ CancelEdit \/ HandleUpdateName
     \/ \E a \in Address : StartEdit(a) \/ HandleDeleteAddress(a) \/ RecordSuccessfulTransfer(a)
     \/ \E name \in Name : EditName(name) \/ \E a \in Address : HandleAddAddress(a, name)
     \/ \E c \in calls : Reads(c) \/ Loaded(c) \/ LoadFailed(c) \/ Saved(c) \/ Deleted(c) \/ NotSaved(c) \/ Torn(c)

Spec == Init /\ [][Next]_vars

-----------------------------------------------------------------------------
(* Names come and go, and the book counts the transfers to an address since  *)
(* it was removed last: never more, and no fewer until a change was made to  *)
(* a book that could not be read, or the file was torn.                      *)
UsesAreCounted ==
  \A a \in Address : Uses(world.book, a) =< world.used[a] /\ (world.lost \/ Uses(world.book, a) = world.used[a])

(* A page at rest shows the book, unless a load failed or came late, the     *)
(* book could not be read for a load or a name, or was torn, or a transfer   *)
(* was recorded meanwhile.                                                   *)
BookIsShown ==
  calls = {} /\ ~ui.crossed /\ ~ui.excused => ui.book = world.book

(* Unless it was begun while a deletion was under way, an edit is of an      *)
(* entry that is there: its entry is not deleted from under it.              *)
EditIsOfShown ==
  calls = {} /\ ~ui.crossed /\ ~ui.excused /\ ~ui.cut /\ ui.editing # None => ui.editing \in Shown
=============================================================================
