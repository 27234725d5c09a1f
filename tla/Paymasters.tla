----------------------------- MODULE Paymasters -----------------------------
(* The saved paymasters (paymaster page over BackendStorageAdapter, which    *)
(* keeps one row of a name) and the default among them, which the browser    *)
(* keeps by account and the transfer page applies.  The page learns the      *)
(* account late; until then its default is that of no account.  A file that  *)
(* cannot be read is no paymasters.                                          *)
EXTENDS Naturals, FiniteSets

CONSTANTS
  Name, Address,
  Preset,     \* the names and addresses the service recommends, as records
  None,
  MaxReads,   \* bound: loads of the list
  MaxCalls,   \* bound: actions under way
  MaxToggles  \* bound: defaults that are set or cleared

VARIABLES
  ui,    \* the page; of: the load its list is of; crossed, excused: history
  calls, \* requests under way
  world  \* rows: the address of each name; default: by account known or not; loose: history

vars == <<ui, calls, world>>

Load(n) == [kind |-> "load", n |-> n, rows |-> None]

Init ==
  /\ ui = [rows |-> [m \in Name |-> None], loading |-> TRUE, action |-> None, account |-> FALSE, presets |-> {},
           default |-> None, reads |-> 1, of |-> 0, toggles |-> 0, crossed |-> FALSE, excused |-> FALSE]
  /\ calls = {Load(1)}
  /\ world = [rows |-> [m \in Name |-> None], default |-> [known \in BOOLEAN |-> None], loose |-> FALSE]

Saved == {world.rows[m] : m \in Name} \ {None}

-----------------------------------------------------------------------------
(* BackendStorageAdapter: getPaymasters, savePaymaster, removePaymaster.  A  *)
(* read that fails is no rows, and what is written is what was read, changed.*)
Empty == [m \in Name |-> None]
Read == {world.rows, Empty}

Stored(rows) ==
  [world EXCEPT !.rows = rows, !.loose = @ \/ \E m \in Name : world.rows[m] \notin {None, rows[m]}]

SavePaymaster(read, m, a) == Stored([read EXCEPT ![m] = a])

RemovePaymaster(read, m) ==
  IF read[m] = None THEN world ELSE [world EXCEPT !.rows = [read EXCEPT ![m] = None]]

Reads(c) ==
  /\ c.kind = "load" /\ c.rows = None
  /\ \E read \in Read :
       /\ calls' = (calls \ {c}) \cup {[c EXCEPT !.rows = read]}
       /\ ui' = [ui EXCEPT !.excused = @ \/ read # world.rows]
  /\ UNCHANGED world

-----------------------------------------------------------------------------
(* The default, of the account the page knows when it is asked.              *)
AccountKnown ==
  /\ ~ui.account
  /\ ui' = [ui EXCEPT !.account = TRUE, !.default = world.default[TRUE]]
  /\ UNCHANGED <<calls, world>>

Page == ~ui.loading
Removing == {c \in calls : c.kind = "remove"}
Loading == {c \in calls : c.kind = "load"}

StoreDefault(w, known, d) == [w EXCEPT !.default[known] = d]

HandleToggleDefault(a) ==
  /\ Page /\ a \in {ui.rows[m] : m \in Name} \ {None} /\ ui.toggles < MaxToggles
  /\ LET d == IF ui.default = a THEN None ELSE a
     IN /\ ui' = [ui EXCEPT !.default = d, !.toggles = @ + 1]
        /\ world' = [StoreDefault(world, ui.account, d) EXCEPT !.loose = @ \/ Removing \cup Loading # {} \/ ui.excused]
  /\ UNCHANGED calls

-----------------------------------------------------------------------------
(* loadPaymasters; the presets may be missing when the rows are not.         *)
GetPaymasterPresets == {Preset, {}}

Loaded(c) ==
  /\ c.kind = "load" /\ c.rows # None
  /\ \E found \in GetPaymasterPresets :
     ui' = [ui EXCEPT !.rows = c.rows, !.presets = found, !.of = c.n, !.loading = FALSE, !.action = None,
                         !.crossed = @ \/ c.n < ui.of]
  /\ calls' = calls \ {c} /\ UNCHANGED world

LoadFailed(c) ==
  /\ c.kind = "load"
  /\ ui' = [ui EXCEPT !.loading = FALSE, !.action = None, !.excused = TRUE]
  /\ calls' = calls \ {c} /\ UNCHANGED world

Reloaded(c, u) ==
  /\ ui.reads < MaxReads
  /\ ui' = [u EXCEPT !.loading = TRUE, !.reads = @ + 1]
  /\ calls' = (calls \ {c}) \cup {Load(ui.reads + 1)}

(* The button is on again, and so is that of any other action.               *)
Failed(c) ==
  /\ c.kind \in {"add", "preset", "remove"}
  /\ ui' = [ui EXCEPT !.action = None]
  /\ calls' = calls \ {c} /\ UNCHANGED world

(* The write fails or the process ends half way, and the file is torn.       *)
Torn(c) ==
  /\ c.kind \in {"add", "preset", "remove"}
  /\ world' = Stored(Empty)
  /\ ui' = [ui EXCEPT !.action = None, !.excused = TRUE]
  /\ calls' = calls \ {c}

-----------------------------------------------------------------------------
Free == Page /\ Cardinality({c \in calls : c.kind # "load"}) < MaxCalls

Adding(kind, m, a) ==
  /\ Free /\ ui.action # kind
  /\ ui' = [ui EXCEPT !.action = kind]
  /\ calls' = calls \cup {[kind |-> kind, name |-> m, address |-> a]}
  /\ UNCHANGED world

Recommended == {r \in ui.presets : r.address \notin {ui.rows[m] : m \in Name}}

HandleAddPreset == \E r \in Recommended : Adding("preset", r.name, r.address)

HandleAddPaymaster(m, a) == Adding("add", m, a)

Added(c) ==
  /\ c.kind \in {"add", "preset"}
  /\ \E read \in Read : world' = SavePaymaster(read, c.name, c.address)
  /\ Reloaded(c, ui)

(* What the answer will be judged by is of the click; another name may have  *)
(* the same address.                                                         *)
HandleRemovePaymaster(m) ==
  /\ Free /\ ui.rows[m] # None
  /\ ui' = [ui EXCEPT !.action = m]
  /\ calls' = calls \cup {[kind |-> "remove", name |-> m, address |-> ui.rows[m], default |-> ui.default,
                           account |-> ui.account]}
  /\ world' = [world EXCEPT !.loose = @ \/ ~ui.account \/ Removing # {}]

(* Bug: the preference stays. *)
KeepsDefault(c) == FALSE

DropsDefault(c) == c.default = c.address

(* A name that was not there is answered as well. *)
Removed(c) ==
  /\ c.kind = "remove"
  /\ \E read \in Read :
     world' = IF DropsDefault(c) THEN StoreDefault(RemovePaymaster(read, c.name), c.account, None)
              ELSE RemovePaymaster(read, c.name)
  /\ Reloaded(c, IF DropsDefault(c) THEN [ui EXCEPT !.default = None] ELSE ui)

(* A behaviour is followed until answers crossed or the default is loose.    *)
Next ==
  /\ ~ui.crossed /\ ~world.loose
  /\ \/ AccountKnown \/ HandleAddPreset
     \/ \E a \in Address : HandleToggleDefault(a) \/ \E m \in Name : HandleAddPaymaster(m, a)
     \/ \E m \in Name : HandleRemovePaymaster(m)
     \/ \E c \in calls : Reads(c) \/ Loaded(c) \/ LoadFailed(c) \/ Failed(c) \/ Torn(c) \/ Added(c) \/ Removed(c)

Spec == Init /\ [][Next]_vars

-----------------------------------------------------------------------------
(* What transfers apply by default is a saved paymaster, unless a name was   *)
(* given another address, what is saved was lost (torn, or replaced after a  *)
(* read that failed), the account was not known yet, the default was changed *)
(* while a removal or a load was under way, or the list failed to load.      *)
DefaultIsSaved == ~world.loose => world.default[TRUE] \in Saved \cup {None}

(* The star is on what is stored for the account.                            *)
DefaultIsShown == ~world.loose => ui.default = world.default[ui.account]

(* A page at rest lists what is saved, unless a load or the read for it      *)
(* failed or came late, or the file was torn.                                *)
SavedIsShown == calls = {} /\ ~ui.crossed /\ ~ui.excused => ui.rows = world.rows
=============================================================================
