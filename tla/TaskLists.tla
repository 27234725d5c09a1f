------------------------------ MODULE TaskLists ------------------------------
(* The task market (aastar-frontend/app/tasks) over the lists of             *)
(* TaskContext.  All tasks, and those the account posted or claimed, are     *)
(* loaded by requests that overlap and end in any order, over one loading    *)
(* and one error flag.  A list stands for the version of the tasks it shows, *)
(* and whether all of them are in it.                                        *)
EXTENDS Naturals, FiniteSets

CONSTANTS
  Account,    \* the accounts the dashboard may name, one after the other
  NoOne,
  MaxVersion, \* bound: changes of the tasks
  MaxLoads    \* bound: loads begun

VARIABLES
  ui,    \* the context's lists and flags, the page's tab
  calls, \* loads in flight
  world  \* the dashboard's account, the version of the tasks, and of each list
         \* which load was asked for last, when, and whether it is what is shown

vars == <<ui, calls, world>>

Unread == [of |-> NoOne, version |-> 0, whole |-> TRUE]

(* TaskContext loads all tasks when it is mounted. *)
Init ==
  /\ ui = [lists |-> [list \in {"all", "mine"} |-> Unread], loading |-> TRUE, error |-> FALSE,
           tab |-> "all"]
  /\ calls = {[n |-> 1, list |-> "all", of |-> NoOne, from |-> 1]}
  /\ world = [who |-> NoOne, version |-> 1, loads |-> 1,
              asked |-> [list \in {"all", "mine"} |-> IF list = "all" THEN 1 ELSE 0],
              newest |-> [list \in {"all", "mine"} |-> IF list = "all" THEN 1 ELSE 0],
              sure |-> [list \in {"all", "mine"} |-> TRUE]]

Tab(tab) ==
  /\ ui' = [ui EXCEPT !.tab = tab]
  /\ UNCHANGED <<calls, world>>

Showing == IF ui.tab = "all" THEN "all" ELSE "mine"

Load(list, of) == [n |-> world.loads + 1, list |-> list, of |-> of, from |-> world.version]

(* Bug: a list is not loaded while the spinner turns. *)
BeginAlone(list, of) ==
  /\ world.loads < MaxLoads
  /\ calls' = IF ui.loading THEN calls ELSE calls \cup {Load(list, of)}
  /\ ui' = [ui EXCEPT !.loading = TRUE, !.error = FALSE]
  /\ world' = [world EXCEPT !.who = of, !.loads = @ + 1, !.asked[list] = world.version,
                            !.newest[list] = world.loads + 1]

(* loadAllTasks and loadMyTasks begin alike, whatever is on its way.  Two     *)
(* loads of one list end in either order.                                    *)
Begin(list, of) ==
  /\ world.loads < MaxLoads
  /\ calls' = calls \cup {Load(list, of)}
  /\ ui' = [ui EXCEPT !.loading = TRUE, !.error = FALSE]
  /\ world' = [world EXCEPT !.who = of, !.loads = @ + 1, !.asked[list] = world.version,
                            !.newest[list] = world.loads + 1]

(* The effect of the page: the dashboard names an account. *)
AccountKnown(a) == world.who # a /\ Begin("mine", a)

(* The refresh button loads the list of all tasks only, whichever tab is shown. *)
RefreshAll == ~ui.loading /\ Begin("all", world.who)

(* finally: whichever load ends takes the spinner of all of them away. *)
Ended(c) == calls' = calls \ {c}

(* The tasks are as the node had them at some time since the request; one    *)
(* whose own read failed is left out, and nothing says so.                   *)
Loaded(c, version, whole) ==
  /\ version \in c.from..world.version
  /\ Ended(c)
  /\ ui' = [ui EXCEPT !.loading = FALSE,
                      !.lists[c.list] = [of |-> c.of, version |-> version, whole |-> whole]]
  /\ world' = [world EXCEPT !.sure[c.list] = (c.n = world.newest[c.list])]

(* A failed load keeps what the list shows, of whichever account it is. *)
LoadFailed(c) ==
  /\ Ended(c)
  /\ ui' = [ui EXCEPT !.loading = FALSE, !.error = TRUE]
  /\ world' = [world EXCEPT !.sure[c.list] = @ /\ c.n # world.newest[c.list]]

Change ==
  /\ world.version < MaxVersion
  /\ world' = [world EXCEPT !.version = @ + 1]
  /\ UNCHANGED <<ui, calls>>

Next ==
  \/ \E tab \in {"all", "open", "mine", "claimed"} : Tab(tab)
  \/ \E a \in Account : AccountKnown(a)
  \/ RefreshAll \/ Change
  \/ \E c \in calls : LoadFailed(c) \/ \E v \in 1..MaxVersion, whole \in BOOLEAN : Loaded(c, v, whole)

-----------------------------------------------------------------------------
(* What a tab shows is of the account of the dashboard, and not older than  *)
(* the last time it was asked for, once its loads have ended - however many *)
(* of them crossed, as long as the one that was begun last also ended last  *)
(* and did not fail.  An older one that ends after it is shown in its place *)
(* (the context numbers no loads), and nothing here says that a list is     *)
(* whole.                                                                   *)
ListIsOwn ==
  world.sure[Showing] /\ (\A c \in calls : c.list # Showing) =>
    /\ Showing = "mine" => ui.lists["mine"].of = world.who
    /\ ui.lists[Showing].version >= world.asked[Showing]
=============================================================================
