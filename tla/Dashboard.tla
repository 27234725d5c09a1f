----------------------------- MODULE Dashboard -----------------------------
(* One browser tab: the login in localStorage, the cache of the dashboard   *)
(* in sessionStorage, the contexts above every page (DashboardContext,      *)
(* Cos72SessionContext) and the dashboard page.  Every request is made with *)
(* the login there is when it is sent.  What belongs to a user stands for   *)
(* the account, its history and its balances.                               *)
EXTENDS Naturals, FiniteSets

CONSTANTS
  User,     \* the users who log in on this tab
  None,     \* nobody, no account
  MaxLogins, \* bound: logins
  MaxLoads,  \* bound: loads and refreshes begun
  MaxFailed  \* bound: requests that fail or find the login expired

VARIABLES
  ui,    \* the state of the contexts, and the page
  calls, \* loads in flight
  world  \* localStorage, sessionStorage, the accounts there are

vars == <<ui, calls, world>>

(* The account shown, and whose history is shown with it. *)
NoData == [account |-> None, history |-> None]

(* The contexts as they are mounted by a page load, for a given login. *)
Mounted(login, cache) ==
  [data |-> cache, loaded |-> cache.account # None, user |-> login, session |-> None, page |-> "away",
   asking |-> FALSE]

SessionLoad(login) == [kind |-> "session", step |-> "account", as |-> login, account |-> None,
                       history |-> None, n |-> 0, sure |-> TRUE]

Init ==
  /\ ui = Mounted(None, NoData) /\ calls = {}
  /\ world = [login |-> None, cache |-> NoData, accounts |-> {}, atVisit |-> FALSE, sure |-> TRUE, left |-> FALSE,
              logins |-> 0, loads |-> 0, failed |-> 0]

(* A user is logged in by the login page, which stays in the tab.  Neither  *)
(* login nor logout is done within the 500 ms of CheckUserChange.           *)
Checked == ui.user = world.login

Login(u) ==
  /\ world.login = None /\ Checked /\ world.logins < MaxLogins
  /\ world' = [world EXCEPT !.login = u, !.logins = @ + 1]
  /\ ui' = [ui EXCEPT !.page = "away"]
  /\ UNCHANGED calls

(* Bug: the login is removed and the cache stays. *)
ClearedLogin == [world EXCEPT !.login = None]
(* clearStoredAuth.  Loads that are on their way will meet another login. *)
Cleared == [world EXCEPT !.login = None, !.cache = NoData, !.left = FALSE]

Logout ==
  /\ world.login # None /\ Checked
  /\ world' = [Cleared EXCEPT !.sure = @ /\ calls = {}]
  /\ ui' = [ui EXCEPT !.page = "away"]
  /\ UNCHANGED calls

(* Every 500 ms: who is logged in is not who the data is of.  The data is   *)
(* taken from the cache again.                                              *)
CheckUserChange ==
  /\ ~Checked
  /\ ui' = [ui EXCEPT !.user = world.login, !.data = world.cache, !.loaded = FALSE,
                      !.asking = ui.page = "dashboard"]
  /\ UNCHANGED <<calls, world>>

(* The page asks for its data when it is mounted and whenever the context   *)
(* renews loadDashboardData.  Layout sends who is not logged in away.       *)
Visit ==
  /\ world.login # None /\ ui.page = "away"
  /\ ui' = [ui EXCEPT !.page = "dashboard", !.asking = TRUE]
  /\ world' = [world EXCEPT !.atVisit = world.login \in world.accounts /\ calls = {}]
  /\ UNCHANGED calls

GoAway ==
  /\ ui.page = "dashboard"
  /\ ui' = [ui EXCEPT !.page = "away", !.asking = FALSE]
  /\ UNCHANGED <<calls, world>>

(* as is who a request is of: nobody when what it keeps or reads on the way *)
(* is another login's.                                                      *)
Begin(kind) ==
  /\ world.loads < MaxLoads
  /\ calls' = calls \cup {[kind |-> kind, step |-> "account",
                           as |-> IF kind = "balance" /\ world.left THEN None ELSE world.login,
                           account |-> None, history |-> ui.data.history, n |-> world.loads + 1,
                           sure |-> world.sure]}
  /\ world' = [world EXCEPT !.loads = @ + 1,
                            !.sure = /\ \A c \in calls : c.kind = "session"
                                     /\ kind = "load" \/ (@ /\ ~world.left)]

(* What is loaded is not loaded again. *)
AskOnMount ==
  /\ ui.asking
  /\ ui' = [ui EXCEPT !.asking = FALSE]
  /\ IF ui.loaded THEN UNCHANGED <<calls, world>> ELSE Begin("load")

(* Pulled down, or two seconds after an account was created. *)
Force ==
  /\ ui.page = "dashboard" /\ ~ui.asking
  /\ Begin("load") /\ UNCHANGED ui

RefreshBalance ==
  /\ ui.page = "dashboard" /\ ui.data.account # None
  /\ Begin("balance") /\ UNCHANGED ui

-----------------------------------------------------------------------------
Owned(u) == IF u \in world.accounts THEN u ELSE None

Misses == world.failed < MaxFailed

(* The account request answered, or failed: then there is no account. *)
AccountRead(c) ==
  /\ c.step = "account" /\ c.kind # "session"
  /\ \/ /\ calls' = (calls \ {c}) \cup
            {[c EXCEPT !.step = "rest", !.account = Owned(world.login),
                       !.as = IF world.login = @ THEN @ ELSE None]}
        /\ UNCHANGED world
     \/ /\ Misses /\ world' = [world EXCEPT !.failed = @ + 1, !.sure = FALSE]
        /\ calls' = IF c.kind = "balance" THEN calls \ {c}
                    ELSE (calls \ {c}) \cup {[c EXCEPT !.step = "rest"]}
  /\ UNCHANGED ui

(* Bug: loaded is loaded, with an account or without one. *)
StuckLoad(data) == [ui EXCEPT !.data = data, !.loaded = TRUE]
(* A state without an account is not kept. *)
AfterLoad(data) == [ui EXCEPT !.data = data, !.loaded = data.account # None]

(* The rest of the load: its history and balances are those of whoever is   *)
(* logged in by now; the data is shown and cached.  A refresh keeps the     *)
(* history it began with.                                                   *)
Applied(c) ==
  /\ c.step = "rest"
  /\ LET data == [account |-> c.account,
                  history |-> IF c.kind = "balance" THEN c.history ELSE world.login]
         kept == IF c.kind = "load" /\ data.account = None THEN NoData ELSE data
     IN /\ ui' = IF c.kind = "load" THEN AfterLoad(data) ELSE [ui EXCEPT !.data = data]
        /\ world' = [world EXCEPT !.cache = kept,
             !.left = c.as # world.login \/ c.as = None]
  /\ calls' = calls \ {c}

(* A request finds the login expired: the login is removed, the cache is    *)
(* left, and the page is loaded anew.                                       *)
Expired(c) ==
  /\ Misses /\ world.login # None
  /\ world' = [world EXCEPT !.login = None, !.failed = @ + 1,
                            !.left = @ \/ world.cache # NoData]
  /\ ui' = Mounted(None, world.cache)
  /\ calls' = {}

(* The user loads the page anew, and nothing that was on its way arrives:   *)
(* what a load was to put right is as it was.                               *)
Reload ==
  /\ world.logins < MaxLogins
  /\ world' = [world EXCEPT !.logins = @ + 1, !.sure = @ /\ \A c \in calls : c.kind = "load" => c.sure]
  /\ ui' = Mounted(world.login, world.cache)
  /\ calls' = IF world.login = None THEN {} ELSE {SessionLoad(world.login)}

(* The session's address is read once, when the contexts are mounted. *)
SessionRead(c) ==
  /\ c.kind = "session"
  /\ ui' = [ui EXCEPT !.session = Owned(c.as)]
  /\ calls' = calls \ {c} /\ UNCHANGED world

(* An account is created, here or elsewhere. *)
Create(u) ==
  /\ u \notin world.accounts
  /\ world' = [world EXCEPT !.accounts = @ \cup {u}]
  /\ UNCHANGED <<ui, calls>>

Next ==
  \/ \E u \in User : Login(u) \/ Create(u)
  \/ Logout \/ CheckUserChange \/ Visit \/ GoAway \/ AskOnMount \/ Force \/ RefreshBalance \/ Reload
  \/ \E c \in calls : AccountRead(c) \/ Applied(c) \/ Expired(c) \/ SessionRead(c)

-----------------------------------------------------------------------------
AtRest == ui.page = "dashboard" /\ ~ui.asking /\ Checked /\ calls = {}

(* The dashboard at rest shows nobody else's account or history, however    *)
(* its loads and refreshes overlapped, unless what was shown last was       *)
(* loaded for more than one login, or is the cache left behind by an        *)
(* expired one.                                                             *)
DataIsOwn ==
  AtRest /\ ~world.left =>
    ui.data.account \in {None, world.login} /\ ui.data.history \in {None, world.login}

(* Having no account is never kept: an account that was there when the      *)
(* dashboard was visited, with nothing on its way, is shown when the load   *)
(* is answered.                                                             *)
AccountShown == AtRest /\ world.sure /\ ~world.left /\ world.atVisit => ui.data.account = world.login

(* The session's address is that of who is logged in, as                    *)
(* Cos72SessionContext says of it.                                          *)
SessionIsOwn ==
  world.login # None /\ world.login \in world.accounts /\ calls = {} => ui.session = world.login
=============================================================================
