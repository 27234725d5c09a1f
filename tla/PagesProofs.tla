---------------------------- MODULE PagesProofs -----------------------------
(* Proofs about the pages of what a user keeps - the session, the lists of     *)
(* tokens, NFTs, contacts and paymasters, the data directory, the login -, a   *)
(* section each as in ChainPagesProofs, and about all pages together.          *)
EXTENDS ChainPagesProofs, FiniteSetTheorems, TLAPS

-----------------------------------------------------------------------------
(* The tab of a browser and its dashboard.                                   *)
Who == Visitor \cup {None}
TabData == [account : Who, history : Who]
TabPage ==
  [data : TabData, loaded : BOOLEAN, user : Who, session : Who, page : {"away", "dashboard"}, asking : BOOLEAN]
TabLoad ==
  [kind : {"load", "balance"}, step : {"account", "rest"}, as : Who, account : Who, history : Who, n : Nat,
   sure : BOOLEAN]
TabSession ==
  [kind : {"session"}, step : {"account"}, as : Who, account : Who, history : Who, n : Nat, sure : BOOLEAN]
TabWorld ==
  [login : Who, cache : TabData, accounts : SUBSET Visitor, atVisit : BOOLEAN, sure : BOOLEAN, left : BOOLEAN,
   logins : Nat, loads : Nat, failed : Nat]

TabTypeOK == ui \in TabPage /\ calls \subseteq TabLoad \cup TabSession /\ world \in TabWorld

(* The dashboard is shown to who is logged in, and the data is of nobody or  *)
(* of the last login; the account of a visit is still there.                 *)
LoginInv ==
  /\ ui.page = "dashboard" => world.login # None
  /\ world.login # None => ui.user \in {world.login, None}
  /\ ui.page = "dashboard" /\ world.atVisit => world.login \in world.accounts

(* An account that is shown or kept or was read is there.                    *)
ThereInv ==
  /\ ui.data.account \in world.accounts \cup {None} /\ world.cache.account \in world.accounts \cup {None}
  /\ \A c \in calls : c.account \in world.accounts \cup {None}

(* A load that nothing crosses reads what belongs to its login.              *)
FlightInv ==
  world.sure =>
    /\ \A c, d \in calls : c \in TabLoad /\ d \in TabLoad => c = d
    /\ \A c \in calls \cap TabLoad :
         /\ c.as \in {world.login, None}
         /\ c.step = "rest" /\ c.as = world.login => c.account \in {None, world.login}

(* A refresh is of an account that is shown, and keeps its history.          *)
RefreshInv ==
  world.sure =>
    \A c \in calls : c.kind = "balance" =>
      /\ c.as = world.login /\ world.login # None /\ world.login \in world.accounts
      /\ c.history \in {None, world.login} /\ (c.step = "rest" => c.account = world.login)

(* A load of a visit finds the account that was there.                       *)
VisitInv ==
  world.sure /\ world.atVisit /\ ui.page = "dashboard" =>
    \A c \in calls : c.kind = "load" /\ c.step = "rest" /\ c.as = world.login => c.account = world.login

(* What a request brings belongs to the login it is of, if it is of one.     *)
(* What is kept belongs to who is logged in, unless it was left behind, and  *)
(* so does what is shown, but in the moment after a logout.                  *)
IsOwn(data, user) == data.account \in {None, user} /\ data.history \in {None, user}
BelongInv ==
  /\ \A c \in calls : c.kind # "session" /\ c.as # None =>
       c.account \in {None, c.as} /\ (c.kind = "balance" => c.history \in {None, c.as})
  /\ ~world.left =>
       /\ IsOwn(world.cache, world.login)
       /\ ui.user = world.login \/ world.login # None => IsOwn(ui.data, world.login)

(* What is loaded has an account, unless a load is to put that right.        *)
Settled == \A c \in calls : c.kind = "load" => c.sure
LoadedInv ==
  world.sure /\ ~world.left /\ Settled /\ (ui.user = world.login \/ world.login # None) =>
    (ui.loaded => ui.data.account # None)

ShownInv ==
  /\ world.sure /\ ~world.left /\ world.atVisit /\ ui.page = "dashboard" /\ ~ui.asking /\ ui.user = world.login
  /\ \A c \in calls : c.kind # "load"
  => ui.data.account = world.login

TabInv == TabTypeOK /\ LoginInv /\ ThereInv /\ FlightInv /\ RefreshInv /\ VisitInv /\ BelongInv /\ LoadedInv /\ ShownInv

LEMMA TabTypes ==
  ASSUME TabInv
  PROVE  /\ ui \in TabPage /\ calls \subseteq TabLoad \cup TabSession /\ world \in TabWorld
         /\ ui.data \in TabData /\ ui.user \in Who /\ ui.asking \in BOOLEAN /\ ui.loaded \in BOOLEAN
         /\ world.login \in Who /\ world.cache \in TabData /\ world.accounts \in SUBSET Visitor
         /\ world.atVisit \in BOOLEAN /\ world.sure \in BOOLEAN /\ world.left \in BOOLEAN
         /\ world.logins \in Nat /\ world.loads \in Nat /\ world.failed \in Nat
BY DEF TabInv, TabTypeOK, TabPage, TabWorld

LEMMA TabKinds ==
  /\ \A c \in TabLoad : c.kind \in {"load", "balance"} /\ c \notin TabSession
  /\ \A c \in TabSession : c.kind = "session" /\ c.step = "account" /\ c \notin TabLoad
  /\ \A c \in TabLoad \cup TabSession : c.as \in Who /\ c.account \in Who /\ c.history \in Who /\ c.sure \in BOOLEAN
  /\ \A c \in TabLoad \cup TabSession : c.kind # "session" => c \in TabLoad
BY DEF TabLoad, TabSession

LEMMA TabNobody ==
  /\ Tab!NoData \in TabData /\ Tab!NoData.account = None /\ Tab!NoData.history = None
  /\ \A user : IsOwn(Tab!NoData, user)
BY DEF Tab!NoData, TabData, Who, IsOwn

LEMMA TabMounted ==
  ASSUME NEW login \in Who, NEW cache \in TabData
  PROVE  LET v == Tab!Mounted(login, cache) IN
         /\ v \in TabPage /\ v.data = cache /\ (v.loaded => cache.account # None) /\ v.user = login
         /\ v.page = "away" /\ ~v.asking
<1> DEFINE f == FALSE
           q == cache.account # None
<1>0. f \in BOOLEAN /\ ~f /\ q \in BOOLEAN /\ None \in Who /\ (q => cache.account # None)
  BY DEF Who
<1>1. PICK v : v = Tab!Mounted(login, cache)
  OBVIOUS
<1>2. v = [data |-> cache, loaded |-> q, user |-> login, session |-> None, page |-> "away", asking |-> f]
  BY <1>1 DEF Tab!Mounted
<1> HIDE DEF f, q
<1>3. /\ v \in TabPage /\ v.data = cache /\ (v.loaded => cache.account # None) /\ v.user = login
      /\ v.page = "away" /\ ~v.asking
  BY <1>0, <1>2 DEF TabPage
<1> QED
  BY <1>1, <1>3

LEMMA TabInit == Tab!Init => TabInv
<1> SUFFICES ASSUME Tab!Init PROVE TabInv
  OBVIOUS
<1> DEFINE f == FALSE
           y == TRUE
           nothing == Tab!NoData
<1>1. /\ ui = Tab!Mounted(None, nothing) /\ calls = {}
      /\ world = [login |-> None, cache |-> nothing, accounts |-> {}, atVisit |-> f, sure |-> y, left |-> f,
                  logins |-> 0, loads |-> 0, failed |-> 0]
  BY DEF Tab!Init
<1>2. /\ f \in BOOLEAN /\ y \in BOOLEAN /\ ~f /\ None \in Who /\ {} \in SUBSET Visitor /\ nothing \in TabData
      /\ nothing.account = None /\ IsOwn(nothing, None)
  BY TabNobody DEF Who
<1> HIDE DEF f, y, nothing
<1>3. world \in TabWorld /\ world.login = None /\ world.cache = nothing /\ world.accounts = {} /\ ~world.atVisit
  BY <1>1, <1>2 DEF TabWorld
<1>4. ui \in TabPage /\ ui.data = nothing /\ (ui.loaded => nothing.account # None) /\ ui.user = None /\ ui.page = "away"
  BY <1>1, <1>2, TabMounted
<1>5. TabTypeOK /\ LoginInv /\ ThereInv
  BY <1>1, <1>2, <1>3, <1>4 DEF TabTypeOK, LoginInv, ThereInv
<1>6. FlightInv /\ RefreshInv /\ VisitInv /\ ShownInv
  BY <1>1, <1>4 DEF FlightInv, RefreshInv, VisitInv, ShownInv
<1>7. BelongInv /\ LoadedInv
  BY <1>1, <1>2, <1>3, <1>4 DEF BelongInv, LoadedInv
<1> QED
  BY <1>5, <1>6, <1>7 DEF TabInv

(* The page comes and goes, and nothing is sent or answered.                 *)
LEMMA TabLoginStep ==
  ASSUME TabInv, NEW u \in Visitor, Tab!Login(u)
  PROVE  TabInv'
<1> DEFINE n == world.logins + 1
<1>0. /\ ui \in TabPage /\ world \in TabWorld /\ world.login = None /\ ui.user = None /\ calls' = calls
      /\ u \in Who /\ u # None /\ n \in Nat
  BY TabTypes, TabAssumption DEF Tab!Login, Tab!Checked, Who
<1>1. world' = [world EXCEPT !.login = u, !.logins = n] /\ ui' = [ui EXCEPT !.page = "away"]
  BY <1>0 DEF Tab!Login, TabWorld
<1> HIDE DEF n
<1>2. /\ world' \in TabWorld /\ world'.login = u /\ world'.cache = world.cache /\ world'.accounts = world.accounts
      /\ (world'.sure <=> world.sure) /\ (world'.left <=> world.left)
  BY <1>0, <1>1 DEF TabWorld
<1>3. /\ ui' \in TabPage /\ ui'.page = "away" /\ ui'.data = ui.data /\ ui'.user = None /\ (ui'.loaded <=> ui.loaded)
  BY <1>0, <1>1 DEF TabPage
<1>4. TabTypeOK' /\ LoginInv' /\ ThereInv'
  BY <1>0, <1>2, <1>3, TabTypes DEF TabInv, TabTypeOK, LoginInv, ThereInv
<1>5. FlightInv'
  BY <1>0, <1>2 DEF TabInv, FlightInv
<1>6. RefreshInv'
  BY <1>0, <1>2 DEF TabInv, RefreshInv
<1>7. VisitInv' /\ ShownInv'
  BY <1>3 DEF VisitInv, ShownInv
<1>8. BelongInv' /\ LoadedInv'
  BY <1>0, <1>2, <1>3 DEF TabInv, BelongInv, LoadedInv, Settled, IsOwn
<1> QED
  BY <1>4, <1>5, <1>6, <1>7, <1>8 DEF TabInv

LEMMA TabLogoutStep ==
  ASSUME TabInv, Tab!Logout
  PROVE  TabInv'
<1> DEFINE f == FALSE
           q == world.sure /\ calls = {}
           nothing == Tab!NoData
<1>0. /\ ui \in TabPage /\ world \in TabWorld /\ world.login # None /\ ui.user = world.login /\ calls' = calls
      /\ f \in BOOLEAN /\ q \in BOOLEAN /\ (q => world.sure /\ calls = {})
      /\ None \in Who /\ nothing \in TabData /\ nothing.account = None /\ IsOwn(nothing, None)
  BY TabTypes, TabNobody DEF Tab!Logout, Tab!Checked, Who
<1>1. /\ world' = [world EXCEPT !.login = None, !.cache = nothing, !.left = f, !.sure = q]
      /\ ui' = [ui EXCEPT !.page = "away"]
  BY <1>0 DEF Tab!Logout, Tab!Cleared, TabWorld
<1> HIDE DEF f, q, nothing
<1>2. /\ world' \in TabWorld /\ world'.login = None /\ world'.cache = nothing /\ world'.accounts = world.accounts
      /\ (world'.sure <=> q)
  BY <1>0, <1>1 DEF TabWorld
<1>3. ui' \in TabPage /\ ui'.page = "away" /\ ui'.data = ui.data /\ ui'.user = ui.user
  BY <1>0, <1>1 DEF TabPage
<1>4. TabTypeOK' /\ LoginInv' /\ ThereInv'
  BY <1>0, <1>2, <1>3, TabTypes DEF TabInv, TabTypeOK, LoginInv, ThereInv
<1>5. FlightInv' /\ RefreshInv' /\ VisitInv' /\ ShownInv'
  BY <1>0, <1>2, <1>3 DEF FlightInv, RefreshInv, VisitInv, ShownInv
<1>6. BelongInv' /\ LoadedInv'
  BY <1>0, <1>2, <1>3 DEF TabInv, BelongInv, LoadedInv
<1> QED
  BY <1>4, <1>5, <1>6 DEF TabInv

LEMMA TabCheckStep ==
  ASSUME TabInv, Tab!CheckUserChange
  PROVE  TabInv'
<1> DEFINE f == FALSE
           q == ui.page = "dashboard"
<1>0. /\ ui \in TabPage /\ world' = world /\ calls' = calls /\ f \in BOOLEAN /\ ~f /\ q \in BOOLEAN
      /\ (q <=> ui.page = "dashboard") /\ world.login \in Who /\ world.cache \in TabData
  BY TabTypes DEF Tab!CheckUserChange
<1>1. ui' = [ui EXCEPT !.user = world.login, !.data = world.cache, !.loaded = f, !.asking = q]
  BY DEF Tab!CheckUserChange
<1> HIDE DEF f, q
<1>2. /\ ui' \in TabPage /\ ui'.page = ui.page /\ ui'.data = world.cache /\ ui'.user = world.login /\ ~ui'.loaded
      /\ (ui'.asking <=> q)
  BY <1>0, <1>1 DEF TabPage
<1>3. TabTypeOK' /\ LoginInv' /\ ThereInv'
  BY <1>0, <1>2, TabTypes DEF TabInv, TabTypeOK, LoginInv, ThereInv
<1>4. FlightInv' /\ RefreshInv'
  BY <1>0 DEF TabInv, FlightInv, RefreshInv
<1>5. VisitInv' /\ ShownInv'
  BY <1>0, <1>2 DEF TabInv, VisitInv, ShownInv
<1>6. BelongInv' /\ LoadedInv'
  BY <1>0, <1>2 DEF TabInv, BelongInv, LoadedInv
<1> QED
  BY <1>3, <1>4, <1>5, <1>6 DEF TabInv

LEMMA TabVisitStep ==
  ASSUME TabInv, Tab!Visit
  PROVE  TabInv'
<1> DEFINE y == TRUE
           q == world.login \in world.accounts /\ calls = {}
<1>0. /\ ui \in TabPage /\ world \in TabWorld /\ world.login # None /\ calls' = calls /\ y \in BOOLEAN /\ y
      /\ q \in BOOLEAN /\ (q => world.login \in world.accounts /\ calls = {})
  BY TabTypes DEF Tab!Visit
<1>1. ui' = [ui EXCEPT !.page = "dashboard", !.asking = y] /\ world' = [world EXCEPT !.atVisit = q]
  BY DEF Tab!Visit
<1> HIDE DEF y, q
<1>2. /\ world' \in TabWorld /\ world'.login = world.login /\ world'.cache = world.cache
      /\ world'.accounts = world.accounts
      /\ (world'.sure <=> world.sure) /\ (world'.left <=> world.left) /\ (world'.atVisit <=> q)
  BY <1>0, <1>1 DEF TabWorld
<1>3. ui' \in TabPage /\ ui'.data = ui.data /\ ui'.user = ui.user /\ (ui'.loaded <=> ui.loaded) /\ ui'.asking
  BY <1>0, <1>1 DEF TabPage
<1>4. TabTypeOK' /\ LoginInv' /\ ThereInv'
  BY <1>0, <1>2, <1>3, TabTypes DEF TabInv, TabTypeOK, LoginInv, ThereInv
<1>5. FlightInv' /\ RefreshInv'
  BY <1>0, <1>2 DEF TabInv, FlightInv, RefreshInv
<1>6. VisitInv' /\ ShownInv'
  BY <1>0, <1>2, <1>3 DEF VisitInv, ShownInv
<1>7. BelongInv' /\ LoadedInv'
  BY <1>0, <1>2, <1>3 DEF TabInv, BelongInv, LoadedInv, Settled
<1> QED
  BY <1>4, <1>5, <1>6, <1>7 DEF TabInv

LEMMA TabGoAwayStep ==
  ASSUME TabInv, Tab!GoAway
  PROVE  TabInv'
<1> DEFINE f == FALSE
<1>0. ui \in TabPage /\ world' = world /\ calls' = calls /\ f \in BOOLEAN
  BY TabTypes DEF Tab!GoAway
<1>1. ui' = [ui EXCEPT !.page = "away", !.asking = f]
  BY DEF Tab!GoAway
<1> HIDE DEF f
<1>2. ui' \in TabPage /\ ui'.page = "away" /\ ui'.data = ui.data /\ ui'.user = ui.user /\ (ui'.loaded <=> ui.loaded)
  BY <1>0, <1>1 DEF TabPage
<1>3. TabTypeOK' /\ LoginInv' /\ ThereInv'
  BY <1>0, <1>2, TabTypes DEF TabInv, TabTypeOK, LoginInv, ThereInv
<1>4. FlightInv' /\ RefreshInv'
  BY <1>0 DEF TabInv, FlightInv, RefreshInv
<1>5. VisitInv' /\ ShownInv'
  BY <1>2 DEF VisitInv, ShownInv
<1>6. BelongInv' /\ LoadedInv'
  BY <1>0, <1>2 DEF TabInv, BelongInv, LoadedInv, Settled
<1> QED
  BY <1>3, <1>4, <1>5, <1>6 DEF TabInv

(* A load or a refresh begins.                                               *)
LEMMA TabBegin ==
  ASSUME TabInv, NEW kind \in {"load", "balance"}, Tab!Begin(kind), ui' \in TabPage, ui'.page = ui.page,
         ui'.data = ui.data, ui'.user = ui.user, ui'.loaded <=> ui.loaded,
         kind = "balance" => /\ ui.page = "dashboard" /\ ui.data.account # None
                             /\ ui'.asking <=> ui.asking
  PROVE  TabInv'
<1> DEFINE n == world.loads + 1
           as == IF kind = "balance" /\ world.left THEN None ELSE world.login
           q == (\A c \in calls : c.kind = "session") /\ (kind = "load" \/ (world.sure /\ ~world.left))
<1>0. /\ world \in TabWorld /\ calls \subseteq TabLoad \cup TabSession /\ n \in Nat /\ q \in BOOLEAN
      /\ (q => (\A c \in calls : c.kind = "session") /\ (kind = "load" \/ (world.sure /\ ~world.left)))
      /\ world.login \in Who /\ world.accounts \in SUBSET Visitor /\ None \in Who
      /\ ui.data.history \in Who /\ world.sure \in BOOLEAN
  <2>1. n \in Nat
    BY TabTypes
  <2> QED
    BY <2>1, TabTypes DEF TabData, Who
<1>1. world' = [world EXCEPT !.loads = n, !.sure = q]
  BY <1>0 DEF Tab!Begin, TabWorld
<1>2. PICK c : c = [kind |-> kind, step |-> "account", as |-> as, account |-> None,
                    history |-> ui.data.history, n |-> n, sure |-> world.sure]
  OBVIOUS
<1>3. calls' = calls \cup {c}
  BY <1>2 DEF Tab!Begin
<1>a. /\ as \in {None, world.login} /\ (as = None \/ kind = "load" \/ ~world.left)
      /\ (kind = "load" \/ ~world.left => as = world.login)
  OBVIOUS
<1> HIDE DEF n, q, as
<1>4. /\ c \in TabLoad /\ c.kind = kind /\ c.step = "account" /\ c.as = as /\ c.account = None
      /\ c.history = ui.data.history /\ (c.sure <=> world.sure)
  BY <1>0, <1>2, <1>a DEF TabLoad
<1>5. /\ world' \in TabWorld /\ world'.login = world.login /\ world'.cache = world.cache
      /\ world'.accounts = world.accounts /\ (world'.sure <=> q) /\ (world'.left <=> world.left)
      /\ (world'.atVisit <=> world.atVisit)
  BY <1>0, <1>1 DEF TabWorld
<1>6. TabTypeOK' /\ LoginInv' /\ ThereInv'
  BY <1>0, <1>3, <1>4, <1>5 DEF TabInv, TabTypeOK, LoginInv, ThereInv
<1>7. q => \A d \in calls' : d = c \/ (d.kind = "session" /\ d \notin TabLoad)
  BY <1>0, <1>3, TabKinds
<1>8. FlightInv'
  BY <1>a, <1>4, <1>5, <1>7 DEF FlightInv
<1>9. VisitInv'
  BY <1>4, <1>5, <1>7 DEF VisitInv
<1>10. BelongInv'
  <2>1. kind = "balance" /\ as # None => ui.data.history \in {None, as}
    BY <1>a DEF TabInv, LoginInv, BelongInv, IsOwn
  <2> QED
    BY <1>3, <1>4, <1>5, <2>1 DEF TabInv, BelongInv
<1>11. LoadedInv'
  <2>1. Settled' /\ q => Settled /\ world.sure
    BY <1>0, <1>3, <1>4 DEF Settled
  <2> QED
    BY <1>5, <2>1 DEF TabInv, LoadedInv
<1>12. RefreshInv'
  <2> SUFFICES ASSUME q, ~world.left, kind = "balance"
               PROVE  /\ as = world.login /\ world.login # None /\ world.login \in world.accounts
                      /\ ui.data.history \in {None, world.login}
    BY <1>0, <1>4, <1>5, <1>7 DEF RefreshInv
  <2>1. world.login # None /\ IsOwn(ui.data, world.login)
    BY DEF TabInv, LoginInv, BelongInv
  <2> QED
    BY <1>a, <2>1 DEF IsOwn, TabInv, ThereInv
<1>13. ShownInv'
  <2>1. CASE kind = "load"
    BY <1>3, <1>4, <2>1 DEF ShownInv
  <2>2. CASE kind = "balance"
    <3>1. q => world.sure /\ \A d \in calls : d.kind # "load"
      BY <1>0, <2>2
    <3> QED
      BY <1>5, <2>2, <3>1 DEF TabInv, ShownInv
  <2> QED
    BY <2>1, <2>2
<1> QED
  BY <1>6, <1>8, <1>9, <1>10, <1>11, <1>12, <1>13 DEF TabInv

LEMMA TabAskStep ==
  ASSUME TabInv, Tab!AskOnMount
  PROVE  TabInv'
<1> DEFINE f == FALSE
<1>0. ui \in TabPage /\ f \in BOOLEAN
  BY TabTypes
<1>1. ui' = [ui EXCEPT !.asking = f]
  BY DEF Tab!AskOnMount
<1> HIDE DEF f
<1>2. ui' \in TabPage /\ ui'.page = ui.page /\ ui'.data = ui.data /\ ui'.user = ui.user /\ (ui'.loaded <=> ui.loaded)
  BY <1>0, <1>1 DEF TabPage
<1>3. CASE ~ui.loaded
  <2>1. Tab!Begin("load")
    BY <1>3 DEF Tab!AskOnMount
  <2> QED
    BY <1>2, <2>1, TabBegin
<1>4. CASE ui.loaded
  <2>1. calls' = calls /\ world' = world
    BY <1>4 DEF Tab!AskOnMount
  <2>2. TabTypeOK' /\ LoginInv' /\ ThereInv'
    BY <1>2, <2>1, TabTypes DEF TabInv, TabTypeOK, LoginInv, ThereInv
  <2>3. FlightInv' /\ RefreshInv' /\ VisitInv'
    BY <1>2, <2>1 DEF TabInv, FlightInv, RefreshInv, VisitInv
  <2>4. BelongInv' /\ LoadedInv'
    BY <1>2, <2>1 DEF TabInv, BelongInv, LoadedInv, Settled
  <2>5. ShownInv'
    <3> SUFFICES ASSUME world.sure, ~world.left, ui.user = world.login, \A c \in calls : c.kind # "load"
                 PROVE  ui.data.account = world.login
      BY <1>2, <2>1 DEF ShownInv
    <3>1. IsOwn(ui.data, world.login) /\ ui.data.account # None
      BY <1>4 DEF TabInv, BelongInv, LoadedInv, Settled
    <3> QED
      BY <3>1 DEF IsOwn
  <2> QED
    BY <2>2, <2>3, <2>4, <2>5 DEF TabInv
<1> QED
  BY <1>3, <1>4

LEMMA TabForceStep ==
  ASSUME TabInv, Tab!Force \/ Tab!RefreshBalance
  PROVE  TabInv'
<1>1. ui' = ui /\ ui' \in TabPage
  BY TabTypes DEF Tab!Force, Tab!RefreshBalance
<1>2. CASE Tab!Force
  BY <1>1, <1>2, TabBegin DEF Tab!Force
<1>3. CASE Tab!RefreshBalance
  BY <1>1, <1>3, TabBegin DEF Tab!RefreshBalance
<1> QED
  BY <1>2, <1>3

(* The page is loaded anew.                                                  *)
LEMMA TabReloadStep ==
  ASSUME TabInv, Tab!Reload
  PROVE  TabInv'
<1> DEFINE n == world.logins + 1
           q == world.sure /\ \A c \in calls : c.kind = "load" => c.sure
           y == TRUE
<1>0. /\ world \in TabWorld /\ n \in Nat /\ q \in BOOLEAN /\ (q => world.sure /\ Settled) /\ y \in BOOLEAN
      /\ world.login \in Who /\ world.cache \in TabData /\ None \in Who
  <2>1. n \in Nat
    BY TabTypes
  <2> QED
    BY <2>1, TabTypes DEF Who, Settled
<1>1. world' = [world EXCEPT !.logins = n, !.sure = q] /\ ui' = Tab!Mounted(world.login, world.cache)
  BY <1>0 DEF Tab!Reload, TabWorld
<1>2. PICK c : c = [kind |-> "session", step |-> "account", as |-> world.login, account |-> None,
                    history |-> None, n |-> 0, sure |-> y]
  OBVIOUS
<1>3. calls' = {} \/ calls' = {c}
  BY <1>2 DEF Tab!Reload, Tab!SessionLoad
<1> HIDE DEF n, q, y
<1>4. c \in TabSession /\ c.account = None
  BY <1>0, <1>2 DEF TabSession
<1>5. /\ world' \in TabWorld /\ world'.login = world.login /\ world'.cache = world.cache
      /\ world'.accounts = world.accounts /\ (world'.sure <=> q) /\ (world'.left <=> world.left)
  BY <1>0, <1>1 DEF TabWorld
<1>6. /\ ui' \in TabPage /\ ui'.data = world.cache /\ (ui'.loaded => world.cache.account # None)
      /\ ui'.user = world.login /\ ui'.page = "away"
  BY <1>0, <1>1, TabMounted
<1>7. TabTypeOK' /\ LoginInv' /\ ThereInv'
  BY <1>3, <1>4, <1>5, <1>6 DEF TabInv, TabTypeOK, LoginInv, ThereInv
<1>8. \A d \in calls' : d \notin TabLoad /\ d.kind = "session"
  BY <1>3, <1>4, TabKinds
<1>9. FlightInv' /\ RefreshInv' /\ VisitInv' /\ ShownInv'
  BY <1>6, <1>8 DEF FlightInv, RefreshInv, VisitInv, ShownInv
<1>10. BelongInv' /\ LoadedInv'
  BY <1>5, <1>6, <1>8 DEF TabInv, BelongInv, LoadedInv
<1> QED
  BY <1>7, <1>9, <1>10 DEF TabInv

LEMMA TabExpiredStep ==
  ASSUME TabInv, NEW c \in calls, Tab!Expired(c)
  PROVE  TabInv'
<1> DEFINE n == world.failed + 1
           nothing == Tab!NoData
           q == world.left \/ world.cache # nothing
<1>0. /\ world \in TabWorld /\ n \in Nat /\ q \in BOOLEAN /\ (~q => world.cache = nothing) /\ calls' = {}
      /\ world.cache \in TabData /\ None \in Who /\ nothing.account = None /\ IsOwn(nothing, None)
  <2>1. n \in Nat
    BY TabTypes
  <2> QED
    BY <2>1, TabTypes, TabNobody DEF Who, Tab!Expired
<1>1. world' = [world EXCEPT !.login = None, !.failed = n, !.left = q] /\ ui' = Tab!Mounted(None, world.cache)
  BY <1>0 DEF Tab!Expired, TabWorld
<1> HIDE DEF n, q, nothing
<1>2. /\ world' \in TabWorld /\ world'.login = None /\ world'.cache = world.cache
      /\ world'.accounts = world.accounts /\ (world'.left <=> q)
  BY <1>0, <1>1 DEF TabWorld
<1>3. /\ ui' \in TabPage /\ ui'.data = world.cache /\ (ui'.loaded => world.cache.account # None)
      /\ ui'.user = None /\ ui'.page = "away"
  BY <1>0, <1>1, TabMounted
<1>4. TabTypeOK' /\ LoginInv' /\ ThereInv'
  BY <1>0, <1>2, <1>3 DEF TabInv, TabTypeOK, LoginInv, ThereInv
<1>5. FlightInv' /\ RefreshInv' /\ VisitInv' /\ ShownInv'
  BY <1>0, <1>3 DEF FlightInv, RefreshInv, VisitInv, ShownInv
<1>6. BelongInv' /\ LoadedInv'
  BY <1>0, <1>2, <1>3 DEF BelongInv, LoadedInv
<1> QED
  BY <1>4, <1>5, <1>6 DEF TabInv

LEMMA TabSessionStep ==
  ASSUME TabInv, NEW c \in calls, Tab!SessionRead(c)
  PROVE  TabInv'
<1>0. /\ ui \in TabPage /\ world' = world /\ calls' = calls \ {c} /\ c.kind = "session" /\ c.as \in Who
      /\ Tab!Owned(c.as) \in Who
  BY TabTypes, TabKinds DEF Tab!SessionRead, Tab!Owned, Who
<1>1. ui' = [ui EXCEPT !.session = Tab!Owned(c.as)]
  BY DEF Tab!SessionRead
<1>2. /\ ui' \in TabPage /\ ui'.page = ui.page /\ ui'.data = ui.data /\ ui'.user = ui.user
      /\ (ui'.loaded <=> ui.loaded) /\ (ui'.asking <=> ui.asking)
  BY <1>0, <1>1 DEF TabPage
<1>3. TabTypeOK' /\ LoginInv' /\ ThereInv'
  BY <1>0, <1>2, TabTypes DEF TabInv, TabTypeOK, LoginInv, ThereInv
<1>4. FlightInv' /\ RefreshInv' /\ VisitInv'
  BY <1>0, <1>2 DEF TabInv, FlightInv, RefreshInv, VisitInv
<1>5. Settled' => Settled
  BY <1>0 DEF Settled
<1>6. BelongInv' /\ LoadedInv'
  BY <1>0, <1>2, <1>5 DEF TabInv, BelongInv, LoadedInv
<1>7. ShownInv'
  BY <1>0, <1>2 DEF TabInv, ShownInv
<1> QED
  BY <1>3, <1>4, <1>6, <1>7 DEF TabInv

LEMMA TabCreateStep ==
  ASSUME TabInv, NEW u \in Visitor, Tab!Create(u)
  PROVE  TabInv'
<1> DEFINE accounts == world.accounts \cup {u}
<1>0. /\ world \in TabWorld /\ ui' = ui /\ calls' = calls /\ accounts \in SUBSET Visitor
      /\ world.accounts \subseteq accounts
  BY TabTypes DEF Tab!Create
<1>1. world' = [world EXCEPT !.accounts = accounts]
  BY <1>0 DEF Tab!Create, TabWorld
<1> HIDE DEF accounts
<1>2. /\ world' \in TabWorld /\ world'.login = world.login /\ world'.cache = world.cache /\ world'.accounts = accounts
      /\ (world'.sure <=> world.sure) /\ (world'.left <=> world.left) /\ (world'.atVisit <=> world.atVisit)
  BY <1>0, <1>1 DEF TabWorld
<1>3. TabTypeOK' /\ LoginInv' /\ ThereInv'
  BY <1>0, <1>2, TabTypes DEF TabInv, TabTypeOK, LoginInv, ThereInv
<1>4. FlightInv' /\ RefreshInv' /\ VisitInv'
  BY <1>0, <1>2 DEF TabInv, FlightInv, RefreshInv, VisitInv
<1>5. BelongInv' /\ LoadedInv' /\ ShownInv'
  BY <1>0, <1>2 DEF TabInv, BelongInv, LoadedInv, Settled, ShownInv
<1> QED
  BY <1>3, <1>4, <1>5 DEF TabInv

LEMMA TabAccountReadStep ==
  ASSUME TabInv, NEW c \in calls, Tab!AccountRead(c)
  PROVE  TabInv'
<1>0. /\ ui' = ui /\ c.kind # "session" /\ c.step = "account" /\ c \in TabLoad /\ world \in TabWorld
      /\ calls \subseteq TabLoad \cup TabSession /\ world.login \in Who /\ world.accounts \in SUBSET Visitor
  BY TabTypes, TabKinds DEF Tab!AccountRead
<1>1. CASE /\ world' = world
           /\ calls' = (calls \ {c}) \cup {[c EXCEPT !.step = "rest", !.account = Tab!Owned(world.login),
                                                    !.as = IF world.login = @ THEN @ ELSE None]}
  <2> DEFINE as == IF world.login = c.as THEN c.as ELSE None
  <2>0. as \in Who /\ as \in {None, world.login} /\ as \in {None, c.as} /\ (c.as = world.login => as = c.as)
    BY <1>0 DEF Who
  <2>1. PICK d : d = [c EXCEPT !.step = "rest", !.account = Tab!Owned(world.login), !.as = as]
    OBVIOUS
  <2>2. Tab!Owned(world.login) \in Who /\ Tab!Owned(world.login) \in {None, world.login}
        /\ (world.login \in world.accounts => Tab!Owned(world.login) = world.login)
        /\ Tab!Owned(world.login) \in world.accounts \cup {None}
    BY <1>0 DEF Tab!Owned, Who
  <2>3. /\ d \in TabLoad /\ d.kind = c.kind /\ d.step = "rest" /\ d.as = as /\ d.history = c.history
        /\ (d.sure <=> c.sure) /\ d.account = Tab!Owned(world.login) /\ calls' = (calls \ {c}) \cup {d}
    BY <1>0, <1>1, <2>0, <2>1, <2>2 DEF TabLoad
  <2> HIDE DEF as
  <2>4. \A e \in calls' : e = d \/ e \in calls
    BY <2>3
  <2>5. TabTypeOK' /\ LoginInv' /\ ThereInv'
    BY <1>0, <1>1, <2>2, <2>3, TabTypes DEF TabInv, TabTypeOK, LoginInv, ThereInv
  <2>6. FlightInv'
    BY <1>0, <1>1, <2>0, <2>2, <2>3 DEF TabInv, FlightInv
  <2>7. RefreshInv'
    BY <1>0, <1>1, <2>0, <2>2, <2>3, <2>4 DEF TabInv, RefreshInv
  <2>8. VisitInv'
    BY <1>0, <1>1, <2>0, <2>2, <2>3, <2>4 DEF TabInv, LoginInv, VisitInv
  <2>9. Settled' => Settled
    BY <2>3 DEF Settled
  <2>10. BelongInv' /\ LoadedInv'
    <3>1. as # None => d.account \in {None, as} /\ (d.kind = "balance" => d.history \in {None, as})
      BY <1>0, <2>0, <2>2, <2>3 DEF TabInv, BelongInv
    <3>2. BelongInv'
      BY <1>0, <1>1, <2>3, <2>4, <3>1 DEF TabInv, BelongInv
    <3> QED
      BY <1>0, <1>1, <2>9, <3>2 DEF TabInv, LoadedInv
  <2>11. (\A e \in calls' : e.kind # "load") => \A e \in calls : e.kind # "load"
    BY <2>3
  <2>12. ShownInv'
    BY <1>0, <1>1, <2>11 DEF TabInv, ShownInv
  <2> QED
    BY <2>5, <2>6, <2>7, <2>8, <2>10, <2>12 DEF TabInv
<1>2. CASE /\ world' = [world EXCEPT !.failed = @ + 1, !.sure = FALSE]
           /\ calls' = IF c.kind = "balance" THEN calls \ {c} ELSE (calls \ {c}) \cup {[c EXCEPT !.step = "rest"]}
  <2> DEFINE f == FALSE
             n == world.failed + 1
  <2>1. n \in Nat /\ f \in BOOLEAN /\ ~f
    <3>1. world.failed \in Nat
      BY TabTypes
    <3> QED
      BY <3>1
  <2>2. world' = [world EXCEPT !.failed = n, !.sure = f]
    BY <1>0, <1>2 DEF TabWorld
  <2> HIDE DEF f, n
  <2>3. /\ world' \in TabWorld /\ world'.login = world.login /\ world'.cache = world.cache
        /\ world'.accounts = world.accounts /\ ~world'.sure /\ (world'.atVisit <=> world.atVisit)
        /\ (world'.left <=> world.left)
    BY <1>0, <2>1, <2>2 DEF TabWorld
  <2>4. PICK d : d = [c EXCEPT !.step = "rest"]
    OBVIOUS
  <2>5. /\ d \in TabLoad /\ d.account = c.account /\ d.as = c.as /\ d.kind = c.kind /\ d.history = c.history
    BY <1>0, <2>4 DEF TabLoad
  <2>6. \A e \in calls' : e = d \/ e \in calls
    BY <1>2, <2>4
  <2>7. TabTypeOK' /\ LoginInv' /\ ThereInv'
    BY <1>0, <2>3, <2>5, <2>6, TabTypes DEF TabInv, TabTypeOK, LoginInv, ThereInv
  <2>8. FlightInv' /\ RefreshInv' /\ VisitInv' /\ LoadedInv' /\ ShownInv'
    BY <2>3 DEF FlightInv, RefreshInv, VisitInv, LoadedInv, ShownInv
  <2>9. BelongInv'
    BY <1>0, <2>3, <2>5, <2>6 DEF TabInv, BelongInv
  <2> QED
    BY <2>7, <2>8, <2>9 DEF TabInv
<1> QED
  BY <1>1, <1>2 DEF Tab!AccountRead

LEMMA TabAppliedStep ==
  ASSUME TabInv, NEW c \in calls, Tab!Applied(c)
  PROVE  TabInv'
<1> DEFINE data == [account |-> c.account, history |-> IF c.kind = "balance" THEN c.history ELSE world.login]
           kept == IF c.kind = "load" /\ data.account = None THEN Tab!NoData ELSE data
           q == c.as # world.login \/ c.as = None
           full == data.account # None
<1>0. /\ ui \in TabPage /\ world \in TabWorld /\ c.step = "rest" /\ c \in TabLoad /\ calls' = calls \ {c}
      /\ calls \subseteq TabLoad \cup TabSession /\ world.login \in Who
      /\ c.account \in Who /\ c.history \in Who /\ c.kind \in {"load", "balance"}
  BY TabTypes, TabKinds DEF Tab!Applied
<1>1. /\ ui' = IF c.kind = "load" THEN [ui EXCEPT !.data = data, !.loaded = full] ELSE [ui EXCEPT !.data = data]
      /\ world' = [world EXCEPT !.cache = kept, !.left = q]
  BY <1>0 DEF Tab!Applied, Tab!AfterLoad, TabWorld
<1>2. /\ data \in TabData /\ data.account = c.account
      /\ (c.kind = "load" => data.history = world.login) /\ (c.kind = "balance" => data.history = c.history)
  BY <1>0 DEF TabData
<1>3. full \in BOOLEAN /\ (full <=> data.account # None) /\ q \in BOOLEAN
      /\ (~q => c.as = world.login /\ c.as # None)
  BY <1>0 DEF TabWorld
<1>4. kept \in TabData /\ kept.account \in {None, data.account} /\ kept.history \in {None, data.history}
  BY <1>2, TabNobody
<1> HIDE DEF data, kept, q, full
<1>5. /\ ui' \in TabPage /\ ui'.page = ui.page /\ ui'.data = data /\ ui'.user = ui.user
      /\ (c.kind = "load" => (ui'.loaded => data.account # None)) /\ (ui'.asking <=> ui.asking)
  BY <1>0, <1>1, <1>2, <1>3 DEF TabPage
<1>6. /\ world' \in TabWorld /\ world'.login = world.login /\ world'.cache = kept /\ world'.accounts = world.accounts
      /\ (world'.sure <=> world.sure) /\ (world'.left <=> q) /\ (world'.atVisit <=> world.atVisit)
  BY <1>0, <1>1, <1>3, <1>4 DEF TabWorld
<1>7. TabTypeOK' /\ LoginInv' /\ ThereInv'
  BY <1>0, <1>2, <1>4, <1>5, <1>6 DEF TabInv, TabTypeOK, LoginInv, ThereInv
<1>8. FlightInv'
  BY <1>0, <1>6 DEF TabInv, FlightInv
<1>9. world.sure => \A d \in calls' : d.kind = "session"
  BY <1>0, TabKinds DEF TabInv, FlightInv
<1>10. RefreshInv' /\ VisitInv'
  BY <1>6, <1>9 DEF RefreshInv, VisitInv
<1>11. BelongInv'
  <2>1. ~q => IsOwn(data, world.login)
    BY <1>0, <1>2, <1>3 DEF TabInv, BelongInv, IsOwn
  <2>2. ~q => IsOwn(kept, world.login)
    BY <1>4, <2>1 DEF IsOwn
  <2> QED
    BY <1>0, <1>5, <1>6, <2>1, <2>2 DEF TabInv, BelongInv
<1>a. ASSUME world.sure, ~q, c.kind = "balance"
      PROVE  data.account = world.login /\ world.login # None
  BY <1>0, <1>2, <1>a DEF TabInv, RefreshInv
<1>12. LoadedInv'
  BY <1>0, <1>5, <1>6, <1>a DEF LoadedInv
<1>13. ShownInv'
  <2> SUFFICES ASSUME world.sure, ~q, world.atVisit, ui.page = "dashboard" PROVE data.account = world.login
    BY <1>5, <1>6 DEF ShownInv
  <2>1. CASE c.kind = "load"
    BY <1>0, <1>2, <1>3, <2>1 DEF TabInv, VisitInv
  <2>2. CASE c.kind = "balance"
    BY <1>a, <2>2
  <2> QED
    BY <1>0, <2>1, <2>2
<1> QED
  BY <1>7, <1>8, <1>10, <1>11, <1>12, <1>13 DEF TabInv

LEMMA TabNext == TabInv /\ Tab!Next => TabInv'
BY TabLoginStep, TabLogoutStep, TabCheckStep, TabVisitStep, TabGoAwayStep, TabAskStep, TabForceStep, TabReloadStep,
   TabExpiredStep, TabSessionStep, TabCreateStep, TabAccountReadStep, TabAppliedStep DEF Tab!Next

LEMMA TabStutter == TabInv /\ UNCHANGED vars => TabInv'
BY DEF vars, TabInv, TabTypeOK, LoginInv, ThereInv, FlightInv, RefreshInv, VisitInv, BelongInv, LoadedInv, Settled, ShownInv

LEMMA TabInvImplies == TabInv => Tab!DataIsOwn /\ Tab!AccountShown
<1> SUFFICES ASSUME TabInv, Tab!AtRest, ~world.left
             PROVE  /\ ui.data.account \in {None, world.login} /\ ui.data.history \in {None, world.login}
                    /\ world.sure /\ world.atVisit => ui.data.account = world.login
  BY DEF Tab!DataIsOwn, Tab!AccountShown
<1>1. calls = {} /\ ui.user = world.login /\ ui.page = "dashboard" /\ ~ui.asking
  BY DEF Tab!AtRest, Tab!Checked
<1>2. IsOwn(ui.data, world.login)
  BY <1>1 DEF TabInv, BelongInv
<1>3. world.sure /\ world.atVisit => ui.data.account = world.login
  BY <1>1 DEF TabInv, ShownInv
<1> QED
  BY <1>2, <1>3 DEF IsOwn

-----------------------------------------------------------------------------
(* The user's tokens.                                                        *)
TokenRow == [address : Token, n : Nat, active : BOOLEAN]

TokensUi ==
  [account : BOOLEAN, tokens : SUBSET TokenRow, with : BOOLEAN, of : Nat, loading : BOOLEAN, balances : BOOLEAN,
   modal : BOOLEAN, validating : BOOLEAN, reads : Nat, crossed : BOOLEAN, excused : BOOLEAN]

TokensWorld ==
  [file : SUBSET TokenRow, unread : BOOLEAN, n : Nat, writes : Nat, has : SUBSET Token,
   overlapped : BOOLEAN, misread : BOOLEAN]

AddCall == [kind : {"add"}, token : Token, rows : {{}}, at : {0}]
FetchCall == [kind : {"fetch"}, token : Token, rows : SUBSET TokenRow, at : Nat]
ReadCall == [kind : {"load", "refresh"}, n : Nat, with : BOOLEAN, rows : SUBSET TokenRow, read : BOOLEAN]

TokensTypeOK == ui \in TokensUi /\ world \in TokensWorld /\ calls \subseteq AddCall \cup FetchCall \cup ReadCall

OneOfEach(rows) == \A r1, r2 \in rows : r1.address = r2.address => r1 = r2
AddressesOf(rows) == {r.address : r \in rows}

(* An addition that waits for the chain has rows without its token; if       *)
(* nobody wrote since, they are those of the file, if it could be read.      *)
FetchInv ==
  \A c \in calls : c.kind = "fetch" =>
    /\ c.at =< world.writes /\ c.token \notin AddressesOf(c.rows)
    /\ c.at = world.writes => c.rows \subseteq world.file /\ (~world.misread => c.rows = world.file)

FileInv ==
  /\ world.unread => world.misread
  /\ ~world.overlapped => OneOfEach(world.file)
  /\ ~world.overlapped /\ ~world.misread => world.has = AddressesOf(world.file)

IsRead(c) == c.kind \in {"load", "refresh"}

(* The last load has what is active now, or will have it.                    *)
ReadInv ==
  /\ ui.of =< ui.reads
  /\ \A c \in calls : IsRead(c) => c.n =< ui.reads /\ c.n # ui.of
  /\ \A c, d \in calls : IsRead(c) /\ IsRead(d) /\ c.n = d.n => c = d
  /\ ~ui.crossed /\ ~ui.excused =>
       \/ ui.of = ui.reads /\ Tokens!Listed \subseteq ui.tokens
       \/ \E c \in calls : IsRead(c) /\ c.n = ui.reads /\ (c.read => Tokens!Listed \subseteq c.rows)

TokensInv == TokensTypeOK /\ FetchInv /\ FileInv /\ ReadInv

LEMMA TokensInvImplies == TokensInv => Tokens!PromisedIsKept /\ Tokens!OneRowEach /\ Tokens!AddedIsListed
BY DEF TokensInv, FileInv, ReadInv, OneOfEach, AddressesOf, Tokens!PromisedIsKept, Tokens!OneRowEach, Tokens!AddedIsListed

LEMMA TokensInit == Tokens!Init => TokensInv
<1> SUFFICES ASSUME Tokens!Init PROVE TokensInv
  OBVIOUS
<1> DEFINE c1 == [kind |-> "load", n |-> 1, with |-> FALSE, rows |-> {}, read |-> FALSE]
<1>1. ui \in TokensUi /\ ui.of = 0 /\ ui.reads = 1
  BY DEF Tokens!Init, TokensUi
<1>2. world \in TokensWorld /\ ~world.unread /\ world.file = {} /\ world.has = {} /\ world.writes = 0
  BY DEF Tokens!Init, Tokens!InitialFile, TokensWorld
<1>3. calls = {c1} /\ c1 \in ReadCall /\ c1.n = 1 /\ ~c1.read /\ IsRead(c1)
  BY DEF Tokens!Init, ReadCall, IsRead
<1> HIDE DEF c1
<1>4. TokensTypeOK
  BY <1>1, <1>2, <1>3 DEF TokensTypeOK
<1>5. FetchInv
  BY <1>3 DEF FetchInv, ReadCall
<1>6. FileInv
  BY <1>2 DEF FileInv, OneOfEach, AddressesOf
<1>7. ReadInv
  BY <1>1, <1>3 DEF ReadInv
<1> QED
  BY <1>4, <1>5, <1>6, <1>7 DEF TokensInv

(* What is read of the file. *)
LEMMA TokensLoaded ==
  ASSUME TokensInv
  PROVE  /\ ui \in TokensUi /\ world \in TokensWorld /\ calls \subseteq AddCall \cup FetchCall \cup ReadCall
         /\ Tokens!Loaded \subseteq world.file /\ Tokens!Loaded \subseteq TokenRow
         /\ ~world.misread => Tokens!Loaded = world.file
         /\ ~world.overlapped => OneOfEach(Tokens!Loaded)
         /\ ~world.overlapped /\ ~world.misread => world.has = AddressesOf(Tokens!Loaded)
<1>1. ui \in TokensUi /\ world \in TokensWorld /\ calls \subseteq AddCall \cup FetchCall \cup ReadCall
  BY DEF TokensInv, TokensTypeOK
<1>2. world.file \subseteq TokenRow
  BY <1>1 DEF TokensWorld
<1> QED
  BY <1>1, <1>2 DEF TokensInv, FileInv, Tokens!Loaded, OneOfEach

(* A write outdates what additions under way have read. *)
LEMMA TokensWritten ==
  ASSUME TokensInv, NEW rows \in SUBSET TokenRow, NEW has \in SUBSET Token, NEW n \in Nat, NEW o \in BOOLEAN,
         world' = [world EXCEPT !.file = rows, !.unread = FALSE, !.has = has, !.writes = @ + 1, !.n = n, !.overlapped = o],
         \A d \in calls' : d.kind = "fetch" => d \in calls,
         o \/ OneOfEach(rows), o \/ world.misread \/ has = AddressesOf(rows)
  PROVE  world' \in TokensWorld /\ FetchInv' /\ FileInv' /\ Tokens!Listed' = {r \in rows : r.active}
<1> DEFINE w == world.writes + 1
<1>1. world \in TokensWorld /\ world.writes \in Nat /\ w \in Nat
  BY TokensLoaded DEF TokensWorld
<1>2. world' = [world EXCEPT !.file = rows, !.unread = FALSE, !.has = has, !.writes = w, !.n = n, !.overlapped = o]
  OBVIOUS
<1>3. w > world.writes
  BY <1>1
<1> HIDE DEF w
<1>4. /\ world' \in TokensWorld /\ world'.file = rows /\ ~world'.unread /\ world'.has = has /\ world'.writes = w
      /\ world'.overlapped = o /\ world'.misread = world.misread
  BY <1>1, <1>2 DEF TokensWorld
<1>5. FetchInv'
  <2> SUFFICES ASSUME NEW d \in calls', d.kind = "fetch"
               PROVE  d.at =< w /\ d.at # w /\ d.token \notin AddressesOf(d.rows)
    BY <1>4 DEF FetchInv
  <2>1. d \in calls /\ d \in FetchCall /\ d.at \in Nat
    BY TokensLoaded DEF AddCall, FetchCall, ReadCall
  <2> QED
    BY <1>1, <1>3, <2>1 DEF TokensInv, FetchInv
<1>6. FileInv'
  BY <1>4 DEF FileInv
<1>7. Tokens!Listed' = {r \in rows : r.active}
  BY <1>4 DEF Tokens!Listed, Tokens!Loaded
<1> QED
  BY <1>4, <1>5, <1>6, <1>7

(* The list is read again: the new load is the last. *)
LEMMA TokensReadAgain ==
  ASSUME TokensInv, NEW d \in ReadCall, d.n = ui.reads + 1, ~d.read, NEW old, old \subseteq calls,
         calls' = old \cup {d}, ui' \in TokensUi, ui'.reads = ui.reads + 1, ui'.of = ui.of
  PROVE  ReadInv'
<1>1. ui.reads \in Nat /\ ui.of \in Nat /\ IsRead(d) /\ d.n \in Nat
  BY TokensLoaded DEF TokensUi, ReadCall, IsRead
<1>2. \A c \in calls : IsRead(c) => c.n \in Nat /\ c.n =< ui.reads /\ c.n # ui.of
  BY TokensLoaded DEF TokensInv, ReadInv, IsRead, AddCall, FetchCall, ReadCall
<1>3. ui'.of =< ui'.reads
  BY <1>1 DEF TokensInv, ReadInv
<1>4. \A c \in calls' : IsRead(c) => c.n =< ui'.reads /\ c.n # ui'.of
  BY <1>1, <1>2 DEF TokensInv, ReadInv
<1>5. \A c, e \in calls' : IsRead(c) /\ IsRead(e) /\ c.n = e.n => c = e
  BY <1>1, <1>2 DEF TokensInv, ReadInv
<1>6. \E c \in calls' : IsRead(c) /\ c.n = ui'.reads /\ (c.read => Tokens!Listed' \subseteq c.rows)
  BY <1>1
<1> QED
  BY <1>3, <1>4, <1>5, <1>6 DEF ReadInv

(* Loads stay under way, and what is shown stays. *)
LEMMA TokensReadStays ==
  ASSUME TokensInv, ui'.of = ui.of, ui'.reads = ui.reads, ui'.tokens = ui.tokens,
         \A d \in calls' : IsRead(d) => d \in calls,
         \A d \in calls : IsRead(d) => d \in calls',
         ui'.excused \/ ((ui'.excused = ui.excused) /\ (ui'.crossed = ui.crossed) /\ (Tokens!Listed' = Tokens!Listed))
  PROVE  ReadInv'
<1>1. /\ ui'.of =< ui'.reads
      /\ \A c \in calls' : IsRead(c) => c.n =< ui'.reads /\ c.n # ui'.of
      /\ \A c, d \in calls' : IsRead(c) /\ IsRead(d) /\ c.n = d.n => c = d
  BY DEF TokensInv, ReadInv
<1>2. CASE ui'.excused
  BY <1>1, <1>2 DEF ReadInv
<1>3. CASE (ui'.excused = ui.excused) /\ (ui'.crossed = ui.crossed) /\ (Tokens!Listed' = Tokens!Listed)
  <2>1. ~ui.crossed /\ ~ui.excused =>
          \/ ui'.of = ui'.reads /\ Tokens!Listed' \subseteq ui'.tokens
          \/ \E c \in calls' : IsRead(c) /\ c.n = ui'.reads /\ (c.read => Tokens!Listed' \subseteq c.rows)
    BY <1>3 DEF TokensInv, ReadInv
  <2> QED
    BY <1>1, <1>3, <2>1 DEF ReadInv
<1> QED
  BY <1>2, <1>3

(* The page. *)
LEMMA TokensAskStep ==
  ASSUME TokensInv, Tokens!AccountKnown \/ Tokens!RefreshSingleTokenBalance
  PROVE  TokensInv'
<1> DEFINE n == ui.reads + 1
<1>1. PICK d \in ReadCall :
        /\ d.n = n /\ ~d.read /\ calls' = calls \cup {d} /\ world' = world
        /\ \/ ui' = [ui EXCEPT !.account = TRUE, !.loading = TRUE, !.reads = n]
           \/ ui' = [ui EXCEPT !.balances = TRUE, !.reads = n]
  <2>1. n \in Nat
    BY TokensLoaded DEF TokensUi
  <2> DEFINE d1 == [kind |-> "load", n |-> n, with |-> TRUE, rows |-> {}, read |-> FALSE]
             d2 == [d1 EXCEPT !.kind = "refresh"]
  <2>2. d1 \in ReadCall /\ d1.n = n /\ ~d1.read
    BY <2>1 DEF ReadCall
  <2>3. Tokens!Load(TRUE) = d1
    BY Zenon DEF Tokens!Load
  <2> HIDE DEF d1
  <2>6. d2 \in ReadCall /\ d2.n = n /\ ~d2.read
    BY <2>2 DEF ReadCall
  <2>4. CASE Tokens!AccountKnown
    BY <2>2, <2>3, <2>4 DEF Tokens!AccountKnown
  <2>5. CASE Tokens!RefreshSingleTokenBalance
    BY <2>6, <2>3, <2>5 DEF Tokens!RefreshSingleTokenBalance
  <2> QED
    BY <2>4, <2>5
<1>2. n \in Nat /\ ui \in TokensUi
  BY TokensLoaded DEF TokensUi
<1> HIDE DEF n
<1>3. ui' \in TokensUi /\ ui'.reads = n /\ ui'.of = ui.of
  BY <1>1, <1>2 DEF TokensUi
<1>4. ReadInv'
  BY <1>1, <1>3, TokensReadAgain DEF n
<1>5. TokensTypeOK'
  BY <1>1, <1>3 DEF TokensInv, TokensTypeOK
<1>6. FetchInv' /\ FileInv'
  BY <1>1 DEF TokensInv, FetchInv, FileInv, ReadCall
<1> QED
  BY <1>4, <1>5, <1>6 DEF TokensInv

LEMMA TokensDialogStep ==
  ASSUME TokensInv, Tokens!ShowCustomTokenModal \/ \E t \in Token : Tokens!AddCustomToken(t)
  PROVE  TokensInv'
<1>1. /\ ui \in TokensUi /\ world' = world
      /\ \E b \in BOOLEAN : ui' = [ui EXCEPT !.modal = b] \/ ui' = [ui EXCEPT !.validating = TRUE]
      /\ \E s \in SUBSET AddCall : calls' = calls \cup s
  <2>0. ui \in TokensUi /\ (~ui.modal) \in BOOLEAN
    BY TokensLoaded DEF TokensUi
  <2>1. CASE Tokens!ShowCustomTokenModal
    <3>1. ui' = [ui EXCEPT !.modal = ~ui.modal] /\ world' = world /\ calls' = calls
      BY <2>1 DEF Tokens!ShowCustomTokenModal
    <3>2. calls' = calls \cup {}
      BY <3>1
    <3> QED
      BY <2>0, <3>1, <3>2, Zenon
  <2>2. ASSUME NEW t \in Token, Tokens!AddCustomToken(t)
        PROVE  ui' = [ui EXCEPT !.validating = TRUE] /\ world' = world /\ \E s \in SUBSET AddCall : calls' = calls \cup s
    <3>1. [kind |-> "add", token |-> t, rows |-> {}, at |-> 0] \in AddCall
      BY DEF AddCall
    <3> QED
      BY <2>2, <3>1 DEF Tokens!AddCustomToken
  <2> QED
    BY <2>0, <2>1, <2>2
<1>2. /\ ui' \in TokensUi /\ ui'.of = ui.of /\ ui'.reads = ui.reads /\ ui'.tokens = ui.tokens
      /\ ui'.excused = ui.excused /\ ui'.crossed = ui.crossed
  BY <1>1 DEF TokensUi
<1>3. PICK s \in SUBSET AddCall : calls' = calls \cup s
  BY <1>1
<1>4. \A d \in s : d.kind = "add"
  BY DEF AddCall
<1>5. Tokens!Listed' = Tokens!Listed
  BY <1>1 DEF Tokens!Listed, Tokens!Loaded
<1>6. ReadInv'
  BY <1>2, <1>3, <1>4, <1>5, TokensReadStays DEF IsRead
<1>7. TokensTypeOK'
  BY <1>1, <1>2, <1>3 DEF TokensInv, TokensTypeOK
<1>8. FetchInv' /\ FileInv'
  BY <1>1, <1>3, <1>4 DEF TokensInv, FetchInv, FileInv
<1> QED
  BY <1>6, <1>7, <1>8 DEF TokensInv

LEMMA TokensReadsStep ==
  ASSUME TokensInv, NEW c \in calls, Tokens!ServiceReads(c)
  PROVE  TokensInv'
<1> DEFINE d == [c EXCEPT !.read = TRUE, !.rows = Tokens!Listed]
<1>1. /\ c \in ReadCall /\ IsRead(c) /\ ~c.read /\ calls' = (calls \ {c}) \cup {d} /\ ui' = ui /\ world' = world
  BY TokensLoaded DEF Tokens!ServiceReads, IsRead, AddCall, FetchCall, ReadCall
<1>2. Tokens!Listed \in SUBSET TokenRow
  BY TokensLoaded DEF Tokens!Listed
<1>3. d \in ReadCall /\ d.n = c.n /\ d.rows = Tokens!Listed /\ IsRead(d) /\ d.kind # "fetch"
  BY <1>1, <1>2 DEF ReadCall, IsRead
<1> HIDE DEF d
<1>4. TokensTypeOK'
  BY <1>1, <1>3 DEF TokensInv, TokensTypeOK
<1>5. FetchInv' /\ FileInv'
  BY <1>1, <1>3 DEF TokensInv, FetchInv, FileInv
<1>6. Tokens!Listed' = Tokens!Listed
  BY <1>1 DEF Tokens!Listed, Tokens!Loaded
<1>7. /\ \A x \in calls' : IsRead(x) => x.n =< ui.reads /\ x.n # ui.of
      /\ \A x, y \in calls' : IsRead(x) /\ IsRead(y) /\ x.n = y.n => x = y
  BY <1>1, <1>3 DEF TokensInv, ReadInv
<1>8. ~ui.crossed /\ ~ui.excused =>
        \/ ui.of = ui.reads /\ Tokens!Listed \subseteq ui.tokens
        \/ \E x \in calls' : IsRead(x) /\ x.n = ui.reads /\ (x.read => Tokens!Listed \subseteq x.rows)
  BY <1>1, <1>3 DEF TokensInv, ReadInv
<1>9. ReadInv'
  BY <1>1, <1>6, <1>7, <1>8 DEF TokensInv, ReadInv
<1> QED
  BY <1>4, <1>5, <1>9 DEF TokensInv

LEMMA TokensAnswerStep ==
  ASSUME TokensInv, NEW c \in calls, Tokens!Answered(c) \/ Tokens!Unanswered(c)
  PROVE  TokensInv'
<1>1. /\ c \in ReadCall /\ IsRead(c) /\ calls' = calls \ {c} /\ world' = world
      /\ ui \in TokensUi /\ calls \subseteq AddCall \cup FetchCall \cup ReadCall
  BY TokensLoaded DEF Tokens!Answered, Tokens!Unanswered, IsRead, AddCall, FetchCall, ReadCall
<1>2. FetchInv' /\ FileInv'
  BY <1>1 DEF TokensInv, FetchInv, FileInv
<1>3. Tokens!Listed' = Tokens!Listed
  BY <1>1 DEF Tokens!Listed, Tokens!Loaded
<1>4. /\ c.n \in Nat /\ c.with \in BOOLEAN /\ c.rows \in SUBSET TokenRow
      /\ ui.of \in Nat /\ ui.reads \in Nat /\ c.n =< ui.reads /\ ui.of =< ui.reads
  BY <1>1 DEF ReadCall, TokensUi, TokensInv, ReadInv
<1>5. CASE Tokens!Answered(c)
  <2> DEFINE x == ui.crossed \/ c.n < ui.of
             u == [ui EXCEPT !.tokens = c.rows, !.with = c.with, !.of = c.n, !.crossed = x]
  <2>1. ui' = [u EXCEPT !.loading = FALSE] \/ ui' = [u EXCEPT !.balances = FALSE]
    BY <1>1, <1>5 DEF Tokens!Answered, Tokens!Ended, TokensUi
  <2>2. x \in BOOLEAN /\ c.read
    BY <1>5 DEF Tokens!Answered
  <2>3. ~x => ~ui.crossed /\ ~(c.n < ui.of)
    OBVIOUS
  <2> HIDE DEF x
  <2>4. /\ ui' \in TokensUi /\ ui'.tokens = c.rows /\ ui'.of = c.n /\ ui'.crossed = x /\ ui'.reads = ui.reads
        /\ ui'.excused = ui.excused
    BY <1>1, <1>4, <2>1, <2>2 DEF TokensUi
  <2>5. TokensTypeOK'
    BY <1>1, <2>4 DEF TokensInv, TokensTypeOK
  <2>6. /\ \A d \in calls' : IsRead(d) => d.n =< ui'.reads /\ d.n # ui'.of
        /\ \A d, e \in calls' : IsRead(d) /\ IsRead(e) /\ d.n = e.n => d = e
    BY <1>1, <2>4 DEF TokensInv, ReadInv
  <2>7. ~x /\ ~ui.excused =>
          \/ c.n = ui.reads /\ Tokens!Listed \subseteq c.rows
          \/ \E d \in calls' : IsRead(d) /\ d.n = ui.reads /\ (d.read => Tokens!Listed \subseteq d.rows)
    <3> SUFFICES ASSUME ~x, ~ui.excused, ~(c.n = ui.reads /\ Tokens!Listed \subseteq c.rows)
                 PROVE  \E d \in calls' : IsRead(d) /\ d.n = ui.reads /\ (d.read => Tokens!Listed \subseteq d.rows)
      OBVIOUS
    <3>1. ~ui.crossed /\ c.n >= ui.of /\ c.n # ui.of
      BY <1>1, <1>4, <2>3 DEF TokensInv, ReadInv
    <3>2. ui.of # ui.reads
      BY <1>4, <3>1
    <3>3. PICK d \in calls : IsRead(d) /\ d.n = ui.reads /\ (d.read => Tokens!Listed \subseteq d.rows)
      BY <3>1, <3>2 DEF TokensInv, ReadInv
    <3>4. d # c
      BY <2>2, <3>3
    <3> QED
      BY <1>1, <3>3, <3>4
  <2>8. ReadInv'
    BY <1>3, <1>4, <2>4, <2>6, <2>7 DEF ReadInv
  <2> QED
    BY <1>2, <2>5, <2>8 DEF TokensInv
<1>6. CASE Tokens!Unanswered(c)
  <2>1. ui' \in TokensUi /\ ui'.of = ui.of /\ ui'.reads = ui.reads /\ ui'.excused
    BY <1>1, <1>6 DEF Tokens!Unanswered, Tokens!Ended, TokensUi
  <2>2. TokensTypeOK'
    BY <1>1, <2>1 DEF TokensInv, TokensTypeOK
  <2>3. ReadInv'
    BY <1>1, <2>1 DEF TokensInv, ReadInv
  <2> QED
    BY <1>2, <2>2, <2>3 DEF TokensInv
<1> QED
  BY <1>5, <1>6

(* The service. *)
LEMMA TokensFetchesStep ==
  ASSUME TokensInv, NEW c \in calls, Tokens!Fetches(c), ui' = ui
  PROVE  TokensInv'
<1> DEFINE d == [c EXCEPT !.kind = "fetch", !.rows = Tokens!Loaded, !.at = world.writes]
<1>1. /\ c \in AddCall /\ Tokens!RowsOf(c.token) = {} /\ calls' = (calls \ {c}) \cup {d} /\ world' = world
      /\ world.writes \in Nat
  BY TokensLoaded DEF Tokens!Fetches, Tokens!ReadAll, AddCall, FetchCall, ReadCall, TokensWorld
<1>2. /\ d \in FetchCall /\ d.rows = Tokens!Loaded /\ d.at = world.writes /\ d.token = c.token
      /\ d.kind = "fetch" /\ c.kind = "add"
  BY <1>1, TokensLoaded DEF AddCall, FetchCall
<1> HIDE DEF d
<1>3. TokensTypeOK'
  BY <1>1, <1>2 DEF TokensInv, TokensTypeOK
<1>4. d.token \notin AddressesOf(d.rows)
  BY <1>1, <1>2 DEF Tokens!RowsOf, AddressesOf
<1>5. d.at =< world.writes /\ d.rows \subseteq world.file /\ (~world.misread => d.rows = world.file)
  BY <1>1, <1>2, TokensLoaded
<1>6. FetchInv'
  BY <1>1, <1>4, <1>5 DEF TokensInv, FetchInv
<1>7. FileInv'
  BY <1>1 DEF TokensInv, FileInv
<1>8. Tokens!Listed' = Tokens!Listed
  BY <1>1 DEF Tokens!Listed, Tokens!Loaded
<1>9. ReadInv'
  BY <1>1, <1>2, <1>8, TokensReadStays DEF IsRead
<1> QED
  BY <1>3, <1>6, <1>7, <1>9 DEF TokensInv

(* A row is active again, and its token stays. *)
LEMMA RevivedRows ==
  ASSUME NEW rows \in SUBSET TokenRow, NEW old \in SUBSET rows, NEW active \in BOOLEAN
  PROVE  LET new == (rows \ old) \cup {[r EXCEPT !.active = active] : r \in old}
         IN new \in SUBSET TokenRow /\ AddressesOf(new) = AddressesOf(rows) /\ (OneOfEach(rows) => OneOfEach(new))
<1> DEFINE new == (rows \ old) \cup {[r EXCEPT !.active = active] : r \in old}
<1>1. \A r \in old : [r EXCEPT !.active = active] \in TokenRow /\ [r EXCEPT !.active = active].address = r.address
  BY DEF TokenRow
<1>2. new \in SUBSET TokenRow
  BY <1>1
<1>3. \A r \in rows : \E s \in new : s.address = r.address
  BY <1>1
<1>4. \A s \in new : \E r \in rows : r.address = s.address /\ (IF r \in old THEN s = [r EXCEPT !.active = active] ELSE s = r)
  BY <1>1
<1> HIDE DEF new
<1>5. AddressesOf(new) = AddressesOf(rows)
  BY <1>3, <1>4 DEF AddressesOf
<1>6. OneOfEach(rows) => OneOfEach(new)
  BY <1>4 DEF OneOfEach
<1> QED
  BY <1>2, <1>5, <1>6 DEF new

LEMMA TokensAddedStep ==
  ASSUME TokensInv, NEW c \in calls, Tokens!Adds(c) \/ Tokens!Revives(c), Tokens!Added(c)
  PROVE  TokensInv'
<1> DEFINE n == ui.reads + 1
           d == [kind |-> "load", n |-> n, with |-> ui.account, rows |-> {}, read |-> FALSE]
<1>1. /\ calls' = (calls \ {c}) \cup {d}
      /\ ui' = [ui EXCEPT !.modal = FALSE, !.validating = FALSE, !.loading = TRUE, !.reads = n]
  BY DEF Tokens!Added, Tokens!Load
<1>2. ui \in TokensUi /\ n \in Nat /\ ui.account \in BOOLEAN
  BY TokensLoaded DEF TokensUi
<1>3. n = ui.reads + 1
  OBVIOUS
<1> HIDE DEF n
<1>4. d \in ReadCall /\ d.n = n /\ ~d.read /\ d.kind = "load"
  BY <1>2 DEF ReadCall
<1> HIDE DEF d
<1>5. ui' \in TokensUi /\ ui'.reads = n /\ ui'.of = ui.of
  BY <1>1, <1>2 DEF TokensUi
<1>6. ReadInv'
  BY <1>1, <1>3, <1>4, <1>5, TokensReadAgain
<1>7. \A x \in calls' : x.kind = "fetch" => x \in calls
  BY <1>1, <1>4
<1>8. world' \in TokensWorld /\ FetchInv' /\ FileInv'
  <2>1. CASE Tokens!Adds(c)
    <3> DEFINE o == world.overlapped \/ c.at # world.writes
               rows == c.rows \cup {Tokens!Row(c.token, world.n + 1)}
    <3>1. c \in FetchCall /\ c.kind = "fetch" /\ c.token \in Token /\ c.rows \in SUBSET TokenRow /\ c.at \in Nat
      BY <2>1, TokensLoaded DEF Tokens!Adds, AddCall, FetchCall, ReadCall
    <3>2. world \in TokensWorld /\ world.n + 1 \in Nat /\ world.has \in SUBSET Token
      BY TokensLoaded DEF TokensWorld
    <3>3. Tokens!Row(c.token, world.n + 1) \in TokenRow /\ Tokens!Row(c.token, world.n + 1).address = c.token
      BY <3>1, <3>2 DEF Tokens!Row, TokenRow
    <3>4. rows \in SUBSET TokenRow /\ world.has \cup {c.token} \in SUBSET Token /\ o \in BOOLEAN
      BY <3>1, <3>2, <3>3
    <3>5. world' = [world EXCEPT !.file = rows, !.unread = FALSE, !.has = world.has \cup {c.token}, !.writes = @ + 1,
                                 !.n = world.n + 1, !.overlapped = o]
      BY <2>1, <3>2 DEF Tokens!Adds, Tokens!Saved, TokensWorld
    <3>6. c.token \notin AddressesOf(c.rows)
      BY <3>1 DEF TokensInv, FetchInv
    <3>7. ~o => /\ ~world.overlapped /\ OneOfEach(c.rows)
                /\ ~world.misread => world.has = AddressesOf(c.rows)
      BY <3>1 DEF TokensInv, FetchInv, FileInv, OneOfEach
    <3>8. o \/ OneOfEach(rows)
      BY <3>3, <3>6, <3>7 DEF OneOfEach, AddressesOf
    <3>9. o \/ world.misread \/ world.has \cup {c.token} = AddressesOf(rows)
      BY <3>3, <3>7 DEF AddressesOf
    <3> HIDE DEF o, rows
    <3> QED
      BY <1>7, <3>2, <3>4, <3>5, <3>8, <3>9, TokensWritten
  <2>2. CASE Tokens!Revives(c)
    <3> DEFINE rows == Tokens!Revived(c.token)
               has == world.has \cup {c.token}
    <3>1. c.kind = "add" /\ c.token \in Token /\ Tokens!RowsOf(c.token) # {}
      BY <2>2, TokensLoaded DEF Tokens!Revives, AddCall, FetchCall, ReadCall
    <3>2. /\ world \in TokensWorld /\ world.n \in Nat /\ has \in SUBSET Token /\ world.overlapped \in BOOLEAN
          /\ Tokens!RowsOf(c.token) \subseteq Tokens!Loaded
      BY <3>1, TokensLoaded DEF TokensWorld, Tokens!RowsOf
    <3>3. /\ rows \in SUBSET TokenRow /\ AddressesOf(rows) = AddressesOf(Tokens!Loaded)
          /\ OneOfEach(Tokens!Loaded) => OneOfEach(rows)
      BY <3>2, TokensLoaded, RevivedRows DEF Tokens!Revived
    <3>4. world' = [world EXCEPT !.file = rows, !.unread = FALSE, !.has = has, !.writes = @ + 1,
                                 !.n = world.n, !.overlapped = world.overlapped]
      BY <2>2, <3>2 DEF Tokens!Revives, Tokens!Saved, TokensWorld
    <3>5. c.token \in AddressesOf(Tokens!Loaded)
      BY <3>1 DEF AddressesOf, Tokens!RowsOf
    <3>6. world.overlapped \/ world.misread \/ has = AddressesOf(rows)
      BY <3>3, <3>5, TokensLoaded
    <3>7. world.overlapped \/ OneOfEach(rows)
      BY <3>3, TokensLoaded
    <3> HIDE DEF rows, has
    <3> QED
      BY <1>7, <3>2, <3>3, <3>4, <3>6, <3>7, TokensWritten
  <2> QED
    BY <2>1, <2>2
<1>9. TokensTypeOK'
  BY <1>1, <1>4, <1>5, <1>8 DEF TokensInv, TokensTypeOK
<1> QED
  BY <1>6, <1>8, <1>9 DEF TokensInv

LEMMA TokensNotAddedStep ==
  ASSUME TokensInv, NEW c \in calls, Tokens!Refuses(c) \/ Tokens!FailsToFetch(c), Tokens!NotAdded(c)
  PROVE  TokensInv'
<1>1. /\ c.kind \in {"add", "fetch"} /\ world' = world /\ calls' = calls \ {c}
      /\ ui' = [ui EXCEPT !.validating = FALSE] /\ ui \in TokensUi
  BY TokensLoaded DEF Tokens!Refuses, Tokens!FailsToFetch, Tokens!NotAdded
<1>2. /\ ui' \in TokensUi /\ ui'.of = ui.of /\ ui'.reads = ui.reads /\ ui'.tokens = ui.tokens
      /\ ui'.excused = ui.excused /\ ui'.crossed = ui.crossed
  BY <1>1 DEF TokensUi
<1>3. Tokens!Listed' = Tokens!Listed
  BY <1>1 DEF Tokens!Listed, Tokens!Loaded
<1>4. ReadInv'
  BY <1>1, <1>2, <1>3, TokensReadStays DEF IsRead
<1>5. TokensTypeOK'
  BY <1>1, <1>2 DEF TokensInv, TokensTypeOK
<1>6. FetchInv' /\ FileInv'
  BY <1>1 DEF TokensInv, FetchInv, FileInv
<1> QED
  BY <1>4, <1>5, <1>6 DEF TokensInv

LEMMA TokensCardinality == Tokens!Cardinality(Preset) \in Nat
<1>1. Tokens!Cardinality(Preset) = Cardinality(Preset)
  BY Zenon DEF Tokens!Cardinality, Cardinality
<1> QED
  BY <1>1, TokensAssumption, FS_CardinalityType

(* What is done elsewhere excuses the page. *)
LEMMA TokensElsewhereStep ==
  ASSUME TokensInv, Tokens!Elsewhere
  PROVE  TokensInv'
<1>1. ui \in TokensUi /\ ui' = [ui EXCEPT !.excused = TRUE] /\ calls' = calls
  BY TokensLoaded DEF Tokens!Elsewhere
<1>2. ui' \in TokensUi /\ ui'.of = ui.of /\ ui'.reads = ui.reads /\ ui'.tokens = ui.tokens /\ ui'.excused
  BY <1>1 DEF TokensUi
<1>3. ReadInv'
  BY <1>1, <1>2, TokensReadStays
<1>4. world \in TokensWorld /\ world.n \in Nat /\ world.overlapped \in BOOLEAN /\ world.has \in SUBSET Token
  BY TokensLoaded DEF TokensWorld
<1>5. world' \in TokensWorld /\ FetchInv' /\ FileInv'
  <2>1. CASE Tokens!InitializeDefaultTokens
    <3> DEFINE rows == {Tokens!Row(t, world.n + 1) : t \in Preset}
               m == world.n + Tokens!Cardinality(Preset)
    <3>1. \A t \in Preset : Tokens!Row(t, world.n + 1) \in TokenRow /\ Tokens!Row(t, world.n + 1).address = t
      BY <1>4, TokensAssumption DEF Tokens!Row, TokenRow
    <3>2. rows \in SUBSET TokenRow /\ OneOfEach(rows) /\ AddressesOf(rows) = Preset
      BY <3>1 DEF OneOfEach, AddressesOf
    <3>a. world' = [Tokens!Saved(rows, Preset) EXCEPT !.n = @ + Tokens!Cardinality(Preset)]
      BY <2>1, Zenon DEF Tokens!InitializeDefaultTokens
    <3>4. m \in Nat
      BY <1>4, TokensCardinality
    <3> HIDE DEF rows
    <3>b. Tokens!Saved(rows, Preset).n = world.n
      BY <1>4 DEF Tokens!Saved, TokensWorld
    <3>c. world' = [Tokens!Saved(rows, Preset) EXCEPT !.n = m]
      BY <3>a, <3>b
    <3> HIDE DEF m
    <3>3. world' = [world EXCEPT !.file = rows, !.unread = FALSE, !.has = Preset, !.writes = @ + 1, !.n = m,
                                 !.overlapped = world.overlapped]
      BY <1>4, <3>c DEF Tokens!Saved, TokensWorld
    <3> QED
      BY <1>1, <1>4, <3>2, <3>3, <3>4, TokensWritten, TokensAssumption
  <2>2. ASSUME NEW r \in Tokens!Loaded, NEW active \in BOOLEAN, Tokens!UpdateUserToken(r, active)
        PROVE  world' \in TokensWorld /\ FetchInv' /\ FileInv'
    <3> DEFINE rows == (Tokens!Loaded \ {r}) \cup {[x EXCEPT !.active = active] : x \in {r}}
    <3>1. /\ rows \in SUBSET TokenRow /\ AddressesOf(rows) = AddressesOf(Tokens!Loaded)
          /\ OneOfEach(Tokens!Loaded) => OneOfEach(rows)
      <4>1. Tokens!Loaded \in SUBSET TokenRow /\ {r} \in SUBSET Tokens!Loaded
        BY TokensLoaded
      <4> QED
        BY <4>1, RevivedRows
    <3>2. rows = (Tokens!Loaded \ {r}) \cup {[r EXCEPT !.active = active]}
      OBVIOUS
    <3> HIDE DEF rows
    <3>3. world' = [world EXCEPT !.file = rows, !.unread = FALSE, !.has = world.has, !.writes = @ + 1, !.n = world.n,
                                 !.overlapped = world.overlapped]
      BY <1>4, <2>2, <3>2 DEF Tokens!UpdateUserToken, Tokens!Saved, TokensWorld
    <3>4. world.overlapped \/ world.misread \/ world.has = AddressesOf(rows)
      BY <3>1, TokensLoaded
    <3>5. world.overlapped \/ OneOfEach(rows)
      BY <3>1, TokensLoaded
    <3> QED
      BY <1>1, <1>4, <3>1, <3>3, <3>4, <3>5, TokensWritten
  <2>3. ASSUME NEW r \in Tokens!Loaded, Tokens!DeleteUserToken(r)
        PROVE  world' \in TokensWorld /\ FetchInv' /\ FileInv'
    <3> DEFINE rows == Tokens!Loaded \ {r}
               has == IF Tokens!RowsOf(r.address) = {r} THEN world.has \ {r.address} ELSE world.has
    <3>1. rows \in SUBSET TokenRow /\ has \in SUBSET Token
      BY <1>4, TokensLoaded
    <3>2. world' = [world EXCEPT !.file = rows, !.unread = FALSE, !.has = has, !.writes = @ + 1, !.n = world.n,
                                 !.overlapped = world.overlapped]
      BY <1>4, <2>3 DEF Tokens!DeleteUserToken, Tokens!Saved, TokensWorld
    <3>3. world.overlapped \/ OneOfEach(rows)
      BY TokensLoaded DEF OneOfEach
    <3>4. world.overlapped \/ world.misread \/ has = AddressesOf(rows)
      <4> SUFFICES ASSUME ~world.overlapped, ~world.misread PROVE has = AddressesOf(rows)
        OBVIOUS
      <4>1. OneOfEach(Tokens!Loaded) /\ world.has = AddressesOf(Tokens!Loaded)
        BY TokensLoaded
      <4>2. Tokens!RowsOf(r.address) = {r}
        BY <4>1 DEF Tokens!RowsOf, OneOfEach
      <4> QED
        BY <4>1, <4>2 DEF AddressesOf, OneOfEach
    <3> HIDE DEF rows, has
    <3> QED
      BY <1>1, <1>4, <3>1, <3>2, <3>3, <3>4, TokensWritten
  <2>4. CASE Tokens!Unreadable \/ Tokens!Readable
    <3>1. /\ world' \in TokensWorld /\ world'.file = world.file /\ world'.writes = world.writes
          /\ world'.overlapped = world.overlapped /\ world'.has = world.has
          /\ (world'.unread => world'.misread) /\ (world.misread => world'.misread)
      BY <1>4, <2>4 DEF Tokens!Unreadable, Tokens!Readable, TokensWorld
    <3> QED
      BY <1>1, <3>1 DEF TokensInv, FetchInv, FileInv
  <2> QED
    BY <2>1, <2>2, <2>3, <2>4 DEF Tokens!Elsewhere, Tokens!RemoveUserToken
<1>6. TokensTypeOK'
  BY <1>1, <1>2, <1>5 DEF TokensInv, TokensTypeOK
<1> QED
  BY <1>3, <1>5, <1>6 DEF TokensInv

LEMMA TokensNext == TokensInv /\ Tokens!Next => TokensInv'
BY TokensAskStep, TokensDialogStep, TokensReadsStep, TokensAnswerStep, TokensFetchesStep, TokensAddedStep,
   TokensNotAddedStep, TokensElsewhereStep DEF Tokens!Next

LEMMA TokensStutter == TokensInv /\ UNCHANGED <<ui, calls, world>> => TokensInv'
BY DEF TokensInv, TokensTypeOK, FetchInv, FileInv, ReadInv, Tokens!Listed, Tokens!Loaded

-----------------------------------------------------------------------------
(* The collection of NFTs.                                                   *)
NFTRow == [nft : NFT, n : Nat, active : BOOLEAN]

CollectionUi(stats) ==
  [nfts : SUBSET Nat, stats : {stats}, loading : BOOLEAN, modal : BOOLEAN, adding : BOOLEAN,
   of : Nat, statsOf : Nat, reads : Nat, crossed : BOOLEAN, excused : BOOLEAN]

CollectionWorld ==
  [file : SUBSET NFTRow, n : Nat, writes : Nat, has : SUBSET NFT, overlapped : BOOLEAN, lost : BOOLEAN, upsets : Nat]

NFTCall ==
  [kind : {"add", "fetch"}, nft : NFT, rows : SUBSET NFTRow, at : Nat, blind : BOOLEAN, alive : BOOLEAN]
RemoveCall == [kind : {"remove"}, row : Nat, alive : BOOLEAN]
ListCall == [kind : {"list"}, n : Nat, then : {"none", "stats"}, rows : SUBSET Nat, read : BOOLEAN, alive : {TRUE}]
StatsCall == [kind : {"stats"}, n : Nat, rows : SUBSET Nat, read : BOOLEAN, alive : {TRUE}]
CollectionCall == NFTCall \cup RemoveCall \cup ListCall \cup StatsCall

CollectionTypeOK == ui \in CollectionUi(ui.stats) /\ world \in CollectionWorld /\ calls \subseteq CollectionCall

OneOfEachNFT(rows) == \A r1, r2 \in rows : r1.nft = r2.nft => r1 = r2
NFTsOf(rows) == {r.nft : r \in rows}
Active(rows) == {r \in rows : r.active}
ListedNow == {r.n : r \in Collection!Listed}

(* An addition that waits for its metadata has rows without its NFT, those   *)
(* of the file if nobody wrote since, or none if it could not read them.     *)
MetadataInv ==
  \A c \in calls : c.kind = "fetch" =>
    /\ c.at =< world.writes /\ c.nft \notin NFTsOf(c.rows)
    /\ c.blind => c.rows = {}
    /\ ~c.blind /\ c.at = world.writes => c.rows = world.file

RowsInv ==
  ~world.overlapped => OneOfEachNFT(world.file) /\ (world.lost \/ world.has = NFTsOf(Active(world.file)))

IsList(c) == c.kind = "list"
IsStats(c) == c.kind = "stats"
Follows(c) == c.kind = "list" /\ c.then = "stats"

(* The last list, and the last statistics, are of what is in the collection  *)
(* now, or will be.                                                          *)
ListOrder ==
  /\ ui.of =< ui.reads
  /\ \A c \in calls : IsList(c) => c.n =< ui.reads /\ c.n # ui.of
  /\ \A c, d \in calls : IsList(c) /\ IsList(d) /\ c.n = d.n => c = d

StatsOrder ==
  /\ ui.statsOf =< ui.reads
  /\ \A c \in calls : IsStats(c) \/ Follows(c) => c.n =< ui.reads /\ c.n # ui.statsOf
  /\ \A c, d \in calls : (IsStats(c) \/ Follows(c)) /\ (IsStats(d) \/ Follows(d)) /\ c.n = d.n => c = d

LastList ==
  ~ui.crossed /\ ~ui.excused =>
    \/ ui.of = ui.reads /\ ui.nfts = ListedNow
    \/ \E c \in calls : IsList(c) /\ c.n = ui.reads /\ (c.read => c.rows = ListedNow)

LastStats ==
  ~ui.crossed /\ ~ui.excused =>
    \/ ui.statsOf = ui.reads /\ ui.stats = Collection!Cardinality(ListedNow)
    \/ \E c \in calls : IsStats(c) /\ c.n = ui.reads /\ (c.read => c.rows = ListedNow)
    \/ \E c \in calls : Follows(c) /\ c.n = ui.reads

ListsInv == ListOrder /\ StatsOrder /\ LastList /\ LastStats

CollectionInv == CollectionTypeOK /\ MetadataInv /\ RowsInv /\ ListsInv

LEMMA CollectionInvImplies ==
  CollectionInv => Collection!CollectionIsOwn /\ Collection!OneRowEach /\ Collection!StatsAreOfList
<1> SUFFICES ASSUME CollectionInv
             PROVE  Collection!CollectionIsOwn /\ Collection!OneRowEach /\ Collection!StatsAreOfList
  OBVIOUS
<1>1. Collection!CollectionIsOwn /\ Collection!OneRowEach
  BY DEF CollectionInv, RowsInv, OneOfEachNFT, NFTsOf, Active, Collection!CollectionIsOwn, Collection!OneRowEach,
     Collection!Listed
<1>2. calls = {} /\ ~ui.crossed /\ ~ui.excused => ui.nfts = ListedNow
  BY DEF CollectionInv, ListsInv, LastList
<1>3. calls = {} /\ ~ui.crossed /\ ~ui.excused => ui.stats = Collection!Cardinality(ListedNow)
  BY DEF CollectionInv, ListsInv, LastStats
<1> QED
  BY <1>1, <1>2, <1>3 DEF Collection!StatsAreOfList

LEMMA CollectionTypes ==
  ASSUME CollectionInv
  PROVE  /\ ui \in CollectionUi(ui.stats) /\ world \in CollectionWorld /\ calls \subseteq CollectionCall
         /\ world.file \in SUBSET NFTRow /\ world.n \in Nat /\ world.writes \in Nat /\ world.has \in SUBSET NFT
         /\ world.overlapped \in BOOLEAN /\ world.lost \in BOOLEAN /\ world.upsets \in Nat
         /\ ui.reads \in Nat /\ ui.of \in Nat /\ ui.statsOf \in Nat /\ ListedNow \in SUBSET Nat
<1>1. ui \in CollectionUi(ui.stats) /\ world \in CollectionWorld /\ calls \subseteq CollectionCall
  BY DEF CollectionInv, CollectionTypeOK
<1>2. world.file \in SUBSET NFTRow
  BY <1>1 DEF CollectionWorld
<1>3. ListedNow \in SUBSET Nat
  BY <1>2 DEF ListedNow, Collection!Listed, NFTRow
<1> QED
  BY <1>1, <1>2, <1>3 DEF CollectionUi, CollectionWorld

(* Where a page is opened: list and statistics are asked for. *)
LEMMA CollectionOpened ==
  ASSUME NEW n \in Nat, n # 0, ui' = Collection!Opened(n), NEW old \in SUBSET (NFTCall \cup RemoveCall),
         calls' = old \cup Collection!Opening(n)
  PROVE  /\ ui' \in CollectionUi(ui'.stats) /\ calls' \subseteq CollectionCall /\ ListsInv'
         /\ \A c \in calls' : c.kind = "fetch" => c \in old
<1> DEFINE l == [kind |-> "list", n |-> n, then |-> "none", rows |-> {}, read |-> FALSE, alive |-> TRUE]
           s == [kind |-> "stats", n |-> n, rows |-> {}, read |-> FALSE, alive |-> TRUE]
<1>1. l \in ListCall /\ l.n = n /\ ~l.read /\ l.then = "none" /\ l.kind = "list"
  BY DEF ListCall
<1>2. s \in StatsCall /\ s.n = n /\ ~s.read /\ s.kind = "stats"
  BY DEF StatsCall
<1>3. calls' = old \cup {l, s}
  BY Zenon DEF Collection!Opening, Collection!List, Collection!Stats
<1> HIDE DEF l, s
<1>4. /\ ui' \in CollectionUi(ui'.stats) /\ ui'.of = 0 /\ ui'.statsOf = 0 /\ ui'.reads = n
  BY DEF Collection!Opened, CollectionUi
<1>5. calls' \subseteq CollectionCall
  BY <1>1, <1>2, <1>3 DEF CollectionCall
<1>6. \A c \in old : c.kind \in {"add", "fetch", "remove"}
  BY DEF NFTCall, RemoveCall
<1>7. \A c \in calls' : (IsList(c) => c = l) /\ (IsStats(c) => c = s) /\ ~Follows(c)
  BY <1>1, <1>2, <1>3, <1>6 DEF IsList, IsStats, Follows
<1>8. ListOrder' /\ StatsOrder'
  BY <1>1, <1>2, <1>4, <1>7 DEF ListOrder, StatsOrder
<1>9. LastList' /\ LastStats'
  BY <1>1, <1>2, <1>3, <1>4 DEF LastList, LastStats, IsList, IsStats
<1> QED
  BY <1>1, <1>2, <1>3, <1>4, <1>5, <1>8, <1>9 DEF ListsInv

LEMMA CollectionInit == Collection!Init => CollectionInv
<1> SUFFICES ASSUME Collection!Init PROVE CollectionInv
  OBVIOUS
<1> DEFINE r == [nft |-> CHOOSE x \in NFT : TRUE, n |-> 1, active |-> FALSE]
           l == [kind |-> "list", n |-> 1, then |-> "none", rows |-> {}, read |-> FALSE, alive |-> TRUE]
           s == [kind |-> "stats", n |-> 1, rows |-> {}, read |-> FALSE, alive |-> TRUE]
<1>1. r \in NFTRow /\ ~r.active
  BY CollectionAssumption DEF NFTRow
<1>2. /\ world = [file |-> {r}, n |-> 1, writes |-> 0, has |-> {}, overlapped |-> FALSE, lost |-> FALSE, upsets |-> 0]
      /\ calls = {l, s}
  BY DEF Collection!Init, Collection!Opening, Collection!List, Collection!Stats
<1>3. l \in ListCall /\ l.n = 1 /\ ~l.read /\ l.then = "none" /\ l.kind = "list"
  BY DEF ListCall
<1>4. s \in StatsCall /\ s.n = 1 /\ ~s.read /\ s.kind = "stats"
  BY DEF StatsCall
<1> HIDE DEF l, s, r
<1>5. world \in CollectionWorld /\ RowsInv
  BY <1>1, <1>2 DEF CollectionWorld, RowsInv, OneOfEachNFT, NFTsOf, Active
<1>6. ui \in CollectionUi(ui.stats) /\ ui.of = 0 /\ ui.statsOf = 0 /\ ui.reads = 1
  BY DEF Collection!Init, Collection!Opened, CollectionUi
<1>7. CollectionTypeOK
  BY <1>2, <1>3, <1>4, <1>5, <1>6 DEF CollectionTypeOK, CollectionCall
<1>8. MetadataInv
  BY <1>2, <1>3, <1>4 DEF MetadataInv
<1>9. ListOrder /\ StatsOrder /\ LastList /\ LastStats
  BY <1>2, <1>3, <1>4, <1>6 DEF ListOrder, StatsOrder, LastList, LastStats, IsList, IsStats, Follows
<1> QED
  BY <1>5, <1>7, <1>8, <1>9 DEF CollectionInv, ListsInv

(* The file stays, and so do additions that wait. *)
LEMMA CollectionFileStays ==
  ASSUME CollectionInv, world'.file = world.file, world'.writes = world.writes, world'.has = world.has,
         world'.overlapped = world.overlapped, world'.lost = world.lost,
         \A d \in calls' : d.kind = "fetch" => d \in calls
  PROVE  MetadataInv' /\ RowsInv' /\ ListedNow' = ListedNow
BY DEF CollectionInv, MetadataInv, RowsInv, ListedNow, Collection!Listed

(* Loads stay under way, and what is shown stays. *)
LEMMA CollectionListsStay ==
  ASSUME CollectionInv, ui'.of = ui.of, ui'.statsOf = ui.statsOf, ui'.reads = ui.reads,
         ui'.nfts = ui.nfts, ui'.stats = ui.stats, ui'.crossed = ui.crossed,
         \A d \in calls' : IsList(d) \/ IsStats(d) => d \in calls,
         \A d \in calls : IsList(d) \/ IsStats(d) => d \in calls',
         ui'.excused \/ ((ui'.excused = ui.excused) /\ (ListedNow' = ListedNow))
  PROVE  ListsInv'
<1>1. ListOrder'
  BY DEF CollectionInv, ListsInv, ListOrder
<1>2. StatsOrder'
  BY DEF CollectionInv, ListsInv, StatsOrder, Follows, IsList
<1>3. CASE ui'.excused
  BY <1>1, <1>2, <1>3 DEF ListsInv, LastList, LastStats
<1>4. CASE (ui'.excused = ui.excused) /\ (ListedNow' = ListedNow)
  <2>1. ~ui.crossed /\ ~ui.excused =>
          \/ ui'.of = ui'.reads /\ ui'.nfts = ListedNow'
          \/ \E c \in calls' : IsList(c) /\ c.n = ui'.reads /\ (c.read => c.rows = ListedNow')
    BY <1>4 DEF CollectionInv, ListsInv, LastList
  <2>2. ~ui.crossed /\ ~ui.excused =>
          \/ ui'.statsOf = ui'.reads /\ ui'.stats = Collection!Cardinality(ListedNow')
          \/ \E c \in calls' : IsStats(c) /\ c.n = ui'.reads /\ (c.read => c.rows = ListedNow')
          \/ \E c \in calls' : Follows(c) /\ c.n = ui'.reads
    BY <1>4 DEF CollectionInv, ListsInv, LastStats, Follows, IsList
  <2> QED
    BY <1>1, <1>2, <1>4, <2>1, <2>2 DEF ListsInv, LastList, LastStats
<1> QED
  BY <1>3, <1>4

(* A list is asked for, with statistics after it: it is the last. *)
LEMMA CollectionReloads ==
  ASSUME CollectionInv, NEW c \in calls, ~IsList(c), ~IsStats(c), NEW u \in CollectionUi(ui.stats),
         u.of = ui.of, u.statsOf = ui.statsOf, u.reads = ui.reads, Collection!Reloads(c, u)
  PROVE  /\ ListsInv' /\ ui' \in CollectionUi(ui'.stats) /\ calls' \subseteq CollectionCall
         /\ \A d \in calls' : d.kind = "fetch" => d \in calls
<1> DEFINE n == ui.reads + 1
           l == [kind |-> "list", n |-> n, then |-> "stats", rows |-> {}, read |-> FALSE, alive |-> TRUE]
<1>1. n \in Nat /\ n > ui.reads /\ ui.reads \in Nat /\ ui.of \in Nat /\ ui.statsOf \in Nat /\ calls \subseteq CollectionCall
  BY CollectionTypes
<1>2. calls' = (calls \ {c}) \cup {l}
  BY DEF Collection!Reloads, Collection!List
<1>3. ui' = [u EXCEPT !.loading = TRUE, !.reads = n]
  BY DEF Collection!Reloads
<1> HIDE DEF n
<1>4. l \in ListCall /\ l.n = n /\ ~l.read /\ l.kind = "list" /\ l.then = "stats"
  BY <1>1 DEF ListCall
<1> HIDE DEF l
<1>5. /\ ui' \in CollectionUi(ui.stats) /\ ui'.stats = ui.stats /\ ui'.reads = n /\ ui'.of = ui.of
      /\ ui'.statsOf = ui.statsOf
  BY <1>1, <1>3 DEF CollectionUi
<1>6. ui.of =< ui.reads /\ ui.statsOf =< ui.reads
  BY DEF CollectionInv, ListsInv, ListOrder, StatsOrder
<1>7. \A d \in calls : IsList(d) \/ IsStats(d) => d.n \in Nat /\ d.n =< ui.reads
  <2>1. \A d \in calls : IsList(d) \/ IsStats(d) => d.n \in Nat
    BY <1>1 DEF CollectionCall, NFTCall, RemoveCall, ListCall, StatsCall, IsList, IsStats
  <2> QED
    BY <2>1 DEF CollectionInv, ListsInv, ListOrder, StatsOrder
<1>8. ListOrder'
  <2>1. \A d \in calls' : IsList(d) => d = l \/ (d \in calls /\ d.n =< ui.reads /\ d.n # ui.of /\ d.n \in Nat)
    BY <1>2, <1>7 DEF CollectionInv, ListsInv, ListOrder
  <2>2. \A d, e \in calls : IsList(d) /\ IsList(e) /\ d.n = e.n => d = e
    BY DEF CollectionInv, ListsInv, ListOrder
  <2> QED
    BY <1>1, <1>4, <1>5, <1>6, <2>1, <2>2 DEF ListOrder
<1>9. StatsOrder'
  <2>1. \A d \in calls' : IsStats(d) \/ Follows(d) =>
          d = l \/ (d \in calls /\ d.n =< ui.reads /\ d.n # ui.statsOf /\ d.n \in Nat)
    BY <1>2, <1>7 DEF CollectionInv, ListsInv, StatsOrder, Follows, IsList
  <2>2. \A d, e \in calls : (IsStats(d) \/ Follows(d)) /\ (IsStats(e) \/ Follows(e)) /\ d.n = e.n => d = e
    BY DEF CollectionInv, ListsInv, StatsOrder
  <2> QED
    BY <1>1, <1>4, <1>5, <1>6, <2>1, <2>2 DEF StatsOrder
<1>10. LastList' /\ LastStats'
  BY <1>2, <1>4, <1>5 DEF LastList, LastStats, IsList, Follows
<1>11. calls' \subseteq CollectionCall
  BY <1>1, <1>2, <1>4 DEF CollectionCall
<1> QED
  BY <1>2, <1>4, <1>5, <1>8, <1>9, <1>10, <1>11 DEF ListsInv

(* The page. *)
LEMMA CollectionDialogStep ==
  ASSUME CollectionInv,
         \/ Collection!OpenAddModal \/ Collection!CloseAddModal
         \/ \E nft \in NFT : Collection!AddNFT(nft)
         \/ \E n \in ui.nfts : Collection!RemoveNFT(n)
  PROVE  CollectionInv'
<1>0. ui \in CollectionUi(ui.stats) /\ world' = world
  BY CollectionTypes DEF Collection!OpenAddModal, Collection!CloseAddModal, Collection!AddNFT, Collection!RemoveNFT
<1>1. ASSUME NEW s \in SUBSET (NFTCall \cup RemoveCall), calls' = calls \cup s, \A c \in s : c.kind \in {"add", "remove"},
             \/ ui' = [ui EXCEPT !.modal = TRUE] \/ ui' = [ui EXCEPT !.modal = FALSE]
             \/ ui' = [ui EXCEPT !.adding = TRUE] \/ ui' = ui
      PROVE  CollectionInv'
  <2>1. /\ ui' \in CollectionUi(ui.stats) /\ ui'.stats = ui.stats /\ ui'.of = ui.of /\ ui'.statsOf = ui.statsOf
        /\ ui'.reads = ui.reads /\ ui'.nfts = ui.nfts /\ ui'.crossed = ui.crossed /\ ui'.excused = ui.excused
    BY <1>0, <1>1 DEF CollectionUi
  <2>2. \A c \in calls' : c \in calls \/ c.kind \in {"add", "remove"}
    BY <1>1
  <2>3. MetadataInv' /\ RowsInv' /\ ListedNow' = ListedNow
    BY <1>0, <2>2, CollectionFileStays
  <2>4. ListsInv'
    BY <1>1, <2>1, <2>2, <2>3, CollectionListsStay DEF IsList, IsStats
  <2>5. CollectionTypeOK'
    BY <1>0, <1>1, <2>1 DEF CollectionInv, CollectionTypeOK, CollectionCall
  <2> QED
    BY <2>3, <2>4, <2>5 DEF CollectionInv
<1>2. CASE Collection!OpenAddModal \/ Collection!CloseAddModal
  <2>1. calls' = calls \cup {} /\ {} \in SUBSET (NFTCall \cup RemoveCall) /\ \A c \in {} : c.kind \in {"add", "remove"}
    BY <1>2 DEF Collection!OpenAddModal, Collection!CloseAddModal
  <2>2. ui' = [ui EXCEPT !.modal = TRUE] \/ ui' = [ui EXCEPT !.modal = FALSE]
    BY <1>2 DEF Collection!OpenAddModal, Collection!CloseAddModal
  <2> QED
    BY <1>1, <2>1, <2>2
<1>3. ASSUME NEW nft \in NFT, Collection!AddNFT(nft)
      PROVE  CollectionInv'
  <2> DEFINE a == [kind |-> "add", nft |-> nft, rows |-> {}, at |-> 0, blind |-> FALSE, alive |-> TRUE]
  <2>1. a \in NFTCall /\ a.kind = "add"
    BY DEF NFTCall
  <2>2. calls' = calls \cup {a} /\ ui' = [ui EXCEPT !.adding = TRUE]
    BY <1>3 DEF Collection!AddNFT
  <2> HIDE DEF a
  <2>3. {a} \in SUBSET (NFTCall \cup RemoveCall) /\ \A c \in {a} : c.kind \in {"add", "remove"}
    BY <2>1
  <2> QED
    BY <1>1, <2>2, <2>3
<1>4. ASSUME NEW n \in ui.nfts, Collection!RemoveNFT(n)
      PROVE  CollectionInv'
  <2> DEFINE a == [kind |-> "remove", row |-> n, alive |-> TRUE]
  <2>1. a \in RemoveCall /\ a.kind = "remove"
    BY <1>0 DEF RemoveCall, CollectionUi
  <2>2. calls' = calls \cup {a} /\ ui' = ui
    BY <1>4 DEF Collection!RemoveNFT
  <2> HIDE DEF a
  <2>3. {a} \in SUBSET (NFTCall \cup RemoveCall) /\ \A c \in {a} : c.kind \in {"add", "remove"}
    BY <2>1
  <2> QED
    BY <1>1, <2>2, <2>3
<1> QED
  BY <1>2, <1>3, <1>4

LEMMA CollectionReadsStep ==
  ASSUME CollectionInv, NEW c \in calls, Collection!Reads(c)
  PROVE  CollectionInv'
<1>1. PICK rows \in {ListedNow, c.rows} :
        /\ calls' = (calls \ {c}) \cup {[c EXCEPT !.read = TRUE, !.rows = rows]}
        /\ \/ rows = ListedNow /\ ui' = ui /\ world' = world
           \/ ui' = [ui EXCEPT !.excused = TRUE] /\ world' = [world EXCEPT !.upsets = @ + 1]
  <2>1. c \in ListCall \cup StatsCall
    BY CollectionTypes DEF Collection!Reads, CollectionCall, NFTCall, RemoveCall
  <2>2. [c EXCEPT !.read = TRUE] = [c EXCEPT !.read = TRUE, !.rows = c.rows]
    BY <2>1 DEF ListCall, StatsCall
  <2> QED
    BY <2>2, Zenon DEF Collection!Reads, Collection!Upset, ListedNow
<1> DEFINE d == [c EXCEPT !.read = TRUE, !.rows = rows]
<1>2. /\ c \in ListCall \cup StatsCall /\ (c.kind = "list" <=> c \in ListCall) /\ (c.kind = "stats" <=> c \in StatsCall)
      /\ ~c.read /\ ListedNow \in SUBSET Nat /\ c.rows \in SUBSET Nat
      /\ calls \subseteq CollectionCall /\ ui \in CollectionUi(ui.stats) /\ world \in CollectionWorld /\ world.upsets \in Nat
  BY CollectionTypes DEF Collection!Reads, CollectionCall, NFTCall, RemoveCall, ListCall, StatsCall, ListedNow
<1>3. /\ d \in CollectionCall /\ d.n = c.n /\ d.rows = rows /\ d.kind = c.kind /\ (Follows(c) <=> Follows(d))
      /\ c.kind \in {"list", "stats"}
  <2>1. CASE c \in ListCall
    BY <1>1, <1>2, <2>1 DEF CollectionCall, ListCall, Follows
  <2>2. CASE c \in StatsCall
    BY <1>1, <1>2, <2>2 DEF CollectionCall, StatsCall, Follows
  <2> QED
    BY <1>2, <2>1, <2>2
<1>4. calls' = (calls \ {c}) \cup {d}
  BY <1>1
<1> HIDE DEF d
<1>5. /\ ui' \in CollectionUi(ui.stats) /\ ui'.stats = ui.stats /\ ui'.of = ui.of /\ ui'.statsOf = ui.statsOf
      /\ ui'.reads = ui.reads /\ ui'.nfts = ui.nfts /\ ui'.crossed = ui.crossed
      /\ (rows = ListedNow /\ ui'.excused = ui.excused) \/ ui'.excused
  BY <1>1, <1>2 DEF CollectionUi
<1>6. /\ world' \in CollectionWorld /\ world'.file = world.file /\ world'.writes = world.writes /\ world'.has = world.has
      /\ world'.overlapped = world.overlapped /\ world'.lost = world.lost
  BY <1>1, <1>2 DEF CollectionWorld
<1>7. CollectionTypeOK'
  BY <1>2, <1>3, <1>4, <1>5, <1>6 DEF CollectionInv, CollectionTypeOK
<1>8. MetadataInv' /\ RowsInv' /\ ListedNow' = ListedNow
  BY <1>3, <1>4, <1>6, CollectionFileStays
<1>9. ListOrder'
  BY <1>3, <1>4, <1>5 DEF CollectionInv, ListsInv, ListOrder, IsList
<1>10. StatsOrder'
  BY <1>3, <1>4, <1>5 DEF CollectionInv, ListsInv, StatsOrder, IsStats
<1>11. LastList'
  BY <1>2, <1>3, <1>4, <1>5, <1>8 DEF CollectionInv, ListsInv, LastList, IsList
<1>12. LastStats'
  BY <1>2, <1>3, <1>4, <1>5, <1>8 DEF CollectionInv, ListsInv, LastStats, IsStats
<1> QED
  BY <1>7, <1>8, <1>9, <1>10, <1>11, <1>12 DEF CollectionInv, ListsInv

LEMMA CollectionListEndsStep ==
  ASSUME CollectionInv, NEW c \in calls, Collection!ListEnds(c)
  PROVE  CollectionInv'
<1> DEFINE x == ui.crossed \/ c.n < ui.of
           s == [kind |-> "stats", n |-> c.n, rows |-> {}, read |-> FALSE, alive |-> TRUE]
           new == IF c.then = "stats" THEN {s} ELSE {}
<1>1. /\ c \in ListCall /\ IsList(c) /\ c.read /\ calls' = (calls \ {c}) \cup new /\ world' = world
      /\ calls \subseteq CollectionCall /\ ui \in CollectionUi(ui.stats)
      /\ ui.reads \in Nat /\ ui.of \in Nat /\ ui.statsOf \in Nat
  BY CollectionTypes DEF Collection!ListEnds, Collection!Then, Collection!Stats, CollectionCall, NFTCall,
     RemoveCall, ListCall, StatsCall, IsList
<1>2. /\ \/ ui' = [ui EXCEPT !.nfts = c.rows, !.of = c.n, !.crossed = x, !.loading = FALSE]
         \/ ui' = [ui EXCEPT !.excused = TRUE, !.loading = FALSE]
  BY DEF Collection!ListEnds
<1>3. c.n \in Nat /\ c.rows \in SUBSET Nat /\ c.n =< ui.reads /\ x \in BOOLEAN /\ c.n # ui.of
  BY <1>1 DEF ListCall, CollectionInv, ListsInv, ListOrder
<1>4. s \in StatsCall /\ s.n = c.n /\ ~s.read /\ s.kind = "stats"
  BY <1>3 DEF StatsCall
<1>5. ~x => ~ui.crossed /\ ~(c.n < ui.of)
  OBVIOUS
<1> HIDE DEF s, x
<1>6. \A d \in calls' : d \in calls \ {c} \/ (d = s /\ Follows(c))
  BY <1>1 DEF Follows, IsList
<1>7. Follows(c) => s \in calls'
  BY <1>1 DEF Follows
<1>8. \A d \in calls : d # c => d \in calls'
  BY <1>1
<1>9. calls' \subseteq CollectionCall
  BY <1>1, <1>4, <1>6 DEF CollectionCall
<1> HIDE DEF new
<1>10. MetadataInv' /\ RowsInv' /\ ListedNow' = ListedNow
  BY <1>1, <1>4, <1>6, CollectionFileStays
<1>11. /\ ui' \in CollectionUi(ui.stats) /\ ui'.stats = ui.stats /\ ui'.reads = ui.reads /\ ui'.statsOf = ui.statsOf
       /\ \/ ui'.nfts = c.rows /\ ui'.of = c.n /\ ui'.crossed = x /\ ui'.excused = ui.excused
          \/ ui'.excused /\ ui'.of = ui.of
  BY <1>1, <1>2, <1>3 DEF CollectionUi
<1>12. StatsOrder'
  <2>1. \A d \in calls' : IsStats(d) \/ Follows(d) =>
          \E e \in calls : (IsStats(e) \/ Follows(e)) /\ e.n = d.n /\ (IF d = s /\ Follows(c) THEN e = c ELSE e = d /\ d # c)
    BY <1>4, <1>6 DEF IsStats
  <2>2. \A d, e \in calls : (IsStats(d) \/ Follows(d)) /\ (IsStats(e) \/ Follows(e)) /\ d.n = e.n => d = e
    BY DEF CollectionInv, ListsInv, StatsOrder
  <2>3. \A d \in calls : IsStats(d) \/ Follows(d) => d.n =< ui.reads /\ d.n # ui.statsOf
    BY DEF CollectionInv, ListsInv, StatsOrder
  <2>4. ui.statsOf =< ui.reads
    BY DEF CollectionInv, ListsInv, StatsOrder
  <2>5. \A d, e \in calls' : (IsStats(d) \/ Follows(d)) /\ (IsStats(e) \/ Follows(e)) /\ d.n = e.n => d = e
    BY <2>1, <2>2
  <2>6. \A d \in calls' : IsStats(d) \/ Follows(d) => d.n =< ui'.reads /\ d.n # ui'.statsOf
    BY <1>11, <2>1, <2>3
  <2> QED
    BY <1>11, <2>4, <2>5, <2>6 DEF StatsOrder
<1>13. ListOrder'
  <2>1. \A d \in calls' : IsList(d) => d \in calls /\ d # c
    BY <1>4, <1>6 DEF IsList
  <2>2. \A d \in calls : IsList(d) => d.n =< ui.reads /\ d.n # ui.of /\ (d.n = c.n => d = c)
    BY <1>1 DEF CollectionInv, ListsInv, ListOrder
  <2>3. \A d, e \in calls : IsList(d) /\ IsList(e) /\ d.n = e.n => d = e
    BY DEF CollectionInv, ListsInv, ListOrder
  <2>4. ui'.of =< ui'.reads
    BY <1>3, <1>11 DEF CollectionInv, ListsInv, ListOrder
  <2> QED
    BY <1>11, <2>1, <2>2, <2>3, <2>4 DEF ListOrder
<1>14. LastList'
  <2> SUFFICES ASSUME ~ui'.crossed, ~ui'.excused
               PROVE  \/ ui'.of = ui.reads /\ ui'.nfts = ListedNow
                      \/ \E d \in calls' : IsList(d) /\ d.n = ui.reads /\ (d.read => d.rows = ListedNow)
    BY <1>10, <1>11 DEF LastList
  <2>1. ~x /\ ~ui.excused /\ ui'.of = c.n /\ ui'.nfts = c.rows
    BY <1>11
  <2>2. ~ui.crossed /\ c.n > ui.of
    BY <1>1, <1>3, <1>5, <2>1
  <2>3. ui.of # ui.reads
    BY <1>1, <1>3, <2>2
  <2>4. PICK d \in calls : IsList(d) /\ d.n = ui.reads /\ (d.read => d.rows = ListedNow)
    BY <2>1, <2>2, <2>3 DEF CollectionInv, ListsInv, LastList
  <2>5. CASE d = c
    BY <1>1, <2>1, <2>4, <2>5
  <2>6. CASE d # c
    BY <1>8, <2>4, <2>6
  <2> QED
    BY <2>5, <2>6
<1>15. LastStats'
  <2> SUFFICES ASSUME ~ui'.crossed, ~ui'.excused
               PROVE  \/ ui.statsOf = ui.reads /\ ui.stats = Collection!Cardinality(ListedNow)
                      \/ \E d \in calls' : IsStats(d) /\ d.n = ui.reads /\ (d.read => d.rows = ListedNow)
                      \/ \E d \in calls' : Follows(d) /\ d.n = ui.reads
    BY <1>10, <1>11 DEF LastStats
  <2>1. ~ui.crossed /\ ~ui.excused
    BY <1>5, <1>11
  <2>2. ASSUME NEW d \in calls, IsStats(d)
        PROVE  d \in calls'
    BY <1>1, <1>8, <2>2 DEF IsStats, IsList
  <2>3. ASSUME NEW d \in calls, Follows(d), d.n = ui.reads
        PROVE  \/ \E e \in calls' : IsStats(e) /\ e.n = ui.reads /\ (e.read => e.rows = ListedNow)
               \/ \E e \in calls' : Follows(e) /\ e.n = ui.reads
    BY <1>4, <1>7, <1>8, <2>3 DEF IsStats
  <2> QED
    BY <2>1, <2>2, <2>3 DEF CollectionInv, ListsInv, LastStats
<1>16. CollectionTypeOK'
  BY <1>1, <1>9, <1>11 DEF CollectionInv, CollectionTypeOK
<1> QED
  BY <1>10, <1>12, <1>13, <1>14, <1>15, <1>16 DEF CollectionInv, ListsInv

LEMMA CollectionStatsEndStep ==
  ASSUME CollectionInv, NEW c \in calls, Collection!StatsEnd(c)
  PROVE  CollectionInv'
<1> DEFINE x == ui.crossed \/ c.n < ui.statsOf
           k == Collection!Cardinality(c.rows)
<1>1. /\ c \in StatsCall /\ IsStats(c) /\ c.read /\ calls' = calls \ {c} /\ world' = world
      /\ calls \subseteq CollectionCall /\ ui \in CollectionUi(ui.stats)
      /\ ui.reads \in Nat /\ ui.of \in Nat /\ ui.statsOf \in Nat
  BY CollectionTypes DEF Collection!StatsEnd, CollectionCall, NFTCall, RemoveCall, ListCall, StatsCall, IsStats
<1>2. \/ ui' = [ui EXCEPT !.stats = k, !.statsOf = c.n, !.adding = FALSE, !.crossed = x]
      \/ ui' = [ui EXCEPT !.excused = TRUE, !.adding = FALSE]
  BY Zenon DEF Collection!StatsEnd
<1>3. c.n \in Nat /\ c.n =< ui.reads /\ x \in BOOLEAN /\ c.n # ui.statsOf
  BY <1>1 DEF StatsCall, CollectionInv, ListsInv, StatsOrder
<1>4. ~x => ~ui.crossed /\ ~(c.n < ui.statsOf)
  OBVIOUS
<1>5. c.rows = ListedNow => k = Collection!Cardinality(ListedNow)
  OBVIOUS
<1> HIDE DEF x, k
<1>6. MetadataInv' /\ RowsInv' /\ ListedNow' = ListedNow
  BY <1>1, CollectionFileStays
<1>7. /\ ui' \in CollectionUi(ui'.stats) /\ ui'.reads = ui.reads /\ ui'.of = ui.of /\ ui'.nfts = ui.nfts
      /\ \/ ui'.stats = k /\ ui'.statsOf = c.n /\ ui'.crossed = x /\ ui'.excused = ui.excused
         \/ ui'.excused /\ ui'.statsOf = ui.statsOf
  BY <1>1, <1>2, <1>3 DEF CollectionUi
<1>8. ListOrder'
  BY <1>1, <1>7 DEF CollectionInv, ListsInv, ListOrder
<1>9. StatsOrder'
  BY <1>1, <1>3, <1>7 DEF CollectionInv, ListsInv, StatsOrder
<1>10. LastList'
  <2> SUFFICES ASSUME ~ui'.crossed, ~ui'.excused
               PROVE  \/ ui.of = ui.reads /\ ui.nfts = ListedNow
                      \/ \E d \in calls' : IsList(d) /\ d.n = ui.reads /\ (d.read => d.rows = ListedNow)
    BY <1>6, <1>7 DEF LastList
  <2>1. ~ui.crossed /\ ~ui.excused
    BY <1>4, <1>7
  <2>2. \A d \in calls : IsList(d) => d \in calls'
    BY <1>1 DEF IsStats, IsList
  <2> QED
    BY <2>1, <2>2 DEF CollectionInv, ListsInv, LastList
<1>11. LastStats'
  <2> SUFFICES ASSUME ~ui'.crossed, ~ui'.excused
               PROVE  \/ ui'.statsOf = ui.reads /\ ui'.stats = Collection!Cardinality(ListedNow)
                      \/ \E d \in calls' : IsStats(d) /\ d.n = ui.reads /\ (d.read => d.rows = ListedNow)
                      \/ \E d \in calls' : Follows(d) /\ d.n = ui.reads
    BY <1>6, <1>7 DEF LastStats
  <2>1. ~x /\ ~ui.excused /\ ui'.statsOf = c.n /\ ui'.stats = k
    BY <1>7
  <2>2. ~ui.crossed /\ c.n > ui.statsOf
    BY <1>1, <1>3, <1>4, <2>1
  <2>3. ui.statsOf # ui.reads
    BY <1>1, <1>3, <2>2
  <2>4. \/ \E d \in calls : IsStats(d) /\ d.n = ui.reads /\ (d.read => d.rows = ListedNow)
        \/ \E d \in calls : Follows(d) /\ d.n = ui.reads
    BY <2>1, <2>2, <2>3 DEF CollectionInv, ListsInv, LastStats
  <2>5. ASSUME NEW d \in calls, IsStats(d), d.n = ui.reads, d.read => d.rows = ListedNow
        PROVE  \/ ui'.statsOf = ui.reads /\ ui'.stats = Collection!Cardinality(ListedNow)
               \/ \E e \in calls' : IsStats(e) /\ e.n = ui.reads /\ (e.read => e.rows = ListedNow)
    <3>1. CASE d = c
      BY <1>1, <1>5, <2>1, <2>5, <3>1
    <3>2. CASE d # c
      BY <1>1, <2>5, <3>2
    <3> QED
      BY <3>1, <3>2
  <2>6. ASSUME NEW d \in calls, Follows(d), d.n = ui.reads
        PROVE  \E e \in calls' : Follows(e) /\ e.n = ui.reads
    BY <1>1, <2>6 DEF IsStats, Follows
  <2> QED
    BY <2>4, <2>5, <2>6
<1>12. CollectionTypeOK'
  BY <1>1, <1>7 DEF CollectionInv, CollectionTypeOK
<1> QED
  BY <1>6, <1>8, <1>9, <1>10, <1>11, <1>12 DEF CollectionInv, ListsInv

LEMMA CollectionLeaveStep ==
  ASSUME CollectionInv, Collection!Leave
  PROVE  CollectionInv'
<1> DEFINE kept == {d \in calls : d.kind \in {"add", "fetch", "remove"}}
           old == {[c EXCEPT !.alive = FALSE] : c \in kept}
           n == ui.reads + 1
<1>1. /\ calls' = old \cup Collection!Opening(n) /\ ui' = Collection!Opened(n)
      /\ world' = [world EXCEPT !.upsets = @ + 1]
  BY Zenon DEF Collection!Leave, Collection!Upset
<1>2. n \in Nat /\ n # 0 /\ world \in CollectionWorld /\ world.upsets + 1 \in Nat /\ calls \subseteq CollectionCall
  BY CollectionTypes DEF CollectionWorld
<1>3. \A c \in kept : /\ [c EXCEPT !.alive = FALSE] \in NFTCall \cup RemoveCall
                      /\ [c EXCEPT !.alive = FALSE].kind = c.kind
                      /\ c.kind = "fetch" => /\ [c EXCEPT !.alive = FALSE].rows = c.rows
                                             /\ [c EXCEPT !.alive = FALSE].at = c.at
                                             /\ [c EXCEPT !.alive = FALSE].nft = c.nft
                                             /\ [c EXCEPT !.alive = FALSE].blind = c.blind
  <2> TAKE c \in kept
  <2>1. c \in NFTCall \cup RemoveCall
    BY <1>2 DEF CollectionCall, NFTCall, RemoveCall, ListCall, StatsCall
  <2>2. CASE c \in NFTCall
    BY <2>2 DEF NFTCall
  <2>3. CASE c \in RemoveCall
    BY <2>3 DEF RemoveCall
  <2> QED
    BY <2>1, <2>2, <2>3
<1>4. old \in SUBSET (NFTCall \cup RemoveCall)
  BY <1>3
<1>5. \A d \in old : d.kind = "fetch" =>
        \E c \in calls : c.kind = "fetch" /\ d.rows = c.rows /\ d.at = c.at /\ d.nft = c.nft /\ d.blind = c.blind
  <2> TAKE d \in old
  <2>1. PICK c \in kept : d = [c EXCEPT !.alive = FALSE]
    OBVIOUS
  <2>2. c \in calls
    OBVIOUS
  <2> HIDE DEF old, kept, n
  <2> QED
    BY <1>3, <2>1, <2>2
<1> HIDE DEF old, n
<1>6. /\ ui' \in CollectionUi(ui'.stats) /\ calls' \subseteq CollectionCall /\ ListsInv'
      /\ \A c \in calls' : c.kind = "fetch" => c \in old
  BY <1>1, <1>2, <1>4, CollectionOpened
<1>7. /\ world' \in CollectionWorld /\ world'.file = world.file /\ world'.writes = world.writes /\ world'.has = world.has
      /\ world'.overlapped = world.overlapped /\ world'.lost = world.lost
  BY <1>1, <1>2 DEF CollectionWorld
<1>8. MetadataInv'
  <2> SUFFICES ASSUME NEW d \in calls', d.kind = "fetch"
               PROVE  /\ d.at =< world'.writes /\ d.nft \notin NFTsOf(d.rows) /\ (d.blind => d.rows = {})
                      /\ ~d.blind /\ d.at = world'.writes => d.rows = world'.file
    BY DEF MetadataInv
  <2>1. PICK c \in calls : c.kind = "fetch" /\ d.rows = c.rows /\ d.at = c.at /\ d.nft = c.nft /\ d.blind = c.blind
    BY <1>5, <1>6
  <2> QED
    BY <1>7, <2>1 DEF CollectionInv, MetadataInv
<1>9. RowsInv'
  BY <1>7 DEF CollectionInv, RowsInv
<1>10. CollectionTypeOK'
  BY <1>6, <1>7 DEF CollectionTypeOK
<1> QED
  BY <1>6, <1>8, <1>9, <1>10 DEF CollectionInv

(* The service. *)
LEMMA CollectionFetchesStep ==
  ASSUME CollectionInv, NEW c \in calls, Collection!Fetches(c)
  PROVE  CollectionInv'
<1>1. PICK failed \in BOOLEAN :
        /\ IF failed THEN world' = [world EXCEPT !.upsets = @ + 1] ELSE Collection!Existing(c.nft) = {} /\ world' = world
        /\ calls' = (calls \ {c}) \cup {[c EXCEPT !.kind = "fetch", !.rows = IF failed THEN {} ELSE world.file,
                                               !.at = world.writes, !.blind = failed]}
        /\ ui' = ui
  BY Zenon DEF Collection!Fetches, Collection!Upset
<1> DEFINE rows == IF failed THEN {} ELSE world.file
           d == [c EXCEPT !.kind = "fetch", !.rows = rows, !.at = world.writes, !.blind = failed]
<1>2. /\ c \in NFTCall /\ c.kind = "add" /\ world.writes \in Nat /\ world.file \in SUBSET NFTRow
      /\ ui \in CollectionUi(ui.stats) /\ calls \subseteq CollectionCall /\ world \in CollectionWorld /\ world.upsets \in Nat
  BY CollectionTypes DEF Collection!Fetches, CollectionCall, NFTCall, RemoveCall, ListCall, StatsCall
<1>3. calls' = (calls \ {c}) \cup {d}
  BY <1>1
<1>4. /\ rows \in SUBSET NFTRow /\ c.nft \notin NFTsOf(rows) /\ (failed => rows = {}) /\ (~failed => rows = world.file)
  BY <1>1, <1>2 DEF Collection!Existing, NFTsOf
<1> HIDE DEF rows
<1>5. d \in NFTCall /\ d.kind = "fetch" /\ d.rows = rows /\ d.at = world.writes /\ d.nft = c.nft /\ d.blind = failed
  BY <1>2, <1>4 DEF NFTCall
<1> HIDE DEF d
<1>6. /\ world' \in CollectionWorld /\ world'.file = world.file /\ world'.writes = world.writes /\ world'.has = world.has
      /\ world'.overlapped = world.overlapped /\ world'.lost = world.lost
  <2>1. CASE failed
    BY <1>1, <1>2, <2>1 DEF CollectionWorld
  <2>2. CASE ~failed
    BY <1>1, <1>2, <2>2
  <2> QED
    BY <2>1, <2>2
<1>7. d.at =< world.writes
  BY <1>2, <1>5
<1>8. MetadataInv'
  BY <1>3, <1>4, <1>5, <1>6, <1>7 DEF CollectionInv, MetadataInv
<1>9. RowsInv' /\ ListedNow' = ListedNow
  BY <1>6 DEF CollectionInv, RowsInv, ListedNow, Collection!Listed
<1>10. ListsInv'
  BY <1>1, <1>2, <1>3, <1>5, <1>9, CollectionListsStay DEF IsList, IsStats
<1>11. CollectionTypeOK'
  BY <1>1, <1>2, <1>3, <1>5, <1>6 DEF CollectionTypeOK, CollectionCall
<1> QED
  BY <1>8, <1>9, <1>10, <1>11 DEF CollectionInv

(* A write outdates what additions under way have read. *)
LEMMA CollectionWritten ==
  ASSUME CollectionInv, NEW rows \in SUBSET NFTRow, NEW has \in SUBSET NFT, NEW n \in Nat, NEW o \in BOOLEAN,
         NEW l \in BOOLEAN, NEW k \in Nat,
         world' = [world EXCEPT !.file = rows, !.has = has, !.writes = @ + 1, !.n = n, !.overlapped = o, !.lost = l, !.upsets = k],
         \A d \in calls' : d.kind = "fetch" => d \in calls,
         o \/ OneOfEachNFT(rows), o \/ l \/ has = NFTsOf(Active(rows))
  PROVE  world' \in CollectionWorld /\ MetadataInv' /\ RowsInv'
<1> DEFINE w == world.writes + 1
<1>1. world \in CollectionWorld /\ world.writes \in Nat /\ w \in Nat /\ w > world.writes /\ calls \subseteq CollectionCall
  BY CollectionTypes
<1>2. world' = [world EXCEPT !.file = rows, !.has = has, !.writes = w, !.n = n, !.overlapped = o, !.lost = l, !.upsets = k]
  OBVIOUS
<1> HIDE DEF w
<1>3. /\ world' \in CollectionWorld /\ world'.file = rows /\ world'.has = has /\ world'.writes = w
      /\ world'.overlapped = o /\ world'.lost = l
  BY <1>1, <1>2 DEF CollectionWorld
<1>4. MetadataInv'
  <2> SUFFICES ASSUME NEW d \in calls', d.kind = "fetch"
               PROVE  d.at =< w /\ d.at # w /\ d.nft \notin NFTsOf(d.rows) /\ (d.blind => d.rows = {})
    BY <1>3 DEF MetadataInv
  <2>1. d \in calls /\ d \in NFTCall /\ d.at \in Nat
    BY <1>1 DEF CollectionCall, NFTCall, RemoveCall, ListCall, StatsCall
  <2> QED
    BY <1>1, <2>1 DEF CollectionInv, MetadataInv
<1>5. RowsInv'
  BY <1>3 DEF RowsInv
<1> QED
  BY <1>3, <1>4, <1>5

(* After a change the page asks anew, or it is gone. *)
LEMMA CollectionAfterwards ==
  ASSUME CollectionInv, NEW c \in calls, c.kind \in {"add", "fetch", "remove"},
         Collection!Added(c) \/ Collection!Removed(c)
  PROVE  /\ ListsInv' /\ ui' \in CollectionUi(ui'.stats) /\ calls' \subseteq CollectionCall
         /\ \A d \in calls' : d.kind = "fetch" => d \in calls
<1>1. ui \in CollectionUi(ui.stats) /\ calls \subseteq CollectionCall /\ ~IsList(c) /\ ~IsStats(c)
  BY CollectionTypes DEF IsList, IsStats
<1>2. CASE c.alive
  <2>1. PICK u \in {ui, [ui EXCEPT !.modal = FALSE]} : Collection!Reloads(c, u)
    BY <1>2, Zenon DEF Collection!Added, Collection!Removed
  <2>2. u \in CollectionUi(ui.stats) /\ u.of = ui.of /\ u.statsOf = ui.statsOf /\ u.reads = ui.reads
    BY <1>1, <2>1 DEF CollectionUi
  <2> QED
    BY <1>1, <2>1, <2>2, CollectionReloads
<1>3. CASE ~c.alive
  <2>1. calls' = calls \ {c} /\ ui' = [ui EXCEPT !.excused = TRUE]
    BY <1>3 DEF Collection!Added, Collection!Removed, Collection!Forgotten
  <2>2. /\ ui' \in CollectionUi(ui.stats) /\ ui'.stats = ui.stats /\ ui'.of = ui.of /\ ui'.statsOf = ui.statsOf
        /\ ui'.reads = ui.reads /\ ui'.nfts = ui.nfts /\ ui'.crossed = ui.crossed /\ ui'.excused
    BY <1>1, <2>1 DEF CollectionUi
  <2>3. ListsInv'
    BY <1>1, <2>1, <2>2, CollectionListsStay
  <2> QED
    BY <1>1, <2>1, <2>2, <2>3
<1> QED
  BY <1>2, <1>3

LEMMA NFTRowChanged ==
  ASSUME NEW rows \in SUBSET NFTRow, NEW old \in SUBSET rows, NEW active \in BOOLEAN
  PROVE  LET new == (rows \ old) \cup {[r EXCEPT !.active = active] : r \in old}
         IN /\ new \in SUBSET NFTRow /\ (OneOfEachNFT(rows) => OneOfEachNFT(new))
            /\ ~active => Active(new) = Active(rows \ old)
            /\ active => Active(new) = Active(rows \ old) \cup {[r EXCEPT !.active = active] : r \in old}
<1> DEFINE new == (rows \ old) \cup {[r EXCEPT !.active = active] : r \in old}
<1>1. \A r \in old : /\ [r EXCEPT !.active = active] \in NFTRow /\ [r EXCEPT !.active = active].nft = r.nft
                     /\ [r EXCEPT !.active = active].active = active
  BY DEF NFTRow
<1>2. new \in SUBSET NFTRow
  BY <1>1
<1>3. \A s \in new : \E r \in rows : r.nft = s.nft /\ (IF r \in old THEN s = [r EXCEPT !.active = active] ELSE s = r)
  BY <1>1
<1>4. OneOfEachNFT(rows) => OneOfEachNFT(new)
  <2> HIDE DEF new
  <2> QED
    BY <1>3 DEF OneOfEachNFT
<1>5. /\ ~active => Active(new) = Active(rows \ old)
      /\ active => Active(new) = Active(rows \ old) \cup {[r EXCEPT !.active = active] : r \in old}
  BY <1>1 DEF Active
<1> QED
  BY <1>2, <1>4, <1>5

LEMMA CollectionAddedStep ==
  ASSUME CollectionInv, NEW c \in calls, Collection!Adds(c) \/ Collection!Revives(c), Collection!Added(c)
  PROVE  CollectionInv'
<1>1. c \in NFTCall /\ c.kind \in {"add", "fetch"} /\ calls \subseteq CollectionCall
  BY CollectionTypes DEF Collection!Adds, Collection!Revives, CollectionCall, NFTCall, RemoveCall, ListCall, StatsCall
<1>2. /\ ListsInv' /\ ui' \in CollectionUi(ui'.stats) /\ calls' \subseteq CollectionCall
      /\ \A d \in calls' : d.kind = "fetch" => d \in calls
  BY <1>1, CollectionAfterwards
<1>3. c.nft \in NFT /\ c.rows \in SUBSET NFTRow /\ c.at \in Nat
  BY <1>1 DEF NFTCall
<1>4. /\ world \in CollectionWorld /\ world.n \in Nat /\ world.has \cup {c.nft} \in SUBSET NFT /\ world.overlapped \in BOOLEAN
      /\ world.lost \in BOOLEAN /\ world.upsets \in Nat
  BY <1>3, CollectionTypes
<1>5. world' \in CollectionWorld /\ MetadataInv' /\ RowsInv'
  <2>1. CASE Collection!Adds(c)
    <3> DEFINE r == [nft |-> c.nft, n |-> world.n + 1, active |-> TRUE]
               rows == c.rows \cup {r}
               o == world.overlapped \/ c.at # world.writes
               l == world.lost \/ c.blind
    <3>1. world' = [world EXCEPT !.file = rows, !.has = world.has \cup {c.nft}, !.writes = @ + 1, !.n = world.n + 1,
                                 !.overlapped = o, !.lost = l, !.upsets = world.upsets]
      BY <1>4, <2>1 DEF Collection!Adds, Collection!Saved, CollectionWorld
    <3>2. r \in NFTRow /\ r.nft = c.nft /\ r.active /\ world.n + 1 \in Nat
      BY <1>3, <1>4 DEF NFTRow
    <3> HIDE DEF r
    <3>3. /\ c.nft \notin NFTsOf(c.rows) /\ (c.blind => c.rows = {})
          /\ ~c.blind /\ c.at = world.writes => c.rows = world.file
      BY <2>1 DEF Collection!Adds, CollectionInv, MetadataInv
    <3>4. ASSUME ~o
          PROVE  OneOfEachNFT(rows) /\ (l \/ world.has \cup {c.nft} = NFTsOf(Active(rows)))
      <4>1. OneOfEachNFT(c.rows) /\ (~l => world.has = NFTsOf(Active(c.rows)))
        BY <3>3, <3>4 DEF CollectionInv, RowsInv, OneOfEachNFT
      <4>2. OneOfEachNFT(rows)
        BY <3>2, <3>3, <4>1 DEF OneOfEachNFT, NFTsOf
      <4>3. Active(rows) = Active(c.rows) \cup {r}
        BY <3>2 DEF Active
      <4> HIDE DEF l, rows
      <4>4. NFTsOf(Active(rows)) = NFTsOf(Active(c.rows)) \cup {c.nft}
        BY <3>2, <4>3 DEF NFTsOf
      <4> QED
        BY <4>1, <4>2, <4>4
    <3>5. rows \in SUBSET NFTRow /\ o \in BOOLEAN /\ l \in BOOLEAN
      BY <1>3, <3>2
    <3> HIDE DEF rows, o, l
    <3>6. o \/ OneOfEachNFT(rows)
      BY <3>4
    <3>7. o \/ l \/ world.has \cup {c.nft} = NFTsOf(Active(rows))
      BY <3>4
    <3> DEFINE has == world.has \cup {c.nft}
               n == world.n + 1
    <3>8. has \in SUBSET NFT /\ n \in Nat
      BY <1>4, <3>2
    <3>9. \A d \in calls' : d.kind = "fetch" => d \in calls
      BY <1>2
    <3> HIDE DEF has, n
    <3> QED
      BY <1>4, <3>1, <3>5, <3>6, <3>7, <3>8, <3>9, CollectionWritten DEF has, n
  <2>2. CASE Collection!Revives(c)
    <3> DEFINE old == Collection!Existing(c.nft)
               rows == (world.file \ old) \cup {[r EXCEPT !.active = TRUE] : r \in old}
    <3>1. world' = [world EXCEPT !.file = rows, !.has = world.has \cup {c.nft}, !.writes = @ + 1, !.n = world.n,
                                 !.overlapped = world.overlapped, !.lost = world.lost, !.upsets = world.upsets]
      BY <1>4, <2>2 DEF Collection!Revives, Collection!Saved, CollectionWorld
    <3>2. old \in SUBSET world.file /\ world.file \in SUBSET NFTRow /\ TRUE \in BOOLEAN
      BY CollectionTypes DEF Collection!Existing
    <3>3. /\ rows \in SUBSET NFTRow /\ (OneOfEachNFT(world.file) => OneOfEachNFT(rows))
          /\ Active(rows) = Active(world.file \ old) \cup {[r EXCEPT !.active = TRUE] : r \in old}
      BY <3>2, NFTRowChanged
    <3>4. ASSUME ~world.overlapped
          PROVE  OneOfEachNFT(rows) /\ (world.lost \/ world.has \cup {c.nft} = NFTsOf(Active(rows)))
      <4>1. OneOfEachNFT(world.file) /\ (world.lost \/ world.has = NFTsOf(Active(world.file)))
        BY <3>4 DEF CollectionInv, RowsInv
      <4>2. \A r \in old : ~r.active /\ r.nft = c.nft
        BY <2>2 DEF Collection!Revives, Collection!Existing, Collection!Listed
      <4>3. Active(world.file \ old) = Active(world.file)
        BY <4>2 DEF Active
      <4>4. PICK r \in old : TRUE
        BY <2>2 DEF Collection!Revives
      <4>5. NFTsOf({[s EXCEPT !.active = TRUE] : s \in old}) = {c.nft}
        <5>1. \A s \in old : [s EXCEPT !.active = TRUE].nft = c.nft
          BY <3>2, <4>2 DEF NFTRow
        <5> QED
          BY <4>4, <5>1 DEF NFTsOf
      <4> HIDE DEF old, rows
      <4>6. NFTsOf(Active(rows)) = NFTsOf(Active(world.file)) \cup NFTsOf({[s EXCEPT !.active = TRUE] : s \in old})
        BY <3>3, <4>3 DEF NFTsOf
      <4> QED
        BY <3>3, <4>1, <4>5, <4>6
    <3> HIDE DEF rows
    <3> QED
      BY <1>2, <1>4, <3>1, <3>3, <3>4, CollectionWritten
  <2> QED
    BY <2>1, <2>2
<1>6. CollectionTypeOK'
  BY <1>2, <1>5 DEF CollectionTypeOK
<1> QED
  BY <1>2, <1>5, <1>6 DEF CollectionInv

LEMMA CollectionRemovedStep ==
  ASSUME CollectionInv, NEW c \in calls, Collection!Removes(c), Collection!Removed(c)
  PROVE  CollectionInv'
<1>1. c.kind = "remove"
  BY DEF Collection!Removes
<1>2. /\ ListsInv' /\ ui' \in CollectionUi(ui'.stats) /\ calls' \subseteq CollectionCall
      /\ \A d \in calls' : d.kind = "fetch" => d \in calls
  BY <1>1, CollectionAfterwards
<1> DEFINE old == {r \in world.file : r.n = c.row}
           rows == (world.file \ old) \cup {[r EXCEPT !.active = FALSE] : r \in old}
           has == world.has \ NFTsOf(old)
<1>3. /\ world \in CollectionWorld /\ world.n \in Nat /\ has \in SUBSET NFT /\ world.overlapped \in BOOLEAN
      /\ world.lost \in BOOLEAN /\ world.upsets \in Nat
      /\ world.file \in SUBSET NFTRow /\ old \in SUBSET world.file /\ FALSE \in BOOLEAN
  BY CollectionTypes
<1>4. world' = [world EXCEPT !.file = rows, !.has = has, !.writes = @ + 1, !.n = world.n, !.overlapped = world.overlapped,
                             !.lost = world.lost, !.upsets = world.upsets]
  BY <1>3 DEF Collection!Removes, Collection!Saved, CollectionWorld, NFTsOf
<1>5. /\ rows \in SUBSET NFTRow /\ (OneOfEachNFT(world.file) => OneOfEachNFT(rows))
      /\ Active(rows) = Active(world.file \ old)
  <2> HIDE DEF old
  <2> QED
    BY <1>3, NFTRowChanged
<1>6. ASSUME ~world.overlapped
      PROVE  OneOfEachNFT(rows) /\ (world.lost \/ has = NFTsOf(Active(rows)))
  <2>1. OneOfEachNFT(world.file) /\ (world.lost \/ world.has = NFTsOf(Active(world.file)))
    BY <1>6 DEF CollectionInv, RowsInv
  <2>2. NFTsOf(Active(world.file \ old)) = NFTsOf(Active(world.file)) \ NFTsOf(old)
    <3> HIDE DEF old, rows, has
    <3> QED
      BY <1>3, <2>1 DEF NFTsOf, Active, OneOfEachNFT
  <2> HIDE DEF old, rows
  <2> QED
    BY <1>5, <2>1, <2>2
<1> HIDE DEF old, rows, has
<1>7. world' \in CollectionWorld /\ MetadataInv' /\ RowsInv'
  BY <1>2, <1>3, <1>4, <1>5, <1>6, CollectionWritten
<1>8. CollectionTypeOK'
  BY <1>2, <1>7 DEF CollectionTypeOK
<1> QED
  BY <1>2, <1>7, <1>8 DEF CollectionInv

LEMMA CollectionNothingDoneStep ==
  ASSUME CollectionInv, NEW c \in calls,
         Collection!Refuses(c) \/ Collection!NotFound(c) \/ Collection!Fails(c), Collection!Unchanged(c)
  PROVE  CollectionInv'
<1>1. /\ c.kind \in {"add", "fetch", "remove"} /\ world' = world /\ calls' = calls \ {c}
      /\ ui \in CollectionUi(ui.stats) /\ calls \subseteq CollectionCall
  BY CollectionTypes DEF Collection!Refuses, Collection!NotFound, Collection!Fails, Collection!Unchanged,
     Collection!NotAdded, Collection!Forgotten
<1>2. \/ ui' = [ui EXCEPT !.adding = FALSE] \/ ui' = [ui EXCEPT !.excused = ui.excused \/ ~c.alive]
  BY Zenon DEF Collection!Unchanged, Collection!NotAdded, Collection!Forgotten
<1>3. (ui.excused \/ ~c.alive) \in BOOLEAN /\ ui.excused \in BOOLEAN
  BY <1>1 DEF CollectionUi
<1>4. /\ ui' \in CollectionUi(ui.stats) /\ ui'.stats = ui.stats /\ ui'.of = ui.of /\ ui'.statsOf = ui.statsOf
      /\ ui'.reads = ui.reads /\ ui'.nfts = ui.nfts /\ ui'.crossed = ui.crossed
      /\ ui'.excused \/ (ui'.excused = ui.excused)
  <2>1. CASE ui' = [ui EXCEPT !.adding = FALSE]
    BY <1>1, <2>1 DEF CollectionUi
  <2>2. CASE ui' = [ui EXCEPT !.excused = ui.excused \/ ~c.alive]
    <3>1. PICK b \in BOOLEAN : ui' = [ui EXCEPT !.excused = b] /\ (ui.excused => b)
      BY <1>3, <2>2, Zenon
    <3> QED
      BY <1>1, <1>3, <3>1 DEF CollectionUi
  <2> QED
    BY <1>2, <2>1, <2>2
<1>5. MetadataInv' /\ RowsInv' /\ ListedNow' = ListedNow
  BY <1>1, CollectionFileStays
<1>6. ListsInv'
  BY <1>1, <1>4, <1>5, CollectionListsStay DEF IsList, IsStats
<1>7. CollectionTypeOK'
  BY <1>1, <1>4 DEF CollectionInv, CollectionTypeOK
<1> QED
  BY <1>5, <1>6, <1>7 DEF CollectionInv

LEMMA CollectionTearsStep ==
  ASSUME CollectionInv, NEW c \in calls, Collection!Tears(c), Collection!Torn(c)
  PROVE  CollectionInv'
<1>1. /\ ui \in CollectionUi(ui.stats) /\ calls \subseteq CollectionCall /\ world \in CollectionWorld
      /\ world.has \in SUBSET NFT /\ world.n \in Nat /\ world.overlapped \in BOOLEAN /\ world.upsets + 1 \in Nat
      /\ c.kind \in {"add", "fetch", "remove"} /\ calls' = calls \ {c}
  BY CollectionTypes DEF Collection!Tears, Collection!Torn
<1>2. \E b \in BOOLEAN : ui' = [ui EXCEPT !.excused = TRUE, !.adding = b]
  BY <1>1 DEF Collection!Torn, CollectionUi
<1>3. /\ ui' \in CollectionUi(ui.stats) /\ ui'.stats = ui.stats /\ ui'.of = ui.of /\ ui'.statsOf = ui.statsOf
      /\ ui'.reads = ui.reads /\ ui'.nfts = ui.nfts /\ ui'.crossed = ui.crossed /\ ui'.excused
  BY <1>1, <1>2 DEF CollectionUi
<1>4. world' = [world EXCEPT !.file = {}, !.has = world.has, !.writes = @ + 1, !.n = world.n,
                             !.overlapped = world.overlapped, !.lost = TRUE, !.upsets = world.upsets + 1]
  BY <1>1 DEF Collection!Tears, Collection!Upset, Collection!Saved, CollectionWorld
<1>5. OneOfEachNFT({})
  BY DEF OneOfEachNFT
<1>6. world' \in CollectionWorld /\ MetadataInv' /\ RowsInv'
  BY <1>1, <1>4, <1>5, CollectionWritten
<1>7. ListsInv'
  BY <1>1, <1>3, CollectionListsStay DEF IsList, IsStats
<1>8. CollectionTypeOK'
  BY <1>1, <1>3, <1>6 DEF CollectionTypeOK
<1> QED
  BY <1>6, <1>7, <1>8 DEF CollectionInv

LEMMA CollectionNext == CollectionInv /\ Collection!Next => CollectionInv'
BY CollectionDialogStep, CollectionReadsStep, CollectionListEndsStep, CollectionStatsEndStep, CollectionLeaveStep,
   CollectionFetchesStep, CollectionAddedStep, CollectionRemovedStep, CollectionNothingDoneStep,
   CollectionTearsStep DEF Collection!Next

LEMMA CollectionStutter == CollectionInv /\ UNCHANGED <<ui, calls, world>> => CollectionInv'
BY DEF CollectionInv, CollectionTypeOK, MetadataInv, RowsInv, ListsInv, ListOrder, StatsOrder, LastList, LastStats,
   ListedNow, Collection!Listed

-----------------------------------------------------------------------------
(* The address book.                                                         *)
BookName == Name \cup {""}
BookEntry == [name : BookName, count : Nat] \cup {None}
Books == [Contact -> BookEntry]
BookPage ==
  [book : Books \cup {None}, loading : BOOLEAN, form : BOOLEAN, editing : Contact \cup {None}, name : BookName,
   reads : Nat, of : Nat, saves : Nat, cut : BOOLEAN, crossed : BOOLEAN, excused : BOOLEAN]
BookWorld == [book : Books, used : [Contact -> Nat], lost : BOOLEAN]
BookLoad == [kind : {"load"}, n : Nat, book : Books \cup {None}, then : {"stay", "added", "updated", "deleted"}]
BookNaming == [kind : {"name"}, address : Contact, name : BookName, then : {"added", "updated"}]
BookDeletion == [kind : {"delete"}, address : Contact, name : BookName, then : {"deleted"}]
BookCall == BookLoad \cup BookNaming \cup BookDeletion

BookTypeOK == ui \in BookPage /\ calls \subseteq BookCall /\ world \in BookWorld

(* Loads are numbered; the last of them is shown, or it is under way and has *)
(* read nothing older than the book.                                         *)
BookLoadsInv ==
  /\ ui.of =< ui.reads
  /\ \A c \in calls : c.kind = "load" => c.n =< ui.reads /\ c.n # ui.of
  /\ \A c, d \in calls : c.kind = "load" /\ d.kind = "load" /\ c.n = d.n => c = d
  /\ ~ui.crossed /\ ~ui.excused =>
       /\ ui.of = ui.reads => ui.book = world.book
       /\ ui.of # ui.reads => \E c \in calls : c.kind = "load" /\ c.n = ui.reads
       /\ \A c \in calls : c.kind = "load" /\ c.n = ui.reads => c.book \in {None, world.book}

UsesInv ==
  \A a \in Contact :
    Book!Uses(world.book, a) =< world.used[a] /\ (world.lost \/ Book!Uses(world.book, a) = world.used[a])

(* What is shown, or read, and deleted since: the load that follows the      *)
(* deletion is still to come.                                                *)
Gone(book, n) ==
  book # None => \A a \in Contact :
    book[a] # None /\ world.book[a] = None =>
      \E c \in calls : c.kind = "load" /\ c.then = "deleted" /\ c.n > n
GoneInv ==
  ~ui.crossed /\ ~ui.excused =>
    Gone(ui.book, ui.of) /\ \A c \in calls : c.kind = "load" /\ c.n > ui.of => Gone(c.book, c.n)

(* An edit is of an entry that nobody deletes.                               *)
EditInv ==
  ~ui.crossed /\ ~ui.excused /\ ~ui.cut /\ ui.editing # None =>
    world.book[ui.editing] # None /\ \A c \in calls : c.kind = "delete" => c.address # ui.editing

BookPageInv == BookTypeOK /\ BookLoadsInv /\ UsesInv /\ GoneInv /\ EditInv

LEMMA BookTypes ==
  ASSUME BookPageInv
  PROVE  /\ ui \in BookPage /\ calls \subseteq BookCall /\ world \in BookWorld
         /\ ui.book \in Books \cup {None} /\ world.book \in Books /\ world.used \in [Contact -> Nat]
         /\ ui.reads \in Nat /\ ui.of \in Nat /\ ui.saves \in Nat /\ ui.editing \in Contact \cup {None}
         /\ ui.name \in BookName /\ world.lost \in BOOLEAN
BY DEF BookPageInv, BookTypeOK, BookPage, BookWorld

LEMMA BookUnnamed == "" \in BookName
BY DEF BookName

LEMMA BookKinds ==
  /\ \A c \in BookLoad : c.kind = "load" /\ c.n \in Nat
  /\ \A c \in BookNaming : c.kind = "name" /\ c.then \in {"added", "updated"}
  /\ \A c \in BookDeletion : c.kind = "delete" /\ c.then = "deleted"
  /\ \A c \in BookCall : /\ c.kind = "load" => c \in BookLoad
                         /\ c.kind = "name" => c \in BookNaming
                         /\ c.kind = "delete" => c \in BookDeletion
  /\ \A c \in BookNaming \cup BookDeletion : c.address \in Contact /\ c.name \in BookName
BY DEF BookCall, BookLoad, BookNaming, BookDeletion

LEMMA BookInit == Book!Init => BookPageInv
<1> SUFFICES ASSUME Book!Init PROVE BookPageInv
  OBVIOUS
<1> DEFINE f == FALSE
           y == TRUE
           book == [a \in Contact |-> None]
           used == [a \in Contact |-> 0]
<1>1. /\ ui = [book |-> None, loading |-> y, form |-> f, editing |-> None, name |-> "",
               reads |-> 1, of |-> 0, saves |-> 0, cut |-> f, crossed |-> f, excused |-> f]
      /\ calls = {[kind |-> "load", n |-> 1, book |-> None, then |-> "stay"]}
      /\ world = [book |-> book, used |-> used, lost |-> f]
  BY DEF Book!Init
<1>2. /\ f \in BOOLEAN /\ y \in BOOLEAN /\ book \in Books /\ used \in [Contact -> Nat]
      /\ \A a \in Contact : book[a] = None /\ used[a] = 0
  BY DEF Books, BookEntry
<1> HIDE DEF f, y, book, used
<1>3. ui \in BookPage /\ ui.of = 0 /\ ui.reads = 1 /\ ui.book = None /\ ui.editing = None
  BY <1>1, <1>2 DEF BookPage, BookName
<1>4. world \in BookWorld /\ world.book = book /\ world.used = used
  BY <1>1, <1>2 DEF BookWorld
<1>5. PICK c : c = [kind |-> "load", n |-> 1, book |-> None, then |-> "stay"]
  OBVIOUS
<1>6. c \in BookLoad /\ c.kind = "load" /\ c.n = 1 /\ c.book = None /\ calls = {c}
  BY <1>1, <1>5 DEF BookLoad
<1>7. calls \subseteq BookCall
  BY <1>6 DEF BookCall
<1>8. BookLoadsInv
  BY <1>3, <1>6 DEF BookLoadsInv
<1>9. UsesInv /\ EditInv
  BY <1>2, <1>3, <1>4 DEF UsesInv, EditInv, Book!Uses
<1>10. GoneInv
  BY <1>3, <1>6 DEF GoneInv, Gone
<1> QED
  BY <1>3, <1>4, <1>7, <1>8, <1>9, <1>10 DEF BookPageInv, BookTypeOK

(* What leaves the loads, the book and what is shown of it as they were.     *)
LEMMA BookLoadsStay ==
  ASSUME BookPageInv, \A c \in calls' : c \in calls \/ c.kind # "load",
         \A c \in calls : c.kind = "load" => c \in calls',
         ui'.of = ui.of, ui'.reads = ui.reads, ui'.book = ui.book, ui'.crossed <=> ui.crossed,
         ui'.excused <=> ui.excused, world' = world
  PROVE  BookLoadsInv' /\ UsesInv' /\ GoneInv'
<1>1. BookLoadsInv'
  BY DEF BookPageInv, BookLoadsInv
<1>2. UsesInv'
  BY DEF BookPageInv, UsesInv
<1>3. GoneInv'
  BY DEF BookPageInv, GoneInv, Gone
<1> QED
  BY <1>1, <1>2, <1>3

LEMMA BookEditStays ==
  ASSUME BookPageInv, ui'.editing \in {ui.editing, None}, ui'.cut <=> ui.cut,
         ui'.crossed \/ ~ui.crossed, ui'.excused \/ ~ui.excused,
         ui'.excused \/ ui'.editing = None \/ (world.book[ui.editing] # None => world'.book[ui.editing] # None),
         \A c \in calls' : c.kind = "delete" => c \in calls \/ c.address # ui.editing
  PROVE  EditInv'
BY DEF BookPageInv, EditInv

(* What the page does with its own state only.                               *)
LEMMA BookPageStep ==
  ASSUME BookPageInv, world' = world, ui' \in BookPage, ui'.of = ui.of, ui'.reads = ui.reads, ui'.book = ui.book,
         ui'.crossed <=> ui.crossed, ui'.excused <=> ui.excused, ui'.cut <=> ui.cut,
         ui'.editing \in {ui.editing, None}, calls' \subseteq BookCall,
         \A c \in calls' : c \in calls \/ (c.kind # "load" /\ (c.kind = "delete" => c.address # ui.editing)),
         \A c \in calls : c.kind = "load" => c \in calls'
  PROVE  BookPageInv'
<1>1. BookLoadsInv' /\ UsesInv' /\ GoneInv'
  BY BookLoadsStay
<1>2. EditInv'
  BY BookEditStays
<1>3. world' \in BookWorld
  BY BookTypes
<1> QED
  BY <1>1, <1>2, <1>3 DEF BookPageInv, BookTypeOK

LEMMA BookFormStep ==
  ASSUME BookPageInv, Book!ToggleForm \/ Book!CancelEdit \/ \E name \in Name : Book!EditName(name)
  PROVE  BookPageInv'
<1> DEFINE form == ~ui.form
<1>0. /\ ui \in BookPage /\ calls' = calls /\ world' = world /\ calls \subseteq BookCall
      /\ form \in BOOLEAN /\ "" \in BookName /\ \A name \in Name : name \in BookName
  BY BookTypes DEF Book!ToggleForm, Book!CancelEdit, Book!EditName, BookName
<1>1. \/ ui' = [ui EXCEPT !.form = form]
      \/ ui' = [ui EXCEPT !.editing = None, !.name = ""]
      \/ \E name \in Name : ui' = [ui EXCEPT !.name = name]
  BY <1>0 DEF Book!ToggleForm, Book!CancelEdit, Book!EditName, BookPage
<1> HIDE DEF form
<1>2. /\ ui' \in BookPage /\ ui'.of = ui.of /\ ui'.reads = ui.reads /\ ui'.book = ui.book
      /\ (ui'.crossed <=> ui.crossed) /\ (ui'.excused <=> ui.excused) /\ (ui'.cut <=> ui.cut)
      /\ ui'.editing \in {ui.editing, None}
  <2>1. CASE ui' = [ui EXCEPT !.form = form]
    BY <1>0, <2>1 DEF BookPage
  <2>2. CASE ui' = [ui EXCEPT !.editing = None, !.name = ""]
    BY <1>0, <2>2 DEF BookPage
  <2>3. CASE \E name \in Name : ui' = [ui EXCEPT !.name = name]
    BY <1>0, <2>3 DEF BookPage
  <2> QED
    BY <1>1, <2>1, <2>2, <2>3
<1>3. calls' \subseteq BookCall /\ (\A c \in calls' : c \in calls) /\ (\A c \in calls : c \in calls')
  BY <1>0
<1> QED
  BY <1>0, <1>2, <1>3, BookPageStep

LEMMA BookStartEditStep ==
  ASSUME BookPageInv, NEW a \in Contact, Book!StartEdit(a)
  PROVE  BookPageInv'
<1> DEFINE q == ui.cut \/ \E c \in calls : c.then = "deleted"
           name == ui.book[a].name
<1>0. /\ ui \in BookPage /\ calls' = calls /\ world' = world /\ calls \subseteq BookCall
      /\ ui.book # None /\ ui.book \in Books /\ ui.book[a] # None
  BY BookTypes DEF Book!StartEdit, Book!Shown
<1>1. name \in BookName /\ q \in BOOLEAN /\ (~q => ~ui.cut /\ \A c \in calls : c.then # "deleted")
  BY <1>0 DEF Books, BookEntry, BookPage
<1>2. ui' = [ui EXCEPT !.editing = a, !.name = name, !.cut = q]
  BY <1>0 DEF Book!StartEdit, BookPage
<1> HIDE DEF q, name
<1>3. /\ ui' \in BookPage /\ ui'.of = ui.of /\ ui'.reads = ui.reads /\ ui'.book = ui.book
      /\ (ui'.crossed <=> ui.crossed) /\ (ui'.excused <=> ui.excused) /\ (ui'.cut <=> q) /\ ui'.editing = a
  BY <1>0, <1>1, <1>2 DEF BookPage
<1>4. (\A c \in calls' : c \in calls) /\ (\A c \in calls : c \in calls')
  BY <1>0
<1>5. BookLoadsInv' /\ UsesInv' /\ GoneInv'
  BY <1>0, <1>3, <1>4, BookLoadsStay
<1>6. EditInv'
  <2> SUFFICES ASSUME ~ui.crossed, ~ui.excused, ~q
               PROVE  world.book[a] # None /\ \A c \in calls : c.kind = "delete" => c.address # a
    BY <1>0, <1>3 DEF EditInv
  <2>1. Gone(ui.book, ui.of)
    BY DEF BookPageInv, GoneInv
  <2>2. world.book[a] # None
    BY <1>0, <1>1, <2>1 DEF Gone
  <2>3. \A c \in calls : c.kind # "delete"
    BY <1>0, <1>1, BookKinds
  <2> QED
    BY <2>2, <2>3
<1> QED
  BY <1>0, <1>3, <1>5, <1>6, BookTypes DEF BookPageInv, BookTypeOK

LEMMA BookSavingStep ==
  ASSUME BookPageInv,
         \/ Book!HandleUpdateName
         \/ \E a \in Contact : Book!HandleDeleteAddress(a) \/ \E name \in Name : Book!HandleAddAddress(a, name)
  PROVE  BookPageInv'
<1> DEFINE n == ui.saves + 1
<1>a. n \in Nat
  BY BookTypes
<1>b. world' = world
  BY DEF Book!HandleUpdateName, Book!HandleDeleteAddress, Book!HandleAddAddress
<1>c. \A name \in Name : name \in BookName
  BY DEF BookName
<1>0. /\ ui \in BookPage /\ world' = world /\ calls \subseteq BookCall /\ n \in Nat
      /\ "" \in BookName /\ ui.name \in BookName /\ \A name \in Name : name \in BookName
  BY <1>a, <1>b, <1>c, BookTypes, BookUnnamed
<1>1. ui' = [ui EXCEPT !.saves = n]
  BY <1>0 DEF Book!HandleUpdateName, Book!HandleDeleteAddress, Book!HandleAddAddress, BookPage
<1> HIDE DEF n
<1>2. /\ ui' \in BookPage /\ ui'.of = ui.of /\ ui'.reads = ui.reads /\ ui'.book = ui.book
      /\ (ui'.crossed <=> ui.crossed) /\ (ui'.excused <=> ui.excused) /\ (ui'.cut <=> ui.cut)
      /\ ui'.editing = ui.editing
  BY <1>0, <1>1 DEF BookPage
<1>3. PICK c \in BookNaming \cup BookDeletion :
        calls' = calls \cup {c} /\ (c \in BookDeletion => c.address # ui.editing)
  <2>1. CASE Book!HandleUpdateName
    <3>1. PICK c : c = [kind |-> "name", address |-> ui.editing, name |-> ui.name, then |-> "updated"]
      OBVIOUS
    <3>2. ui.editing \in Contact /\ calls' = calls \cup {c}
      BY <2>1, <3>1 DEF Book!HandleUpdateName, Book!Saving, Book!Shown
    <3>3. c \in BookNaming
      BY <1>0, <3>1, <3>2 DEF BookNaming
    <3>4. c \notin BookDeletion
      BY <3>3, BookKinds
    <3> QED
      BY <3>2, <3>3, <3>4
  <2>2. ASSUME NEW a \in Contact, Book!HandleDeleteAddress(a)
        PROVE  \E c \in BookNaming \cup BookDeletion :
                 calls' = calls \cup {c} /\ (c \in BookDeletion => c.address # ui.editing)
    <3>1. PICK c : c = [kind |-> "delete", address |-> a, name |-> "", then |-> "deleted"]
      OBVIOUS
    <3>2. ui.editing # a /\ calls' = calls \cup {c}
      BY <2>2, <3>1 DEF Book!HandleDeleteAddress, Book!Saving, Book!Deletable
    <3>3. c \in BookDeletion /\ c.address = a
      BY <1>0, <3>1 DEF BookDeletion
    <3> QED
      BY <3>2, <3>3
  <2>3. ASSUME NEW a \in Contact, NEW name \in Name, Book!HandleAddAddress(a, name)
        PROVE  \E c \in BookNaming \cup BookDeletion :
                 calls' = calls \cup {c} /\ (c \in BookDeletion => c.address # ui.editing)
    <3>1. PICK c : c = [kind |-> "name", address |-> a, name |-> name, then |-> "added"]
      OBVIOUS
    <3>2. calls' = calls \cup {c}
      BY <2>3, <3>1 DEF Book!HandleAddAddress, Book!Saving
    <3>3. c \in BookNaming
      BY <1>0, <3>1 DEF BookNaming
    <3>4. c \notin BookDeletion
      BY <3>3, BookKinds
    <3> QED
      BY <3>2, <3>3, <3>4
  <2> QED
    BY <2>1, <2>2, <2>3
<1>4. c.kind # "load" /\ (c.kind = "delete" => c.address # ui.editing) /\ c \in BookCall
  BY <1>3, BookKinds DEF BookCall
<1>5. /\ calls' \subseteq BookCall
      /\ \A d \in calls' : d \in calls \/ (d.kind # "load" /\ (d.kind = "delete" => d.address # ui.editing))
      /\ \A d \in calls : d \in calls'
  BY <1>0, <1>3, <1>4
<1> QED
  BY <1>0, <1>2, <1>5, BookPageStep

LEMMA BookNotSavedStep ==
  ASSUME BookPageInv, NEW c \in calls, Book!NotSaved(c)
  PROVE  BookPageInv'
<1>1. /\ calls' = calls \ {c} /\ ui' = ui /\ world' = world /\ ui \in BookPage /\ calls \subseteq BookCall
      /\ c.kind # "load"
  BY BookTypes DEF Book!NotSaved
<1>2. /\ calls' \subseteq BookCall /\ (\A d \in calls' : d \in calls)
      /\ \A d \in calls : d.kind = "load" => d \in calls'
  BY <1>1
<1> QED
  BY <1>1, <1>2, BookPageStep

(* What a call reads is the book, or nothing; it never counts too much.      *)
LEMMA BookRead ==
  ASSUME BookPageInv, NEW read \in Book!Read
  PROVE  /\ read \in Books
         /\ \A a \in Contact : /\ read[a] \in BookEntry /\ Book!Uses(read, a) \in Nat /\ world.used[a] \in Nat
                               /\ Book!Uses(read, a) =< world.used[a]
                               /\ world.lost \/ Book!Misread(read) \/ Book!Uses(read, a) = world.used[a]
<1>1. Book!Empty \in Books /\ world.book \in Books /\ world.used \in [Contact -> Nat]
  BY BookTypes DEF Book!Empty, Books, BookEntry
<1>2. read \in Books
  BY <1>1 DEF Book!Read
<1> SUFFICES ASSUME NEW a \in Contact
             PROVE  /\ read[a] \in BookEntry /\ Book!Uses(read, a) \in Nat /\ world.used[a] \in Nat
                    /\ Book!Uses(read, a) =< world.used[a]
                    /\ world.lost \/ Book!Misread(read) \/ Book!Uses(read, a) = world.used[a]
  BY <1>2
<1>3. read[a] \in BookEntry /\ world.used[a] \in Nat
  BY <1>1, <1>2 DEF Books
<1>4. Book!Uses(read, a) \in Nat
  BY <1>3 DEF BookEntry, Book!Uses
<1>5. Book!Uses(world.book, a) =< world.used[a] /\ (world.lost \/ Book!Uses(world.book, a) = world.used[a])
  BY DEF BookPageInv, UsesInv
<1>6. read # world.book => Book!Uses(read, a) = 0
  BY DEF Book!Read, Book!Empty, Book!Uses
<1>7. read = world.book \/ Book!Misread(read)
  BY DEF Book!Misread
<1> QED
  BY <1>3, <1>4, <1>5, <1>6, <1>7

LEMMA BookReadsBook ==
  ASSUME BookPageInv, NEW c \in calls, c.kind = "load", c.book = None, ui' = ui, world' = world,
         calls' = (calls \ {c}) \cup {[c EXCEPT !.book = world.book]}
  PROVE  BookPageInv'
<1>0. /\ ui' = ui /\ world' = world /\ c.kind = "load" /\ c \in BookLoad /\ calls \subseteq BookCall
      /\ calls' = (calls \ {c}) \cup {[c EXCEPT !.book = world.book]} /\ world.book \in Books /\ c.book = None
  BY BookTypes, BookKinds
<1>1. PICK d : d = [c EXCEPT !.book = world.book]
  OBVIOUS
<1>2. /\ d \in BookLoad /\ d.kind = "load" /\ d.n = c.n /\ d.then = c.then /\ d.book = world.book
      /\ calls' = (calls \ {c}) \cup {d}
  BY <1>0, <1>1 DEF BookLoad
<1>3. \A e \in calls : e = c \/ e \in calls'
  BY <1>2
<1>4. d \in calls' /\ \A e \in calls' : e = d \/ e \in calls
  BY <1>2
<1>5. BookLoadsInv'
  <2>1. \A e \in calls' : e.kind = "load" => e.n =< ui.reads /\ e.n # ui.of
    BY <1>0, <1>2 DEF BookPageInv, BookLoadsInv
  <2>2. \A e, g \in calls' : e.kind = "load" /\ g.kind = "load" /\ e.n = g.n => e = g
    BY <1>0, <1>2 DEF BookPageInv, BookLoadsInv
  <2>3. ASSUME ~ui.crossed, ~ui.excused
        PROVE  /\ ui.of = ui.reads => ui.book = world.book
               /\ ui.of # ui.reads => \E e \in calls' : e.kind = "load" /\ e.n = ui.reads
               /\ \A e \in calls' : e.kind = "load" /\ e.n = ui.reads => e.book \in {None, world.book}
    <3>1. /\ ui.of = ui.reads => ui.book = world.book
          /\ ui.of # ui.reads => \E e \in calls : e.kind = "load" /\ e.n = ui.reads
          /\ \A e \in calls : e.kind = "load" /\ e.n = ui.reads => e.book \in {None, world.book}
      BY <2>3 DEF BookPageInv, BookLoadsInv
    <3> QED
      BY <1>2, <1>3, <1>4, <3>1
  <2> QED
    BY <1>0, <2>1, <2>2, <2>3 DEF BookPageInv, BookLoadsInv
<1>6. UsesInv'
  BY <1>0 DEF BookPageInv, UsesInv
<1>7. GoneInv'
  <2> SUFFICES ASSUME ~ui.crossed, ~ui.excused PROVE GoneInv'
    BY <1>0 DEF GoneInv
  <2>1. \A n : (\E e \in calls : e.kind = "load" /\ e.then = "deleted" /\ e.n > n)
          => (\E e \in calls' : e.kind = "load" /\ e.then = "deleted" /\ e.n > n)
    BY <1>2, <1>3, <1>4
  <2>2. \A book, n : Gone(book, n) => Gone(book, n)'
    BY <1>0, <2>1 DEF Gone
  <2>3. Gone(world.book, d.n)'
    BY <1>0 DEF Gone
  <2>4. Gone(ui.book, ui.of) /\ \A e \in calls : e.kind = "load" /\ e.n > ui.of => Gone(e.book, e.n)
    BY DEF BookPageInv, GoneInv
  <2>5. ASSUME NEW e \in calls', e.kind = "load", e.n > ui.of PROVE Gone(e.book, e.n)'
    <3>1. CASE e = d
      BY <1>0, <1>2, <2>3, <3>1
    <3>2. CASE e \in calls
      BY <2>2, <2>4, <2>5, <3>2
    <3> QED
      BY <1>4, <3>1, <3>2
  <2>6. Gone(ui.book, ui.of)'
    BY <1>0, <2>2, <2>4
  <2> QED
    BY <1>0, <2>5, <2>6 DEF GoneInv
<1>8. EditInv'
  BY <1>0, <1>2, BookEditStays
<1>9. calls' \subseteq BookCall
  BY <1>0, <1>2 DEF BookCall
<1> QED
  BY <1>0, <1>5, <1>6, <1>7, <1>8, <1>9, BookTypes DEF BookPageInv, BookTypeOK

LEMMA BookReadsStep ==
  ASSUME BookPageInv, NEW c \in calls, Book!Reads(c)
  PROVE  BookPageInv'
<1>1. PICK read \in Book!Read :
        calls' = (calls \ {c}) \cup {[c EXCEPT !.book = read]} /\ ui' = [ui EXCEPT !.excused = @ \/ Book!Misread(read)]
  BY DEF Book!Reads
<1>2. /\ c.kind = "load" /\ c.book = None /\ world' = world /\ ui \in BookPage /\ calls \subseteq BookCall
      /\ c \in BookLoad /\ c.n \in Nat /\ read \in Books
  BY BookTypes, BookKinds, BookRead DEF Book!Reads
<1> DEFINE q == ui.excused \/ Book!Misread(read)
<1>3. q \in BOOLEAN /\ (ui.excused => q)
  BY <1>2 DEF BookPage, Book!Misread
<1>4. ui' = [ui EXCEPT !.excused = q]
  BY <1>1, <1>2 DEF BookPage
<1> HIDE DEF q
<1>5. CASE read = world.book
  <2>1. ui' = ui
    BY <1>1, <1>2, <1>5 DEF Book!Misread, BookPage
  <2> QED
    BY <1>1, <1>2, <1>5, <2>1, BookReadsBook
<1>6. CASE read # world.book
  <2>1. q
    BY <1>6 DEF Book!Misread, q
  <2>2. ui' \in BookPage /\ ui'.of = ui.of /\ ui'.reads = ui.reads /\ ui'.excused
    BY <1>2, <1>3, <1>4, <2>1 DEF BookPage
  <2>3. PICK d : d = [c EXCEPT !.book = read]
    OBVIOUS
  <2>4. d \in BookLoad /\ d.kind = "load" /\ d.n = c.n /\ calls' = (calls \ {c}) \cup {d}
    BY <1>1, <1>2, <2>3 DEF BookLoad
  <2>5. BookLoadsInv'
    BY <1>2, <2>2, <2>4 DEF BookPageInv, BookLoadsInv
  <2>6. UsesInv' /\ GoneInv' /\ EditInv'
    BY <1>2, <2>2 DEF BookPageInv, UsesInv, GoneInv, EditInv
  <2>7. calls' \subseteq BookCall
    BY <1>2, <2>4 DEF BookCall
  <2> QED
    BY <1>2, <2>2, <2>5, <2>6, <2>7, BookTypes DEF BookPageInv, BookTypeOK
<1> QED
  BY <1>5, <1>6

(* Closing the form or the edit is all that a save closes.                   *)
LEMMA BookClosed ==
  ASSUME NEW u \in BookPage, NEW c
  PROVE  LET v == Book!Closed(u, c) IN
         /\ v \in BookPage /\ v.of = u.of /\ v.reads = u.reads /\ v.book = u.book /\ (v.crossed <=> u.crossed)
         /\ (v.excused <=> u.excused) /\ (v.cut <=> u.cut) /\ v.editing \in {u.editing, None}
<1> DEFINE f == FALSE
<1>0. f \in BOOLEAN /\ "" \in BookName
  BY DEF BookName
<1>1. Book!Closed(u, c) \in {[u EXCEPT !.form = f], [u EXCEPT !.editing = None, !.name = ""], u}
  BY DEF Book!Closed
<1> HIDE DEF f
<1>2. PICK v : v = Book!Closed(u, c)
  OBVIOUS
<1>3. /\ v \in BookPage /\ v.of = u.of /\ v.reads = u.reads /\ v.book = u.book /\ (v.crossed <=> u.crossed)
      /\ (v.excused <=> u.excused) /\ (v.cut <=> u.cut) /\ v.editing \in {u.editing, None}
  <2>1. CASE v = [u EXCEPT !.form = f]
    BY <1>0, <2>1 DEF BookPage
  <2>2. CASE v = [u EXCEPT !.editing = None, !.name = ""]
    BY <1>0, <2>2 DEF BookPage
  <2>3. CASE v = u
    BY <2>3
  <2> QED
    BY <1>1, <1>2, <2>1, <2>2, <2>3
<1> QED
  BY <1>2, <1>3

LEMMA BookLoadedStep ==
  ASSUME BookPageInv, ~ui.crossed, NEW c \in calls, Book!Loaded(c)
  PROVE  BookPageInv'
<1> DEFINE f == FALSE
           q == ui.crossed \/ c.n < ui.of
<1>0. /\ ui \in BookPage /\ world' = world /\ calls' = calls \ {c} /\ c.kind = "load" /\ c.book # None
      /\ c \in BookLoad /\ c.n \in Nat /\ c.book \in Books /\ ui.of \in Nat /\ ui.reads \in Nat
      /\ calls \subseteq BookCall /\ f \in BOOLEAN /\ q \in BOOLEAN /\ (~q => c.n >= ui.of)
  <2>1. world' = world /\ calls' = calls \ {c} /\ c.kind = "load" /\ c.book # None
    BY DEF Book!Loaded
  <2>2. c \in BookLoad /\ ui \in BookPage /\ calls \subseteq BookCall /\ ui.of \in Nat /\ ui.reads \in Nat
    BY <2>1, BookTypes, BookKinds
  <2>3. c.n \in Nat /\ c.book \in Books
    BY <2>1, <2>2 DEF BookLoad
  <2>4. q \in BOOLEAN /\ (~q => c.n >= ui.of)
    BY <2>2, <2>3 DEF BookPage
  <2> QED
    BY <2>1, <2>2, <2>3, <2>4
<1>1. PICK u : u = [ui EXCEPT !.book = c.book, !.of = c.n, !.loading = f, !.crossed = q]
  OBVIOUS
<1>2. ui' = Book!Closed(u, c)
  BY <1>0, <1>1 DEF Book!Loaded, BookPage
<1> HIDE DEF f, q
<1>3. /\ u \in BookPage /\ u.of = c.n /\ u.reads = ui.reads /\ u.book = c.book /\ (u.crossed <=> q)
      /\ (u.excused <=> ui.excused) /\ (u.cut <=> ui.cut) /\ u.editing = ui.editing
  BY <1>0, <1>1 DEF BookPage
<1>4. /\ ui' \in BookPage /\ ui'.of = c.n /\ ui'.reads = ui.reads /\ ui'.book = c.book /\ (ui'.crossed <=> q)
      /\ (ui'.excused <=> ui.excused) /\ (ui'.cut <=> ui.cut) /\ ui'.editing \in {ui.editing, None}
  BY <1>2, <1>3, BookClosed
<1>5. /\ \A d \in calls : d.kind = "load" => d.n =< ui.reads /\ d.n # ui.of
      /\ \A d, e \in calls : d.kind = "load" /\ e.kind = "load" /\ d.n = e.n => d = e
  BY DEF BookPageInv, BookLoadsInv
<1>6. BookLoadsInv'
  <2>1. ASSUME ~q, ~ui.excused
        PROVE  /\ c.n = ui.reads => c.book = world.book
               /\ c.n # ui.reads => \E d \in calls' : d.kind = "load" /\ d.n = ui.reads
               /\ \A d \in calls' : d.kind = "load" /\ d.n = ui.reads => d.book \in {None, world.book}
    <3>1. /\ ui.of # ui.reads => \E d \in calls : d.kind = "load" /\ d.n = ui.reads
          /\ \A d \in calls : d.kind = "load" /\ d.n = ui.reads => d.book \in {None, world.book}
      BY <2>1 DEF BookPageInv, BookLoadsInv
    <3>2. c.n =< ui.reads /\ c.n >= ui.of /\ c.n # ui.of
      BY <1>0, <1>5, <2>1
    <3>3. ui.of # ui.reads
      BY <1>0, <3>2
    <3> QED
      BY <1>0, <3>1, <3>3
  <2> QED
    BY <1>0, <1>4, <1>5, <2>1 DEF BookLoadsInv
<1>7. UsesInv'
  BY <1>0 DEF BookPageInv, UsesInv
<1>8. GoneInv'
  <2> SUFFICES ASSUME ~q, ~ui.excused PROVE Gone(c.book, c.n)' /\ \A d \in calls' : d.kind = "load" /\ d.n > c.n => Gone(d.book, d.n)'
    BY <1>4 DEF GoneInv
  <2>1. c.n > ui.of
    BY <1>0, <1>5
  <2>2. \A d \in calls : d.kind = "load" /\ d.n > ui.of => Gone(d.book, d.n)
    BY DEF BookPageInv, GoneInv
  <2>3. ASSUME NEW d \in calls, d.kind = "load", d.n >= c.n PROVE Gone(d.book, d.n)'
    <3>0. d.n \in Nat
      BY <1>0, <2>3, BookKinds
    <3>1. Gone(d.book, d.n)
      BY <1>0, <2>1, <2>2, <2>3, <3>0
    <3>2. ASSUME NEW e \in calls, e.kind = "load", e.n > d.n PROVE e \in calls'
      <4>1. e.n \in Nat
        BY <1>0, <3>2, BookKinds
      <4> QED
        BY <1>0, <2>3, <3>0, <3>2, <4>1
    <3> QED
      BY <1>0, <3>1, <3>2 DEF Gone
  <2>4. \A d \in calls' : d \in calls
    BY <1>0
  <2>5. \A d \in calls' : d.kind = "load" => d.n \in Nat
    BY <1>0, BookKinds
  <2>6. Gone(c.book, c.n)'
    BY <1>0, <2>3
  <2> QED
    BY <1>0, <2>3, <2>4, <2>5, <2>6
<1>9. EditInv'
  BY <1>0, <1>4, BookEditStays
<1> QED
  BY <1>0, <1>4, <1>6, <1>7, <1>8, <1>9, BookTypes DEF BookPageInv, BookTypeOK

LEMMA BookLoadFailedStep ==
  ASSUME BookPageInv, NEW c \in calls, Book!LoadFailed(c)
  PROVE  BookPageInv'
<1> DEFINE f == FALSE
           y == TRUE
<1>0. /\ ui \in BookPage /\ world' = world /\ calls' = calls \ {c} /\ f \in BOOLEAN /\ y \in BOOLEAN /\ y
  BY BookTypes DEF Book!LoadFailed
<1>1. PICK u : u = [ui EXCEPT !.loading = f, !.excused = y]
  OBVIOUS
<1>2. ui' = Book!Closed(u, c)
  BY <1>1 DEF Book!LoadFailed
<1> HIDE DEF f, y
<1>3. u \in BookPage /\ u.of = ui.of /\ u.reads = ui.reads /\ u.excused
  BY <1>0, <1>1 DEF BookPage
<1>4. ui' \in BookPage /\ ui'.of = ui.of /\ ui'.reads = ui.reads /\ ui'.excused
  BY <1>2, <1>3, BookClosed
<1>5. BookLoadsInv'
  BY <1>0, <1>4 DEF BookPageInv, BookLoadsInv
<1>6. UsesInv' /\ GoneInv' /\ EditInv'
  BY <1>0, <1>4 DEF BookPageInv, UsesInv, GoneInv, EditInv
<1> QED
  BY <1>0, <1>4, <1>5, <1>6, BookTypes DEF BookPageInv, BookTypeOK

(* An entry that is changed, of the book that was read.                      *)
LEMMA BookChanged ==
  ASSUME BookPageInv, NEW read \in Book!Read, NEW a \in Contact, NEW entry \in BookEntry, NEW n \in Nat,
         world' = [Book!Change(read, a, entry) EXCEPT !.used[a] = n],
         (IF entry = None THEN 0 ELSE entry.count) =< n,
         \/ world.lost \/ Book!Misread(read) \/ (IF entry = None THEN 0 ELSE entry.count) = n
  PROVE  /\ world' \in BookWorld /\ UsesInv' /\ world'.book[a] = entry
         /\ \A b \in Contact : b # a => world'.book[b] = read[b]
<1> DEFINE book == [read EXCEPT ![a] = entry]
           used == [world.used EXCEPT ![a] = n]
           lost == world.lost \/ Book!Misread(read)
<1>1. /\ read \in Books /\ world \in BookWorld /\ world.used \in [Contact -> Nat] /\ world.lost \in BOOLEAN
  BY BookTypes, BookRead
<1>2. world' = [world EXCEPT !.book = book, !.used = used, !.lost = lost]
  BY <1>1 DEF Book!Change, BookWorld
<1>3. /\ book \in Books /\ used \in [Contact -> Nat] /\ book[a] = entry /\ used[a] = n /\ lost \in BOOLEAN
      /\ \A b \in Contact : b # a => book[b] = read[b] /\ used[b] = world.used[b]
  BY <1>1 DEF Books, Book!Misread
<1>4. \A b \in Contact : /\ Book!Uses(read, b) =< world.used[b]
                         /\ lost \/ Book!Uses(read, b) = world.used[b]
  BY BookRead
<1>5. lost \/ (IF entry = None THEN 0 ELSE entry.count) = n
  OBVIOUS
<1> HIDE DEF book, used, lost
<1>6. world' \in BookWorld /\ world'.book = book /\ world'.used = used /\ (world'.lost <=> lost)
  BY <1>1, <1>2, <1>3 DEF BookWorld
<1>7. \A b \in Contact : Book!Uses(book, b) = IF b = a THEN (IF entry = None THEN 0 ELSE entry.count) ELSE Book!Uses(read, b)
  BY <1>3 DEF Book!Uses
<1>8. UsesInv'
  BY <1>3, <1>4, <1>5, <1>6, <1>7 DEF UsesInv, Book!Uses
<1> QED
  BY <1>3, <1>6, <1>8

LEMMA BookTransferStep ==
  ASSUME BookPageInv, NEW a \in Contact, Book!RecordSuccessfulTransfer(a)
  PROVE  BookPageInv'
<1> DEFINE y == TRUE
           n == world.used[a] + 1
<1>0. ui \in BookPage /\ calls' = calls /\ y \in BOOLEAN /\ y /\ "" \in BookName /\ ui' = [ui EXCEPT !.excused = y]
  BY BookTypes, BookUnnamed DEF Book!RecordSuccessfulTransfer
<1>1. PICK read \in Book!Read :
        world' = [Book!Change(read, a, IF read[a] = None THEN [name |-> "", count |-> 1] ELSE [read[a] EXCEPT !.count = @ + 1])
                    EXCEPT !.used[a] = n]
  BY BookTypes DEF Book!RecordSuccessfulTransfer, Book!Change, BookWorld
<1> DEFINE entry == IF read[a] = None THEN [name |-> "", count |-> 1] ELSE [read[a] EXCEPT !.count = @ + 1]
           old == Book!Uses(read, a)
<1>2. /\ read[a] \in BookEntry /\ old \in Nat /\ world.used[a] \in Nat /\ old =< world.used[a]
      /\ world.lost \/ Book!Misread(read) \/ old = world.used[a]
  BY BookRead
<1>3. entry \in BookEntry /\ (IF entry = None THEN 0 ELSE entry.count) = old + 1
  <2>1. CASE read[a] = None
    <3>1. PICK e : e = [name |-> "", count |-> 1]
      OBVIOUS
    <3>2. e \in [name : BookName, count : Nat] /\ e.count = 1
      BY <1>0, <3>1
    <3>3. entry = e /\ old = 0
      BY <2>1, <3>1 DEF Book!Uses
    <3>4. e \in BookEntry /\ e # None
      BY <3>2, BookAssumption DEF BookEntry, BookName
    <3> HIDE DEF entry, old
    <3> QED
      BY <3>2, <3>3, <3>4
  <2>2. CASE read[a] # None
    <3>1. PICK r \in [name : BookName, count : Nat] : r = read[a]
      BY <1>2, <2>2 DEF BookEntry
    <3>2. PICK e : e = [r EXCEPT !.count = @ + 1]
      OBVIOUS
    <3>3. e \in [name : BookName, count : Nat] /\ e.count = r.count + 1
      BY <3>2
    <3>4. entry = e /\ old = r.count
      BY <2>2, <3>1, <3>2 DEF Book!Uses
    <3> HIDE DEF entry, old
    <3> QED
      BY <3>3, <3>4, BookAssumption DEF BookEntry, BookName
  <2> QED
    BY <2>1, <2>2
<1>4. n \in Nat /\ old + 1 =< n /\ (world.lost \/ Book!Misread(read) \/ old + 1 = n)
  BY <1>2
<1>5. world' = [Book!Change(read, a, entry) EXCEPT !.used[a] = n]
  BY <1>1
<1> HIDE DEF y, n, entry, old
<1>6. world' \in BookWorld /\ UsesInv'
  BY <1>3, <1>4, <1>5, BookChanged
<1>7. ui' \in BookPage /\ ui'.of = ui.of /\ ui'.reads = ui.reads /\ ui'.excused
  BY <1>0 DEF BookPage
<1>8. BookLoadsInv'
  BY <1>0, <1>7 DEF BookPageInv, BookLoadsInv
<1>9. GoneInv' /\ EditInv'
  BY <1>7 DEF GoneInv, EditInv
<1> QED
  BY <1>0, <1>6, <1>7, <1>8, <1>9, BookTypes DEF BookPageInv, BookTypeOK

(* What changed the book loads it again; what it deleted is gone from what   *)
(* that load reads.                                                          *)
LEMMA BookReloads ==
  ASSUME BookPageInv, NEW c \in calls, c.kind # "load", c.then \in {"added", "updated", "deleted"},
         NEW q \in BOOLEAN, ui.excused => q, Book!Reloads(c, [ui EXCEPT !.excused = q]), world' \in BookWorld,
         q \/ c.then = "deleted" \/ \A a \in Contact : world.book[a] # None => world'.book[a] # None
  PROVE  /\ ui' \in BookPage /\ calls' \subseteq BookCall /\ BookLoadsInv' /\ GoneInv'
         /\ ui'.editing = ui.editing /\ (ui'.cut <=> ui.cut) /\ (ui'.crossed <=> ui.crossed) /\ (ui'.excused <=> q)
         /\ \A d \in calls' : d.kind # "load" => d \in calls
<1> DEFINE y == TRUE
           n == ui.reads + 1
<1>0. /\ ui \in BookPage /\ ui.reads \in Nat /\ ui.of \in Nat /\ ui.of =< ui.reads /\ calls \subseteq BookCall
      /\ \A d \in calls : d.kind = "load" => d.n =< ui.reads /\ d.n # ui.of /\ d.n \in Nat
      /\ \A d, e \in calls : d.kind = "load" /\ e.kind = "load" /\ d.n = e.n => d = e
      /\ y \in BOOLEAN /\ n \in Nat /\ n > ui.reads
  <2>1. \A d \in calls : d.kind = "load" => d.n \in Nat
    BY BookTypes, BookKinds
  <2>2. /\ ui.of =< ui.reads
        /\ \A d \in calls : d.kind = "load" => d.n =< ui.reads /\ d.n # ui.of
        /\ \A d, e \in calls : d.kind = "load" /\ e.kind = "load" /\ d.n = e.n => d = e
    BY DEF BookPageInv, BookLoadsInv
  <2>3. ui.reads \in Nat /\ n \in Nat /\ n > ui.reads
    BY BookTypes
  <2> QED
    BY <2>1, <2>2, <2>3, BookTypes
<1>1. ui' = [ui EXCEPT !.loading = y, !.reads = n, !.excused = q]
  BY <1>0 DEF Book!Reloads, BookPage
<1>2. PICK d : d = [kind |-> "load", n |-> n, book |-> None, then |-> c.then]
  OBVIOUS
<1>3. calls' = (calls \ {c}) \cup {d}
  BY <1>2 DEF Book!Reloads, Book!Load
<1> HIDE DEF y, n
<1>4. d \in BookLoad /\ d.kind = "load" /\ d.n = n /\ d.book = None /\ d.then = c.then
  BY <1>0, <1>2 DEF BookLoad
<1>5. /\ ui' \in BookPage /\ ui'.of = ui.of /\ ui'.reads = n /\ ui'.book = ui.book
      /\ ui'.editing = ui.editing /\ (ui'.cut <=> ui.cut) /\ (ui'.crossed <=> ui.crossed) /\ (ui'.excused <=> q)
  BY <1>0, <1>1 DEF BookPage
<1>6. BookLoadsInv'
  <2>1. ui.of =< n /\ ui.of # n
    BY <1>0
  <2>2. \A e \in calls' : e.kind = "load" => e.n =< n /\ e.n # ui.of /\ (e.n = n => e = d)
    BY <1>0, <1>3, <1>4
  <2>3. \A e, g \in calls' : e.kind = "load" /\ g.kind = "load" /\ e.n = g.n => e = g
    BY <1>0, <1>3, <1>4, <2>2
  <2>4. d \in calls'
    BY <1>3
  <2> QED
    BY <1>4, <1>5, <2>1, <2>2, <2>3, <2>4 DEF BookLoadsInv
<1>7. GoneInv'
  <2> SUFFICES ASSUME ~ui.crossed, ~q
               PROVE  Gone(ui.book, ui.of)' /\ \A e \in calls' : e.kind = "load" /\ e.n > ui.of => Gone(e.book, e.n)'
    BY <1>5 DEF GoneInv
  <2>1. Gone(ui.book, ui.of) /\ \A e \in calls : e.kind = "load" /\ e.n > ui.of => Gone(e.book, e.n)
    BY DEF BookPageInv, GoneInv
  <2>2. \A e \in calls : e.kind = "load" => e \in calls'
    BY <1>3
  <2>3. d \in calls'
    BY <1>3
  <2>4. ASSUME NEW book, NEW m \in Nat, m =< ui.reads, Gone(book, m) PROVE Gone(book, m)'
    <3>1. CASE c.then = "deleted"
      <4>1. d.n > m
        BY <1>0, <1>4, <2>4
      <4> QED
        BY <1>4, <2>3, <3>1, <4>1 DEF Gone
    <3>2. CASE c.then # "deleted"
      BY <2>2, <2>4, <3>2 DEF Gone
    <3> QED
      BY <3>1, <3>2
  <2>5. Gone(ui.book, ui.of)'
    BY <1>0, <1>5, <2>1, <2>4
  <2>6. Gone(None, d.n)'
    BY DEF Gone
  <2> QED
    BY <1>0, <1>3, <1>4, <1>5, <2>1, <2>4, <2>5, <2>6
<1>8. calls' \subseteq BookCall /\ \A e \in calls' : e.kind # "load" => e \in calls
  BY <1>0, <1>3, <1>4 DEF BookCall
<1> QED
  BY <1>5, <1>6, <1>7, <1>8

LEMMA BookSavedStep ==
  ASSUME BookPageInv, NEW c \in calls, Book!Saved(c)
  PROVE  BookPageInv'
<1> DEFINE a == c.address
<1>0. c.kind = "name" /\ a \in Contact /\ c.name \in BookName /\ c.then \in {"added", "updated", "deleted"} /\ ui \in BookPage
  BY BookTypes, BookKinds DEF Book!Saved
<1>1. PICK read \in Book!Read :
        /\ world' = Book!Named(read, a, c.name)
        /\ Book!Reloads(c, [ui EXCEPT !.excused = @ \/ Book!Misread(read)])
  BY DEF Book!Saved
<1> DEFINE entry == IF read[a] = None THEN [name |-> c.name, count |-> 0] ELSE [read[a] EXCEPT !.name = c.name]
           old == Book!Uses(read, a)
           n == world.used[a]
           q == ui.excused \/ Book!Misread(read)
<1>2. /\ read[a] \in BookEntry /\ old \in Nat /\ n \in Nat /\ old =< n
      /\ world.lost \/ Book!Misread(read) \/ old = n
  BY <1>0, BookRead
<1>3. world' = [Book!Change(read, a, entry) EXCEPT !.used[a] = n]
  <2>1. world.used \in [Contact -> Nat] /\ [world.used EXCEPT ![a] = n] = world.used
    BY <1>0, BookTypes
  <2> QED
    BY <1>1, <2>1, BookTypes DEF Book!Named, Book!Change, BookWorld
<1>4. entry \in BookEntry /\ entry # None /\ (IF entry = None THEN 0 ELSE entry.count) = old
  <2>1. CASE read[a] = None
    <3>1. PICK e : e = [name |-> c.name, count |-> 0]
      OBVIOUS
    <3>2. e \in [name : BookName, count : Nat] /\ e.count = 0
      BY <1>0, <3>1
    <3>3. entry = e /\ old = 0
      BY <2>1, <3>1 DEF Book!Uses
    <3> HIDE DEF entry, old
    <3> QED
      BY <3>2, <3>3, BookAssumption DEF BookEntry, BookName
  <2>2. CASE read[a] # None
    <3>1. PICK r \in [name : BookName, count : Nat] : r = read[a]
      BY <1>2, <2>2 DEF BookEntry
    <3>2. PICK e : e = [r EXCEPT !.name = c.name]
      OBVIOUS
    <3>3. e \in [name : BookName, count : Nat] /\ e.count = r.count
      BY <1>0, <3>2
    <3>4. entry = e /\ old = r.count
      BY <2>2, <3>1, <3>2 DEF Book!Uses
    <3> HIDE DEF entry, old
    <3> QED
      BY <3>3, <3>4, BookAssumption DEF BookEntry, BookName
  <2> QED
    BY <2>1, <2>2
<1>5. /\ q \in BOOLEAN /\ (ui.excused => q) /\ Book!Reloads(c, [ui EXCEPT !.excused = q])
      /\ q \/ read = world.book
  BY <1>0, <1>1 DEF BookPage, Book!Misread
<1> HIDE DEF a, entry, old, n, q
<1>6. /\ world' \in BookWorld /\ UsesInv' /\ world'.book[a] = entry
      /\ \A b \in Contact : b # a => world'.book[b] = read[b]
  BY <1>0, <1>2, <1>3, <1>4, BookChanged
<1>7. q \/ \A b \in Contact : world.book[b] # None => world'.book[b] # None
  BY <1>4, <1>5, <1>6
<1>8. /\ ui' \in BookPage /\ calls' \subseteq BookCall /\ BookLoadsInv' /\ GoneInv'
      /\ ui'.editing = ui.editing /\ (ui'.cut <=> ui.cut) /\ (ui'.crossed <=> ui.crossed) /\ (ui'.excused <=> q)
      /\ \A d \in calls' : d.kind # "load" => d \in calls
  BY <1>0, <1>5, <1>6, <1>7, BookReloads
<1>9. EditInv'
  <2>1. q \/ ui.editing = None \/ (world.book[ui.editing] # None => world'.book[ui.editing] # None)
    BY <1>7, BookTypes
  <2> QED
    BY <1>5, <1>8, <2>1, BookEditStays
<1> QED
  BY <1>6, <1>8, <1>9 DEF BookPageInv, BookTypeOK

LEMMA BookDeletedStep ==
  ASSUME BookPageInv, NEW c \in calls, Book!Deleted(c)
  PROVE  BookPageInv'
<1> DEFINE a == c.address
           q == ui.excused
<1>0. /\ c.kind = "delete" /\ a \in Contact /\ c.then = "deleted" /\ Book!Reloads(c, ui)
      /\ ui \in BookPage /\ world \in BookWorld /\ q \in BOOLEAN
  BY BookTypes, BookKinds DEF Book!Deleted, BookPage
<1>1. PICK read \in Book!Read : world' = Book!Removed(read, a)
  BY DEF Book!Deleted
<1>2. Book!Reloads(c, [ui EXCEPT !.excused = q])
  <2>1. [ui EXCEPT !.excused = q] = ui
    BY <1>0 DEF BookPage
  <2> QED
    BY <1>0, <2>1
<1>3. /\ world' \in BookWorld /\ UsesInv'
      /\ \A b \in Contact : b # a => world'.book[b] = world.book[b]
  <2>1. CASE read[a] = None
    BY <1>0, <1>1, <2>1 DEF Book!Removed, BookPageInv, UsesInv
  <2>2. CASE read[a] # None
    <3>1. read = world.book
      BY <1>0, <2>2 DEF Book!Read, Book!Empty
    <3>2. world' = [Book!Change(read, a, None) EXCEPT !.used[a] = 0] /\ None \in BookEntry
      BY <1>1, <2>2 DEF Book!Removed, BookEntry
    <3> QED
      BY <1>0, <3>1, <3>2, BookChanged
  <2> QED
    BY <2>1, <2>2
<1> HIDE DEF a, q
<1>4. /\ ui' \in BookPage /\ calls' \subseteq BookCall /\ BookLoadsInv' /\ GoneInv'
      /\ ui'.editing = ui.editing /\ (ui'.cut <=> ui.cut) /\ (ui'.crossed <=> ui.crossed) /\ (ui'.excused <=> q)
      /\ \A d \in calls' : d.kind # "load" => d \in calls
  BY <1>0, <1>2, <1>3, BookReloads DEF q
<1>5. EditInv'
  <2> SUFFICES ASSUME ~ui.crossed, ~ui.excused, ~ui.cut, ui.editing # None
               PROVE  world'.book[ui.editing] # None /\ \A d \in calls' : d.kind = "delete" => d.address # ui.editing
    BY <1>4 DEF EditInv, q
  <2>1. world.book[ui.editing] # None /\ \A d \in calls : d.kind = "delete" => d.address # ui.editing
    BY DEF BookPageInv, EditInv
  <2>2. a # ui.editing /\ ui.editing \in Contact
    BY <1>0, <2>1, BookTypes DEF a
  <2> QED
    BY <1>3, <1>4, <2>1, <2>2
<1> QED
  BY <1>3, <1>4, <1>5 DEF BookPageInv, BookTypeOK

LEMMA BookTornStep ==
  ASSUME BookPageInv, NEW c \in calls, Book!Torn(c)
  PROVE  BookPageInv'
<1> DEFINE y == TRUE
<1>0. /\ ui \in BookPage /\ world \in BookWorld /\ calls' = calls \ {c} /\ calls \subseteq BookCall
      /\ ui' = [ui EXCEPT !.excused = y] /\ world' = [world EXCEPT !.book = Book!Empty, !.lost = y]
      /\ y \in BOOLEAN /\ y /\ world.used \in [Contact -> Nat]
  BY BookTypes DEF Book!Torn
<1>1. Book!Empty \in Books /\ \A a \in Contact : Book!Uses(Book!Empty, a) = 0
  BY DEF Book!Empty, Book!Uses, Books, BookEntry
<1> HIDE DEF y
<1>2. /\ ui' \in BookPage /\ ui'.of = ui.of /\ ui'.reads = ui.reads /\ ui'.excused
  BY <1>0 DEF BookPage
<1>3. /\ world' \in BookWorld /\ world'.book = Book!Empty /\ world'.used = world.used /\ world'.lost
  BY <1>0, <1>1 DEF BookWorld
<1>4. BookLoadsInv'
  BY <1>0, <1>2 DEF BookPageInv, BookLoadsInv
<1>5. GoneInv' /\ EditInv'
  BY <1>2 DEF GoneInv, EditInv
<1>6. UsesInv'
  <2>1. \A a \in Contact : 0 =< world.used[a]
    BY <1>0
  <2> QED
    BY <1>1, <1>3, <2>1 DEF UsesInv, Book!Uses
<1> QED
  BY <1>0, <1>2, <1>3, <1>4, <1>5, <1>6 DEF BookPageInv, BookTypeOK

LEMMA BookNext == BookPageInv /\ Book!Next => BookPageInv'
BY BookFormStep, BookStartEditStep, BookSavingStep, BookNotSavedStep, BookReadsStep, BookLoadedStep, BookLoadFailedStep,
   BookTransferStep, BookSavedStep, BookDeletedStep, BookTornStep DEF Book!Next

LEMMA BookStutter == BookPageInv /\ UNCHANGED vars => BookPageInv'
<1> SUFFICES ASSUME BookPageInv, ui' = ui, calls' = calls, world' = world PROVE BookPageInv'
  BY DEF vars
<1>1. ui' \in BookPage /\ calls' \subseteq BookCall
  BY BookTypes
<1> QED
  BY <1>1, BookPageStep

LEMMA BookInvImplies == BookPageInv => Book!BookIsShown /\ Book!UsesAreCounted /\ Book!EditIsOfShown
<1> SUFFICES ASSUME BookPageInv PROVE Book!BookIsShown /\ Book!UsesAreCounted /\ Book!EditIsOfShown
  OBVIOUS
<1>1. Book!BookIsShown
  BY DEF BookPageInv, BookLoadsInv, Book!BookIsShown
<1>2. Book!UsesAreCounted
  BY DEF BookPageInv, UsesInv, Book!UsesAreCounted
<1>3. Book!EditIsOfShown
  <2> SUFFICES ASSUME calls = {}, ~ui.crossed, ~ui.excused, ~ui.cut, ui.editing # None PROVE ui.editing \in Book!Shown
    BY DEF Book!EditIsOfShown
  <2>1. ui.book = world.book /\ world.book[ui.editing] # None /\ ui.editing \in Contact /\ world.book \in Books
    BY <1>1, BookTypes DEF Book!BookIsShown, BookPageInv, EditInv
  <2>2. ui.book # None
    BY <2>1, BookAssumption DEF Books, BookEntry, BookName
  <2> QED
    BY <2>1, <2>2 DEF Book!Shown
<1> QED
  BY <1>1, <1>2, <1>3

-----------------------------------------------------------------------------
(* The saved paymasters.                                                     *)
Sponsor == Paymaster \cup {None}
SponsorRows == [Label -> Sponsor]
SponsorPage ==
  [rows : SponsorRows, loading : BOOLEAN, action : Label \cup {None, "add", "preset"}, account : BOOLEAN,
   presets : SUBSET [name : Label, address : Paymaster], default : Sponsor, reads : Nat, of : Nat, toggles : Nat,
   crossed : BOOLEAN, excused : BOOLEAN]
SponsorWorld == [rows : SponsorRows, default : [BOOLEAN -> Sponsor], loose : BOOLEAN]
SponsorLoad == [kind : {"load"}, n : Nat, rows : SponsorRows \cup {None}]
SponsorAdd == [kind : {"add", "preset"}, name : Label, address : Paymaster]
SponsorRemove == [kind : {"remove"}, name : Label, address : Sponsor, default : Sponsor, account : BOOLEAN]
SponsorCall == SponsorLoad \cup SponsorAdd \cup SponsorRemove

SponsorsTypeOK == ui \in SponsorPage /\ calls \subseteq SponsorCall /\ world \in SponsorWorld

(* Loads are numbered; the last of them is shown, or it is under way and     *)
(* has read nothing older than what is saved.                                *)
LoadsInv ==
  /\ ui.of =< ui.reads
  /\ \A c \in calls : c.kind = "load" => c.n =< ui.reads /\ c.n # ui.of
  /\ \A c, d \in calls : c.kind = "load" /\ d.kind = "load" /\ c.n = d.n => c = d
  /\ ~ui.crossed /\ ~ui.excused =>
       /\ ui.of = ui.reads => ui.rows = world.rows
       /\ ui.of # ui.reads => \E c \in calls : c.kind = "load" /\ c.n = ui.reads
       /\ \A c \in calls : c.kind = "load" /\ c.n = ui.reads => c.rows \in {None, world.rows}

(* The star is on what is stored, and the one removal under way knows it.    *)
StarInv ==
  ~world.loose =>
    /\ ui.default = world.default[ui.account]
    /\ \A c \in calls : c.kind = "remove" => ui.account /\ c.account /\ c.default = ui.default
    /\ \A c, d \in calls : c.kind = "remove" /\ d.kind = "remove" => c = d

(* A default is saved under a name that the page, and every list that was    *)
(* read, has it under, or has nothing under.                                 *)
Holds(m) ==
  LET d == world.default[TRUE] IN
  /\ world.rows[m] = d /\ ui.rows[m] \in {d, None}
  /\ \A c \in calls : c.kind = "load" /\ c.rows # None => c.rows[m] \in {d, None}
  /\ \A c \in calls : c.kind = "remove" /\ c.name = m => c.address = d
HeldInv == ~world.loose /\ world.default[TRUE] # None => \E m \in Label : Holds(m)

SponsorsInv == SponsorsTypeOK /\ LoadsInv /\ StarInv /\ HeldInv

LEMMA SponsorsTypes ==
  ASSUME SponsorsInv
  PROVE  /\ ui \in SponsorPage /\ calls \subseteq SponsorCall /\ world \in SponsorWorld
         /\ ui.rows \in SponsorRows /\ world.rows \in SponsorRows /\ world.default \in [BOOLEAN -> Sponsor]
         /\ ui.default \in Sponsor /\ ui.account \in BOOLEAN /\ ui.reads \in Nat /\ ui.of \in Nat
         /\ world.loose \in BOOLEAN
BY DEF SponsorsInv, SponsorsTypeOK, SponsorPage, SponsorWorld

LEMMA SponsorsKinds ==
  /\ \A c \in SponsorLoad : c.kind = "load"
  /\ \A c \in SponsorAdd : c.kind # "load" /\ c.kind # "remove"
  /\ \A c \in SponsorRemove : c.kind = "remove"
  /\ \A c \in SponsorCall : /\ c.kind = "load" => c \in SponsorLoad
                            /\ c.kind = "remove" => c \in SponsorRemove
                            /\ c.kind \in {"add", "preset"} => c \in SponsorAdd
BY DEF SponsorCall, SponsorLoad, SponsorAdd, SponsorRemove

LEMMA SponsorsInit == Sponsors!Init => SponsorsInv
<1> SUFFICES ASSUME Sponsors!Init PROVE SponsorsInv
  OBVIOUS
<1> DEFINE f == FALSE
           y == TRUE
           rows == [m \in Label |-> None]
           default == [known \in BOOLEAN |-> None]
<1>1. /\ ui = [rows |-> rows, loading |-> y, action |-> None, account |-> f, presets |-> {}, default |-> None,
               reads |-> 1, of |-> 0, toggles |-> 0, crossed |-> f, excused |-> f]
      /\ calls = {[kind |-> "load", n |-> 1, rows |-> None]}
      /\ world = [rows |-> rows, default |-> default, loose |-> f]
  BY DEF Sponsors!Init, Sponsors!Load
<1>2. /\ f \in BOOLEAN /\ y \in BOOLEAN /\ rows \in SponsorRows /\ default \in [BOOLEAN -> Sponsor]
      /\ {} \in SUBSET [name : Label, address : Paymaster]
      /\ \A b \in BOOLEAN : default[b] = None
  BY DEF SponsorRows, Sponsor
<1> HIDE DEF f, y, rows, default
<1>3. ui \in SponsorPage /\ ui.default = None /\ ui.of = 0 /\ ui.reads = 1 /\ ui.account \in BOOLEAN
  BY <1>1, <1>2 DEF SponsorPage, Sponsor
<1>4. world \in SponsorWorld /\ world.default = default
  BY <1>1, <1>2 DEF SponsorWorld
<1>5. PICK c : c = [kind |-> "load", n |-> 1, rows |-> None]
  OBVIOUS
<1>6. c \in SponsorLoad /\ c.kind = "load" /\ c.n = 1 /\ c.rows = None /\ calls = {c}
  BY <1>1, <1>5 DEF SponsorLoad
<1>7. calls \subseteq SponsorCall
  BY <1>6 DEF SponsorCall
<1>8. LoadsInv
  BY <1>3, <1>6 DEF LoadsInv
<1>9. StarInv /\ HeldInv
  BY <1>2, <1>3, <1>4, <1>6 DEF StarInv, HeldInv
<1> QED
  BY <1>3, <1>4, <1>7, <1>8, <1>9 DEF SponsorsInv, SponsorsTypeOK

LEMMA SponsorsLoadsStay ==
  ASSUME SponsorsInv, \A c \in calls' : c \in calls \/ c.kind # "load",
         \A c \in calls : c.kind = "load" => c \in calls',
         ui'.of = ui.of, ui'.reads = ui.reads, ui'.rows = ui.rows, ui'.crossed <=> ui.crossed,
         ui'.excused <=> ui.excused, world'.rows = world.rows
  PROVE  LoadsInv'
BY DEF SponsorsInv, LoadsInv

LEMMA SponsorsStarStays ==
  ASSUME SponsorsInv, ~world.loose, \A c \in calls' : c.kind = "remove" => c \in calls,
         ui'.default = ui.default, ui'.account = ui.account, world'.default = world.default
  PROVE  StarInv'
<1>1. world'.default[ui'.account] = world.default[ui.account]
  OBVIOUS
<1> QED
  BY <1>1 DEF SponsorsInv, StarInv

LEMMA SponsorsHeldStays ==
  ASSUME SponsorsInv, ~world.loose, world'.default[TRUE] = world.default[TRUE],
         world'.loose \/ \A m \in Label : world.rows[m] # None => world'.rows[m] = world.rows[m],
         ui'.rows = ui.rows \/ \E c \in calls : c.kind = "load" /\ c.rows # None /\ ui'.rows = c.rows,
         \A c \in calls' : c.kind = "load" /\ c.rows # None => c \in calls \/ c.rows \in Sponsors!Read,
         \A c \in calls' : c.kind = "remove" => c \in calls \/ (c.address = ui.rows[c.name] /\ c.address # None)
  PROVE  HeldInv'
<1> SUFFICES ASSUME ~world'.loose, world.default[TRUE] # None
             PROVE  \E m \in Label : Holds(m)'
  BY DEF HeldInv
<1>1. PICK m \in Label : Holds(m)
  BY DEF SponsorsInv, HeldInv
<1>2. world'.rows[m] = world.default[TRUE] /\ ui'.rows[m] \in {world.default[TRUE], None}
  BY <1>1 DEF Holds
<1>3. \A c \in calls' : c.kind = "load" /\ c.rows # None => c.rows[m] \in {world.default[TRUE], None}
  BY <1>1 DEF Holds, Sponsors!Read, Sponsors!Empty
<1>4. \A c \in calls' : c.kind = "remove" /\ c.name = m => c.address = world.default[TRUE]
  BY <1>1 DEF Holds
<1>5. Holds(m)'
  BY <1>2, <1>3, <1>4 DEF Holds
<1> QED
  BY <1>5

LEMMA SponsorsAccountStep ==
  ASSUME SponsorsInv, ~world.loose, Sponsors!AccountKnown
  PROVE  SponsorsInv'
<1> DEFINE y == TRUE
<1>0. ui \in SponsorPage /\ world' = world /\ calls' = calls /\ ~ui.account /\ y \in BOOLEAN /\ y
  BY SponsorsTypes DEF Sponsors!AccountKnown
<1>1. ui' = [ui EXCEPT !.account = y, !.default = world.default[TRUE]]
  BY DEF Sponsors!AccountKnown
<1>2. world.default[TRUE] \in Sponsor
  BY SponsorsTypes
<1> HIDE DEF y
<1>3. /\ ui' \in SponsorPage /\ ui'.of = ui.of /\ ui'.reads = ui.reads /\ ui'.rows = ui.rows
      /\ (ui'.crossed <=> ui.crossed) /\ (ui'.excused <=> ui.excused)
      /\ ui'.default = world.default[TRUE] /\ ui'.account
  BY <1>0, <1>1, <1>2 DEF SponsorPage
<1>4. LoadsInv'
  BY <1>0, <1>3, SponsorsLoadsStay
<1>5. HeldInv'
  BY <1>0, <1>3, SponsorsHeldStays
<1>6. StarInv'
  <2>1. world'.default[ui'.account] = world.default[TRUE]
    BY <1>0, <1>3
  <2>2. \A c \in calls' : c.kind # "remove"
    BY <1>0 DEF SponsorsInv, StarInv
  <2> QED
    BY <1>3, <2>1, <2>2 DEF StarInv
<1> QED
  BY <1>0, <1>3, <1>4, <1>5, <1>6, SponsorsTypes DEF SponsorsInv, SponsorsTypeOK

LEMMA SponsorsToggleStep ==
  ASSUME SponsorsInv, ~world.loose, ~ui.crossed, NEW a \in Paymaster, Sponsors!HandleToggleDefault(a)
  PROVE  SponsorsInv'
<1>0. ui \in SponsorPage /\ world \in SponsorWorld /\ calls' = calls /\ ui.account \in BOOLEAN
  BY SponsorsTypes DEF Sponsors!HandleToggleDefault
<1> DEFINE d == IF ui.default = a THEN None ELSE a
           n == ui.toggles + 1
           q == world.loose \/ Sponsors!Removing \cup Sponsors!Loading # {} \/ ui.excused
           default == [world.default EXCEPT ![ui.account] = d]
<1>1. /\ ui' = [ui EXCEPT !.default = d, !.toggles = n]
      /\ world' = [world EXCEPT !.default = default, !.loose = q]
  BY <1>0 DEF Sponsors!HandleToggleDefault, Sponsors!StoreDefault, SponsorWorld
<1>2. d \in Sponsor /\ n \in Nat /\ (d = a \/ d = None)
  BY <1>0 DEF Sponsor, SponsorPage
<1>3. PICK m \in Label : ui.rows[m] = a
  BY DEF Sponsors!HandleToggleDefault
<1>4. /\ q \in BOOLEAN
      /\ ~q => ~ui.excused /\ (\A c \in calls : c.kind # "remove" /\ c.kind # "load")
  BY <1>0 DEF Sponsors!Removing, Sponsors!Loading, SponsorPage
<1>5. /\ default \in [BOOLEAN -> Sponsor] /\ default[ui.account] = d
      /\ ~ui.account => default[TRUE] = world.default[TRUE]
  <2>1. world.default \in [BOOLEAN -> Sponsor]
    BY SponsorsTypes
  <2> QED
    BY <1>0, <1>2, <2>1
<1>6. ui.account => default[TRUE] = d
  BY <1>5
<1> HIDE DEF d, n, q, default
<1>7. /\ ui' \in SponsorPage /\ ui'.of = ui.of /\ ui'.reads = ui.reads /\ ui'.rows = ui.rows
      /\ (ui'.crossed <=> ui.crossed) /\ (ui'.excused <=> ui.excused)
      /\ ui'.default = d /\ ui'.account = ui.account
  BY <1>0, <1>1, <1>2 DEF SponsorPage
<1>8. world' \in SponsorWorld /\ world'.rows = world.rows /\ world'.default = default /\ (world'.loose <=> q)
  BY <1>0, <1>1, <1>4, <1>5 DEF SponsorWorld
<1>9. LoadsInv'
  BY <1>0, <1>7, <1>8, SponsorsLoadsStay
<1>10. StarInv'
  BY <1>0, <1>4, <1>5, <1>7, <1>8 DEF StarInv
<1>11. HeldInv'
  <2>1. CASE q
    BY <1>8, <2>1 DEF HeldInv
  <2>2. CASE ~q /\ ~ui.account
    BY <1>0, <1>5, <1>7, <1>8, <2>2, SponsorsHeldStays
  <2>3. CASE ~q /\ ui.account
    <3>1. ui.rows = world.rows
      <4>1. ui.of = ui.reads
        BY <1>4, <2>3 DEF SponsorsInv, LoadsInv
      <4> QED
        BY <1>4, <2>3, <4>1 DEF SponsorsInv, LoadsInv
    <3>2. d = a => Holds(m)'
      BY <1>0, <1>3, <1>4, <1>6, <1>7, <1>8, <2>3, <3>1 DEF Holds
    <3>3. world'.default[TRUE] = d
      BY <1>6, <1>8, <2>3
    <3> QED
      BY <1>2, <3>2, <3>3 DEF HeldInv
  <2> QED
    BY <2>1, <2>2, <2>3
<1> QED
  BY <1>0, <1>7, <1>8, <1>9, <1>10, <1>11, SponsorsTypes DEF SponsorsInv, SponsorsTypeOK

LEMMA SponsorsReadsStep ==
  ASSUME SponsorsInv, ~world.loose, NEW c \in calls, Sponsors!Reads(c)
  PROVE  SponsorsInv'
<1>a. PICK read \in Sponsors!Read :
        /\ calls' = (calls \ {c}) \cup {[c EXCEPT !.rows = read]}
        /\ ui' = [ui EXCEPT !.excused = @ \/ read # world.rows]
  BY DEF Sponsors!Reads
<1> DEFINE q == ui.excused \/ read # world.rows
<1>0. /\ ui \in SponsorPage /\ world' = world /\ c.kind = "load" /\ c \in SponsorLoad /\ calls \subseteq SponsorCall
      /\ read \in SponsorRows /\ c.rows = None /\ q \in BOOLEAN /\ (~q => ~ui.excused /\ read = world.rows)
  BY SponsorsTypes, SponsorsKinds DEF Sponsors!Reads, Sponsors!Read, Sponsors!Empty, SponsorRows, Sponsor, SponsorPage
<1>b. ui' = [ui EXCEPT !.excused = q]
  BY <1>a, <1>0 DEF SponsorPage
<1> HIDE DEF q
<1>1. PICK d : d = [c EXCEPT !.rows = read]
  OBVIOUS
<1>2. d \in SponsorLoad /\ d.kind = "load" /\ d.n = c.n /\ d.rows = read /\ calls' = (calls \ {c}) \cup {d}
  BY <1>a, <1>0, <1>1 DEF SponsorLoad
<1>c. /\ ui' \in SponsorPage /\ ui'.of = ui.of /\ ui'.reads = ui.reads /\ ui'.rows = ui.rows
      /\ (ui'.crossed <=> ui.crossed) /\ (ui'.excused <=> q) /\ ui'.default = ui.default /\ ui'.account = ui.account
  BY <1>0, <1>b DEF SponsorPage
<1>3. LoadsInv'
  <2>1. \A e \in calls' : e.kind = "load" => e.n =< ui.reads /\ e.n # ui.of
    BY <1>0, <1>2 DEF SponsorsInv, LoadsInv
  <2>2. \A e, g \in calls' : e.kind = "load" /\ g.kind = "load" /\ e.n = g.n => e = g
    BY <1>0, <1>2 DEF SponsorsInv, LoadsInv
  <2>3. ASSUME ~ui.crossed, ~q
        PROVE  /\ ui.of = ui.reads => ui.rows = world.rows
               /\ ui.of # ui.reads => \E e \in calls' : e.kind = "load" /\ e.n = ui.reads
               /\ \A e \in calls' : e.kind = "load" /\ e.n = ui.reads => e.rows \in {None, world.rows}
    <3>1. /\ ui.of = ui.reads => ui.rows = world.rows
          /\ ui.of # ui.reads => \E e \in calls : e.kind = "load" /\ e.n = ui.reads
          /\ \A e \in calls : e.kind = "load" /\ e.n = ui.reads => e.rows \in {None, world.rows}
      BY <1>0, <2>3 DEF SponsorsInv, LoadsInv
    <3>2. \A e \in calls : e = c \/ e \in calls'
      BY <1>2
    <3>3. d \in calls' /\ read = world.rows
      BY <1>0, <1>2, <2>3
    <3> QED
      BY <1>2, <3>1, <3>2, <3>3
  <2> QED
    BY <1>0, <1>c, <2>1, <2>2, <2>3 DEF SponsorsInv, LoadsInv
<1>4. StarInv'
  BY <1>0, <1>2, <1>c, SponsorsStarStays
<1>5. HeldInv'
  BY <1>0, <1>2, <1>c, SponsorsHeldStays
<1>6. calls' \subseteq SponsorCall
  BY <1>0, <1>2 DEF SponsorCall
<1> QED
  BY <1>0, <1>3, <1>4, <1>5, <1>6, <1>c, SponsorsTypes DEF SponsorsInv, SponsorsTypeOK

LEMMA SponsorsLoadedStep ==
  ASSUME SponsorsInv, ~world.loose, NEW c \in calls, Sponsors!Loaded(c)
  PROVE  SponsorsInv'
<1>0. /\ ui \in SponsorPage /\ world' = world /\ calls' = calls \ {c} /\ c.kind = "load" /\ c.rows # None
      /\ c \in SponsorLoad /\ c.n \in Nat /\ c.rows \in SponsorRows /\ ui.of \in Nat /\ ui.reads \in Nat
  BY SponsorsTypes, SponsorsKinds DEF Sponsors!Loaded, SponsorLoad
<1>1. PICK found \in SUBSET [name : Label, address : Paymaster] :
        ui' = [ui EXCEPT !.rows = c.rows, !.presets = found, !.of = c.n, !.loading = FALSE, !.action = None,
                         !.crossed = ui.crossed \/ c.n < ui.of]
  <2>1. PICK found \in {Suggested, {}} :
          ui' = [ui EXCEPT !.rows = c.rows, !.presets = found, !.of = c.n, !.loading = FALSE, !.action = None,
                           !.crossed = ui.crossed \/ c.n < ui.of]
    BY <1>0 DEF Sponsors!Loaded, Sponsors!GetPaymasterPresets, SponsorPage
  <2>2. {} \in SUBSET [name : Label, address : Paymaster]
    OBVIOUS
  <2>3. found \in SUBSET [name : Label, address : Paymaster]
    BY <2>1, <2>2, SponsorsAssumption
  <2> QED
    BY <2>1, <2>3
<1> DEFINE f == FALSE
           q == ui.crossed \/ c.n < ui.of
<1>2. ui' = [ui EXCEPT !.rows = c.rows, !.presets = found, !.of = c.n, !.loading = f, !.action = None, !.crossed = q]
  BY <1>1
<1>3. f \in BOOLEAN /\ q \in BOOLEAN /\ (~q => ~ui.crossed /\ c.n >= ui.of)
  BY <1>0 DEF SponsorPage
<1> HIDE DEF f, q
<1>4. /\ ui' \in SponsorPage /\ ui'.of = c.n /\ ui'.reads = ui.reads /\ ui'.rows = c.rows
      /\ (ui'.crossed <=> q) /\ (ui'.excused <=> ui.excused) /\ ui'.default = ui.default /\ ui'.account = ui.account
  BY <1>0, <1>2, <1>3 DEF SponsorPage
<1>5. /\ \A d \in calls : d.kind = "load" => d.n =< ui.reads /\ d.n # ui.of
      /\ \A d, e \in calls : d.kind = "load" /\ e.kind = "load" /\ d.n = e.n => d = e
  BY DEF SponsorsInv, LoadsInv
<1>6. LoadsInv'
  <2>1. ASSUME ~q, ~ui.excused
        PROVE  /\ c.n = ui.reads => c.rows = world.rows
               /\ c.n # ui.reads => \E d \in calls' : d.kind = "load" /\ d.n = ui.reads
               /\ \A d \in calls' : d.kind = "load" /\ d.n = ui.reads => d.rows \in {None, world.rows}
    <3>1. /\ ui.of # ui.reads => \E d \in calls : d.kind = "load" /\ d.n = ui.reads
          /\ \A d \in calls : d.kind = "load" /\ d.n = ui.reads => d.rows \in {None, world.rows}
      BY <1>3, <2>1 DEF SponsorsInv, LoadsInv
    <3>2. c.n =< ui.reads /\ c.n >= ui.of /\ c.n # ui.of
      BY <1>0, <1>3, <1>5, <2>1
    <3>3. ui.of # ui.reads
      BY <1>0, <3>2
    <3> QED
      BY <1>0, <3>1, <3>3
  <2> QED
    BY <1>0, <1>4, <1>5, <2>1 DEF LoadsInv
<1>7. StarInv'
  BY <1>0, <1>4, SponsorsStarStays
<1>8. HeldInv'
  BY <1>0, <1>4, SponsorsHeldStays
<1> QED
  BY <1>0, <1>4, <1>6, <1>7, <1>8, SponsorsTypes DEF SponsorsInv, SponsorsTypeOK

LEMMA SponsorsFailedStep ==
  ASSUME SponsorsInv, ~world.loose, NEW c \in calls, Sponsors!LoadFailed(c) \/ Sponsors!Failed(c)
  PROVE  SponsorsInv'
<1>0. ui \in SponsorPage /\ world' = world /\ calls' = calls \ {c}
  BY SponsorsTypes DEF Sponsors!LoadFailed, Sponsors!Failed
<1> DEFINE f == FALSE
           y == TRUE
<1>1. f \in BOOLEAN /\ y \in BOOLEAN /\ y
  OBVIOUS
<1>2. CASE Sponsors!LoadFailed(c)
  <2>1. ui' = [ui EXCEPT !.loading = f, !.action = None, !.excused = y]
    BY <1>2 DEF Sponsors!LoadFailed
  <2> HIDE DEF f, y
  <2>2. /\ ui' \in SponsorPage /\ ui'.of = ui.of /\ ui'.reads = ui.reads /\ ui'.rows = ui.rows
        /\ ui'.excused /\ ui'.default = ui.default /\ ui'.account = ui.account
    BY <1>0, <1>1, <2>1 DEF SponsorPage
  <2>3. LoadsInv'
    BY <1>0, <2>2 DEF SponsorsInv, LoadsInv
  <2>4. StarInv'
    BY <1>0, <2>2, SponsorsStarStays
  <2>5. HeldInv'
    BY <1>0, <2>2, SponsorsHeldStays
  <2> QED
    BY <1>0, <2>2, <2>3, <2>4, <2>5, SponsorsTypes DEF SponsorsInv, SponsorsTypeOK
<1>3. CASE Sponsors!Failed(c)
  <2>1. ui' = [ui EXCEPT !.action = None] /\ c.kind # "load"
    BY <1>3 DEF Sponsors!Failed
  <2>2. /\ ui' \in SponsorPage /\ ui'.of = ui.of /\ ui'.reads = ui.reads /\ ui'.rows = ui.rows
        /\ (ui'.crossed <=> ui.crossed) /\ (ui'.excused <=> ui.excused)
        /\ ui'.default = ui.default /\ ui'.account = ui.account
    BY <1>0, <2>1 DEF SponsorPage
  <2>3. LoadsInv'
    BY <1>0, <2>1, <2>2, SponsorsLoadsStay
  <2>4. StarInv'
    BY <1>0, <2>2, SponsorsStarStays
  <2>5. HeldInv'
    BY <1>0, <2>2, SponsorsHeldStays
  <2> QED
    BY <1>0, <2>2, <2>3, <2>4, <2>5, SponsorsTypes DEF SponsorsInv, SponsorsTypeOK
<1> QED
  BY <1>2, <1>3

LEMMA SponsorsAddingStep ==
  ASSUME SponsorsInv, ~world.loose, NEW kind \in {"add", "preset"}, NEW m \in Label, NEW a \in Paymaster,
         Sponsors!Adding(kind, m, a)
  PROVE  SponsorsInv'
<1>0. /\ ui \in SponsorPage /\ world' = world /\ calls \subseteq SponsorCall /\ ui' = [ui EXCEPT !.action = kind]
      /\ calls' = calls \cup {[kind |-> kind, name |-> m, address |-> a]}
  BY SponsorsTypes DEF Sponsors!Adding
<1>1. PICK c : c = [kind |-> kind, name |-> m, address |-> a]
  OBVIOUS
<1>2. c \in SponsorAdd /\ calls' = calls \cup {c}
  BY <1>0, <1>1 DEF SponsorAdd
<1>3. c.kind # "load" /\ c.kind # "remove"
  BY <1>2, SponsorsKinds
<1>4. /\ ui' \in SponsorPage /\ ui'.of = ui.of /\ ui'.reads = ui.reads /\ ui'.rows = ui.rows
      /\ (ui'.crossed <=> ui.crossed) /\ (ui'.excused <=> ui.excused)
      /\ ui'.default = ui.default /\ ui'.account = ui.account
  BY <1>0 DEF SponsorPage
<1>5. LoadsInv'
  BY <1>0, <1>2, <1>3, <1>4, SponsorsLoadsStay
<1>6. StarInv'
  BY <1>0, <1>2, <1>3, <1>4, SponsorsStarStays
<1>7. HeldInv'
  BY <1>0, <1>2, <1>3, <1>4, SponsorsHeldStays
<1> QED
  BY <1>0, <1>2, <1>4, <1>5, <1>6, <1>7, SponsorsTypes DEF SponsorsInv, SponsorsTypeOK, SponsorCall

LEMMA SponsorsRemoveStep ==
  ASSUME SponsorsInv, ~world.loose, NEW m \in Label, Sponsors!HandleRemovePaymaster(m)
  PROVE  SponsorsInv'
<1>0. /\ ui \in SponsorPage /\ world \in SponsorWorld /\ calls \subseteq SponsorCall /\ ui.rows[m] \in Sponsor
      /\ ui.default \in Sponsor /\ ui.account \in BOOLEAN
      /\ ui' = [ui EXCEPT !.action = m] /\ ui.rows[m] # None
  BY SponsorsTypes DEF Sponsors!HandleRemovePaymaster, SponsorRows
<1> DEFINE q == world.loose \/ ~ui.account \/ Sponsors!Removing # {}
<1>1. world' = [world EXCEPT !.loose = q]
  BY <1>0 DEF Sponsors!HandleRemovePaymaster, SponsorWorld
<1>2. q \in BOOLEAN /\ (~q => ui.account /\ \A c \in calls : c.kind # "remove")
  BY <1>0 DEF SponsorWorld, Sponsors!Removing
<1> HIDE DEF q
<1>3. PICK c : c = [kind |-> "remove", name |-> m, address |-> ui.rows[m], default |-> ui.default, account |-> ui.account]
  OBVIOUS
<1>4. /\ c \in SponsorRemove /\ calls' = calls \cup {c} /\ c.kind = "remove" /\ c.name = m /\ c.address = ui.rows[m]
      /\ c.default = ui.default /\ c.account = ui.account
  BY <1>0, <1>3 DEF SponsorRemove, Sponsors!HandleRemovePaymaster
<1>5. /\ ui' \in SponsorPage /\ ui'.of = ui.of /\ ui'.reads = ui.reads /\ ui'.rows = ui.rows
      /\ (ui'.crossed <=> ui.crossed) /\ (ui'.excused <=> ui.excused)
      /\ ui'.default = ui.default /\ ui'.account = ui.account
  BY <1>0 DEF SponsorPage
<1>6. world' \in SponsorWorld /\ world'.rows = world.rows /\ world'.default = world.default /\ (world'.loose <=> q)
  BY <1>0, <1>1, <1>2 DEF SponsorWorld
<1>7. LoadsInv'
  BY <1>4, <1>5, <1>6, SponsorsLoadsStay
<1>8. HeldInv'
  BY <1>0, <1>4, <1>5, <1>6, SponsorsHeldStays
<1>9. StarInv'
  <2> SUFFICES ASSUME ~q PROVE StarInv'
    BY <1>6 DEF StarInv
  <2>1. ui.account /\ \A d \in calls' : d.kind = "remove" => d = c
    BY <1>2, <1>4
  <2>2. ui.default = world.default[ui.account]
    BY DEF SponsorsInv, StarInv
  <2> QED
    BY <1>4, <1>5, <1>6, <2>1, <2>2 DEF StarInv
<1> QED
  BY <1>0, <1>4, <1>5, <1>6, <1>7, <1>8, <1>9 DEF SponsorsInv, SponsorsTypeOK, SponsorCall

(* What changed the list loads it again. *)
LEMMA SponsorsReload ==
  ASSUME SponsorsInv, NEW c \in calls, c.kind # "load", NEW u \in SponsorPage, u.of = ui.of, u.reads = ui.reads,
         u.crossed <=> ui.crossed, u.excused <=> ui.excused, u.rows = ui.rows, Sponsors!Reloaded(c, u)
  PROVE  /\ ui' \in SponsorPage /\ ui'.default = u.default /\ ui'.account = u.account /\ ui'.rows = ui.rows
         /\ calls' \subseteq SponsorCall /\ LoadsInv'
         /\ \A d \in calls' : (d \in calls /\ d # c) \/ (d.kind = "load" /\ d.rows = None)
<1> DEFINE y == TRUE
           n == ui.reads + 1
<1>0. /\ ui.reads \in Nat /\ ui.of \in Nat /\ ui.of =< ui.reads /\ calls \subseteq SponsorCall
      /\ \A d \in calls : d.kind = "load" => d.n =< ui.reads /\ d.n # ui.of /\ d.n \in Nat
      /\ \A d, e \in calls : d.kind = "load" /\ e.kind = "load" /\ d.n = e.n => d = e
  BY SponsorsTypes, SponsorsKinds DEF SponsorsInv, LoadsInv, SponsorLoad
<1>1. ui' = [u EXCEPT !.loading = y, !.reads = n] /\ y \in BOOLEAN /\ n \in Nat /\ n > ui.reads
  BY <1>0 DEF Sponsors!Reloaded, SponsorPage
<1>c. PICK d : d = [kind |-> "load", n |-> n, rows |-> None]
  OBVIOUS
<1>2. calls' = (calls \ {c}) \cup {d}
  BY <1>c DEF Sponsors!Reloaded, Sponsors!Load
<1> HIDE DEF y, n
<1>3. d \in SponsorLoad /\ d.kind = "load" /\ d.n = n /\ d.rows = None
  BY <1>1, <1>c DEF SponsorLoad
<1>4. /\ ui' \in SponsorPage /\ ui'.default = u.default /\ ui'.account = u.account /\ ui'.rows = ui.rows
      /\ ui'.of = ui.of /\ ui'.reads = n
  BY <1>1 DEF SponsorPage
<1>5. LoadsInv'
  <2>1. ui.of =< n /\ ui.of # n
    BY <1>0, <1>1
  <2>2. \A e \in calls' : e.kind = "load" => e.n =< n /\ e.n # ui.of /\ (e.n = n => e = d)
    BY <1>0, <1>1, <1>2, <1>3
  <2>3. \A e, g \in calls' : e.kind = "load" /\ g.kind = "load" /\ e.n = g.n => e = g
    BY <1>0, <1>1, <1>2, <1>3, <2>2
  <2>4. d \in calls'
    BY <1>2
  <2> QED
    BY <1>3, <1>4, <2>1, <2>2, <2>3, <2>4 DEF LoadsInv
<1> QED
  BY <1>0, <1>2, <1>3, <1>4, <1>5 DEF SponsorCall

(* What is stored loses nothing, or the default is loose.                    *)
LEMMA SponsorsStored ==
  ASSUME SponsorsInv, NEW rows \in SponsorRows, world' = Sponsors!Stored(rows)
  PROVE  /\ world' \in SponsorWorld /\ world'.default = world.default
         /\ world'.loose \/ \A m \in Label : world.rows[m] # None => world'.rows[m] = world.rows[m]
<1> DEFINE q == world.loose \/ \E m \in Label : world.rows[m] \notin {None, rows[m]}
<1>1. world \in SponsorWorld /\ world.loose \in BOOLEAN /\ q \in BOOLEAN
  BY SponsorsTypes
<1>2. world' = [world EXCEPT !.rows = rows, !.loose = q]
  BY <1>1 DEF Sponsors!Stored, SponsorWorld
<1>3. q \/ \A m \in Label : world.rows[m] # None => rows[m] = world.rows[m]
  OBVIOUS
<1> HIDE DEF q
<1>4. world' \in SponsorWorld /\ world'.rows = rows /\ world'.default = world.default /\ (world'.loose <=> q)
  BY <1>1, <1>2 DEF SponsorWorld
<1> QED
  BY <1>3, <1>4

LEMMA SponsorsAddedStep ==
  ASSUME SponsorsInv, ~world.loose, NEW c \in calls, Sponsors!Added(c)
  PROVE  SponsorsInv'
<1>0. /\ ui \in SponsorPage /\ c \in SponsorAdd /\ c.kind # "load" /\ c.kind # "remove"
      /\ c.name \in Label /\ c.address \in Paymaster /\ Sponsors!Reloaded(c, ui) /\ world.rows \in SponsorRows
  BY SponsorsTypes, SponsorsKinds DEF Sponsors!Added, SponsorAdd
<1>1. /\ ui' \in SponsorPage /\ ui'.default = ui.default /\ ui'.account = ui.account /\ ui'.rows = ui.rows
      /\ calls' \subseteq SponsorCall /\ LoadsInv'
      /\ \A d \in calls' : (d \in calls /\ d # c) \/ (d.kind = "load" /\ d.rows = None)
  BY <1>0, SponsorsReload
<1>2. PICK read \in Sponsors!Read : world' = Sponsors!Stored([read EXCEPT ![c.name] = c.address])
  BY DEF Sponsors!Added, Sponsors!SavePaymaster
<1>3. [read EXCEPT ![c.name] = c.address] \in SponsorRows
  BY <1>0 DEF Sponsors!Read, Sponsors!Empty, SponsorRows, Sponsor
<1>4. /\ world' \in SponsorWorld /\ world'.default = world.default
      /\ world'.loose \/ \A m \in Label : world.rows[m] # None => world'.rows[m] = world.rows[m]
  BY <1>2, <1>3, SponsorsStored
<1>5. StarInv'
  BY <1>1, <1>4, SponsorsStarStays
<1>6. HeldInv'
  BY <1>1, <1>4, SponsorsHeldStays
<1> QED
  BY <1>1, <1>4, <1>5, <1>6 DEF SponsorsInv, SponsorsTypeOK

LEMMA SponsorsTornStep ==
  ASSUME SponsorsInv, ~world.loose, NEW c \in calls, Sponsors!Torn(c)
  PROVE  SponsorsInv'
<1> DEFINE y == TRUE
<1>0. /\ ui \in SponsorPage /\ calls' = calls \ {c} /\ calls \subseteq SponsorCall /\ c.kind # "load"
      /\ ui' = [ui EXCEPT !.action = None, !.excused = y] /\ y \in BOOLEAN /\ y
      /\ world' = Sponsors!Stored(Sponsors!Empty)
  BY SponsorsTypes DEF Sponsors!Torn
<1> HIDE DEF y
<1>1. /\ ui' \in SponsorPage /\ ui'.of = ui.of /\ ui'.reads = ui.reads /\ ui'.rows = ui.rows
      /\ ui'.excused /\ ui'.default = ui.default /\ ui'.account = ui.account
  BY <1>0 DEF SponsorPage
<1>2. Sponsors!Empty \in SponsorRows
  BY DEF Sponsors!Empty, SponsorRows, Sponsor
<1>3. /\ world' \in SponsorWorld /\ world'.default = world.default
      /\ world'.loose \/ \A m \in Label : world.rows[m] # None => world'.rows[m] = world.rows[m]
  BY <1>0, <1>2, SponsorsStored
<1>4. LoadsInv'
  BY <1>0, <1>1 DEF SponsorsInv, LoadsInv
<1>5. StarInv'
  BY <1>0, <1>1, <1>3, SponsorsStarStays
<1>6. HeldInv'
  BY <1>0, <1>1, <1>3, SponsorsHeldStays
<1> QED
  BY <1>0, <1>1, <1>3, <1>4, <1>5, <1>6 DEF SponsorsInv, SponsorsTypeOK

LEMMA SponsorsRemovedStep ==
  ASSUME SponsorsInv, ~world.loose, NEW c \in calls, Sponsors!Removed(c)
  PROVE  SponsorsInv'
<1>0. /\ ui \in SponsorPage /\ world \in SponsorWorld /\ c \in SponsorRemove /\ c.kind = "remove"
      /\ c.name \in Label /\ world.rows \in SponsorRows /\ world.default \in [BOOLEAN -> Sponsor] /\ ui.account \in BOOLEAN
  BY SponsorsTypes, SponsorsKinds DEF Sponsors!Removed, SponsorRemove
<1>1. /\ ui.default = world.default[ui.account] /\ ui.account /\ c.account /\ c.default = ui.default
      /\ \A d \in calls : d.kind = "remove" => d = c
  BY <1>0 DEF SponsorsInv, StarInv
<1>2. ui.default = world.default[TRUE]
  BY <1>1
<1>a. PICK read \in Sponsors!Read :
        world' = IF Sponsors!DropsDefault(c)
                 THEN Sponsors!StoreDefault(Sponsors!RemovePaymaster(read, c.name), c.account, None)
                 ELSE Sponsors!RemovePaymaster(read, c.name)
  BY DEF Sponsors!Removed
<1> DEFINE rows == IF read[c.name] = None THEN world.rows ELSE [world.rows EXCEPT ![c.name] = None]
           default == IF c.default = c.address THEN [world.default EXCEPT ![TRUE] = None] ELSE world.default
<1>3. world' = [world EXCEPT !.rows = rows, !.default = default]
  <2>0. Sponsors!RemovePaymaster(read, c.name) = [world EXCEPT !.rows = rows]
    <3>1. CASE read[c.name] = None
      BY <1>0, <3>1 DEF Sponsors!RemovePaymaster, SponsorWorld
    <3>2. CASE read[c.name] # None
      BY <1>0, <3>2 DEF Sponsors!RemovePaymaster, Sponsors!Read, Sponsors!Empty
    <3> QED
      BY <3>1, <3>2
  <2> HIDE DEF rows
  <2>1. c.account \in BOOLEAN
    BY <1>0 DEF SponsorRemove
  <2>2. [world.default EXCEPT ![c.account] = None] = [world.default EXCEPT ![TRUE] = None]
    BY <1>1, <2>1
  <2>3. CASE c.default = c.address
    <3>1. world' = [world EXCEPT !.rows = rows, !.default = [world.default EXCEPT ![c.account] = None]]
      BY <1>0, <1>a, <2>0, <2>3 DEF Sponsors!DropsDefault, Sponsors!StoreDefault, SponsorWorld
    <3> QED
      BY <2>2, <2>3, <3>1
  <2>4. CASE c.default # c.address
    BY <1>0, <1>a, <2>0, <2>4 DEF Sponsors!DropsDefault, SponsorWorld
  <2> QED
    BY <2>3, <2>4
<1>4. rows \in SponsorRows /\ \A m \in Label : m # c.name => rows[m] = world.rows[m]
  BY <1>0 DEF SponsorRows, Sponsor
<1>5. /\ default \in [BOOLEAN -> Sponsor]
      /\ IF c.default = c.address THEN default[TRUE] = None ELSE default = world.default
  BY <1>0 DEF Sponsor
<1> HIDE DEF rows, default
<1>6. world' \in SponsorWorld /\ world'.rows = rows /\ world'.default = default /\ (world'.loose <=> world.loose)
  BY <1>0, <1>3, <1>4, <1>5 DEF SponsorWorld
<1>7. PICK u \in SponsorPage :
        /\ u.of = ui.of /\ u.reads = ui.reads /\ (u.crossed <=> ui.crossed) /\ (u.excused <=> ui.excused)
        /\ u.rows = ui.rows /\ u.account = ui.account /\ Sponsors!Reloaded(c, u)
        /\ u.default = IF c.default = c.address THEN None ELSE ui.default
  <2>1. CASE c.default = c.address
    <3>1. PICK u : u = [ui EXCEPT !.default = None]
      OBVIOUS
    <3>2. u \in SponsorPage /\ u.of = ui.of /\ u.reads = ui.reads /\ (u.crossed <=> ui.crossed) /\ (u.excused <=> ui.excused)
          /\ u.rows = ui.rows /\ u.account = ui.account /\ u.default = None
      BY <1>0, <3>1 DEF SponsorPage, Sponsor
    <3>3. Sponsors!Reloaded(c, u)
      BY <2>1, <3>1 DEF Sponsors!Removed, Sponsors!DropsDefault
    <3> QED
      BY <2>1, <3>2, <3>3
  <2>2. CASE c.default # c.address
    <3>1. Sponsors!Reloaded(c, ui)
      BY <2>2 DEF Sponsors!Removed, Sponsors!DropsDefault
    <3> QED
      BY <1>0, <2>2, <3>1
  <2> QED
    BY <2>1, <2>2
<1>8. /\ ui' \in SponsorPage /\ ui'.default = u.default /\ ui'.account = u.account /\ ui'.rows = ui.rows
      /\ calls' \subseteq SponsorCall /\ LoadsInv'
      /\ \A d \in calls' : (d \in calls /\ d # c) \/ (d.kind = "load" /\ d.rows = None)
  BY <1>0, <1>7, SponsorsReload
<1>9. ui'.account /\ ui'.account \in BOOLEAN
  BY <1>1, <1>7, <1>8 DEF SponsorPage
<1>10. ui'.default = world'.default[TRUE]
  BY <1>2, <1>5, <1>6, <1>7, <1>8
<1>11. StarInv'
  <2>1. world'.default[ui'.account] = world'.default[TRUE]
    BY <1>9
  <2>2. \A d \in calls' : d.kind # "remove"
    BY <1>1, <1>8
  <2> QED
    BY <1>10, <2>1, <2>2 DEF StarInv
<1>12. HeldInv'
  <2> SUFFICES ASSUME world'.default[TRUE] # None PROVE \E m \in Label : Holds(m)'
    BY DEF HeldInv
  <2>1. c.default # c.address /\ world'.default = world.default
    BY <1>5, <1>6
  <2>2. PICK m \in Label : Holds(m)
    BY <2>1 DEF SponsorsInv, HeldInv
  <2>3. m # c.name
    BY <1>0, <1>1, <1>2, <2>1, <2>2 DEF Holds
  <2>4. Holds(m)'
    BY <1>4, <1>6, <1>8, <2>1, <2>2, <2>3 DEF Holds
  <2> QED
    BY <2>4
<1> QED
  BY <1>6, <1>8, <1>11, <1>12 DEF SponsorsInv, SponsorsTypeOK

LEMMA SponsorsNext == SponsorsInv /\ Sponsors!Next => SponsorsInv'
<1> SUFFICES ASSUME SponsorsInv, Sponsors!Next PROVE SponsorsInv'
  OBVIOUS
<1>0. ~world.loose /\ ~ui.crossed
  BY DEF Sponsors!Next
<1>1. ASSUME Sponsors!HandleAddPreset PROVE SponsorsInv'
  <2>1. PICK r \in Sponsors!Recommended : Sponsors!Adding("preset", r.name, r.address)
    BY <1>1 DEF Sponsors!HandleAddPreset
  <2>2. r \in [name : Label, address : Paymaster]
    BY <2>1, SponsorsTypes DEF Sponsors!Recommended, SponsorPage
  <2> QED
    BY <1>0, <2>1, <2>2, SponsorsAddingStep
<1>2. ASSUME NEW a \in Paymaster, NEW m \in Label, Sponsors!HandleAddPaymaster(m, a) PROVE SponsorsInv'
  BY <1>0, <1>2, SponsorsAddingStep DEF Sponsors!HandleAddPaymaster
<1> QED
  BY <1>0, <1>1, <1>2, SponsorsAccountStep, SponsorsToggleStep, SponsorsRemoveStep, SponsorsReadsStep,
     SponsorsLoadedStep,
     SponsorsFailedStep, SponsorsTornStep, SponsorsAddedStep, SponsorsRemovedStep DEF Sponsors!Next

LEMMA SponsorsStutter == SponsorsInv /\ UNCHANGED vars => SponsorsInv'
<1> SUFFICES ASSUME SponsorsInv, ui' = ui, calls' = calls, world' = world PROVE SponsorsInv'
  BY DEF vars
<1>1. LoadsInv'
  BY SponsorsLoadsStay
<1>2. StarInv'
  BY DEF SponsorsInv, StarInv
<1>3. HeldInv'
  <2> SUFFICES ASSUME ~world.loose PROVE HeldInv'
    BY DEF HeldInv
  <2> QED
    BY SponsorsHeldStays
<1> QED
  BY <1>1, <1>2, <1>3 DEF SponsorsInv, SponsorsTypeOK

LEMMA SponsorsInvImplies == SponsorsInv => Sponsors!DefaultIsSaved /\ Sponsors!DefaultIsShown /\ Sponsors!SavedIsShown
<1> SUFFICES ASSUME SponsorsInv PROVE Sponsors!DefaultIsSaved /\ Sponsors!DefaultIsShown /\ Sponsors!SavedIsShown
  OBVIOUS
<1>1. Sponsors!DefaultIsSaved
  <2>1. ~world.loose /\ world.default[TRUE] # None => \E m \in Label : world.rows[m] = world.default[TRUE]
    BY DEF SponsorsInv, HeldInv, Holds
  <2> QED
    BY <2>1 DEF Sponsors!DefaultIsSaved, Sponsors!Saved
<1>2. Sponsors!DefaultIsShown
  BY DEF SponsorsInv, StarInv, Sponsors!DefaultIsShown
<1>3. Sponsors!SavedIsShown
  BY DEF SponsorsInv, LoadsInv, Sponsors!SavedIsShown
<1> QED
  BY <1>1, <1>2, <1>3

-----------------------------------------------------------------------------
(* The data tools.                                                           *)
Directory == [File -> Content \cup {None}]
MaybeDirectory == Directory \cup {None}
ArchiveFile == [is : {"tar", "none", "plain"}, files : Directory]

ArchiveUi ==
  [exporting : BOOLEAN, importing : BOOLEAN, imports : Nat, crashes : Nat, writes : Nat, exports : Nat,
   downloads : SUBSET ArchiveFile]

ArchiveWorld ==
  [data : MaybeDirectory, backups : [1..MaxImports -> MaybeDirectory], base : MaybeDirectory,
   expected : MaybeDirectory, dirty : BOOLEAN]

ExportCall ==
  [kind : {"export"}, phase : {"reads", "done", "failed"}, todo : SUBSET File, got : Directory, page : BOOLEAN]
ImportCall ==
  [kind : {"import"}, phase : {"unzips", "extracts", "done", "failed", "stuck"}, n : 1..MaxImports,
   archive : ArchiveFile, todo : SUBSET File, whole : BOOLEAN, page : BOOLEAN]

ArchiveTypeOK == ui \in ArchiveUi /\ world \in ArchiveWorld /\ calls \subseteq ExportCall \cup ImportCall

Extracting(c) == c.kind = "import" /\ c.phase = "extracts"
Entries(c) == {f \in File : c.archive.files[f] # None}

(* What was not begun has every entry before it. *)
UnbegunInv == \A c \in calls : c.kind = "import" /\ c.phase = "unzips" => c.whole /\ c.todo = Entries(c)

(* An import that extracts has the directory it replaces in its backup; the  *)
(* directory holds the entries it has behind it, if it left none out.        *)
ExtractInv(c) ==
  /\ world.backups[c.n] = world.base /\ world.expected = None
  /\ c.whole => IF world.data = None THEN c.todo = Entries(c)
                ELSE world.data = [f \in File |-> IF f \in c.todo THEN None ELSE c.archive.files[f]]

ReplaceInv ==
  ~world.dirty =>
    /\ \A c, d \in calls : Extracting(c) /\ Extracting(d) => c = d
    /\ \A c \in calls : Extracting(c) => ExtractInv(c)

ArchiveInv == ArchiveTypeOK /\ UnbegunInv /\ ReplaceInv /\ Archive!KeptSomewhere /\ Archive!LeftAsPromised

LEMMA ArchiveInit == Archive!Init => ArchiveInv
<1> SUFFICES ASSUME Archive!Init PROVE ArchiveInv
  OBVIOUS
<1>1. /\ ui = [exporting |-> FALSE, importing |-> FALSE, imports |-> 0, crashes |-> 0, writes |-> 0,
               exports |-> 0, downloads |-> {[is |-> "tar", files |-> d] : d \in Exported}]
      /\ calls = {}
      /\ world = [data |-> Data, backups |-> [n \in 1..MaxImports |-> None],
                  base |-> None, expected |-> None, dirty |-> FALSE]
  BY DEF Archive!Init
<1>2. {[is |-> "tar", files |-> d] : d \in Exported} \subseteq ArchiveFile
  BY ArchiveAssumption DEF ArchiveFile, Directory
<1>3. ui \in ArchiveUi
  BY <1>1, <1>2 DEF ArchiveUi
<1>4. world \in ArchiveWorld /\ world.base = None /\ world.expected = None
  BY <1>1, ArchiveAssumption DEF ArchiveWorld, MaybeDirectory, Directory
<1> QED
  BY <1>1, <1>3, <1>4 DEF ArchiveInv, ArchiveTypeOK, UnbegunInv, ReplaceInv, Archive!KeptSomewhere,
     Archive!LeftAsPromised

(* The directory and its backups stay, and no import comes to extract. *)
LEMMA ArchiveFrame ==
  ASSUME ArchiveInv, ArchiveTypeOK', UnbegunInv', world' = world,
         \A d \in calls' : d \in calls \/ ~Extracting(d)
  PROVE  ArchiveInv'
<1>1. ReplaceInv'
  BY DEF ArchiveInv, ReplaceInv, ExtractInv
<1> QED
  BY <1>1 DEF ArchiveInv, Archive!KeptSomewhere, Archive!LeftAsPromised

(* A request of the service moves on and does not come to extract. *)
LEMMA ArchiveCallFrame ==
  ASSUME ArchiveInv, NEW c \in calls, NEW d \in ExportCall \cup ImportCall, calls' = (calls \ {c}) \cup {d},
         ui' = ui, world' = world,
         ~Extracting(d), ~(d.kind = "import" /\ d.phase = "unzips")
  PROVE  ArchiveInv'
<1>1. ArchiveTypeOK'
  BY DEF ArchiveInv, ArchiveTypeOK
<1>2. UnbegunInv'
  BY DEF ArchiveInv, UnbegunInv, Entries
<1> QED
  BY <1>1, <1>2, ArchiveFrame

LEMMA ArchiveExportStep ==
  ASSUME ArchiveInv, NEW c \in calls,
         (\E f \in File : Archive!Archives(c, f)) \/ Archive!Archived(c) \/ Archive!NothingToExport(c)
  PROVE  ArchiveInv'
<1>0. c.kind = "export" /\ c \in ExportCall
  BY DEF ArchiveInv, ArchiveTypeOK, ExportCall, ImportCall, Archive!Archives, Archive!Archived,
     Archive!NothingToExport
<1>1. ASSUME NEW f \in File, Archive!Archives(c, f)
      PROVE  ArchiveInv'
  <2> DEFINE d == [c EXCEPT !.todo = @ \ {f}, !.got[f] = world.data[f]]
  <2>1. world.data \in Directory
    BY <1>1 DEF Archive!Archives, ArchiveInv, ArchiveTypeOK, ArchiveWorld, MaybeDirectory
  <2>2. world.data[f] \in Content \cup {None}
    BY <2>1 DEF Directory
  <2>3. d \in ExportCall
    BY <1>0, <2>2 DEF ExportCall, Directory
  <2>4. ~Extracting(d) /\ d.kind # "import"
    BY <2>3 DEF ExportCall, Extracting
  <2>5. calls' = (calls \ {c}) \cup {d} /\ ui' = ui /\ world' = world
    BY <1>1 DEF Archive!Archives, Archive!Then
  <2> HIDE DEF d
  <2> QED
    BY <2>3, <2>4, <2>5, ArchiveCallFrame
<1>2. ASSUME NEW phase \in {"done", "failed"}, calls' = Archive!Then(c, Archive!At(c, phase)), ui' = ui, world' = world
      PROVE  ArchiveInv'
  <2> DEFINE d == [c EXCEPT !.phase = phase]
  <2>1. d \in ExportCall
    BY <1>0 DEF ExportCall
  <2>2. ~Extracting(d) /\ d.kind # "import"
    BY <2>1 DEF ExportCall, Extracting
  <2>3. calls' = (calls \ {c}) \cup {d}
    BY <1>2 DEF Archive!Then, Archive!At
  <2> HIDE DEF d
  <2> QED
    BY <1>2, <2>1, <2>2, <2>3, ArchiveCallFrame
<1> QED
  BY <1>1, <1>2 DEF Archive!Archived, Archive!NothingToExport

LEMMA ArchiveChoiceStep ==
  ASSUME ArchiveInv, Archive!HandleExport \/ \E a \in Archive!Chosen : Archive!HandleImport(a)
  PROVE  ArchiveInv'
<1>0. ui \in ArchiveUi /\ world' = world /\ calls \subseteq ExportCall \cup ImportCall
  BY DEF ArchiveInv, ArchiveTypeOK, Archive!HandleExport, Archive!HandleImport
<1>e. Archive!Empty \in Directory
  BY DEF Archive!Empty, Directory
<1>1. CASE Archive!HandleExport
  <2> DEFINE d == [kind |-> "export", phase |-> "reads", todo |-> File, got |-> Archive!Empty, page |-> TRUE]
  <2>1. d \in ExportCall /\ ~Extracting(d) /\ d.kind # "import"
    BY <1>e DEF ExportCall, Extracting
  <2>2. calls' = calls \cup {d}
    BY <1>1 DEF Archive!HandleExport
  <2>3. ui.exports + 1 \in Nat /\ ui' = [ui EXCEPT !.exporting = TRUE, !.exports = ui.exports + 1]
    BY <1>0, <1>1 DEF Archive!HandleExport, ArchiveUi
  <2>4. ui' \in ArchiveUi
    BY <1>0, <2>3 DEF ArchiveUi
  <2> HIDE DEF d
  <2>5. ArchiveTypeOK' /\ UnbegunInv'
    BY <1>0, <2>1, <2>2, <2>4 DEF ArchiveInv, ArchiveTypeOK, UnbegunInv, Entries
  <2> QED
    BY <1>0, <2>1, <2>2, <2>5, ArchiveFrame
<1>2. ASSUME NEW a \in Archive!Chosen, Archive!HandleImport(a)
      PROVE  ArchiveInv'
  <2> DEFINE d == [kind |-> "import", phase |-> "unzips", n |-> ui.imports + 1, archive |-> a,
                   todo |-> {f \in File : a.files[f] # None}, whole |-> TRUE, page |-> TRUE]
  <2>1. a \in ArchiveFile
    BY <1>0, <1>e DEF Archive!Chosen, Archive!Other, ArchiveFile, ArchiveUi
  <2>2. ui.imports \in Nat /\ ui.imports + 1 \in 1..MaxImports
    BY <1>0, <1>2, ArchiveAssumption DEF Archive!HandleImport, ArchiveUi
  <2>3. d \in ImportCall /\ ~Extracting(d)
    BY <2>1, <2>2 DEF ImportCall, Extracting
  <2>4. d.whole /\ d.todo = Entries(d)
    BY DEF Entries
  <2>5. calls' = calls \cup {d}
    BY <1>2 DEF Archive!HandleImport
  <2>6. ui' = [ui EXCEPT !.importing = TRUE, !.imports = @ + 1]
    BY <1>2 DEF Archive!HandleImport
  <2>7. ui' \in ArchiveUi
    <3>1. ui.imports + 1 \in Nat
      BY <2>2
    <3> QED
      BY <1>0, <2>6, <3>1 DEF ArchiveUi
  <2> HIDE DEF d
  <2>8. ArchiveTypeOK' /\ UnbegunInv'
    BY <1>0, <2>3, <2>4, <2>5, <2>7 DEF ArchiveInv, ArchiveTypeOK, UnbegunInv, Entries
  <2> QED
    BY <1>0, <2>3, <2>5, <2>8, ArchiveFrame
<1> QED
  BY <1>1, <1>2

LEMMA ArchiveEndStep ==
  ASSUME ArchiveInv, Archive!Crash \/ \E c \in calls : Archive!Unzips(c) \/ Archive!Answered(c)
  PROVE  ArchiveInv'
<1>0. ui \in ArchiveUi /\ world' = world /\ world \in ArchiveWorld /\ calls \subseteq ExportCall \cup ImportCall
  BY DEF ArchiveInv, ArchiveTypeOK, Archive!Crash, Archive!Unzips, Archive!Answered, Archive!Stops
<1>1. calls' \subseteq calls
  BY DEF Archive!Crash, Archive!Unzips, Archive!Answered, Archive!Stops
<1>2. ui' \in ArchiveUi
  <2>1. CASE Archive!Stops
    <3>1. ui.crashes + 1 \in Nat
      BY <1>0 DEF ArchiveUi
    <3> QED
      BY <1>0, <2>1, <3>1 DEF ArchiveUi, Archive!Stops
  <2>2. ASSUME NEW c \in calls, Archive!Answered(c)
        PROVE  ui' \in ArchiveUi
    <3>1. CASE ~c.page
      BY <1>0, <2>2, <3>1 DEF Archive!Answered
    <3>2. CASE c.page /\ c.kind = "import"
      <4>1. ui' = [ui EXCEPT !.importing = FALSE]
        BY <2>2, <3>2 DEF Archive!Answered
      <4> QED
        BY <1>0, <4>1 DEF ArchiveUi
    <3>3. CASE c.page /\ c.kind # "import" /\ c.phase = "failed"
      <4>1. ui' = [ui EXCEPT !.exporting = FALSE]
        BY <2>2, <3>3 DEF Archive!Answered
      <4> QED
        BY <1>0, <4>1 DEF ArchiveUi
    <3>4. CASE c.page /\ c.kind # "import" /\ c.phase # "failed"
      <4>1. c.got \in Directory
        BY <1>0, <3>4 DEF ExportCall, ImportCall
      <4>2. [is |-> "tar", files |-> c.got] \in ArchiveFile
        BY <4>1 DEF ArchiveFile
      <4>3. ui' = [ui EXCEPT !.exporting = FALSE, !.downloads = @ \cup {[is |-> "tar", files |-> c.got]}]
        BY <2>2, <3>4 DEF Archive!Answered
      <4> QED
        BY <1>0, <4>2, <4>3 DEF ArchiveUi
    <3> QED
      BY <3>1, <3>2, <3>3, <3>4
  <2> QED
    BY <2>1, <2>2 DEF Archive!Crash, Archive!Unzips
<1>3. ArchiveTypeOK' /\ UnbegunInv'
  BY <1>0, <1>1, <1>2 DEF ArchiveInv, ArchiveTypeOK, UnbegunInv, Entries
<1> QED
  BY <1>0, <1>1, <1>3, ArchiveFrame

LEMMA ArchiveAnswerLostStep ==
  ASSUME ArchiveInv, NEW c \in calls, Archive!AnswerLost(c)
  PROVE  ArchiveInv'
<1> DEFINE d == [c EXCEPT !.page = FALSE]
<1>1. /\ c \in ImportCall /\ ui \in ArchiveUi /\ calls \subseteq ExportCall \cup ImportCall
      /\ world' = world /\ ui' = [ui EXCEPT !.importing = FALSE] /\ calls' = (calls \ {c}) \cup {d}
  BY DEF ArchiveInv, ArchiveTypeOK, ExportCall, ImportCall, Archive!AnswerLost, Archive!Then
<1>2. /\ d \in ImportCall /\ d.n = c.n /\ d.whole = c.whole /\ d.todo = c.todo /\ d.archive = c.archive
      /\ d.kind = c.kind /\ d.phase = c.phase
  BY <1>1 DEF ImportCall
<1> HIDE DEF d
<1>3. ArchiveTypeOK'
  <2>1. ui' \in ArchiveUi
    BY <1>1 DEF ArchiveUi
  <2> QED
    BY <1>1, <1>2, <2>1 DEF ArchiveInv, ArchiveTypeOK
<1>4. UnbegunInv'
  BY <1>1, <1>2 DEF ArchiveInv, UnbegunInv, Entries
<1>5. ReplaceInv'
  BY <1>1, <1>2 DEF ArchiveInv, ReplaceInv, ExtractInv, Extracting, Entries
<1> QED
  BY <1>1, <1>3, <1>4, <1>5 DEF ArchiveInv, Archive!KeptSomewhere, Archive!LeftAsPromised

LEMMA ArchiveBackupFailsStep ==
  ASSUME ArchiveInv, NEW c \in calls, Archive!BackupFails(c)
  PROVE  ArchiveInv'
<1> DEFINE d == [c EXCEPT !.phase = "failed"]
<1>1. c \in ImportCall /\ ui' = ui /\ world' = world /\ calls' = (calls \ {c}) \cup {d}
  BY DEF ArchiveInv, ArchiveTypeOK, ExportCall, ImportCall, Archive!BackupFails, Archive!Then, Archive!At
<1>2. d \in ImportCall /\ d.phase = "failed"
  BY <1>1 DEF ImportCall
<1> HIDE DEF d
<1> QED
  BY <1>1, <1>2, ArchiveCallFrame DEF Extracting

(* The import that replaces the directory is the only one, or imports met. *)
LEMMA ArchiveReplacesStep ==
  ASSUME ArchiveInv, NEW c \in calls, Archive!Replaces(c)
  PROVE  ArchiveInv'
<1> DEFINE d == [c EXCEPT !.phase = "extracts"]
<1>1. /\ c \in ImportCall /\ c.phase = "unzips" /\ ui' = ui /\ calls' = (calls \ {c}) \cup {d}
      /\ world \in ArchiveWorld /\ calls \subseteq ExportCall \cup ImportCall
      /\ world' = [world EXCEPT !.backups[c.n] = world.data, !.data = None, !.base = world.data, !.expected = None,
                                !.dirty = @ \/ Archive!Replacing # {}]
  BY DEF ArchiveInv, ArchiveTypeOK, ExportCall, ImportCall, Archive!Replaces, Archive!Then, Archive!At,
     Archive!CopyDir, Archive!RemoveData
<1>2. /\ d \in ImportCall /\ d.n = c.n /\ d.whole = c.whole /\ d.todo = c.todo /\ d.archive = c.archive
      /\ d.kind = "import" /\ d.phase = "extracts" /\ c.n \in 1..MaxImports
  BY <1>1 DEF ImportCall
<1> HIDE DEF d
<1>3. /\ world'.data = None /\ world'.base = world.data /\ world'.expected = None
      /\ world'.backups = [world.backups EXCEPT ![c.n] = world.data]
      /\ world'.dirty = (world.dirty \/ Archive!Replacing # {})
  BY <1>1 DEF ArchiveWorld
<1>4. world' \in ArchiveWorld
  <2>1. world.data \in MaybeDirectory /\ world.backups \in [1..MaxImports -> MaybeDirectory]
    BY <1>1 DEF ArchiveWorld
  <2>2. world'.backups \in [1..MaxImports -> MaybeDirectory]
    BY <1>2, <1>3, <2>1
  <2>3. world' = [data |-> None, backups |-> world'.backups, base |-> world.data, expected |-> None, dirty |-> world'.dirty]
    BY <1>1 DEF ArchiveWorld
  <2>4. world'.dirty \in BOOLEAN
    BY <1>3
  <2> QED
    BY <2>1, <2>2, <2>3, <2>4 DEF ArchiveWorld, MaybeDirectory
<1>5. ArchiveTypeOK'
  BY <1>1, <1>2, <1>4 DEF ArchiveInv, ArchiveTypeOK
<1>6. UnbegunInv'
  BY <1>1, <1>2 DEF ArchiveInv, UnbegunInv, Entries
<1>7. world'.backups[c.n] = world.data /\ c.n \in DOMAIN world'.backups
  BY <1>1, <1>2, <1>3 DEF ArchiveWorld
<1>8. ReplaceInv'
  <2>1. c.whole /\ c.todo = Entries(c)
    BY <1>1 DEF ArchiveInv, UnbegunInv, ImportCall
  <2>2. d.todo = Entries(d)
    BY <2>1, <1>2 DEF Entries
  <2>3. ExtractInv(d)'
    BY <1>2, <1>3, <1>7, <2>1, <2>2 DEF ExtractInv, Entries
  <2>4. ~world'.dirty => \A x \in calls' : Extracting(x) => x = d
    BY <1>1, <1>3 DEF Archive!Replacing, Extracting
  <2> QED
    BY <2>3, <2>4 DEF ReplaceInv, Extracting
<1>9. Archive!KeptSomewhere' /\ Archive!LeftAsPromised'
  BY <1>3, <1>7 DEF Archive!KeptSomewhere, Archive!LeftAsPromised
<1> QED
  BY <1>5, <1>6, <1>8, <1>9 DEF ArchiveInv

(* An entry is written, or left out. *)
LEMMA ArchiveEntryStep ==
  ASSUME ArchiveInv, NEW c \in calls,
         (\E f \in File : Archive!Extracts(c, f)) \/ \E fs \in SUBSET File : Archive!Skips(c, fs)
  PROVE  ArchiveInv'
<1>0. /\ c \in ImportCall /\ ui \in ArchiveUi /\ calls \subseteq ExportCall \cup ImportCall /\ world \in ArchiveWorld
      /\ c.kind = "import" /\ c.phase = "extracts"
  BY DEF ArchiveInv, ArchiveTypeOK, ExportCall, ImportCall, Archive!Extracts, Archive!Skips
<1>1. ~world.dirty => ExtractInv(c) /\ \A x \in calls : Extracting(x) => x = c
  BY <1>0 DEF ArchiveInv, ReplaceInv, Extracting
<1>2. ASSUME NEW d \in ImportCall, calls' = (calls \ {c}) \cup {d}, d.kind = "import", d.phase = "extracts",
             ui' = ui, world' \in ArchiveWorld, world'.backups = world.backups, world'.base = world.base,
             world'.expected = world.expected, world'.dirty = world.dirty, d.n = c.n,
             ~world.dirty => ExtractInv(d)'
      PROVE  ArchiveInv'
  <2>1. ArchiveTypeOK'
    BY <1>0, <1>2 DEF ArchiveInv, ArchiveTypeOK
  <2>2. UnbegunInv'
    BY <1>2 DEF ArchiveInv, UnbegunInv, Entries
  <2>3. ~world'.dirty => \A x \in calls' : Extracting(x) => x = d
    BY <1>1, <1>2
  <2>4. ReplaceInv'
    BY <1>2, <2>3 DEF ReplaceInv
  <2>5. ~world'.dirty => world'.backups[c.n] = world'.base /\ world'.expected = None
    BY <1>1, <1>2 DEF ExtractInv
  <2>6. c.n \in DOMAIN world'.backups
    BY <1>0, <1>2 DEF ImportCall, ArchiveWorld
  <2>7. Archive!KeptSomewhere' /\ Archive!LeftAsPromised'
    BY <2>5, <2>6 DEF Archive!KeptSomewhere, Archive!LeftAsPromised
  <2> QED
    BY <2>1, <2>2, <2>4, <2>7 DEF ArchiveInv
<1>3. ASSUME NEW f \in File, Archive!Extracts(c, f)
      PROVE  ArchiveInv'
  <2> DEFINE d == [c EXCEPT !.todo = @ \ {f}]
             g == c.archive.files
             before == IF world.data = None THEN Archive!Empty ELSE world.data
  <2>1. /\ f \in c.todo /\ ui' = ui /\ calls' = (calls \ {c}) \cup {d}
        /\ world' = [world EXCEPT !.data = [before EXCEPT ![f] = g[f]]]
    BY <1>3 DEF Archive!Extracts, Archive!Then
  <2>2. before \in Directory /\ g \in Directory
    BY <1>0 DEF ArchiveWorld, MaybeDirectory, Archive!Empty, Directory, ImportCall, ArchiveFile
  <2>3. /\ d \in ImportCall /\ d.kind = "import" /\ d.phase = "extracts" /\ d.n = c.n /\ d.whole = c.whole
        /\ d.todo = c.todo \ {f} /\ d.archive = c.archive
    BY <1>0 DEF ImportCall
  <2>4. [before EXCEPT ![f] = g[f]] \in Directory
    BY <2>2 DEF Directory
  <2> HIDE DEF d
  <2>5. /\ world' \in ArchiveWorld /\ world'.data = [before EXCEPT ![f] = g[f]] /\ world'.backups = world.backups
        /\ world'.base = world.base /\ world'.expected = world.expected /\ world'.dirty = world.dirty
    BY <1>0, <2>1, <2>4 DEF ArchiveWorld, MaybeDirectory
  <2>6. world'.data # None
    BY <2>4, <2>5, ArchiveAssumption DEF Directory
  <2>7. ~world.dirty => ExtractInv(d)'
    <3> SUFFICES ASSUME ~world.dirty PROVE ExtractInv(d)'
      OBVIOUS
    <3>1. ExtractInv(c)
      BY <1>1
    <3>2. ASSUME c.whole
          PROVE  world'.data = [h \in File |-> IF h \in d.todo THEN None ELSE g[h]]
      <4>1. CASE world.data = None
        <5>1. c.todo = {h \in File : g[h] # None} /\ before = [h \in File |-> None]
          BY <3>1, <3>2, <4>1 DEF ExtractInv, Entries, Archive!Empty
        <5> QED
          BY <2>1, <2>2, <2>3, <2>5, <5>1 DEF Directory
      <4>2. CASE world.data # None
        <5>1. before = [h \in File |-> IF h \in c.todo THEN None ELSE g[h]]
          BY <3>1, <3>2, <4>2 DEF ExtractInv
        <5> HIDE DEF before
        <5> QED
          BY <2>1, <2>2, <2>3, <2>5, <5>1 DEF Directory
      <4> QED
        BY <4>1, <4>2
    <3> QED
      BY <2>3, <2>5, <2>6, <3>1, <3>2 DEF ExtractInv
  <2> HIDE DEF before
  <2> QED
    BY <1>2, <2>1, <2>3, <2>5, <2>7
<1>4. ASSUME NEW fs \in SUBSET File, Archive!Skips(c, fs)
      PROVE  ArchiveInv'
  <2> DEFINE d == [c EXCEPT !.todo = @ \ fs, !.whole = FALSE]
  <2>1. ui' = ui /\ calls' = (calls \ {c}) \cup {d} /\ world' = world
    BY <1>4 DEF Archive!Skips, Archive!Then
  <2>2. d \in ImportCall /\ d.kind = "import" /\ d.phase = "extracts" /\ d.n = c.n /\ ~d.whole
    BY <1>0 DEF ImportCall
  <2> HIDE DEF d
  <2>3. ~world.dirty => ExtractInv(d)'
    BY <1>1, <2>1, <2>2 DEF ExtractInv
  <2> QED
    BY <1>0, <1>2, <2>1, <2>2, <2>3
<1> QED
  BY <1>3, <1>4

(* The import ends: with the backup in its place, with part of it, with what *)
(* was extracted, or with what the removal of the backup left.               *)
LEMMA ArchiveImportEndStep ==
  ASSUME ArchiveInv, NEW c \in calls,
         \/ Archive!ExtractFails(c) \/ Archive!Extracted(c)
         \/ \E f \in File : Archive!RestoreFails(c, f) \/ Archive!RemovalFails(c, f)
  PROVE  ArchiveInv'
<1>0. /\ c \in ImportCall /\ ui \in ArchiveUi /\ calls \subseteq ExportCall \cup ImportCall /\ world \in ArchiveWorld
      /\ c.kind = "import" /\ c.phase = "extracts" /\ c.n \in 1..MaxImports
  BY DEF ArchiveInv, ArchiveTypeOK, ExportCall, ImportCall, Archive!ExtractFails, Archive!Extracted,
     Archive!RestoreFails, Archive!RemovalFails
<1>1. ~world.dirty => ExtractInv(c) /\ \A x \in calls : Extracting(x) => x = c
  BY <1>0 DEF ArchiveInv, ReplaceInv, Extracting
<1>2. /\ world.backups \in [1..MaxImports -> MaybeDirectory] /\ world.backups[c.n] \in MaybeDirectory
      /\ world.data \in MaybeDirectory /\ world.base \in MaybeDirectory
  BY <1>0 DEF ArchiveWorld
<1>3. ASSUME NEW phase \in {"done", "failed", "stuck"}, calls' = Archive!Then(c, Archive!At(c, phase)), ui' = ui,
             world' \in ArchiveWorld, ~world'.dirty => ~world.dirty /\ Archive!KeptSomewhere' /\ Archive!LeftAsPromised'
      PROVE  ArchiveInv'
  <2> DEFINE d == [c EXCEPT !.phase = phase]
  <2>1. d \in ImportCall /\ d.phase = phase
    BY <1>0 DEF ImportCall
  <2>2. calls' = (calls \ {c}) \cup {d}
    BY <1>3 DEF Archive!Then, Archive!At
  <2> HIDE DEF d
  <2>3. ArchiveTypeOK'
    BY <1>0, <1>3, <2>1, <2>2 DEF ArchiveInv, ArchiveTypeOK
  <2>4. UnbegunInv'
    BY <2>1, <2>2 DEF ArchiveInv, UnbegunInv, Entries
  <2>5. ~world'.dirty => \A x \in calls' : ~Extracting(x)
    BY <1>1, <1>3, <2>1, <2>2 DEF Extracting
  <2>6. ReplaceInv'
    BY <2>5 DEF ReplaceInv
  <2>7. Archive!KeptSomewhere' /\ Archive!LeftAsPromised'
    BY <1>3 DEF Archive!KeptSomewhere, Archive!LeftAsPromised
  <2> QED
    BY <2>3, <2>4, <2>6, <2>7 DEF ArchiveInv
<1>4. CASE Archive!ExtractFails(c)
  <2>1. /\ calls' = Archive!Then(c, Archive!At(c, "failed")) /\ ui' = ui
        /\ world' = [Archive!Restore(c) EXCEPT !.expected = world.base]
    BY <1>4 DEF Archive!ExtractFails
  <2>2. CASE world.backups[c.n] = None
    <3>1. world' = [world EXCEPT !.expected = world.base]
      BY <2>1, <2>2 DEF Archive!Restore
    <3>2. /\ world' \in ArchiveWorld /\ world'.dirty = world.dirty /\ world'.base = world.base
          /\ world'.expected = world.base
      BY <1>0, <1>2, <3>1 DEF ArchiveWorld
    <3>3. ~world.dirty => world.base = None
      BY <1>1, <2>2 DEF ExtractInv
    <3> QED
      BY <1>3, <2>1, <3>2, <3>3 DEF Archive!KeptSomewhere, Archive!LeftAsPromised
  <2>3. CASE world.backups[c.n] # None
    <3> DEFINE b == world.backups[c.n]
    <3>1. world' = [[world EXCEPT !.data = b, !.backups[c.n] = None] EXCEPT !.expected = world.base]
      BY <2>1, <2>3 DEF Archive!Restore
    <3>2. [world.backups EXCEPT ![c.n] = None] \in [1..MaxImports -> MaybeDirectory]
      BY <1>2 DEF MaybeDirectory
    <3>3. /\ world' \in ArchiveWorld /\ world'.dirty = world.dirty /\ world'.base = world.base
          /\ world'.expected = world.base /\ world'.data = b
      BY <1>0, <1>2, <3>1, <3>2 DEF ArchiveWorld
    <3>4. ~world.dirty => b = world.base
      BY <1>1 DEF ExtractInv
    <3> QED
      BY <1>3, <2>1, <3>3, <3>4 DEF Archive!KeptSomewhere, Archive!LeftAsPromised
  <2> QED
    BY <2>2, <2>3
<1>5. CASE Archive!Extracted(c)
  <2>1. /\ calls' = Archive!Then(c, Archive!At(c, "done")) /\ ui' = ui /\ c.todo = {} /\ world.data # None
        /\ world' = [world EXCEPT !.backups[c.n] = None, !.base = None, !.expected = IF c.whole THEN c.archive.files ELSE None]
    BY <1>5 DEF Archive!Extracted, Archive!Fails
  <2> DEFINE e == IF c.whole THEN c.archive.files ELSE None
  <2>2. e \in MaybeDirectory /\ [world.backups EXCEPT ![c.n] = None] \in [1..MaxImports -> MaybeDirectory]
    BY <1>0, <1>2 DEF MaybeDirectory, ImportCall, ArchiveFile
  <2>3. /\ world' \in ArchiveWorld /\ world'.dirty = world.dirty /\ world'.base = None /\ world'.data = world.data
        /\ world'.expected = e
    BY <1>0, <1>2, <2>1, <2>2 DEF ArchiveWorld, MaybeDirectory
  <2>4. ~world.dirty /\ c.whole => world.data = c.archive.files
    <3>1. c.archive.files \in Directory
      BY <1>0 DEF ImportCall, ArchiveFile
    <3> QED
      BY <1>1, <2>1, <3>1 DEF ExtractInv, Directory
  <2> QED
    BY <1>3, <2>1, <2>3, <2>4 DEF Archive!KeptSomewhere, Archive!LeftAsPromised
<1>6. ASSUME NEW f \in File, Archive!RestoreFails(c, f)
      PROVE  ArchiveInv'
  <2> DEFINE part1 == [Archive!Empty EXCEPT ![f] = world.backups[c.n][f]]
  <2>1. /\ calls' = Archive!Then(c, Archive!At(c, "stuck")) /\ ui' = ui /\ world.backups[c.n] # None
        /\ world' = [world EXCEPT !.data = part1]
    BY <1>6 DEF Archive!RestoreFails
  <2>2. part1 \in Directory
    BY <1>2, <2>1 DEF MaybeDirectory, Directory, Archive!Empty
  <2> HIDE DEF part1
  <2>3. /\ world' \in ArchiveWorld /\ world'.dirty = world.dirty /\ world'.base = world.base
        /\ world'.expected = world.expected /\ world'.backups = world.backups
    BY <1>0, <2>1, <2>2 DEF ArchiveWorld, MaybeDirectory
  <2>4. ~world.dirty => world.expected = None /\ world.backups[c.n] = world.base
    BY <1>1 DEF ExtractInv
  <2>5. c.n \in DOMAIN world.backups
    BY <1>0, <1>2
  <2> QED
    BY <1>3, <2>1, <2>3, <2>4, <2>5 DEF Archive!KeptSomewhere, Archive!LeftAsPromised
<1>7. ASSUME NEW f \in File, Archive!RemovalFails(c, f)
      PROVE  ArchiveInv'
  <2> DEFINE rest == [world.backups[c.n] EXCEPT ![f] = None]
  <2>1. /\ calls' = Archive!Then(c, Archive!At(c, "failed")) /\ ui' = ui /\ world.backups[c.n] # None
        /\ world' = [world EXCEPT !.data = rest, !.backups[c.n] = None, !.dirty = TRUE]
    BY <1>7 DEF Archive!RemovalFails
  <2>2. rest \in Directory /\ [world.backups EXCEPT ![c.n] = None] \in [1..MaxImports -> MaybeDirectory]
    BY <1>2, <2>1 DEF MaybeDirectory, Directory
  <2> HIDE DEF rest
  <2>3. world' \in ArchiveWorld /\ world'.dirty
    BY <1>0, <2>1, <2>2 DEF ArchiveWorld, MaybeDirectory
  <2> QED
    BY <1>3, <2>1, <2>3
<1> QED
  BY <1>4, <1>5, <1>6, <1>7

(* Who writes beside an import ends what is asked of it, or imports met. *)
LEMMA ArchiveWritesStep ==
  ASSUME ArchiveInv, NEW f \in File, NEW v \in Content, Archive!Writes(f, v)
  PROVE  ArchiveInv'
<1>1. /\ ui \in ArchiveUi /\ world \in ArchiveWorld /\ world.data \in Directory /\ calls' = calls
      /\ ui' = [ui EXCEPT !.writes = ui.writes + 1]
      /\ world' = [world EXCEPT !.data[f] = v, !.base = None, !.expected = None, !.dirty = @ \/ Archive!Replacing # {}]
  BY DEF ArchiveInv, ArchiveTypeOK, ArchiveWorld, MaybeDirectory, Archive!Writes
<1>2. ui' \in ArchiveUi
  <2>1. ui.writes + 1 \in Nat
    BY <1>1 DEF ArchiveUi
  <2> QED
    BY <1>1, <2>1 DEF ArchiveUi
<1>3. /\ world'.base = None /\ world'.expected = None /\ world'.dirty = (world.dirty \/ Archive!Replacing # {})
      /\ world'.data = [world.data EXCEPT ![f] = v] /\ world'.backups = world.backups
  BY <1>1 DEF ArchiveWorld
<1>4. world' \in ArchiveWorld
  <2>1. [world.data EXCEPT ![f] = v] \in Directory
    BY <1>1 DEF Directory
  <2>2. world' = [data |-> world'.data, backups |-> world.backups, base |-> None, expected |-> None, dirty |-> world'.dirty]
    BY <1>1 DEF ArchiveWorld
  <2>3. world'.dirty \in BOOLEAN /\ world.backups \in [1..MaxImports -> MaybeDirectory]
    BY <1>1, <1>3 DEF ArchiveWorld
  <2> QED
    BY <1>3, <2>1, <2>2, <2>3 DEF ArchiveWorld, MaybeDirectory
<1>5. ArchiveTypeOK' /\ UnbegunInv'
  BY <1>1, <1>2, <1>4 DEF ArchiveInv, ArchiveTypeOK, UnbegunInv, Entries
<1>6. ~world'.dirty => \A x \in calls' : ~Extracting(x)
  BY <1>1, <1>3 DEF Archive!Replacing, Extracting
<1> QED
  BY <1>3, <1>5, <1>6 DEF ArchiveInv, ReplaceInv, Archive!KeptSomewhere, Archive!LeftAsPromised

LEMMA ArchiveNext == ArchiveInv /\ Archive!Next => ArchiveInv'
BY ArchiveExportStep, ArchiveChoiceStep, ArchiveEndStep, ArchiveAnswerLostStep, ArchiveBackupFailsStep,
   ArchiveReplacesStep, ArchiveEntryStep, ArchiveImportEndStep, ArchiveWritesStep DEF Archive!Next

LEMMA ArchiveStutter == ArchiveInv /\ UNCHANGED <<ui, calls, world>> => ArchiveInv'
BY DEF ArchiveInv, ArchiveTypeOK, UnbegunInv, ReplaceInv, ExtractInv, Archive!KeptSomewhere, Archive!LeftAsPromised

-----------------------------------------------------------------------------
(* The login and the registration page.                                      *)
MaybeEmail == Email \cup {None}
SignPage ==
  [mode : {"passkey", "otp"}, passkeyEmail : MaybeEmail, email : MaybeEmail, step : {"email", "code"},
   loading : BOOLEAN, edited : BOOLEAN, done : MaybeEmail]

Account0 == [wallet : Nat, credential : Nat, passkey : Nat]

SignWorld ==
  [codes : SUBSET Email, mailed : SUBSET Email, user : [Email -> Account0 \cup {None}], keys : Nat, sends : Nat,
   tries : Nat, both : BOOLEAN]

SignPhase == {"send", "mailed", "verify", "create", "derive", "link", "done", "begin", "assert", "complete"}
SignCall == [tab : Sign!Tab, email : Email, at : SignPhase, key : Nat]

SignTypeOK == ui \in [Sign!Tab -> SignPage] /\ world \in SignWorld /\ calls \subseteq SignCall

(* A tab waits for one answer at a time. *)
WaitsInv ==
  /\ \A c, d \in calls : c.tab = d.tab => c = d
  /\ \A c \in calls : ui[c.tab].loading /\ (c.at \in {"begin", "assert", "complete"} => c.tab = "login")

(* A code is asked for the address it was sent to, unless that was edited. *)
CodeInv ==
  /\ \A c \in calls : c.at = "mailed" => c.email \in world.mailed
  /\ \A c \in calls : c.at \in {"send", "mailed"} => ui[c.tab].edited \/ ui[c.tab].email = c.email

HasWallet(e) == world.user[e] # None /\ world.user[e].wallet # 0

WalletInv ==
  /\ \A c \in calls : c.at \in {"assert", "complete", "done"} => HasWallet(c.email)
  /\ \A c \in calls : c.at \in {"derive", "link"} => c.key # 0

(* A wallet is set up once at a time, for a user without one. *)
SetUpInv ==
  ~world.both =>
    /\ \A c \in calls : c.at \in {"create", "derive", "link"} =>
         world.user[c.email] # None /\ world.user[c.email].wallet = 0
    /\ \A c, d \in calls : c.at \in {"create", "derive", "link"} /\ d.at \in {"create", "derive", "link"} /\ c.email = d.email => c = d

SignInv ==
  /\ SignTypeOK /\ WaitsInv /\ CodeInv /\ WalletInv /\ SetUpInv
  /\ Sign!CodeShownWasSent /\ Sign!SignedInHasWallet /\ Sign!PasskeySignsIn

LEMMA SignTypes ==
  ASSUME SignInv
  PROVE  /\ ui \in [Sign!Tab -> SignPage] /\ world \in SignWorld /\ calls \subseteq SignCall
         /\ world.user \in [Email -> Account0 \cup {None}] /\ world.mailed \in SUBSET Email
BY DEF SignInv, SignTypeOK, SignWorld

LEMMA SignInit == Sign!Init => SignInv
<1> SUFFICES ASSUME Sign!Init PROVE SignInv
  OBVIOUS
<1> DEFINE p == [mode |-> "otp", passkeyEmail |-> None, email |-> None, step |-> "email", loading |-> FALSE,
                 edited |-> FALSE, done |-> None]
           q == [p EXCEPT !.mode = "passkey"]
<1>1. p \in SignPage /\ p.step = "email" /\ p.done = None
  BY DEF SignPage, MaybeEmail
<1>2. q \in SignPage /\ q.step = "email" /\ q.done = None
  BY <1>1 DEF SignPage
<1>3. ui = [login |-> q, register |-> p] /\ calls = {}
  BY DEF Sign!Init, Sign!Page
<1> HIDE DEF p, q
<1>4. ui \in [Sign!Tab -> SignPage] /\ \A t \in Sign!Tab : ui[t].step = "email" /\ ui[t].done = None
  BY <1>1, <1>2, <1>3 DEF Sign!Tab
<1>5. world \in SignWorld /\ \A e \in Email : world.user[e] = None
  BY DEF Sign!Init, SignWorld, Account0
<1> QED
  BY <1>3, <1>4, <1>5 DEF SignInv, SignTypeOK, WaitsInv, CodeInv, WalletInv, SetUpInv, Sign!CodeShownWasSent,
     Sign!SignedInHasWallet, Sign!PasskeySignsIn

(* Addresses, modes and steps change, and nothing else. *)
LEMMA SignPageStep ==
  ASSUME SignInv, calls' = calls, world' = world, ui' \in [Sign!Tab -> SignPage],
         \A t \in Sign!Tab :
           /\ ui'[t].loading = ui[t].loading /\ ui'[t].done = ui[t].done
           /\ \/ ui'[t].edited /\ ui'[t].step = "email"
              \/ ~ui[t].loading /\ ui'[t].step = "email"
              \/ ui'[t].email = ui[t].email /\ ui'[t].step = ui[t].step /\ (ui'[t].edited = ui[t].edited)
  PROVE  SignInv'
<1>1. \A c \in calls : c.tab \in Sign!Tab
  BY SignTypes DEF SignCall
<1>2. SignTypeOK'
  BY SignTypes DEF SignTypeOK
<1>3. WaitsInv'
  BY <1>1 DEF SignInv, WaitsInv
<1>4. CodeInv'
  <2> SUFFICES ASSUME NEW c \in calls, c.at \in {"send", "mailed"}
               PROVE  ui'[c.tab].edited \/ ui'[c.tab].email = c.email
    BY DEF SignInv, CodeInv
  <2>1. ui[c.tab].loading /\ (ui[c.tab].edited \/ ui[c.tab].email = c.email)
    BY DEF SignInv, WaitsInv, CodeInv
  <2> QED
    BY <1>1, <2>1
<1>5. WalletInv' /\ SetUpInv' /\ Sign!PasskeySignsIn'
  BY DEF SignInv, WalletInv, SetUpInv, HasWallet, Sign!PasskeySignsIn
<1>6. Sign!CodeShownWasSent'
  BY DEF SignInv, Sign!CodeShownWasSent
<1>7. Sign!SignedInHasWallet'
  BY DEF SignInv, Sign!SignedInHasWallet
<1> QED
  BY <1>2, <1>3, <1>4, <1>5, <1>6, <1>7 DEF SignInv

LEMMA SignEditStep ==
  ASSUME SignInv, \A t \in Sign!Tab : ~ui[t].edited,
         \/ \E m \in {"passkey", "otp"} : Sign!SetLoginMode(m)
         \/ \E e \in Email : Sign!EditPasskeyEmail(e) \/ \E t \in Sign!Tab : Sign!EditEmail(t, e)
         \/ \E t \in Sign!Tab : Sign!ChangeEmail(t)
  PROVE  SignInv'
<1>0. ui \in [Sign!Tab -> SignPage] /\ "login" \in Sign!Tab
  BY SignTypes DEF Sign!Tab
<1>1. calls' = calls /\ world' = world
  BY DEF Sign!SetLoginMode, Sign!EditPasskeyEmail, Sign!EditEmail, Sign!ChangeEmail
<1>2. ASSUME NEW t \in Sign!Tab, NEW p \in SignPage, ui' = [ui EXCEPT ![t] = p],
             p.loading = ui[t].loading, p.done = ui[t].done,
             \/ p.edited /\ p.step = "email"
             \/ ~ui[t].loading /\ p.step = "email"
             \/ p.email = ui[t].email /\ p.step = ui[t].step /\ (p.edited = ui[t].edited)
      PROVE  SignInv'
  <2>1. ui' \in [Sign!Tab -> SignPage] /\ \A s \in Sign!Tab : ui'[s] = IF s = t THEN p ELSE ui[s]
    BY <1>0, <1>2
  <2> QED
    BY <1>1, <1>2, <2>1, SignPageStep
<1>3. ASSUME NEW m \in {"passkey", "otp"}, Sign!SetLoginMode(m)
      PROVE  SignInv'
  <2> DEFINE p == [ui["login"] EXCEPT !.mode = m]
  <2>1. ui' = [ui EXCEPT !["login"] = p]
    BY <1>0, <1>3 DEF Sign!SetLoginMode
  <2>2. /\ p \in SignPage /\ p.loading = ui["login"].loading /\ p.done = ui["login"].done
        /\ p.email = ui["login"].email /\ p.step = ui["login"].step /\ (p.edited = ui["login"].edited)
    BY <1>0 DEF SignPage
  <2> HIDE DEF p
  <2> QED
    BY <1>0, <1>2, <2>1, <2>2
<1>4. ASSUME NEW e \in Email, Sign!EditPasskeyEmail(e)
      PROVE  SignInv'
  <2> DEFINE p == [ui["login"] EXCEPT !.passkeyEmail = e]
  <2>1. ui' = [ui EXCEPT !["login"] = p]
    BY <1>0, <1>4 DEF Sign!EditPasskeyEmail
  <2>2. /\ p \in SignPage /\ p.loading = ui["login"].loading /\ p.done = ui["login"].done
        /\ p.email = ui["login"].email /\ p.step = ui["login"].step /\ (p.edited = ui["login"].edited)
    BY <1>0 DEF SignPage, MaybeEmail
  <2> HIDE DEF p
  <2> QED
    BY <1>0, <1>2, <2>1, <2>2
<1>5. ASSUME NEW e \in Email, NEW t \in Sign!Tab, Sign!EditEmail(t, e)
      PROVE  SignInv'
  <2> DEFINE b == ui[t].loading
             p == [ui[t] EXCEPT !.email = e, !.edited = b]
  <2>1. ui' = [ui EXCEPT ![t] = p] /\ ui[t].step = "email"
    BY <1>0, <1>5 DEF Sign!EditEmail
  <2>2. b \in BOOLEAN /\ b = ui[t].loading
    BY <1>0 DEF SignPage
  <2> HIDE DEF b
  <2>3. /\ p \in SignPage /\ p.loading = ui[t].loading /\ p.done = ui[t].done
        /\ p.email = e /\ p.step = "email" /\ p.edited = b
    BY <1>0, <2>1, <2>2 DEF SignPage, MaybeEmail
  <2> HIDE DEF p
  <2>4. (p.edited /\ p.step = "email") \/ (~ui[t].loading /\ p.step = "email")
    BY <2>2, <2>3
  <2> QED
    BY <1>2, <2>1, <2>3, <2>4
<1>6. ASSUME NEW t \in Sign!Tab, Sign!ChangeEmail(t)
      PROVE  SignInv'
  <2> DEFINE p == [ui[t] EXCEPT !.step = "email"]
  <2>1. ui' = [ui EXCEPT ![t] = p] /\ ~ui[t].loading
    BY <1>0, <1>6 DEF Sign!ChangeEmail
  <2>2. p \in SignPage /\ p.loading = ui[t].loading /\ p.done = ui[t].done /\ p.step = "email"
    BY <1>0 DEF SignPage
  <2> HIDE DEF p
  <2> QED
    BY <1>2, <2>1, <2>2
<1> QED
  BY <1>3, <1>4, <1>5, <1>6

(* A tab begins to wait. *)
LEMMA SignWaits ==
  ASSUME SignInv, NEW t \in Sign!Tab, ~ui[t].loading, NEW e \in Email, NEW at \in {"send", "verify", "begin"},
         at = "send" => e = ui[t].email, at = "begin" => t = "login",
         ui' = [ui EXCEPT ![t].loading = TRUE],
         calls' = calls \cup {[tab |-> t, email |-> e, at |-> at, key |-> 0]},
         world' \in SignWorld, world'.user = world.user, world'.mailed = world.mailed, (world'.both = world.both)
  PROVE  SignInv'
<1> DEFINE d == [tab |-> t, email |-> e, at |-> at, key |-> 0]
           p == [ui[t] EXCEPT !.loading = TRUE]
<1>0. ui \in [Sign!Tab -> SignPage] /\ calls \subseteq SignCall
  BY SignTypes
<1>1. d \in SignCall /\ d.tab = t /\ d.email = e /\ d.at = at
  BY DEF SignCall, SignPhase
<1>2. p \in SignPage /\ p.loading /\ p.step = ui[t].step /\ (p.edited = ui[t].edited) /\ p.email = ui[t].email /\ p.done = ui[t].done
  BY <1>0 DEF SignPage
<1>3. ui' = [ui EXCEPT ![t] = p] /\ calls' = calls \cup {d}
  BY <1>0
<1> HIDE DEF d, p
<1>4. ui' \in [Sign!Tab -> SignPage] /\ \A s \in Sign!Tab : ui'[s] = IF s = t THEN p ELSE ui[s]
  BY <1>0, <1>2, <1>3
<1>5. \A c \in calls : c.tab \in Sign!Tab /\ c.tab # t
  BY <1>0 DEF SignInv, WaitsInv, SignCall
<1>6. SignTypeOK'
  BY <1>0, <1>1, <1>3, <1>4 DEF SignTypeOK
<1>7. WaitsInv'
  <2>1. \A c \in calls' : (c \in calls /\ c.tab # t) \/ c = d
    BY <1>3, <1>5
  <2> QED
    BY <1>1, <1>2, <1>4, <1>5, <2>1 DEF SignInv, WaitsInv
<1>8. CodeInv'
  BY <1>1, <1>2, <1>3, <1>4, <1>5 DEF SignInv, CodeInv
<1>9. WalletInv' /\ SetUpInv'
  BY <1>1, <1>3 DEF SignInv, WalletInv, SetUpInv, HasWallet
<1>10. Sign!CodeShownWasSent' /\ Sign!SignedInHasWallet' /\ Sign!PasskeySignsIn'
  BY <1>2, <1>4 DEF SignInv, Sign!CodeShownWasSent, Sign!SignedInHasWallet, Sign!PasskeySignsIn
<1> QED
  BY <1>6, <1>7, <1>8, <1>9, <1>10 DEF SignInv

LEMMA SignAskStep ==
  ASSUME SignInv, \A t \in Sign!Tab : ~ui[t].edited,
         Sign!PasskeyLogin \/ \E t \in Sign!Tab : Sign!SendCode(t) \/ Sign!VerifyCode(t)
  PROVE  SignInv'
<1>0. /\ ui \in [Sign!Tab -> SignPage] /\ world \in SignWorld /\ "login" \in Sign!Tab
      /\ \A t \in Sign!Tab : ui[t].email \in MaybeEmail /\ ui[t].passkeyEmail \in MaybeEmail
  BY SignTypes DEF Sign!Tab, SignPage
<1>1. CASE Sign!PasskeyLogin
  <2>1. /\ ~ui["login"].loading /\ ui["login"].passkeyEmail \in Email /\ ui' = [ui EXCEPT !["login"].loading = TRUE]
        /\ calls' = calls \cup {[tab |-> "login", email |-> ui["login"].passkeyEmail, at |-> "begin", key |-> 0]}
    BY <1>0, <1>1 DEF Sign!PasskeyLogin, Sign!Waits, MaybeEmail
  <2>2. /\ world' \in SignWorld /\ world'.user = world.user /\ world'.mailed = world.mailed /\ (world'.both = world.both)
    <3>1. world.tries + 1 \in Nat /\ world' = [world EXCEPT !.tries = world.tries + 1]
      BY <1>0, <1>1 DEF Sign!PasskeyLogin, SignWorld
    <3> QED
      BY <1>0, <3>1 DEF SignWorld
  <2> QED
    BY <1>0, <2>1, <2>2, SignWaits
<1>2. ASSUME NEW t \in Sign!Tab, Sign!SendCode(t)
      PROVE  SignInv'
  <2>1. /\ ~ui[t].loading /\ ui[t].email \in Email /\ ui' = [ui EXCEPT ![t].loading = TRUE]
        /\ calls' = calls \cup {[tab |-> t, email |-> ui[t].email, at |-> "send", key |-> 0]}
    BY <1>0, <1>2 DEF Sign!SendCode, Sign!Waits, MaybeEmail
  <2>2. /\ world' \in SignWorld /\ world'.user = world.user /\ world'.mailed = world.mailed /\ (world'.both = world.both)
    <3>1. world.sends + 1 \in Nat /\ world' = [world EXCEPT !.sends = world.sends + 1]
      BY <1>0, <1>2 DEF Sign!SendCode, SignWorld
    <3> QED
      BY <1>0, <3>1 DEF SignWorld
  <2> QED
    BY <2>1, <2>2, SignWaits
<1>3. ASSUME NEW t \in Sign!Tab, Sign!VerifyCode(t)
      PROVE  SignInv'
  <2>1. /\ ~ui[t].loading /\ ui' = [ui EXCEPT ![t].loading = TRUE] /\ world' = world
        /\ calls' = calls \cup {[tab |-> t, email |-> ui[t].email, at |-> "verify", key |-> 0]}
    BY <1>0, <1>3 DEF Sign!VerifyCode, Sign!Waits
  <2>2. ui[t].email \in Email
    BY <1>3, SignTypes DEF Sign!VerifyCode, SignInv, Sign!CodeShownWasSent
  <2> QED
    BY <1>0, <2>1, <2>2, SignWaits
<1> QED
  BY <1>1, <1>2, <1>3

(* A tab has its answer. *)
LEMMA SignEnds ==
  ASSUME SignInv, NEW c \in calls, calls' = calls \ {c}, world' = world, NEW p \in SignPage,
         ui' = [ui EXCEPT ![c.tab] = p], ~p.loading, (p.edited = ui[c.tab].edited),
         p.step = "email" \/ p.email = ui[c.tab].email,
         (p.step = "code" /\ ~p.edited) => p.email \in world.mailed,
         p.done # None => HasWallet(p.done)
  PROVE  SignInv'
<1>0. ui \in [Sign!Tab -> SignPage] /\ calls \subseteq SignCall /\ c.tab \in Sign!Tab /\ world \in SignWorld
  BY SignTypes DEF SignCall
<1>1. ui' \in [Sign!Tab -> SignPage] /\ \A s \in Sign!Tab : ui'[s] = IF s = c.tab THEN p ELSE ui[s]
  BY <1>0
<1>2. \A d \in calls' : d \in calls /\ d.tab # c.tab /\ d.tab \in Sign!Tab
  BY <1>0 DEF SignInv, WaitsInv, SignCall
<1>3. SignTypeOK'
  BY <1>0, <1>1 DEF SignTypeOK
<1>4. WaitsInv'
  BY <1>1, <1>2 DEF SignInv, WaitsInv
<1>5. CodeInv'
  BY <1>1, <1>2 DEF SignInv, CodeInv
<1>6. WalletInv' /\ SetUpInv'
  BY <1>2 DEF SignInv, WalletInv, SetUpInv, HasWallet
<1>7. Sign!CodeShownWasSent'
  BY <1>1 DEF SignInv, Sign!CodeShownWasSent
<1>8. Sign!SignedInHasWallet' /\ Sign!PasskeySignsIn'
  BY <1>1 DEF SignInv, Sign!SignedInHasWallet, Sign!PasskeySignsIn, HasWallet
<1> QED
  BY <1>3, <1>4, <1>5, <1>6, <1>7, <1>8 DEF SignInv

LEMMA SignEndStep ==
  ASSUME SignInv, \A t \in Sign!Tab : ~ui[t].edited, NEW c \in calls,
         \/ Sign!CodeSent(c) \/ Sign!Failed(c) \/ Sign!Done(c)
         \/ Sign!PasskeyFailed(c) \/ Sign!OfferEmailCode(c)
  PROVE  SignInv'
<1>0. /\ ui \in [Sign!Tab -> SignPage] /\ c \in SignCall /\ c.tab \in Sign!Tab /\ ui[c.tab] \in SignPage /\ "login" \in Sign!Tab
      /\ calls' = calls \ {c} /\ world' = world /\ ~ui[c.tab].edited
  BY SignTypes DEF SignCall, Sign!CodeSent, Sign!Failed, Sign!Done, Sign!PasskeyFailed, Sign!OfferEmailCode, Sign!Tab
<1>1. (ui[c.tab].step = "code" => ui[c.tab].email \in world.mailed) /\ (ui[c.tab].done # None => HasWallet(ui[c.tab].done))
  BY <1>0 DEF SignInv, Sign!CodeShownWasSent, Sign!SignedInHasWallet, HasWallet
<1>2. CASE Sign!CodeSent(c)
  <2> DEFINE p == [ui[c.tab] EXCEPT !.step = "code", !.loading = FALSE]
  <2>1. ui' = [ui EXCEPT ![c.tab] = p]
    BY <1>0, <1>2 DEF Sign!CodeSent
  <2>2. /\ p \in SignPage /\ ~p.loading /\ (p.edited = ui[c.tab].edited) /\ p.email = ui[c.tab].email
        /\ p.done = ui[c.tab].done
    BY <1>0 DEF SignPage
  <2>3. ui[c.tab].email \in world.mailed
    BY <1>0, <1>2 DEF Sign!CodeSent, Sign!Asks, SignInv, CodeInv
  <2> HIDE DEF p
  <2> QED
    BY <1>0, <1>1, <2>1, <2>2, <2>3, SignEnds
<1>3. CASE Sign!Failed(c) \/ Sign!PasskeyFailed(c)
  <2> DEFINE p == [ui[c.tab] EXCEPT !.loading = FALSE]
  <2>0. Sign!PasskeyFailed(c) => c.tab = "login"
    BY DEF Sign!PasskeyFailed, SignInv, WaitsInv
  <2>1. ui' = [ui EXCEPT ![c.tab] = p]
    BY <1>0, <1>3, <2>0 DEF Sign!Failed, Sign!PasskeyFailed
  <2>2. /\ p \in SignPage /\ ~p.loading /\ (p.edited = ui[c.tab].edited) /\ p.email = ui[c.tab].email
        /\ p.step = ui[c.tab].step /\ p.done = ui[c.tab].done
    BY <1>0 DEF SignPage
  <2> HIDE DEF p
  <2> QED
    BY <1>0, <1>1, <2>1, <2>2, SignEnds
<1>4. CASE Sign!Done(c)
  <2> DEFINE p == [ui[c.tab] EXCEPT !.done = c.email, !.loading = FALSE]
  <2>1. ui' = [ui EXCEPT ![c.tab] = p]
    BY <1>0, <1>4 DEF Sign!Done
  <2>2. /\ p \in SignPage /\ ~p.loading /\ (p.edited = ui[c.tab].edited) /\ p.email = ui[c.tab].email
        /\ p.step = ui[c.tab].step /\ p.done = c.email
    BY <1>0 DEF SignPage, SignCall, MaybeEmail
  <2>3. HasWallet(c.email)
    BY <1>4 DEF Sign!Done, SignInv, WalletInv
  <2> HIDE DEF p
  <2> QED
    BY <1>0, <1>1, <2>1, <2>2, <2>3, SignEnds
<1>5. CASE Sign!OfferEmailCode(c)
  <2> DEFINE p == [ui[c.tab] EXCEPT !.loading = FALSE, !.email = c.email, !.step = "email", !.mode = "otp"]
  <2>0. c.tab = "login"
    BY <1>5 DEF Sign!OfferEmailCode, SignInv, WaitsInv
  <2>1. ui' = [ui EXCEPT ![c.tab] = p]
    BY <1>0, <1>5, <2>0 DEF Sign!OfferEmailCode
  <2>2. /\ p \in SignPage /\ ~p.loading /\ (p.edited = ui[c.tab].edited)
        /\ p.step = "email" /\ p.done = ui[c.tab].done
    BY <1>0 DEF SignPage, SignCall, MaybeEmail
  <2> HIDE DEF p
  <2> QED
    BY <1>0, <1>1, <2>1, <2>2, SignEnds
<1> QED
  BY <1>2, <1>3, <1>4, <1>5

(* The call of a tab goes on, and no user has less than before. *)
LEMMA SignGoes ==
  ASSUME SignInv, NEW c \in calls, NEW d \in SignCall, calls' = (calls \ {c}) \cup {d}, ui' = ui,
         d.tab = c.tab, d.email = c.email, d.at \in {"begin", "assert", "complete"} => d.tab = "login",
         d.at # "send", d.at = "mailed" => c.at = "send" /\ d.email \in world'.mailed,
         d.at \in {"assert", "complete", "done"} => HasWallet(d.email)', d.at \in {"derive", "link"} => d.key # 0,
         world' \in SignWorld, world.mailed \subseteq world'.mailed,
         \A e \in Email : HasWallet(e) => HasWallet(e)',
         SetUpInv', Sign!PasskeySignsIn'
  PROVE  SignInv'
<1>0. ui \in [Sign!Tab -> SignPage] /\ calls \subseteq SignCall
  BY SignTypes
<1>1. SignTypeOK'
  BY <1>0 DEF SignTypeOK
<1>2. \A x \in calls' : x = d \/ (x \in calls /\ x.tab # c.tab)
  BY DEF SignInv, WaitsInv
<1>3. WaitsInv'
  BY <1>2 DEF SignInv, WaitsInv
<1>4. CodeInv'
  BY <1>2 DEF SignInv, CodeInv
<1>5. WalletInv'
  <2>1. \A x \in calls : x.email \in Email
    BY <1>0 DEF SignCall
  <2> QED
    BY <1>2, <2>1 DEF SignInv, WalletInv
<1>6. Sign!CodeShownWasSent'
  BY DEF SignInv, Sign!CodeShownWasSent
<1>7. Sign!SignedInHasWallet'
  <2>1. \A t \in Sign!Tab : ui[t].done # None => ui[t].done \in Email
    BY <1>0 DEF SignPage, MaybeEmail
  <2> QED
    BY <2>1 DEF SignInv, Sign!SignedInHasWallet, HasWallet
<1> QED
  BY <1>1, <1>3, <1>4, <1>5, <1>6, <1>7 DEF SignInv

LEMMA SignGoStep ==
  ASSUME SignInv, NEW c \in calls,
         \/ Sign!Mails(c) \/ Sign!StartRegistration(c) \/ Sign!Ready(c)
         \/ Sign!Begins(c) \/ Sign!Asserts(c) \/ Sign!Completes(c)
  PROVE  SignInv'
<1>0. c \in SignCall /\ world \in SignWorld /\ calls \subseteq SignCall /\ world.user \in [Email -> Account0 \cup {None}]
  BY SignTypes
<1>1. ASSUME NEW at \in SignPhase, NEW key \in Nat, calls' = (calls \ {c}) \cup {[c EXCEPT !.at = at, !.key = key]}, ui' = ui,
             at \in {"assert", "complete"} => c.tab = "login",
             at \notin {"send", "begin", "create"}, at = "mailed" => c.at = "send" /\ c.email \in world'.mailed,
             at \in {"assert", "complete", "done"} => HasWallet(c.email), at \in {"derive", "link"} => key # 0,
             at \in {"create", "derive", "link"} => c.at \in {"create", "derive"},
             world' \in SignWorld, world.mailed \subseteq world'.mailed, world'.user = world.user, (world'.both = world.both)
      PROVE  SignInv'
  <2> DEFINE d == [c EXCEPT !.at = at, !.key = key]
  <2>1. d \in SignCall /\ d.tab = c.tab /\ d.email = c.email /\ d.at = at /\ d.key = key
    BY <1>0, <1>1 DEF SignCall
  <2>2. calls' = (calls \ {c}) \cup {d}
    BY <1>1
  <2> HIDE DEF d
  <2>3. SetUpInv'
    BY <1>1, <2>1, <2>2 DEF SignInv, SetUpInv
  <2>4. Sign!PasskeySignsIn'
    BY <1>1 DEF SignInv, Sign!PasskeySignsIn
  <2>5. \A e \in Email : HasWallet(e) => HasWallet(e)'
    BY <1>1 DEF HasWallet
  <2>6. d.at \in {"assert", "complete", "done"} => HasWallet(d.email)'
    BY <1>1, <2>1 DEF HasWallet
  <2> QED
    BY <1>1, <2>1, <2>2, <2>3, <2>4, <2>5, <2>6, SignGoes
<1>2. c.key \in Nat /\ \A at \in SignPhase : [c EXCEPT !.at = at] = [c EXCEPT !.at = at, !.key = c.key]
  BY <1>0 DEF SignCall
<1>3. CASE Sign!Mails(c)
  <2>1. /\ world' = [world EXCEPT !.codes = @ \cup {c.email}, !.mailed = @ \cup {c.email}]
        /\ c.at = "send" /\ calls' = (calls \ {c}) \cup {[c EXCEPT !.at = "mailed"]} /\ ui' = ui
    BY <1>3 DEF Sign!Mails, Sign!Goes
  <2>2. /\ world' \in SignWorld /\ world.mailed \subseteq world'.mailed /\ c.email \in world'.mailed
        /\ world'.user = world.user /\ (world'.both = world.both)
    BY <1>0, <2>1 DEF SignWorld, SignCall
  <2> QED
    BY <1>1, <1>2, <2>1, <2>2 DEF SignPhase
<1>4. CASE Sign!StartRegistration(c)
  <2> DEFINE n == world.keys + 1
  <2>1. n \in Nat /\ n # 0
    BY <1>0 DEF SignWorld
  <2>2. world' = [world EXCEPT !.keys = n]
    BY <1>0, <1>4 DEF Sign!StartRegistration, SignWorld
  <2>3. c.at = "create" /\ calls' = (calls \ {c}) \cup {[c EXCEPT !.at = "derive", !.key = n]} /\ ui' = ui
    BY <1>4 DEF Sign!StartRegistration
  <2> HIDE DEF n
  <2>4. /\ world' \in SignWorld /\ world.mailed \subseteq world'.mailed
        /\ world'.user = world.user /\ (world'.both = world.both)
    BY <1>0, <2>1, <2>2 DEF SignWorld
  <2> QED
    BY <1>1, <2>1, <2>3, <2>4 DEF SignPhase
<1>5. CASE Sign!Ready(c)
  <2>1. c.at = "derive" /\ calls' = (calls \ {c}) \cup {[c EXCEPT !.at = "link"]} /\ ui' = ui /\ world' = world
    BY <1>5 DEF Sign!Ready, Sign!Goes
  <2>2. c.key # 0
    BY <2>1 DEF SignInv, WalletInv
  <2> QED
    BY <1>0, <1>1, <1>2, <2>1, <2>2 DEF SignPhase
<1>6. CASE Sign!Begins(c) \/ Sign!Asserts(c) \/ Sign!Completes(c)
  <2>1. PICK at \in {"assert", "complete", "done"} :
          calls' = (calls \ {c}) \cup {[c EXCEPT !.at = at]} /\ ui' = ui /\ world' = world
    BY <1>6 DEF Sign!Begins, Sign!Asserts, Sign!Completes, Sign!Goes
  <2>2. c.tab = "login"
    BY <1>6 DEF Sign!Begins, Sign!Asserts, Sign!Completes, SignInv, WaitsInv
  <2>3. HasWallet(c.email)
    BY <1>6 DEF Sign!Begins, Sign!Asserts, Sign!Completes, SignInv, WalletInv, HasWallet, Sign!NeedsWallet
  <2>4. at \in SignPhase
    BY DEF SignPhase
  <2> QED
    BY <1>0, <1>1, <1>2, <2>1, <2>2, <2>3, <2>4
<1> QED
  BY <1>3, <1>4, <1>5, <1>6

(* The user of a verified address needs a wallet, or has one. *)
LEMMA SignVerifiesStep ==
  ASSUME SignInv, NEW c \in calls, Sign!Verifies(c)
  PROVE  SignInv'
<1> DEFINE needs == Sign!NeedsWallet(c.email)
           met == world.both \/ (needs /\ Sign!SettingUp(c.email) # {})
           fresh == [wallet |-> 0, credential |-> 0, passkey |-> 0]
           user == [world.user EXCEPT ![c.email] = IF world.user[c.email] = None THEN fresh ELSE world.user[c.email]]
           next == [c EXCEPT !.at = IF needs THEN "create" ELSE "done"]
<1>0. /\ c \in SignCall /\ world \in SignWorld /\ calls \subseteq SignCall /\ world.user \in [Email -> Account0 \cup {None}]
      /\ c.email \in Email
  BY SignTypes DEF SignCall
<1>1. /\ world' = [world EXCEPT !.codes = @ \ {c.email}, !.user = user, !.both = met]
      /\ calls' = (calls \ {c}) \cup {next} /\ ui' = ui
  BY <1>0 DEF Sign!Verifies, Sign!Goes, SignWorld
<1>2. PICK d \in SignCall :
        d = next /\ d.tab = c.tab /\ d.email = c.email /\ (needs => d.at = "create") /\ (~needs => d.at = "done")
  <2>1. next \in SignCall /\ next.tab = c.tab /\ next.email = c.email /\ (needs => next.at = "create") /\ (~needs => next.at = "done")
    BY <1>0 DEF SignCall, SignPhase
  <2> QED
    BY <2>1
<1>3. fresh \in Account0 /\ fresh # None /\ fresh.wallet = 0 /\ fresh.credential = 0 /\ fresh.passkey = 0
  BY SignAssumption DEF Account0
<1>4. met \in BOOLEAN /\ needs \in BOOLEAN
  BY <1>0 DEF Sign!NeedsWallet, SignWorld
<1>5. /\ ~met => ~world.both
      /\ ~met /\ needs => \A x \in calls : x.at \in {"create", "derive", "link"} => x.email # c.email
  BY DEF Sign!SettingUp
<1>6. needs <=> ~HasWallet(c.email)
  BY DEF Sign!NeedsWallet, HasWallet
<1> HIDE DEF next, needs, met, fresh
<1>7. /\ user \in [Email -> Account0 \cup {None}]
      /\ \A e \in Email : user[e] = IF e = c.email /\ world.user[e] = None THEN fresh ELSE world.user[e]
  BY <1>0, <1>3
<1> HIDE DEF user
<1>8. world' \in SignWorld /\ world'.user = user /\ (world'.both = met) /\ world'.mailed = world.mailed
  BY <1>0, <1>1, <1>4, <1>7 DEF SignWorld
<1>9. \A e \in Email : HasWallet(e) => HasWallet(e)'
  BY <1>7, <1>8 DEF HasWallet
<1>10. SetUpInv'
  <2> SUFFICES ASSUME ~met
               PROVE  /\ \A x \in calls' : x.at \in {"create", "derive", "link"} => user[x.email] # None /\ user[x.email].wallet = 0
                      /\ \A x, y \in calls' : x.at \in {"create", "derive", "link"} /\ y.at \in {"create", "derive", "link"} /\ x.email = y.email => x = y
    BY <1>8 DEF SetUpInv
  <2>1. /\ \A x \in calls : x.at \in {"create", "derive", "link"} => world.user[x.email] # None /\ world.user[x.email].wallet = 0
        /\ \A x, y \in calls : x.at \in {"create", "derive", "link"} /\ y.at \in {"create", "derive", "link"} /\ x.email = y.email => x = y
    BY <1>5 DEF SignInv, SetUpInv
  <2>2. \A x \in calls : x.email \in Email
    BY <1>0 DEF SignCall
  <2>3. d.at \in {"create", "derive", "link"} => needs
    BY <1>2, <1>4
  <2>4. d.at \in {"create", "derive", "link"} => user[d.email] # None /\ user[d.email].wallet = 0
    BY <1>0, <1>2, <1>3, <1>6, <1>7, <2>3 DEF HasWallet
  <2>5. \A x \in calls : x.at \in {"create", "derive", "link"} => user[x.email] # None /\ user[x.email].wallet = 0
    BY <1>7, <2>1, <2>2
  <2>6. \A x \in calls' : x = d \/ x \in calls
    BY <1>1, <1>2
  <2> QED
    BY <1>2, <1>5, <2>1, <2>3, <2>4, <2>5, <2>6
<1>11. Sign!PasskeySignsIn'
  BY <1>3, <1>5, <1>7, <1>8 DEF SignInv, Sign!PasskeySignsIn
<1>12. d.at \in {"create", "done"} /\ (d.at = "done" => HasWallet(d.email)')
  <2>1. d.at \in {"create", "done"}
    BY <1>2, <1>4
  <2>2. ASSUME d.at = "done"
        PROVE  HasWallet(d.email)'
    <3>1. ~needs
      BY <1>2, <2>2
    <3>2. HasWallet(c.email)
      BY <1>6, <3>1
    <3>3. HasWallet(c.email)'
      BY <1>0, <1>9, <3>2
    <3> QED
      BY <1>2, <3>3 DEF HasWallet
  <2> QED
    BY <2>1, <2>2
<1>13. world.mailed \subseteq world'.mailed
  BY <1>8
<1> QED
  BY <1>1, <1>2, <1>8, <1>9, <1>10, <1>11, <1>12, <1>13, SignGoes

(* The new key becomes the wallet and the credential. *)
LEMMA SignLinkStep ==
  ASSUME SignInv, ~world.both, NEW c \in calls, Sign!LinkWallet(c)
  PROVE  SignInv'
<1> DEFINE d == [c EXCEPT !.at = "done"]
           u == world.user[c.email]
<1>0. /\ c \in SignCall /\ world \in SignWorld /\ calls \subseteq SignCall /\ world.user \in [Email -> Account0 \cup {None}]
      /\ c.email \in Email /\ c.at = "link" /\ c.key \in Nat /\ c.key # 0 /\ \A x \in calls : x.email \in Email
  BY SignTypes DEF SignCall, Sign!LinkWallet, SignInv, WalletInv
<1>1. /\ calls' = (calls \ {c}) \cup {d} /\ ui' = ui
      /\ \E k \in Sign!Passkeys(c) :
           world' = [world EXCEPT !.user[c.email] = [wallet |-> c.key, credential |-> c.key, passkey |-> k]]
  BY DEF Sign!LinkWallet, Sign!Goes
<1>2. d \in SignCall /\ d.tab = c.tab /\ d.email = c.email /\ d.at = "done"
  BY <1>0 DEF SignCall, SignPhase
<1> HIDE DEF d
<1>3. u # None /\ u.wallet = 0 /\ u.credential = 0 /\ u.passkey = 0
  <2>1. u # None /\ u.wallet = 0
    BY <1>0 DEF SignInv, SetUpInv
  <2>2. u.wallet = u.credential /\ u.passkey \in {0, u.credential}
    BY <1>0, <2>1 DEF SignInv, Sign!PasskeySignsIn
  <2> QED
    BY <2>1, <2>2
<1>4. PICK k \in {0, c.key} :
        world' = [world EXCEPT !.user[c.email] = [wallet |-> c.key, credential |-> c.key, passkey |-> k]]
  BY <1>1, <1>3 DEF Sign!Passkeys
<1> DEFINE new == [wallet |-> c.key, credential |-> c.key, passkey |-> k]
           user == [world.user EXCEPT ![c.email] = new]
<1>5. world' = [world EXCEPT !.user = user]
  BY <1>4
<1>6. /\ new \in Account0 /\ new # None
      /\ new.wallet = c.key /\ new.credential = c.key /\ new.passkey = k
  BY <1>0, SignAssumption DEF Account0
<1> HIDE DEF new
<1>7. user \in [Email -> Account0 \cup {None}] /\ \A e \in Email : user[e] = IF e = c.email THEN new ELSE world.user[e]
  BY <1>0, <1>6
<1> HIDE DEF user, u
<1>8. world' \in SignWorld /\ world'.user = user /\ (world'.both = world.both) /\ world'.mailed = world.mailed
  BY <1>0, <1>5, <1>7 DEF SignWorld
<1>9. \A e \in Email : HasWallet(e) => HasWallet(e)'
  BY <1>0, <1>6, <1>7, <1>8 DEF HasWallet
<1>10. HasWallet(d.email)'
  BY <1>0, <1>2, <1>6, <1>7, <1>8 DEF HasWallet
<1>11. SetUpInv'
  <2>1. \A x \in calls' : x.at \in {"create", "derive", "link"} => x \in calls /\ x # c
    BY <1>1, <1>2
  <2>2. /\ \A x \in calls : x.at \in {"create", "derive", "link"} => world.user[x.email] # None /\ world.user[x.email].wallet = 0
        /\ \A x, y \in calls : x.at \in {"create", "derive", "link"} /\ y.at \in {"create", "derive", "link"} /\ x.email = y.email => x = y
    BY DEF SignInv, SetUpInv
  <2>3. \A x \in calls' : x.at \in {"create", "derive", "link"} => x.email # c.email
    BY <1>0, <2>1, <2>2
  <2>4. \A x \in calls' : x.at \in {"create", "derive", "link"} => user[x.email] # None /\ user[x.email].wallet = 0
    BY <1>0, <1>7, <2>1, <2>2, <2>3
  <2>5. \A x, y \in calls' : x.at \in {"create", "derive", "link"} /\ y.at \in {"create", "derive", "link"} /\ x.email = y.email => x = y
    BY <2>1, <2>2
  <2> QED
    BY <1>8, <2>4, <2>5 DEF SetUpInv
<1>12. Sign!PasskeySignsIn'
  BY <1>6, <1>7, <1>8 DEF SignInv, Sign!PasskeySignsIn
<1>13. world.mailed \subseteq world'.mailed
  BY <1>8
<1> QED
  BY <1>1, <1>2, <1>8, <1>9, <1>10, <1>11, <1>12, <1>13, SignGoes

LEMMA SignNext == SignInv /\ Sign!Next => SignInv'
<1> SUFFICES ASSUME SignInv, Sign!Next PROVE SignInv'
  OBVIOUS
<1>1. ~world.both /\ \A t \in Sign!Tab : ~ui[t].edited
  BY DEF Sign!Next
<1>2. CASE \/ Sign!PasskeyLogin \/ \E t \in Sign!Tab : Sign!SendCode(t) \/ Sign!VerifyCode(t)
  BY <1>1, <1>2, SignAskStep
<1>3. CASE \/ \E m \in {"passkey", "otp"} : Sign!SetLoginMode(m)
           \/ \E e \in Email : Sign!EditPasskeyEmail(e) \/ \E t \in Sign!Tab : Sign!EditEmail(t, e)
           \/ \E t \in Sign!Tab : Sign!ChangeEmail(t)
  BY <1>1, <1>3, SignEditStep
<1>4. ASSUME NEW c \in calls,
             \/ Sign!CodeSent(c) \/ Sign!Failed(c) \/ Sign!Done(c)
             \/ Sign!PasskeyFailed(c) \/ Sign!OfferEmailCode(c)
      PROVE  SignInv'
  BY <1>1, <1>4, SignEndStep
<1>5. ASSUME NEW c \in calls,
             \/ Sign!Mails(c) \/ Sign!StartRegistration(c) \/ Sign!Ready(c)
             \/ Sign!Begins(c) \/ Sign!Asserts(c) \/ Sign!Completes(c)
      PROVE  SignInv'
  BY <1>5, SignGoStep
<1>6. ASSUME NEW c \in calls, Sign!Verifies(c) \/ Sign!LinkWallet(c)
      PROVE  SignInv'
  BY <1>1, <1>6, SignVerifiesStep, SignLinkStep
<1> QED
  BY <1>2, <1>3, <1>4, <1>5, <1>6 DEF Sign!Next

LEMMA SignStutter == SignInv /\ UNCHANGED vars => SignInv'
BY DEF vars, SignInv, SignTypeOK, WaitsInv, CodeInv, WalletInv, HasWallet, SetUpInv, Sign!CodeShownWasSent,
   Sign!SignedInHasWallet, Sign!PasskeySignsIn

-----------------------------------------------------------------------------
(* The pages together: each keeps its invariant, and a behaviour stays with    *)
(* the page it is of.                                                          *)
PagesInv ==
  /\ part = "transfer" => TransferInv
  /\ part = "form" => FormInv
  /\ part = "race" => TaskInv(Rival)
  /\ part = "task" => TaskInv(Worker)
  /\ part = "create" => CreateInv
  /\ part = "lists" => ListsPageInv
  /\ part = "jury" => JuryInv
  /\ part = "tab" => TabInv
  /\ part = "birth" => BirthInv
  /\ part = "recover" => RecoverInv
  /\ part = "device" => DeviceInv
  /\ part = "passkey" => PasskeyPageInv
  /\ part = "tokens" => TokensInv
  /\ part = "nfts" => CollectionInv
  /\ part = "book" => BookPageInv
  /\ part = "sponsors" => SponsorsInv
  /\ part = "raise" => RaisePageInv
  /\ part = "archive" => ArchiveInv
  /\ part = "sign" => SignInv

LEMMA PagesInit == Init => PagesInv
<1> SUFFICES ASSUME Init PROVE PagesInv
  OBVIOUS
<1>1. CASE part = "transfer" /\ Transfer!Init
  BY <1>1, TransferInit DEF PagesInv
<1>2. CASE part = "form" /\ Form!Init
  BY <1>2, FormInit DEF PagesInv
<1>3. CASE part = "race" /\ TaskOf(Rival, 0)!Init
  BY <1>3, TaskInit DEF PagesInv
<1>4. CASE part = "task" /\ TaskOf(Worker, MaxLost)!Init
  BY <1>4, TaskInit DEF PagesInv
<1>5. CASE part = "create" /\ Create!Init
  BY <1>5, CreateInit DEF PagesInv
<1>6. CASE part = "lists" /\ Lists!Init
  BY <1>6, ListsInit DEF PagesInv
<1>7. CASE part = "jury" /\ Jury!Init
  BY <1>7, JuryInit DEF PagesInv
<1>8. CASE part = "tab" /\ Tab!Init
  BY <1>8, TabInit DEF PagesInv
<1>9. CASE part = "birth" /\ Birth!Init
  BY <1>9, BirthInit DEF PagesInv
<1>10. CASE part = "recover" /\ Recover!Init
  BY <1>10, RecoverInit DEF PagesInv
<1>11. CASE part = "device" /\ Device!Init
  BY <1>11, DeviceInit DEF PagesInv
<1>12. CASE part = "passkey" /\ Passkey!Init
  BY <1>12, PasskeyInit DEF PagesInv
<1>13. CASE part = "tokens" /\ Tokens!Init
  BY <1>13, TokensInit DEF PagesInv
<1>14. CASE part = "nfts" /\ Collection!Init
  BY <1>14, CollectionInit DEF PagesInv
<1>15. CASE part = "book" /\ Book!Init
  BY <1>15, BookInit DEF PagesInv
<1>16. CASE part = "sponsors" /\ Sponsors!Init
  BY <1>16, SponsorsInit DEF PagesInv
<1>17. CASE part = "raise" /\ Raise!Init
  BY <1>17, RaisePageInit DEF PagesInv
<1>18. CASE part = "archive" /\ Archive!Init
  BY <1>18, ArchiveInit DEF PagesInv
<1>19. CASE part = "sign" /\ Sign!Init
  BY <1>19, SignInit DEF PagesInv
<1> QED
  BY <1>1, <1>2, <1>3, <1>4, <1>5, <1>6, <1>7, <1>8, <1>9, <1>10, <1>11, <1>12, <1>13, <1>14, <1>15, <1>16, <1>17,
     <1>18, <1>19 DEF Init

LEMMA PagesStep == PagesInv /\ [Next]_vars => PagesInv'
<1> SUFFICES ASSUME PagesInv, [Next]_vars PROVE PagesInv'
  OBVIOUS
<1>1. CASE Of("transfer") /\ Transfer!Next
  BY <1>1, TransferNext DEF PagesInv, Of
<1>2. CASE Of("form") /\ Form!Next
  BY <1>2, FormNext DEF PagesInv, Of
<1>3. CASE Of("race") /\ TaskOf(Rival, 0)!Next
  BY <1>3, TaskNext DEF PagesInv, Of
<1>4. CASE Of("task") /\ TaskOf(Worker, MaxLost)!Next
  BY <1>4, TaskNext DEF PagesInv, Of
<1>5. CASE Of("create") /\ Create!Next
  BY <1>5, CreateNext DEF PagesInv, Of
<1>6. CASE Of("lists") /\ Lists!Next
  BY <1>6, ListsNext DEF PagesInv, Of
<1>7. CASE Of("jury") /\ Jury!Next
  BY <1>7, JuryNext DEF PagesInv, Of
<1>8. CASE Of("tab") /\ Tab!Next
  BY <1>8, TabNext DEF PagesInv, Of
<1>9. CASE Of("birth") /\ Birth!Next
  BY <1>9, BirthNext DEF PagesInv, Of
<1>10. CASE Of("recover") /\ Recover!Next
  BY <1>10, RecoverNext DEF PagesInv, Of
<1>11. CASE Of("device") /\ Device!Next
  BY <1>11, DeviceNext DEF PagesInv, Of
<1>12. CASE Of("passkey") /\ Passkey!Next
  BY <1>12, PasskeyNext DEF PagesInv, Of
<1>13. CASE Of("tokens") /\ Tokens!Next
  BY <1>13, TokensNext DEF PagesInv, Of
<1>14. CASE Of("nfts") /\ Collection!Next
  BY <1>14, CollectionNext DEF PagesInv, Of
<1>15. CASE Of("book") /\ Book!Next
  BY <1>15, BookNext DEF PagesInv, Of
<1>16. CASE Of("sponsors") /\ Sponsors!Next
  BY <1>16, SponsorsNext DEF PagesInv, Of
<1>17. CASE Of("raise") /\ Raise!Next
  BY <1>17, RaiseNext DEF PagesInv, Of
<1>18. CASE Of("archive") /\ Archive!Next
  BY <1>18, ArchiveNext DEF PagesInv, Of
<1>19. CASE Of("sign") /\ Sign!Next
  BY <1>19, SignNext DEF PagesInv, Of
<1>20. CASE UNCHANGED vars
  <2>1. ASSUME part = "transfer" PROVE TransferInv'
    BY <1>20, <2>1, TransferStutter DEF PagesInv, vars
  <2>2. ASSUME part = "form" PROVE FormInv'
    BY <1>20, <2>2, FormStutter DEF PagesInv, vars
  <2>3. ASSUME part = "race" PROVE TaskInv(Rival)'
    BY <1>20, <2>3, TaskStutter DEF PagesInv, vars
  <2>4. ASSUME part = "task" PROVE TaskInv(Worker)'
    BY <1>20, <2>4, TaskStutter DEF PagesInv, vars
  <2>5. ASSUME part = "create" PROVE CreateInv'
    BY <1>20, <2>5, CreateStutter DEF PagesInv, vars
  <2>6. ASSUME part = "lists" PROVE ListsPageInv'
    BY <1>20, <2>6, ListsStutter DEF PagesInv, vars
  <2>7. ASSUME part = "jury" PROVE JuryInv'
    BY <1>20, <2>7, JuryStutter DEF PagesInv, vars
  <2>8. ASSUME part = "tab" PROVE TabInv'
    BY <1>20, <2>8, TabStutter DEF PagesInv, vars
  <2>9. ASSUME part = "birth" PROVE BirthInv'
    BY <1>20, <2>9, BirthStutter DEF PagesInv, vars
  <2>10. ASSUME part = "recover" PROVE RecoverInv'
    BY <1>20, <2>10, RecoverStutter DEF PagesInv, vars
  <2>11. ASSUME part = "device" PROVE DeviceInv'
    BY <1>20, <2>11, DeviceStutter DEF PagesInv, vars
  <2>12. ASSUME part = "passkey" PROVE PasskeyPageInv'
    BY <1>20, <2>12, PasskeyStutter DEF PagesInv, vars
  <2>13. ASSUME part = "tokens" PROVE TokensInv'
    BY <1>20, <2>13, TokensStutter DEF PagesInv, vars
  <2>14. ASSUME part = "nfts" PROVE CollectionInv'
    BY <1>20, <2>14, CollectionStutter DEF PagesInv, vars
  <2>15. ASSUME part = "book" PROVE BookPageInv'
    BY <1>20, <2>15, BookStutter DEF PagesInv, vars
  <2>16. ASSUME part = "sponsors" PROVE SponsorsInv'
    BY <1>20, <2>16, SponsorsStutter DEF PagesInv, vars
  <2>17. ASSUME part = "raise" PROVE RaisePageInv'
    BY <1>20, <2>17, RaiseStutter DEF PagesInv, vars
  <2>18. ASSUME part = "archive" PROVE ArchiveInv'
    BY <1>20, <2>18, ArchiveStutter DEF PagesInv, vars
  <2>19. ASSUME part = "sign" PROVE SignInv'
    BY <1>20, <2>19, SignStutter DEF PagesInv, vars
  <2>20. part' = part
    BY <1>20 DEF vars
  <2> QED
    BY <2>1, <2>2, <2>3, <2>4, <2>5, <2>6, <2>7, <2>8, <2>9, <2>10, <2>11, <2>12, <2>13, <2>14, <2>15, <2>16, <2>17,
       <2>18, <2>19, <2>20 DEF PagesInv
<1> QED
  BY <1>1, <1>2, <1>3, <1>4, <1>5, <1>6, <1>7, <1>8, <1>9, <1>10, <1>11, <1>12, <1>13, <1>14, <1>15, <1>16, <1>17,
     <1>18, <1>19, <1>20 DEF Next

(* The invariants of the pages hold in every state that is reached.           *)
THEOREM PagesKeep == Spec => []PagesInv
<1> QED
  BY PagesInit, PagesStep, PTL DEF Spec

(* What a page shows, for any order of the answers: the tier of the amount  *)
(* and asset that are entered, whatever came late; a status of the transfer *)
(* that was sent or of an earlier one that was being polled when it was     *)
(* begun; the gas of the amount unless its answer came after the amount had *)
(* changed; a list of who is logged in and not older than its last request, *)
(* if the load begun last ended last and did not fail; nobody else's        *)
(* account and history, unless they were loaded for more than one login or  *)
(* left by an expired one; a step that signatures or the chain back while   *)
(* nobody acts elsewhere; the owner that was proposed; the figures of the   *)
(* collection, the book and the paymasters, if their loads, and the reads   *)
(* behind them, came and in order; an address a code was sent to unless it was edited meanwhile.     *)
THEOREM ShownCurrent == Spec => []ShownIsCurrent
<1>1. PagesInv => ShownIsCurrent
  BY TransferInvImplies, FormInvImplies, ListsInvImplies, TabInvImplies, BirthInvImplies, RecoverInvImplies,
     PasskeyInvImplies, CollectionInvImplies, BookInvImplies, SponsorsInvImplies DEF PagesInv, ShownIsCurrent, SignInv
<1> QED
  BY <1>1, PagesKeep, PTL

(* What is signed and sent is what the user was shown and what was judged:  *)
(* the transfer, unless a second node withheld its signature, and its path, *)
(* unless the button was pressed before the judgement had come; a reward    *)
(* the allowance covers and a registration of a juror its approval backs,   *)
(* while no operation was lost and no read failed; the salt and version     *)
(* both guardians signed, with keys that differ unless a ceremony outlived  *)
(* its dialog; the address that a guardian's signature is of; the limits of *)
(* the digest that the guardians signed.                                    *)
THEOREM SentShown == Spec => []SentAsShown
<1>1. PagesInv => SentAsShown
  BY TransferInvImplies, CreateInvImplies, JuryInvImplies, BirthInvImplies DEF PagesInv, SentAsShown, DeviceInv,
     RaisePageInv, RaiseInv
<1> QED
  BY <1>1, PagesKeep, PTL

(* A button that is offered does what it says, while the page shows the     *)
(* state as it is: an unsponsored transfer is covered unless a balance came *)
(* late, the contract takes the operations of a task and of the jury's      *)
(* panel, a key signs that was derived, the contract takes what a passkey   *)
(* signed unless someone else moved the nonce, an edit is of the entry that *)
(* is shown while loads come in order, the default is a saved paymaster but *)
(* for what DefaultIsSaved names, and the account takes limits that         *)
(* guardians signed in time.                                                *)
THEOREM OfferedAccepted == Spec => []OfferedIsAccepted
<1>1. PagesInv => OfferedIsAccepted
  BY FormInvImplies, TaskOffered, JuryOffered, PasskeyInvImplies, BookInvImplies, SponsorsInvImplies, RaiseTaken
     DEF PagesInv, OfferedIsAccepted, DeviceInv
<1> QED
  BY <1>1, PagesKeep, PTL

(* A page at rest shows what its user has done: the operation on a task, or *)
(* no task; a vote whose lookup met no other; the account, unless loads     *)
(* overlapped, failed or crossed a login; a token, unless its load failed   *)
(* or was overtaken or its file could not be read; an NFT, unless others    *)
(* wrote around its addition or the file was lost; the uses of a contact,   *)
(* never too many, and all until the book was lost; an import has left the  *)
(* archive, or what was there, until somebody writes; and whoever a page    *)
(* signs in has a wallet.                                                   *)
THEOREM EffectSeen == Spec => []OwnEffectSeen
<1>1. PagesInv => OwnEffectSeen
  BY TaskInvImplies, JuryInvImplies, TabInvImplies, TokensInvImplies, CollectionInvImplies, BookInvImplies DEF
     PagesInv, OwnEffectSeen, ArchiveInv, SignInv
<1> QED
  BY <1>1, PagesKeep, PTL

(* What the user did once takes effect once, however often a page or the    *)
(* backend tries: a mined transfer is counted once in the book; a click     *)
(* posts one task, but for the outcomes the page did not learn; a token and *)
(* an NFT have a row each, unless two additions overlapped; the passkey     *)
(* stored for the chain is the one that signs in, unless two tabs set up a  *)
(* wallet for one user at once.                                             *)
THEOREM OnceDone == Spec => []DoneOnce
<1>1. PagesInv => DoneOnce
  BY TransferInvImplies, CreateInvImplies, TokensInvImplies, CollectionInvImplies DEF PagesInv, DoneOnce, SignInv
<1> QED
  BY <1>1, PagesKeep, PTL

(* What an import has begun to replace is in its place or in a backup until *)
(* the import succeeds, even when the backend stopped half way              *)
(* (importData), as long as nobody else writes meanwhile.                   *)
THEOREM KeptUntilReplaced == Spec => []NothingLost
<1>1. PagesInv => NothingLost
  BY DEF PagesInv, NothingLost, ArchiveInv
<1> QED
  BY <1>1, PagesKeep, PTL
=============================================================================
