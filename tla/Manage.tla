------------------------------- MODULE Manage -------------------------------
(* The operator's management pages (aastar-frontend/app/operator/manage):    *)
(* xpnts, paymaster and superpaymaster.  Each reads the contracts of the     *)
(* connected operator, sends writes from the operator's wallet, and reads    *)
(* again four seconds after a write was sent.                                *)
EXTENDS Naturals, FiniteSets

CONSTANTS
  Account,     \* accounts of the injected wallet
  None,
  MaxConnects, \* bound: prompts to connect and disconnects
  MaxSwitches, \* bound: changes of the wallet's active account
  MaxWrites,   \* bound: writes
  MaxLoads     \* bound: loads in flight

VARIABLES
  ui,    \* address, client, connecting, seq: the context; other fields: the page
  calls, \* prompts to connect; other kinds: the page's requests
  world  \* active: the wallet's account, None when locked; other fields: history

vars == <<ui, calls, world>>

-----------------------------------------------------------------------------
(* The operator's injected wallet as the pages see it (WalletContext): which *)
(* address is connected, the client that signs, and the prompts to connect   *)
(* that are still open.  connectSeq voids a prompt that is answered after a  *)
(* disconnect or a newer connect.                                            *)

(* by: the connect that wrote the address last. *)
Connect ==
  /\ ~ui.connecting /\ ui.address = None /\ ui.seq < MaxConnects
  /\ ui' = [ui EXCEPT !.seq = @ + 1, !.connecting = TRUE]
  /\ calls' = calls \cup {[kind |-> "connect", seq |-> ui.seq + 1]}
  /\ UNCHANGED world

(* Bug: whatever became of the context, the answer is written. *)
ApprovedLate(c) ==
  /\ c.kind = "connect"
  /\ \E a \in IF world.active = None THEN Account ELSE {world.active} :
       /\ world' = [world EXCEPT !.active = a]
       /\ ui' = [ui EXCEPT !.address = a, !.client = a, !.connecting = FALSE, !.by = c.seq]
  /\ calls' = calls \ {c}

Approved(c) ==
  /\ c.kind = "connect"
  /\ \E a \in IF world.active = None THEN Account ELSE {world.active} :
       /\ world' = [world EXCEPT !.active = a]
       /\ ui' = IF c.seq = ui.seq
                THEN [ui EXCEPT !.address = a, !.client = a, !.connecting = FALSE, !.by = c.seq]
                ELSE ui
  /\ calls' = calls \ {c}

Rejected(c) ==
  /\ c.kind = "connect"
  /\ ui' = IF c.seq = ui.seq THEN [ui EXCEPT !.connecting = FALSE] ELSE ui
  /\ calls' = calls \ {c} /\ UNCHANGED world

(* The flag of a connect that is void is not reset. *)
Disconnected == [ui EXCEPT !.seq = @ + 1, !.address = None, !.client = None]

(* The client keeps the account it was made for. *)
AccountsChanged(a) ==
  /\ a # world.active /\ world.switches < MaxSwitches
  /\ world' = [world EXCEPT !.active = a, !.switches = @ + 1,
                            !.quit = IF a = None THEN ui.seq + 1 ELSE @,
                            !.switched = @ \/ (a # None /\ ui.address # None)]
  /\ ui' = IF a = None THEN Disconnected
           ELSE IF ui.address # None THEN [ui EXCEPT !.address = a] ELSE ui
  /\ UNCHANGED calls

WalletNext ==
  \/ Connect
  \/ \E c \in calls : Approved(c) \/ Rejected(c)
  \/ \E a \in Account \cup {None} : AccountsChanged(a)

-----------------------------------------------------------------------------
(* The pages.                                                                *)

Nothing == [of |-> None, has |-> FALSE]

(* What load may find, by page: whether there is a token, a paymaster; the  *)
(* operator's account is always there.                                      *)
HasToken == BOOLEAN
HasPaymaster == BOOLEAN
HasAccount == {TRUE}
Has == [xpnts |-> HasToken, paymaster |-> HasPaymaster, superpaymaster |-> HasAccount]

Init ==
  /\ \E page \in DOMAIN Has :
       ui = [address |-> None, client |-> None, connecting |-> FALSE, seq |-> 0, by |-> 0,
             page |-> page, mounted |-> None, loading |-> TRUE, shown |-> Nothing, error |-> FALSE, busy |-> {}]
  /\ calls = {}
  /\ world = [active |-> CHOOSE a \in Account : TRUE, quit |-> 0, switches |-> 0, switched |-> FALSE,
              writes |-> 0, overlap |-> FALSE, foreign |-> FALSE]

(* ConnectGate shows the page while an address is connected; load runs when *)
(* it appears and when the operator changes.                                *)
Loads == {c \in calls : c.kind = "load"}
Writes == {c \in calls : c.kind = "write"}
Load(of) == [kind |-> "load", of |-> of]

Unmounted == [ui EXCEPT !.mounted = None, !.loading = TRUE, !.shown = Nothing, !.error = FALSE, !.busy = {}]
Loading == [ui EXCEPT !.mounted = ui.address, !.loading = TRUE, !.error = FALSE]

(* What was begun on a page that is gone no longer changes what is shown. *)
Left == {c \in calls : c.kind = "connect"} \cup {[c EXCEPT !.alive = FALSE] : c \in Writes}

(* Bug: load runs when the page appears, and not when the operator changes. *)
OperatorEffectOnce ==
  /\ ui.mounted # ui.address
  /\ IF ui.address = None
     THEN /\ ui' = Unmounted
          /\ calls' = Left
          /\ UNCHANGED world
     ELSE /\ ui' = IF ui.mounted = None THEN Loading ELSE [Loading EXCEPT !.loading = ui.loading]
          /\ calls' = calls \cup IF ui.mounted = None THEN {Load(ui.address)} ELSE {}
          /\ world' = [world EXCEPT !.foreign = FALSE]

OperatorEffect ==
  /\ ui.mounted # ui.address
  /\ IF ui.address = None
     THEN /\ ui' = Unmounted
          /\ calls' = Left
          /\ UNCHANGED world
     ELSE /\ ui' = Loading
          /\ calls' = calls \cup {Load(ui.address)}
          /\ world' = [world EXCEPT !.foreign = FALSE]

Refresh ==
  /\ ui.mounted # None /\ ~ui.loading /\ Cardinality(Loads) < MaxLoads
  /\ ui' = Loading
  /\ calls' = calls \cup {Load(ui.mounted)}
  /\ UNCHANGED world

Loaded(c) ==
  /\ c.kind = "load"
  /\ \E has \in Has[ui.page] : ui' = [ui EXCEPT !.loading = FALSE, !.shown = [of |-> c.of, has |-> has]]
  /\ calls' = calls \ {c}
  /\ world' = [world EXCEPT !.foreign = c.of # ui.mounted]

(* What was shown before stays. *)
LoadFailed(c) ==
  /\ c.kind = "load"
  /\ ui' = [ui EXCEPT !.loading = FALSE, !.error = TRUE]
  /\ calls' = calls \ {c} /\ UNCHANGED world

(* The form to deploy a token appears even if nothing could be read.       *)
Ready == ui.mounted # None /\ ~ui.loading

(* The paymaster page keeps one flag for all its writes.                    *)
Busy(k) == IF ui.page = "paymaster" THEN {k} ELSE ui.busy \cup {k}
Idle(k) == IF ui.page = "paymaster" THEN {} ELSE ui.busy \ {k}

(* Bug: a write in flight does not disable its button. *)
BeginAnyway(k, at) ==
  /\ Ready /\ ui.client # None /\ world.writes < MaxWrites
  /\ ui' = [ui EXCEPT !.busy = Busy(k)]
  /\ calls' = calls \cup {[kind |-> "write", key |-> k, at |-> at, by |-> ui.client, for |-> ui.mounted,
                           n |-> world.writes, alive |-> TRUE]}
  /\ world' = [world EXCEPT !.writes = @ + 1,
                            !.overlap = @ \/ \E c \in Writes : c.alive /\ c.key # k]

Begin(k, at) ==
  /\ Ready /\ k \notin ui.busy /\ ui.client # None /\ world.writes < MaxWrites
  /\ ui' = [ui EXCEPT !.busy = Busy(k)]
  /\ calls' = calls \cup {[kind |-> "write", key |-> k, at |-> at, by |-> ui.client, for |-> ui.mounted,
                           n |-> world.writes, alive |-> TRUE]}
  /\ world' = [world EXCEPT !.writes = @ + 1,
                            !.overlap = @ \/ \E c \in Writes : c.alive /\ c.key # k]

HandleDeploy == ui.page = "xpnts" /\ ~ui.shown.has /\ Begin("deploy", "send")
HandleMint == ui.page = "xpnts" /\ ui.shown.has /\ Begin("mint", "send")

(* The top-up; the rows and the switch of the configuration.                *)
RunWrite == ui.page = "paymaster" /\ ui.shown.has /\ \E k \in {"deposit", "pause"} : Begin(k, "send")

(* A deposit asks for its allowance first.                                  *)
HandleDeposit == ui.page = "superpaymaster" /\ ui.shown.has /\ Begin("deposit", "allowance")

At(c, at) == c.kind = "write" /\ c.at = at

Allowance(c) ==
  /\ At(c, "allowance")
  /\ \E at \in {"approve", "send"} : calls' = (calls \ {c}) \cup {[c EXCEPT !.at = at]}
  /\ UNCHANGED <<ui, world>>

(* The deposit follows the hash of the approval, not its receipt. *)
Approve(c) ==
  /\ At(c, "approve")
  /\ calls' = (calls \ {c}) \cup {[c EXCEPT !.at = "send"]}
  /\ UNCHANGED <<ui, world>>

Sent(c) ==
  /\ At(c, "send")
  /\ ui' = IF c.alive THEN [ui EXCEPT !.busy = Idle(c.key)] ELSE ui
  /\ UNCHANGED world
  /\ calls' = (calls \ {c}) \cup IF c.alive THEN {[kind |-> "timer", of |-> c.for]} ELSE {}

WriteFailed(c) ==
  /\ c.kind = "write"
  /\ ui' = IF c.alive THEN [ui EXCEPT !.busy = Idle(c.key)] ELSE ui
  /\ calls' = calls \ {c} /\ UNCHANGED world

(* The load of the render the write began in. *)
Reload(c) ==
  /\ c.kind = "timer"
  /\ ui' = Loading
  /\ calls' = (calls \ {c}) \cup {Load(c.of)}
  /\ UNCHANGED world

Flow ==
  \E c \in calls : Loaded(c) \/ LoadFailed(c) \/ Allowance(c) \/ Approve(c) \/ Sent(c) \/ WriteFailed(c)

(* The effect of a render runs before anything else. *)
Next ==
  \/ OperatorEffect
  \/ /\ ui.mounted = ui.address
     /\ \/ WalletNext
        \/ Refresh
        \/ HandleDeploy \/ HandleMint \/ RunWrite \/ HandleDeposit
        \/ \E c \in calls :
             \/ Loaded(c) \/ LoadFailed(c) \/ Allowance(c) \/ Approve(c)
             \/ Sent(c) \/ WriteFailed(c) \/ Reload(c)

-----------------------------------------------------------------------------
(* After a disconnect nothing is connected until the user connects again:   *)
(* a prompt from before it that is answered late is void.                   *)
NotConnectedByOld == ui.address # None => ui.by > world.quit

(* As long as the wallet's account was not changed, who signs is who the    *)
(* page shows.                                                              *)
SignerIsShown == world.switched \/ ui.client = ui.address

(* WalletContext.tsx: "the viem WalletClient (unpinned account) follows the *)
(* provider's active account at send time" - connectWallet binds the        *)
(* account to it.                                                           *)
ClientFollows == ui.client # None => ui.client = ui.address

(* A page at rest shows the contracts of the connected operator or says     *)
(* that it could not read them, whatever changes of the account and loads   *)
(* in flight there were - unless the load that succeeded last since the     *)
(* operator changed (foreign) was begun for another operator: an answer     *)
(* that comes late, or the load a write of an earlier operator scheduled.   *)
(* The code does not tell such a load from its own.                         *)
ShownIsOperators ==
  ui.mounted = ui.address /\ Loads = {} /\ ~world.foreign =>
    ui.shown.of = ui.address \/ ui.error

(* The same write of a page is in flight once, unless another write of the page was   *)
(* in flight with it: runWrite keeps one flag for all.                      *)
WriteInFlightOnce ==
  ~world.overlap => \A c, d \in Writes : c.alive /\ d.alive /\ c.key = d.key => c = d

(* Nothing is sent from another account than the one the page was shown     *)
(* for, as long as the wallet's account was not changed.                    *)
SentByOperator == world.switched \/ \A c \in Writes : c.by = c.for
=============================================================================
