--------------------------- MODULE OperatorProofs ---------------------------
(***************************************************************************)
(* Proofs about the pages that sign with the wallet of the browser, for    *)
(* every set of accounts, changes and timelocks and every bound.            *)
(*                                                                         *)
(* Each page keeps an invariant of its own (ConsoleInv, GovernInv,         *)
(* WizardInv, SaleInv); the run's three invariants follow.                  *)
(***************************************************************************)
EXTENDS Operator, TLAPS

-----------------------------------------------------------------------------
(* The console.                                                              *)
MaybeAccount == Account \cup {None}
Button == {"deploy", "mint", "deposit", "pause"}

ConsoleUi ==
  [address : MaybeAccount, client : MaybeAccount, connecting : BOOLEAN, seq : Nat, by : Nat,
   page : {"xpnts", "paymaster", "superpaymaster"}, mounted : MaybeAccount, loading : BOOLEAN,
   shown : [of : MaybeAccount, has : BOOLEAN], error : BOOLEAN, busy : SUBSET Button]

ConsoleWorld ==
  [active : MaybeAccount, quit : Nat, switches : Nat, switched : BOOLEAN, writes : Nat,
   overlap : BOOLEAN, foreign : BOOLEAN]

ConnectCall == [kind : {"connect"}, seq : Nat]
LoadCall == [kind : {"load"}, of : Account]
TimerCall == [kind : {"timer"}, of : Account]
WriteCall == [kind : {"write"}, key : Button, at : {"allowance", "approve", "send"},
              by : MaybeAccount, for : Account, n : Nat, alive : BOOLEAN]

ConsoleTypeOK ==
  /\ ui \in ConsoleUi
  /\ world \in ConsoleWorld
  /\ calls \subseteq ConnectCall \cup LoadCall \cup TimerCall \cup WriteCall

(* A prompt is of a connect that was begun, and not of one that was dropped  *)
(* when the wallet was locked.                                               *)
PromptInv ==
  /\ world.quit =< ui.seq
  /\ \A c \in calls : c.kind = "connect" => c.seq =< ui.seq /\ c.seq # world.quit
  /\ Console!NotConnectedByOld

SignerInv == Console!SignerIsShown /\ Console!SentByOperator

(* As long as no two writes of the page were in flight together there is one *)
(* at most, and its button is off.                                           *)
WriteInv ==
  ~world.overlap =>
    \A c \in calls : c.kind = "write" => (c.alive =>
      /\ c.key \in ui.busy
      /\ \A d \in calls : d.kind = "write" => (d.alive => c = d))

(* Without an operator nothing but prompts and writes that were left is under *)
(* way; with one and no load under way, what is shown is the operator's or an *)
(* error, if the load that succeeded last was the operator's.                 *)
LoadInv ==
  /\ ui.mounted = None =>
       /\ \A c \in calls : c.kind = "connect" \/ (IF c.kind = "write" THEN ~c.alive ELSE FALSE)
       /\ ui.shown = Console!Nothing
  /\ ui.mounted # None /\ ~world.foreign /\ (\A c \in calls : c.kind # "load") =>
       ui.shown.of = ui.mounted \/ ui.error

ConsoleInv == ConsoleTypeOK /\ PromptInv /\ SignerInv /\ WriteInv /\ LoadInv

LEMMA ConsoleInit == Console!Init => ConsoleInv
<1> SUFFICES ASSUME Console!Init PROVE ConsoleInv
  OBVIOUS
<1>1. PICK page \in DOMAIN Console!Has :
        ui = [address |-> None, client |-> None, connecting |-> FALSE, seq |-> 0, by |-> 0,
              page |-> page, mounted |-> None, loading |-> TRUE, shown |-> Console!Nothing,
              error |-> FALSE, busy |-> {}]
  BY DEF Console!Init
<1>2. /\ calls = {} /\ world.quit = 0 /\ ~world.switched
      /\ world \in ConsoleWorld
  BY OperatorAssumption DEF Console!Init, ConsoleWorld, MaybeAccount
<1>3. page \in {"xpnts", "paymaster", "superpaymaster"}
  BY DEF Console!Has
<1>4. ConsoleTypeOK
  BY <1>1, <1>2, <1>3 DEF ConsoleTypeOK, ConsoleUi, MaybeAccount, Console!Nothing
<1> QED
  BY <1>1, <1>2, <1>4 DEF ConsoleInv, PromptInv, SignerInv, WriteInv, LoadInv, Console!NotConnectedByOld,
     Console!SignerIsShown, Console!SentByOperator, Console!Writes

(* The context of the wallet changes, the page does not. *)
LEMMA ConsoleConnectStep ==
  ASSUME ConsoleInv, Console!Connect
  PROVE  ConsoleInv'
<1>0. ui \in ConsoleUi /\ ui.seq \in Nat /\ world \in ConsoleWorld /\ world.quit \in Nat
  BY DEF ConsoleInv, ConsoleTypeOK, ConsoleUi, ConsoleWorld
<1> DEFINE n == ui.seq + 1
<1>1. n \in Nat /\ n > ui.seq /\ ui' = [ui EXCEPT !.seq = n, !.connecting = TRUE]
  BY <1>0 DEF Console!Connect
<1>4. calls' = calls \cup {[kind |-> "connect", seq |-> n]} /\ world' = world /\ ui.address = None
  BY DEF Console!Connect
<1> HIDE DEF n
<1>2. /\ ui' \in ConsoleUi /\ ui'.seq = n
      /\ ui' = [ui EXCEPT !.seq = ui'.seq, !.connecting = ui'.connecting]
  BY <1>0, <1>1 DEF ConsoleUi
<1>3. /\ ui'.address = ui.address /\ ui'.client = ui.client
      /\ ui'.by = ui.by /\ ui'.mounted = ui.mounted /\ ui'.shown = ui.shown /\ ui'.error = ui.error
      /\ ui'.busy = ui.busy
  BY <1>0, <1>1 DEF ConsoleUi
<1>5. ConsoleTypeOK'
  BY <1>0, <1>1, <1>2, <1>4 DEF ConsoleInv, ConsoleTypeOK, ConnectCall
<1>6. PromptInv'
  BY <1>0, <1>1, <1>2, <1>3, <1>4 DEF ConsoleInv, PromptInv, ConsoleTypeOK, ConnectCall, LoadCall, TimerCall, WriteCall, Console!NotConnectedByOld
<1>7. SignerInv'
  BY <1>3, <1>4 DEF ConsoleInv, SignerInv, Console!SignerIsShown, Console!SentByOperator, Console!Writes
<1>8. WriteInv'
  BY <1>3, <1>4 DEF ConsoleInv, WriteInv
<1>9. LoadInv'
  BY <1>3, <1>4 DEF ConsoleInv, LoadInv
<1> QED
  BY <1>5, <1>6, <1>7, <1>8, <1>9 DEF ConsoleInv

(* The page, as far as a step of the wallet's context leaves it. *)
PageStays ==
  /\ ui'.mounted = ui.mounted /\ ui'.loading = ui.loading /\ ui'.shown = ui.shown /\ ui'.error = ui.error
  /\ ui'.busy = ui.busy /\ ui'.page = ui.page
  /\ world'.overlap = world.overlap /\ world'.foreign = world.foreign

LEMMA ApprovedStep ==
  ASSUME ConsoleInv, NEW c \in calls, Console!Approved(c)
  PROVE  ConsoleInv'
<1>0. /\ ui \in ConsoleUi /\ world \in ConsoleWorld
      /\ calls \subseteq ConnectCall \cup LoadCall \cup TimerCall \cup WriteCall
  BY DEF ConsoleInv, ConsoleTypeOK
<1>1. /\ c.kind = "connect" /\ calls' = calls \ {c}
      /\ \E a \in IF world.active = None THEN Account ELSE {world.active} :
           /\ world' = [world EXCEPT !.active = a]
           /\ ui' = IF c.seq = ui.seq
                    THEN [ui EXCEPT !.address = a, !.client = a, !.connecting = FALSE, !.by = c.seq]
                    ELSE ui
  BY DEF Console!Approved
<1>2. c \in ConnectCall /\ c.seq \in Nat
  BY <1>0, <1>1 DEF ConnectCall, LoadCall, TimerCall, WriteCall
<1>3. world.active \in MaybeAccount
  BY <1>0 DEF ConsoleWorld
<1>4. PICK a \in MaybeAccount :
        /\ a # None /\ world' = [world EXCEPT !.active = a]
        /\ ui' = IF c.seq = ui.seq
                 THEN [ui EXCEPT !.address = a, !.client = a, !.connecting = FALSE, !.by = c.seq]
                 ELSE ui
  BY <1>1, <1>3, OperatorAssumption DEF MaybeAccount
<1>5. /\ world' \in ConsoleWorld /\ world'.quit = world.quit /\ world'.switched = world.switched
      /\ world'.overlap = world.overlap /\ world'.foreign = world.foreign
  BY <1>0, <1>4 DEF ConsoleWorld
<1>6. ui' \in ConsoleUi /\ PageStays /\ ui'.seq = ui.seq
  BY <1>0, <1>2, <1>4, <1>5 DEF ConsoleUi, PageStays
<1>7. \/ ui'.address = ui.address /\ ui'.client = ui.client /\ ui'.by = ui.by
      \/ ui'.address = a /\ ui'.client = a /\ ui'.by = c.seq /\ c.seq = ui.seq
  BY <1>0, <1>4 DEF ConsoleUi
<1>8. ConsoleTypeOK'
  BY <1>0, <1>1, <1>5, <1>6 DEF ConsoleTypeOK
<1>9. PromptInv'
  <2>1. ui.seq \in Nat /\ world.quit \in Nat
    BY <1>0 DEF ConsoleUi, ConsoleWorld
  <2> QED
    BY <1>1, <1>2, <1>5, <1>6, <1>7, <2>1 DEF ConsoleInv, PromptInv, Console!NotConnectedByOld
<1>10. SignerInv'
  BY <1>1, <1>5, <1>7 DEF ConsoleInv, SignerInv, Console!SignerIsShown, Console!SentByOperator, Console!Writes
<1>11. WriteInv'
  BY <1>1, <1>6 DEF ConsoleInv, WriteInv, PageStays
<1>12. LoadInv'
  BY <1>1, <1>6 DEF ConsoleInv, LoadInv, PageStays
<1> QED
  BY <1>8, <1>9, <1>10, <1>11, <1>12 DEF ConsoleInv

LEMMA RejectedStep ==
  ASSUME ConsoleInv, NEW c \in calls, Console!Rejected(c)
  PROVE  ConsoleInv'
<1>0. /\ ui \in ConsoleUi /\ world \in ConsoleWorld
      /\ calls \subseteq ConnectCall \cup LoadCall \cup TimerCall \cup WriteCall
  BY DEF ConsoleInv, ConsoleTypeOK
<1>1. /\ c.kind = "connect" /\ calls' = calls \ {c} /\ world' = world
      /\ ui' = IF c.seq = ui.seq THEN [ui EXCEPT !.connecting = FALSE] ELSE ui
  BY DEF Console!Rejected
<1>2. ui' \in ConsoleUi /\ PageStays /\ ui'.seq = ui.seq
  BY <1>0, <1>1 DEF ConsoleUi, PageStays
<1>3. ui'.address = ui.address /\ ui'.client = ui.client /\ ui'.by = ui.by
  BY <1>0, <1>1 DEF ConsoleUi
<1>4. ConsoleTypeOK'
  BY <1>0, <1>1, <1>2 DEF ConsoleTypeOK
<1>5. PromptInv'
  BY <1>1, <1>2, <1>3 DEF ConsoleInv, PromptInv, Console!NotConnectedByOld
<1>6. SignerInv'
  BY <1>1, <1>3 DEF ConsoleInv, SignerInv, Console!SignerIsShown, Console!SentByOperator, Console!Writes
<1>7. WriteInv'
  BY <1>1, <1>2 DEF ConsoleInv, WriteInv, PageStays
<1>8. LoadInv'
  BY <1>1, <1>2 DEF ConsoleInv, LoadInv, PageStays
<1> QED
  BY <1>4, <1>5, <1>6, <1>7, <1>8 DEF ConsoleInv

LEMMA AccountsChangedStep ==
  ASSUME ConsoleInv, NEW a \in MaybeAccount, Console!AccountsChanged(a)
  PROVE  ConsoleInv'
<1>0. /\ ui \in ConsoleUi /\ world \in ConsoleWorld
      /\ calls \subseteq ConnectCall \cup LoadCall \cup TimerCall \cup WriteCall
  BY DEF ConsoleInv, ConsoleTypeOK
<1>1. ui.seq \in Nat /\ world.quit \in Nat /\ world.switches \in Nat /\ world.switched \in BOOLEAN
  BY <1>0 DEF ConsoleUi, ConsoleWorld
<1> DEFINE n == ui.seq + 1
           q == IF a = None THEN n ELSE world.quit
           s == world.switches + 1
           b == world.switched \/ (a # None /\ ui.address # None)
<1>2. n \in Nat /\ n > ui.seq /\ q \in Nat /\ s \in Nat /\ b \in BOOLEAN
  BY <1>1
<1>3. world' = [world EXCEPT !.active = a, !.switches = s, !.quit = q, !.switched = b]
  BY DEF Console!AccountsChanged
<1>4. /\ calls' = calls
      /\ ui' = IF a = None THEN [ui EXCEPT !.seq = n, !.address = None, !.client = None]
               ELSE IF ui.address # None THEN [ui EXCEPT !.address = a] ELSE ui
  BY DEF Console!AccountsChanged, Console!Disconnected
<1>5. /\ a = None => q = n
      /\ a # None => q = world.quit
      /\ b <=> world.switched \/ (a # None /\ ui.address # None)
  BY <1>1
<1> HIDE DEF n, q, s, b
<1>6. /\ world' \in ConsoleWorld /\ world'.quit = q
      /\ world'.overlap = world.overlap /\ world'.foreign = world.foreign
  BY <1>0, <1>2, <1>3 DEF ConsoleWorld
<1>7. world'.switched = b
  BY <1>0, <1>3 DEF ConsoleWorld
<1>8. ui' \in ConsoleUi /\ PageStays
  <2>1. CASE a = None
    <3>1. ui' = [ui EXCEPT !.seq = n, !.address = None, !.client = None] /\ None \in MaybeAccount
      BY <1>4, <2>1 DEF MaybeAccount
    <3> QED
      BY <1>0, <1>2, <1>6, <3>1 DEF ConsoleUi, PageStays
  <2>2. CASE a # None
    BY <1>0, <1>4, <1>6, <2>2 DEF ConsoleUi, PageStays
  <2> QED
    BY <2>1, <2>2
<1>9. /\ a = None => ui'.seq = n /\ ui'.address = None /\ ui'.client = None
      /\ a # None => /\ ui'.seq = ui.seq /\ ui'.client = ui.client /\ ui'.by = ui.by
                     /\ ui.address = None => ui'.address = None
  BY <1>0, <1>4 DEF ConsoleUi
<1>10. ConsoleTypeOK'
  BY <1>0, <1>4, <1>6, <1>8 DEF ConsoleTypeOK
<1>11. PromptInv'
  <2>1. \A c \in calls : c.kind = "connect" => c.seq \in Nat
    BY <1>0 DEF ConnectCall, LoadCall, TimerCall, WriteCall
  <2>2. world.quit =< ui.seq /\ \A c \in calls : c.kind = "connect" => c.seq =< ui.seq /\ c.seq # world.quit
    BY DEF ConsoleInv, PromptInv
  <2>3. CASE a = None
    <3>1. \A c \in calls : c.kind = "connect" => c.seq =< n /\ c.seq # n
      BY <1>1, <1>2, <2>1, <2>2
    <3> QED
      BY <1>2, <1>4, <1>5, <1>6, <1>9, <2>3, <3>1 DEF PromptInv, Console!NotConnectedByOld
  <2>4. CASE a # None
    BY <1>4, <1>5, <1>6, <1>9, <2>2, <2>4 DEF ConsoleInv, PromptInv, Console!NotConnectedByOld
  <2> QED
    BY <2>3, <2>4
<1>12. SignerInv'
  <2>1. world'.switched \/ (ui'.client = ui'.address /\ ~world.switched)
    BY <1>5, <1>7, <1>9 DEF ConsoleInv, SignerInv, Console!SignerIsShown
  <2> QED
    BY <1>4, <2>1 DEF ConsoleInv, SignerInv, Console!SignerIsShown, Console!SentByOperator, Console!Writes
<1>13. WriteInv'
  BY <1>4, <1>8 DEF ConsoleInv, WriteInv, PageStays
<1>14. LoadInv'
  BY <1>4, <1>8 DEF ConsoleInv, LoadInv, PageStays
<1> QED
  BY <1>10, <1>11, <1>12, <1>13, <1>14 DEF ConsoleInv

-----------------------------------------------------------------------------
(* The page changes, the context of the wallet does not. *)
WalletStays ==
  /\ ui'.address = ui.address /\ ui'.client = ui.client /\ ui'.seq = ui.seq /\ ui'.by = ui.by
  /\ world'.quit = world.quit /\ world'.switched = world.switched

LEMMA WalletFrame ==
  ASSUME PromptInv, SignerInv, WalletStays,
         \A c \in calls' : c.kind = "connect" => c \in calls,
         \A c \in calls' : c.kind = "write" =>
           \/ world.switched
           \/ c.by = c.for
           \/ \E d \in calls : d.kind = "write" /\ d.by = c.by /\ d.for = c.for
  PROVE  PromptInv' /\ SignerInv'
<1>1. PromptInv'
  BY DEF WalletStays, PromptInv, Console!NotConnectedByOld
<1>2. SignerInv'
  <2>1. SUFFICES ASSUME ~world.switched PROVE SignerInv'
    BY DEF WalletStays, SignerInv, Console!SignerIsShown, Console!SentByOperator
  <2>2. ui'.client = ui'.address
    BY <2>1 DEF WalletStays, SignerInv, Console!SignerIsShown
  <2>3. \A d \in calls : d.kind = "write" => d.by = d.for
    BY <2>1 DEF SignerInv, Console!SentByOperator, Console!Writes
  <2>4. \A c \in calls' : c.kind = "write" => c.by = c.for
    BY <2>1, <2>3
  <2> QED
    BY <2>2, <2>4 DEF SignerInv, Console!SignerIsShown, Console!SentByOperator, Console!Writes
<1> QED
  BY <1>1, <1>2

LEMMA ConsoleCallKinds ==
  /\ \A c \in ConnectCall : c.kind = "connect"
  /\ \A c \in LoadCall : c.kind = "load" /\ c.of \in Account
  /\ \A c \in TimerCall : c.kind = "timer" /\ c.of \in Account
  /\ \A c \in WriteCall : c.kind = "write" /\ c.key \in Button /\ c.alive \in BOOLEAN /\ c.for \in Account
BY DEF ConnectCall, LoadCall, TimerCall, WriteCall

LEMMA DeadWrite ==
  ASSUME NEW c \in WriteCall
  PROVE  /\ [c EXCEPT !.alive = FALSE] \in WriteCall
         /\ [c EXCEPT !.alive = FALSE].kind = "write" /\ ~[c EXCEPT !.alive = FALSE].alive
         /\ [c EXCEPT !.alive = FALSE].by = c.by /\ [c EXCEPT !.alive = FALSE].for = c.for
BY DEF WriteCall

LEMMA OperatorEffectStep ==
  ASSUME ConsoleInv, Console!OperatorEffect
  PROVE  ConsoleInv'
<1>0. /\ ui \in ConsoleUi /\ world \in ConsoleWorld /\ ui.address \in MaybeAccount
      /\ calls \subseteq ConnectCall \cup LoadCall \cup TimerCall \cup WriteCall
      /\ PromptInv /\ SignerInv
  BY DEF ConsoleInv, ConsoleTypeOK, ConsoleUi
<1>1. CASE ui.address = None
  <2>1. ui' = [ui EXCEPT !.mounted = None, !.loading = TRUE, !.shown = Console!Nothing, !.error = FALSE, !.busy = {}]
    BY <1>1 DEF Console!OperatorEffect, Console!Unmounted
  <2>2. world' = world
    BY <1>1 DEF Console!OperatorEffect
  <2>3. calls' = {c \in calls : c.kind = "connect"} \cup {[c EXCEPT !.alive = FALSE] : c \in Console!Writes}
    BY <1>1 DEF Console!OperatorEffect, Console!Left
  <2>4. Console!Nothing \in [of : MaybeAccount, has : BOOLEAN] /\ None \in MaybeAccount
    BY DEF Console!Nothing, MaybeAccount
  <2>5. ui' \in ConsoleUi /\ WalletStays /\ ui'.mounted = None /\ ui'.shown = Console!Nothing
    BY <1>0, <2>1, <2>2, <2>4 DEF ConsoleUi, WalletStays
  <2>6. \A c \in Console!Writes : c \in WriteCall
    BY <1>0, ConsoleCallKinds DEF Console!Writes
  <2>7. \A e \in calls' :
          \/ e \in calls /\ e.kind = "connect"
          \/ \E c \in calls : /\ c.kind = "write" /\ e \in WriteCall /\ e.kind = "write" /\ ~e.alive
                              /\ e.by = c.by /\ e.for = c.for
    <3> SUFFICES ASSUME NEW e \in calls'
                 PROVE  \/ e \in calls /\ e.kind = "connect"
                        \/ \E c \in calls : /\ c.kind = "write" /\ e \in WriteCall /\ e.kind = "write"
                                            /\ ~e.alive /\ e.by = c.by /\ e.for = c.for
      OBVIOUS
    <3>1. CASE \E c \in Console!Writes : e = [c EXCEPT !.alive = FALSE]
      <4>1. PICK c \in Console!Writes : e = [c EXCEPT !.alive = FALSE]
        BY <3>1
      <4> QED
        BY <2>6, <4>1, DeadWrite DEF Console!Writes
    <3> QED
      BY <2>3, <3>1
  <2>8. ConsoleTypeOK'
    BY <1>0, <2>2, <2>5, <2>7 DEF ConsoleTypeOK
  <2>9. PromptInv' /\ SignerInv'
    BY <1>0, <2>5, <2>7, WalletFrame
  <2>10. WriteInv'
    BY <2>7 DEF WriteInv
  <2>11. LoadInv'
    BY <2>5, <2>7 DEF LoadInv
  <2> QED
    BY <2>8, <2>9, <2>10, <2>11 DEF ConsoleInv
<1>2. CASE ui.address # None
  <2>1. ui' = [ui EXCEPT !.mounted = ui.address, !.loading = TRUE, !.error = FALSE]
    BY <1>2 DEF Console!OperatorEffect, Console!Loading
  <2>2. world' = [world EXCEPT !.foreign = FALSE]
    BY <1>2 DEF Console!OperatorEffect
  <2>3. calls' = calls \cup {[kind |-> "load", of |-> ui.address]}
    BY <1>2 DEF Console!OperatorEffect, Console!Load
  <2>5. world' \in ConsoleWorld /\ world'.overlap = world.overlap
    BY <1>0, <2>2 DEF ConsoleWorld
  <2>6. ui' \in ConsoleUi /\ ui'.mounted = ui.address /\ ui'.busy = ui.busy
    BY <1>0, <2>1 DEF ConsoleUi
  <2>7. WalletStays
    BY <1>0, <2>1, <2>2 DEF ConsoleUi, ConsoleWorld, WalletStays
  <2>8. [kind |-> "load", of |-> ui.address] \in LoadCall
    BY <1>0, <1>2 DEF LoadCall, MaybeAccount
  <2>9. ConsoleTypeOK'
    BY <1>0, <2>3, <2>5, <2>6, <2>8 DEF ConsoleTypeOK
  <2>10. PromptInv' /\ SignerInv'
    BY <1>0, <2>3, <2>7, WalletFrame
  <2>11. WriteInv'
    BY <2>3, <2>5, <2>6 DEF ConsoleInv, WriteInv
  <2>12. LoadInv'
    <3>1. \E c \in calls' : c.kind = "load"
      BY <2>3, <2>8, ConsoleCallKinds
    <3> QED
      BY <1>2, <2>6, <3>1 DEF LoadInv
  <2> QED
    BY <2>9, <2>10, <2>11, <2>12 DEF ConsoleInv
<1> QED
  BY <1>1, <1>2

LEMMA RefreshStep ==
  ASSUME ConsoleInv, Console!Refresh, ui.mounted = ui.address
  PROVE  ConsoleInv'
<1>0. /\ ui \in ConsoleUi /\ world \in ConsoleWorld /\ ui.address \in MaybeAccount
      /\ calls \subseteq ConnectCall \cup LoadCall \cup TimerCall \cup WriteCall
      /\ PromptInv /\ SignerInv
  BY DEF ConsoleInv, ConsoleTypeOK, ConsoleUi
<1>1. /\ ui.address # None /\ world' = world
      /\ ui' = [ui EXCEPT !.mounted = ui.address, !.loading = TRUE, !.error = FALSE]
      /\ calls' = calls \cup {[kind |-> "load", of |-> ui.address]}
  BY DEF Console!Refresh, Console!Loading, Console!Load
<1>2. ui' \in ConsoleUi /\ ui'.mounted = ui.address /\ ui'.busy = ui.busy /\ WalletStays
  BY <1>0, <1>1 DEF ConsoleUi, WalletStays
<1>3. [kind |-> "load", of |-> ui.address] \in LoadCall
  BY <1>0, <1>1 DEF LoadCall, MaybeAccount
<1>4. ConsoleTypeOK'
  BY <1>0, <1>1, <1>2, <1>3 DEF ConsoleTypeOK
<1>5. PromptInv' /\ SignerInv'
  BY <1>0, <1>1, <1>2, WalletFrame
<1>6. WriteInv'
  BY <1>1, <1>2 DEF ConsoleInv, WriteInv
<1>7. LoadInv'
  <2>1. \E c \in calls' : c.kind = "load"
    BY <1>1, <1>3, ConsoleCallKinds
  <2> QED
    BY <1>1, <1>2, <2>1 DEF LoadInv
<1> QED
  BY <1>4, <1>5, <1>6, <1>7 DEF ConsoleInv

LEMMA ConsoleLoadedStep ==
  ASSUME ConsoleInv, NEW c \in calls, Console!Loaded(c) \/ Console!LoadFailed(c)
  PROVE  ConsoleInv'
<1>0. /\ ui \in ConsoleUi /\ world \in ConsoleWorld /\ ui.address \in MaybeAccount
      /\ calls \subseteq ConnectCall \cup LoadCall \cup TimerCall \cup WriteCall
      /\ PromptInv /\ SignerInv
  BY DEF ConsoleInv, ConsoleTypeOK, ConsoleUi
<1> DEFINE f == IF Console!Loaded(c) THEN c.of # ui.mounted ELSE world.foreign
<1>1. /\ c.kind = "load" /\ calls' = calls \ {c}
      /\ world' = [world EXCEPT !.foreign = f]
  <2>1. CASE Console!Loaded(c)
    BY <2>1 DEF Console!Loaded
  <2>2. CASE ~Console!Loaded(c)
    <3>1. c.kind = "load" /\ calls' = calls \ {c} /\ world' = world
      BY <2>2 DEF Console!LoadFailed
    <3>2. world = [world EXCEPT !.foreign = world.foreign]
      BY <1>0 DEF ConsoleWorld
    <3> QED
      BY <2>2, <3>1, <3>2
  <2> QED
    BY <2>1, <2>2
<1>9. /\ world' \in ConsoleWorld /\ world'.foreign = f /\ world'.overlap = world.overlap
      /\ world'.quit = world.quit /\ world'.switched = world.switched
  <2>1. f \in BOOLEAN
    BY <1>0 DEF ConsoleWorld
  <2> HIDE DEF f
  <2> QED
    BY <1>0, <1>1, <2>1 DEF ConsoleWorld
<1>2. c \in LoadCall /\ c.of \in MaybeAccount
  BY <1>0, <1>1, ConsoleCallKinds DEF MaybeAccount
<1>3. /\ ui' \in ConsoleUi /\ WalletStays /\ ui'.mounted = ui.mounted /\ ui'.busy = ui.busy
      /\ ui'.error \/ (ui'.shown.of = c.of /\ f = (c.of # ui.mounted))
  <2>1. CASE Console!Loaded(c)
    <3>1. PICK has \in BOOLEAN : ui' = [ui EXCEPT !.loading = FALSE, !.shown = [of |-> c.of, has |-> has]]
      <4>1. ui.page \in {"xpnts", "paymaster", "superpaymaster"}
        BY <1>0 DEF ConsoleUi
      <4>2. Console!Has[ui.page] \subseteq BOOLEAN
        <5>1. Console!Has[ui.page] \in {Console!HasToken, Console!HasPaymaster, Console!HasAccount}
          BY <4>1 DEF Console!Has
        <5>2. /\ Console!HasToken \subseteq BOOLEAN /\ Console!HasPaymaster \subseteq BOOLEAN
              /\ Console!HasAccount \subseteq BOOLEAN
          BY DEF Console!HasToken, Console!HasPaymaster, Console!HasAccount
        <5> QED
          BY <5>1, <5>2
      <4> QED
        BY <2>1, <4>2 DEF Console!Loaded
    <3> DEFINE found == [of |-> c.of, has |-> has]
    <3>2. found \in [of : MaybeAccount, has : BOOLEAN] /\ found.of = c.of
      BY <1>2
    <3>3. ui' = [ui EXCEPT !.loading = FALSE, !.shown = found]
      BY <3>1
    <3> HIDE DEF found
    <3>4. f = (c.of # ui.mounted)
      BY <2>1
    <3> HIDE DEF f
    <3> QED
      BY <1>0, <1>9, <3>2, <3>3, <3>4 DEF ConsoleUi, WalletStays
  <2>2. CASE Console!LoadFailed(c)
    <3>1. ui' = [ui EXCEPT !.loading = FALSE, !.error = TRUE]
      BY <2>2 DEF Console!LoadFailed
    <3> HIDE DEF f
    <3> QED
      BY <1>0, <1>9, <3>1 DEF ConsoleUi, WalletStays
  <2> QED
    BY <2>1, <2>2
<1> HIDE DEF f
<1>4. ui.mounted # None
  BY <1>1 DEF ConsoleInv, LoadInv
<1>5. ConsoleTypeOK'
  BY <1>0, <1>1, <1>3, <1>9 DEF ConsoleTypeOK
<1>6. PromptInv' /\ SignerInv'
  BY <1>0, <1>1, <1>3, WalletFrame
<1>7. WriteInv'
  BY <1>1, <1>3, <1>9 DEF ConsoleInv, WriteInv
<1>8. LoadInv'
  BY <1>3, <1>4, <1>9 DEF LoadInv
<1> QED
  BY <1>5, <1>6, <1>7, <1>8 DEF ConsoleInv

LEMMA BeginStep ==
  ASSUME ConsoleInv, NEW k \in Button, NEW at \in {"allowance", "approve", "send"}, Console!Begin(k, at),
         ui.mounted = ui.address
  PROVE  ConsoleInv'
<1>0. /\ ui \in ConsoleUi /\ world \in ConsoleWorld /\ ui.address \in MaybeAccount
      /\ ui.client \in MaybeAccount /\ world.writes \in Nat /\ ui.busy \subseteq Button
      /\ calls \subseteq ConnectCall \cup LoadCall \cup TimerCall \cup WriteCall
      /\ PromptInv /\ SignerInv
  BY DEF ConsoleInv, ConsoleTypeOK, ConsoleUi, ConsoleWorld
<1> DEFINE w == [kind |-> "write", key |-> k, at |-> at, by |-> ui.client, for |-> ui.mounted,
                 n |-> world.writes, alive |-> TRUE]
           busy == Console!Busy(k)
           n == world.writes + 1
           b == world.overlap \/ \E c \in Console!Writes : c.alive /\ c.key # k
<1>1. /\ ui.mounted # None /\ k \notin ui.busy
      /\ ui' = [ui EXCEPT !.busy = busy]
      /\ calls' = calls \cup {w}
      /\ world' = [world EXCEPT !.writes = n, !.overlap = b]
  BY DEF Console!Begin, Console!Ready
<1>2. w \in WriteCall /\ w.kind = "write" /\ w.alive /\ w.key = k /\ w.by = ui.client /\ w.for = ui.mounted
  BY <1>0, <1>1 DEF WriteCall, MaybeAccount
<1>3. n \in Nat /\ busy \subseteq Button /\ k \in busy
  BY <1>0 DEF Console!Busy
<1>4. b \in BOOLEAN /\ (~b => ~world.overlap /\ \A c \in calls : c.kind = "write" => (c.alive => c.key = k))
  BY <1>0 DEF Console!Writes, ConsoleWorld
<1> HIDE DEF w, busy, n, b
<1>5. world' \in ConsoleWorld /\ world'.foreign = world.foreign /\ world'.overlap = b
  BY <1>0, <1>1, <1>3, <1>4 DEF ConsoleWorld
<1>6. /\ ui' \in ConsoleUi /\ ui'.busy = busy /\ ui'.mounted = ui.mounted /\ ui'.shown = ui.shown
      /\ ui'.error = ui.error
  BY <1>0, <1>1, <1>3 DEF ConsoleUi
<1>7. WalletStays
  BY <1>0, <1>1 DEF ConsoleUi, ConsoleWorld, WalletStays
<1>8. ConsoleTypeOK'
  BY <1>0, <1>1, <1>2, <1>5, <1>6 DEF ConsoleTypeOK
<1>9. PromptInv' /\ SignerInv'
  <2>1. world.switched \/ w.by = w.for
    BY <1>0, <1>2 DEF SignerInv, Console!SignerIsShown
  <2> QED
    BY <1>0, <1>1, <1>2, <1>7, <2>1, WalletFrame
<1>10. WriteInv'
  <2> SUFFICES ASSUME ~b, NEW c \in calls', c.kind = "write", c.alive
               PROVE  c = w
    BY <1>2, <1>3, <1>5, <1>6 DEF WriteInv
  <2>1. CASE c \in calls
    <3>1. c.key \in ui.busy /\ c.key = k
      BY <1>4, <2>1 DEF ConsoleInv, WriteInv
    <3> QED
      BY <1>1, <3>1
  <2> QED
    BY <1>1, <2>1
<1>11. LoadInv'
  BY <1>1, <1>2, <1>5, <1>6 DEF ConsoleInv, LoadInv
<1> QED
  BY <1>8, <1>9, <1>10, <1>11 DEF ConsoleInv

(* A write goes on: nothing changes but where it is. *)
LEMMA WriteGoesOn ==
  ASSUME ConsoleInv, NEW c \in calls, NEW at \in {"approve", "send"}, c.kind = "write",
         calls' = (calls \ {c}) \cup {[c EXCEPT !.at = at]}, UNCHANGED <<ui, world>>
  PROVE  ConsoleInv'
<1>0. /\ calls \subseteq ConnectCall \cup LoadCall \cup TimerCall \cup WriteCall
      /\ PromptInv /\ SignerInv /\ ui' = ui /\ world' = world
  BY DEF ConsoleInv, ConsoleTypeOK
<1> DEFINE w == [c EXCEPT !.at = at]
<1>1. c \in WriteCall
  BY <1>0, ConsoleCallKinds
<1>2. /\ w \in WriteCall /\ w.kind = "write" /\ w.alive = c.alive /\ w.key = c.key
      /\ w.by = c.by /\ w.for = c.for
  BY <1>1 DEF WriteCall
<1>3. calls' = (calls \ {c}) \cup {w}
  OBVIOUS
<1> HIDE DEF w
<1>4. ConsoleTypeOK'
  BY <1>0, <1>2, <1>3 DEF ConsoleInv, ConsoleTypeOK
<1>5. PromptInv' /\ SignerInv'
  BY <1>0, <1>2, <1>3, WalletFrame DEF WalletStays
<1>6. WriteInv'
  <2> SUFFICES ASSUME ~world.overlap, NEW d \in calls', d.kind = "write", d.alive
               PROVE  /\ d.key \in ui.busy
                      /\ \A e \in calls' : e.kind = "write" => (e.alive => d = e)
    BY <1>0 DEF WriteInv
  <2>1. /\ \A x \in calls : x.kind = "write" /\ x.alive => x.key \in ui.busy
        /\ \A x, y \in calls : x.kind = "write" /\ x.alive /\ y.kind = "write" /\ y.alive => x = y
    BY DEF ConsoleInv, WriteInv
  <2> QED
    BY <1>2, <1>3, <2>1
<1>7. LoadInv'
  BY <1>0, <1>2, <1>3 DEF ConsoleInv, LoadInv
<1> QED
  BY <1>4, <1>5, <1>6, <1>7 DEF ConsoleInv

(* A write ends: its button is on again, and if it was sent a load is due. *)
LEMMA WriteEnds ==
  ASSUME ConsoleInv, NEW c \in calls, c.kind = "write", NEW more \in SUBSET TimerCall,
         c.alive \/ more = {},
         ui' = IF c.alive THEN [ui EXCEPT !.busy = Console!Idle(c.key)] ELSE ui,
         calls' = (calls \ {c}) \cup more, UNCHANGED world
  PROVE  ConsoleInv'
<1>0. /\ ui \in ConsoleUi /\ world \in ConsoleWorld /\ ui.busy \subseteq Button
      /\ calls \subseteq ConnectCall \cup LoadCall \cup TimerCall \cup WriteCall
      /\ PromptInv /\ SignerInv /\ world' = world
  BY DEF ConsoleInv, ConsoleTypeOK, ConsoleUi
<1> DEFINE busy == Console!Idle(c.key)
<1>1. busy \subseteq Button /\ \A k \in ui.busy : ui.page # "paymaster" /\ k # c.key => k \in busy
  BY <1>0 DEF Console!Idle
<1>2. ui' = IF c.alive THEN [ui EXCEPT !.busy = busy] ELSE ui
  OBVIOUS
<1> HIDE DEF busy
<1>3. /\ ui' \in ConsoleUi /\ WalletStays /\ ui'.mounted = ui.mounted /\ ui'.shown = ui.shown
      /\ ui'.error = ui.error
      /\ ~c.alive => ui'.busy = ui.busy
  BY <1>0, <1>1, <1>2 DEF ConsoleUi, WalletStays
<1>4. \A e \in more : e \in TimerCall /\ e.kind = "timer"
  BY ConsoleCallKinds
<1>5. ConsoleTypeOK'
  BY <1>0, <1>3, <1>4 DEF ConsoleTypeOK
<1>6. PromptInv' /\ SignerInv'
  <2>1. \A e \in calls' : e.kind \in {"connect", "write"} => e \in calls
    BY <1>4
  <2>2. \A e \in calls' : e.kind = "write" => \E d \in calls : d.kind = "write" /\ d.by = e.by /\ d.for = e.for
    BY <2>1
  <2> QED
    BY <1>0, <1>3, <2>1, <2>2, WalletFrame
<1>7. WriteInv'
  <2> SUFFICES ASSUME ~world.overlap, NEW d \in calls', d.kind = "write", d.alive
               PROVE  /\ d.key \in ui'.busy
                      /\ \A e \in calls' : e.kind = "write" => (e.alive => d = e)
    BY <1>0 DEF WriteInv
  <2>1. /\ \A x \in calls : x.kind = "write" /\ x.alive => x.key \in ui.busy
        /\ \A x, y \in calls : x.kind = "write" /\ x.alive /\ y.kind = "write" /\ y.alive => x = y
    BY DEF ConsoleInv, WriteInv
  <2>2. \A e \in calls' : e.kind = "write" => e \in calls /\ e # c
    BY <1>4
  <2>3. ~c.alive
    BY <2>1, <2>2
  <2> QED
    BY <1>3, <2>1, <2>2, <2>3
<1>8. LoadInv'
  <2>1. CASE ui.mounted = None
    <3>1. ~c.alive
      BY <2>1 DEF ConsoleInv, LoadInv
    <3> QED
      BY <1>3, <2>1, <3>1 DEF ConsoleInv, LoadInv
  <2>2. CASE ui.mounted # None
    <3>1. \A e \in calls' : e.kind = "load" => e \in calls
      BY <1>4
    <3>2. (\A e \in calls' : e.kind # "load") => \A e \in calls : e.kind # "load"
      OBVIOUS
    <3> QED
      BY <1>0, <1>3, <2>2, <3>1, <3>2 DEF ConsoleInv, LoadInv
  <2> QED
    BY <2>1, <2>2
<1> QED
  BY <1>5, <1>6, <1>7, <1>8 DEF ConsoleInv

LEMMA ReloadStep ==
  ASSUME ConsoleInv, NEW c \in calls, Console!Reload(c), ui.mounted = ui.address
  PROVE  ConsoleInv'
<1>0. /\ ui \in ConsoleUi /\ world \in ConsoleWorld /\ ui.address \in MaybeAccount
      /\ calls \subseteq ConnectCall \cup LoadCall \cup TimerCall \cup WriteCall
      /\ PromptInv /\ SignerInv
  BY DEF ConsoleInv, ConsoleTypeOK, ConsoleUi
<1> DEFINE l == [kind |-> "load", of |-> c.of]
<1>1. /\ c.kind = "timer" /\ calls' = (calls \ {c}) \cup {l}
      /\ ui' = [ui EXCEPT !.mounted = ui.address, !.loading = TRUE, !.error = FALSE]
      /\ world' = world
  BY DEF Console!Reload, Console!Loading, Console!Load
<1>2. c \in TimerCall /\ c.of \in Account
  BY <1>0, <1>1, ConsoleCallKinds
<1>3. l \in LoadCall /\ l.kind = "load" /\ l.of = c.of
  BY <1>2 DEF LoadCall
<1> HIDE DEF l
<1>6. ui' \in ConsoleUi /\ ui'.mounted = ui.address /\ ui'.busy = ui.busy
  BY <1>0, <1>1 DEF ConsoleUi
<1>7. WalletStays
  BY <1>0, <1>1 DEF ConsoleUi, ConsoleWorld, WalletStays
<1>8. ui.mounted # None
  BY <1>1 DEF ConsoleInv, LoadInv
<1>9. ConsoleTypeOK'
  BY <1>0, <1>1, <1>3, <1>6 DEF ConsoleTypeOK
<1>10. PromptInv' /\ SignerInv'
  BY <1>0, <1>1, <1>3, <1>7, WalletFrame
<1>11. WriteInv'
  BY <1>1, <1>3, <1>6 DEF ConsoleInv, WriteInv
<1>12. LoadInv'
  <2>1. \E d \in calls' : d.kind = "load"
    BY <1>1, <1>3
  <2> QED
    BY <1>6, <1>8, <2>1 DEF LoadInv
<1> QED
  BY <1>9, <1>10, <1>11, <1>12 DEF ConsoleInv

LEMMA ConsoleStep == ConsoleInv /\ (Console!Next \/ UNCHANGED <<ui, calls, world>>) => ConsoleInv'
<1> SUFFICES ASSUME ConsoleInv, Console!Next \/ UNCHANGED <<ui, calls, world>> PROVE ConsoleInv'
  OBVIOUS
<1>0. calls \subseteq ConnectCall \cup LoadCall \cup TimerCall \cup WriteCall
  BY DEF ConsoleInv, ConsoleTypeOK
<1>1. CASE Console!OperatorEffect
  BY <1>1, OperatorEffectStep
<1>2. CASE ui.mounted = ui.address /\ Console!WalletNext
  BY <1>2, ConsoleConnectStep, ApprovedStep, RejectedStep, AccountsChangedStep DEF Console!WalletNext, MaybeAccount
<1>3. CASE ui.mounted = ui.address /\ Console!Refresh
  BY <1>3, RefreshStep
<1>4. CASE /\ ui.mounted = ui.address
           /\ Console!HandleDeploy \/ Console!HandleMint \/ Console!RunWrite \/ Console!HandleDeposit
  <2>1. \E k \in Button, at \in {"allowance", "approve", "send"} : Console!Begin(k, at)
    BY <1>4 DEF Console!HandleDeploy, Console!HandleMint, Console!RunWrite, Console!HandleDeposit, Button
  <2> QED
    BY <1>4, <2>1, BeginStep
<1>5. ASSUME ui.mounted = ui.address, NEW c \in calls, Console!Loaded(c) \/ Console!LoadFailed(c)
      PROVE  ConsoleInv'
  BY <1>5, ConsoleLoadedStep
<1>6. ASSUME NEW c \in calls, Console!Allowance(c) \/ Console!Approve(c)
      PROVE  ConsoleInv'
  <2>1. c.kind = "write" /\ UNCHANGED <<ui, world>>
    BY <1>6 DEF Console!Allowance, Console!Approve, Console!At
  <2>2. \E at \in {"approve", "send"} : calls' = (calls \ {c}) \cup {[c EXCEPT !.at = at]}
    BY <1>6 DEF Console!Allowance, Console!Approve
  <2> QED
    BY <2>1, <2>2, WriteGoesOn
<1>7. ASSUME NEW c \in calls, Console!Sent(c) \/ Console!WriteFailed(c)
      PROVE  ConsoleInv'
  <2>1. /\ c.kind = "write" /\ world' = world
        /\ ui' = IF c.alive THEN [ui EXCEPT !.busy = Console!Idle(c.key)] ELSE ui
    BY <1>7 DEF Console!Sent, Console!WriteFailed, Console!At
  <2>2. c.for \in Account
    BY <1>0, <2>1, ConsoleCallKinds
  <2>3. \E more \in SUBSET TimerCall : (c.alive \/ more = {}) /\ calls' = (calls \ {c}) \cup more
    <3>1. CASE Console!Sent(c)
      <4> DEFINE more == IF c.alive THEN {[kind |-> "timer", of |-> c.for]} ELSE {}
      <4>1. more \in SUBSET TimerCall
        BY <2>2 DEF TimerCall
      <4> QED
        BY <3>1, <4>1 DEF Console!Sent
    <3>2. CASE Console!WriteFailed(c)
      <4>1. {} \in SUBSET TimerCall /\ calls' = (calls \ {c}) \cup {}
        BY <3>2 DEF Console!WriteFailed
      <4> QED
        BY <4>1
    <3> QED
      BY <1>7, <3>1, <3>2
  <2> QED
    BY <2>1, <2>3, WriteEnds
<1>8. ASSUME ui.mounted = ui.address, NEW c \in calls, Console!Reload(c)
      PROVE  ConsoleInv'
  BY <1>8, ReloadStep
<1>9. CASE UNCHANGED <<ui, calls, world>>
  BY <1>9 DEF ConsoleInv, ConsoleTypeOK, PromptInv, SignerInv, WriteInv, LoadInv, Console!NotConnectedByOld,
     Console!SignerIsShown, Console!SentByOperator, Console!Writes
<1> QED
  BY <1>1, <1>2, <1>3, <1>4, <1>5, <1>6, <1>7, <1>8, <1>9 DEF Console!Next

(* The three invariants of the console's run follow. *)
LEMMA ConsoleHolds ==
  ConsoleInv =>
    /\ Console!ShownIsOperators /\ Console!NotConnectedByOld
    /\ Console!SignerIsShown /\ Console!SentByOperator /\ Console!WriteInFlightOnce
<1> SUFFICES ASSUME ConsoleInv
             PROVE  /\ Console!ShownIsOperators /\ Console!NotConnectedByOld
                    /\ Console!SignerIsShown /\ Console!SentByOperator /\ Console!WriteInFlightOnce
  OBVIOUS
<1>1. Console!ShownIsOperators
  BY DEF ConsoleInv, LoadInv, Console!ShownIsOperators, Console!Loads, Console!Nothing
<1>2. Console!WriteInFlightOnce
  BY DEF ConsoleInv, WriteInv, Console!WriteInFlightOnce, Console!Writes
<1> QED
  BY <1>1, <1>2 DEF ConsoleInv, PromptInv, SignerInv

-----------------------------------------------------------------------------
(* The page of the governance.                                               *)
GovernUi == {"loading", "shown", "timelock", "panel"}
GovernPanel == {"confirm", "busy", "op", "eta"}
GovernWorld == {"admin", "saved", "salt", "minted", "ops", "executed", "sends", "crossed", "unconfirmed",
                "again"}
GovernSend == {"kind", "what", "op", "on", "salt", "alive"}

GovernShape ==
  /\ DOMAIN ui = GovernUi /\ DOMAIN ui.panel = GovernPanel /\ ui.panel.op \in Op \cup {None}
  /\ DOMAIN world = GovernWorld
  /\ world.salt \in [Op -> Nat] /\ world.minted \in Nat
  /\ world.crossed \in BOOLEAN /\ world.again \in BOOLEAN
  /\ \A c \in calls :
       /\ c.kind = "load" => c = [kind |-> "load"]
       /\ c.kind = "send" => DOMAIN c = GovernSend
       /\ c.kind \in {"send", "mempool"} => c.what \in {"handoff", "schedule", "execute"}
       /\ c.kind \in {"send", "mempool"} /\ c.what \in {"schedule", "execute"} => c.op \in Op
  /\ \A s \in world.ops :
       DOMAIN s = {"op", "salt", "on", "at"} /\ s.op \in Op /\ s.at \in {"waiting", "ready", "done"}

(* What is under way with a salt: a schedule or execution that was clicked,   *)
(* a schedule that is in the mempool.                                         *)
Clicked(c) == c.kind = "send" /\ c.what \in {"schedule", "execute"}
Scheduling(c) == c.kind \in {"send", "mempool"} /\ c.what = "schedule"
Executing(c) == c.kind = "send" /\ c.what = "execute"

(* The browser has the salt of every change that is scheduled, is about to be *)
(* or is about to be executed, until its execution was sent; one execution of *)
(* a change waits for the wallet.                                             *)
SaltInv ==
  /\ \A s \in world.ops : s.salt # 0
  /\ \A c \in calls : Clicked(c) \/ Scheduling(c) => c.salt # 0
  /\ ~world.again =>
       /\ \A s \in world.ops : s.salt \notin world.executed => world.salt[s.op] = s.salt
       /\ \A c \in calls : Scheduling(c) /\ c.salt \notin world.executed => world.salt[c.op] = c.salt
       /\ \A c \in calls : Executing(c) => world.salt[c.op] = c.salt
       /\ \A c, d \in calls : Executing(c) /\ Executing(d) /\ c.op = d.op => c = d

(* A salt is minted once and is of one change; what was executed, or is being *)
(* executed, has a salt that the browser has forgotten.                       *)
MintInv ==
  /\ \A o \in Op : world.salt[o] =< world.minted /\ world.salt[o] \notin world.executed
  /\ \A o, p \in Op : world.salt[o] = world.salt[p] /\ world.salt[o] # 0 => o = p
  /\ \A n \in world.executed : n \in Nat /\ n # 0 /\ n =< world.minted
  /\ \A c \in calls : Executing(c) =>
       /\ c.salt \in Nat /\ c.salt =< world.minted
       /\ \A o \in Op : world.salt[o] = c.salt => o = c.op
  /\ \A c \in calls : c.kind = "mempool" /\ c.what = "execute" => c.salt \in world.executed
  /\ \A s \in world.ops : s.at = "done" => s.salt \in world.executed

Answering(c) == c.kind = "eta"
Alive(c) == c.kind = "send" /\ c.alive
Waits(s) == s.at = "ready" /\ s.salt = world.salt[s.op]

(* While the contract is read the panel is new and nothing is answered to it; *)
(* the times it asks for are of salts the browser still has; what it offers   *)
(* to execute waits, and is what is entered when no answer is under way and   *)
(* the last was not of something else.                                        *)
ReadyInv ==
  /\ \A c \in calls : c.kind = "load" => ui.loading
  /\ ui.loading => ui.panel.eta = "none" /\ \A c \in calls : ~Answering(c) /\ ~Alive(c)
  /\ \A c \in calls : Answering(c) => c.op \in Op /\ c.salt = world.salt[c.op] /\ c.salt # 0
  /\ ui.panel.eta = "ready" =>
       \E s \in world.ops :
         /\ Waits(s)
         /\ ~world.crossed /\ (\A c \in calls : ~Answering(c)) => s.op = ui.panel.op /\ s.on = ui.timelock

GovernInv == GovernShape /\ SaltInv /\ MintInv /\ ReadyInv

LEMMA GovernInit == Govern!Init => GovernInv
<1> SUFFICES ASSUME Govern!Init PROVE GovernInv
  OBVIOUS
<1>1. PICK admin : 
       world = [admin |-> admin, saved |-> None, salt |-> [o \in Op |-> 0], minted |-> 0,
                ops |-> {}, executed |-> {}, sends |-> 0, crossed |-> FALSE, unconfirmed |-> FALSE,
                again |-> FALSE]
  BY DEF Govern!Init
<1>2. /\ ui = [loading |-> TRUE, shown |-> None, timelock |-> None, panel |-> Govern!Panel]
      /\ calls = {[kind |-> "load"]}
  BY DEF Govern!Init
<1>3. GovernShape
  BY <1>1, <1>2 DEF GovernShape, GovernUi, GovernWorld, GovernPanel, Govern!Panel
<1>4. SaltInv
  BY <1>1, <1>2 DEF SaltInv, Clicked, Scheduling, Executing
<1>5. ReadyInv
  BY <1>1, <1>2 DEF ReadyInv, Answering, Alive, Govern!Panel
<1>6. MintInv
  BY <1>1, <1>2 DEF MintInv, Executing
<1> QED
  BY <1>3, <1>4, <1>5, <1>6 DEF GovernInv

(* What a step leaves alone. *)
SaltsStay ==
  /\ world'.salt = world.salt /\ world'.ops = world.ops /\ world'.executed = world.executed
  /\ world'.minted = world.minted /\ world'.again = world.again
  /\ \A c \in calls' : c.kind \in {"send", "mempool"} => c \in calls

TimesStay ==
  /\ ui'.loading = ui.loading /\ ui'.timelock = ui.timelock
  /\ ui'.panel.op = ui.panel.op /\ ui'.panel.eta = ui.panel.eta
  /\ world'.crossed = world.crossed /\ world'.ops = world.ops /\ world'.salt = world.salt
  /\ \A c \in calls : Answering(c) => c \in calls'
  /\ \A c \in calls' : Answering(c) \/ Alive(c) \/ c.kind = "load" => c \in calls

LEMMA SaltsFrame == SaltInv /\ MintInv /\ SaltsStay => SaltInv' /\ MintInv'
<1>1. SaltInv /\ SaltsStay => SaltInv'
  BY DEF SaltInv, SaltsStay, Clicked, Scheduling, Executing
<1>2. MintInv /\ SaltsStay => MintInv'
  BY DEF MintInv, SaltsStay, Executing
<1> QED
  BY <1>1, <1>2

LEMMA TimesFrame == ReadyInv /\ TimesStay => ReadyInv'
BY DEF ReadyInv, TimesStay, Waits

(* The page reads the contract again: the prompts that are open are answered  *)
(* to nobody, and nothing else but the mempool is left.                       *)
LEMMA Reloading ==
  ASSUME GovernInv, NEW t,
         ui' = [ui EXCEPT !.loading = TRUE, !.panel = Govern!Panel],
         DOMAIN world' = GovernWorld, world'.salt \in [Op -> Nat], world'.minted = world.minted,
         world'.crossed = world.crossed, world'.again = world.again, world'.ops = world.ops,
         t.kind = "mempool", t.what \in {"handoff", "schedule", "execute"}, t.what \in {"schedule", "execute"} => t.op \in Op,
         \A c \in calls' : \/ c \in calls /\ c.kind = "mempool"
                           \/ c = t
                           \/ \E d \in calls : d.kind = "send" /\ c = [d EXCEPT !.alive = FALSE]
                           \/ c = [kind |-> "load"]
  PROVE  GovernShape' /\ ReadyInv'
<1>1. GovernShape
  BY DEF GovernInv
<1>2. \A d \in calls : d.kind = "send" =>
        /\ DOMAIN [d EXCEPT !.alive = FALSE] = GovernSend
        /\ [d EXCEPT !.alive = FALSE].kind = "send" /\ [d EXCEPT !.alive = FALSE].alive = FALSE
        /\ [d EXCEPT !.alive = FALSE].what = d.what /\ [d EXCEPT !.alive = FALSE].op = d.op
        /\ [d EXCEPT !.alive = FALSE].salt = d.salt
  BY <1>1 DEF GovernShape, GovernSend
<1>3. \A c \in calls' :
        /\ c.kind = "send" => DOMAIN c = GovernSend /\ c.alive = FALSE
        /\ c.kind \in {"send", "mempool"} /\ c.what \in {"schedule", "execute"} => c.op \in Op
        /\ c.kind # "eta"
        /\ c.kind = "load" => c = [kind |-> "load"]
        /\ c.kind \in {"send", "mempool"} => c.what \in {"handoff", "schedule", "execute"}
  <2> TAKE c \in calls'
  <2>1. CASE c \in calls /\ c.kind = "mempool"
    BY <1>1, <2>1 DEF GovernShape
  <2>2. CASE \E d \in calls : d.kind = "send" /\ c = [d EXCEPT !.alive = FALSE]
    BY <1>1, <1>2, <2>2 DEF GovernShape
  <2>3. CASE c = t
    BY <2>3
  <2>4. CASE c = [kind |-> "load"]
    BY <2>4
  <2> QED
    BY <2>1, <2>2, <2>3, <2>4
<1>4. /\ DOMAIN ui' = GovernUi /\ ui'.loading = TRUE /\ ui'.panel = Govern!Panel
  BY <1>1 DEF GovernShape, GovernUi
<1>5. DOMAIN ui'.panel = GovernPanel /\ ui'.panel.op = None /\ ui'.panel.eta = "none"
  BY <1>4 DEF Govern!Panel, GovernPanel
<1>6. GovernShape'
  BY <1>1, <1>3, <1>4, <1>5 DEF GovernShape
<1>7. \A c \in calls' : ~Answering(c) /\ ~Alive(c)
  BY <1>3 DEF Answering, Alive
<1>8. ReadyInv'
  BY <1>3, <1>4, <1>5, <1>7 DEF ReadyInv
<1> QED
  BY <1>6, <1>8

LEMMA LoadStep == GovernInv /\ Govern!Load => GovernInv'
<1> SUFFICES ASSUME GovernInv, Govern!Load PROVE GovernInv'
  OBVIOUS
<1>1. GovernShape /\ SaltInv /\ MintInv
  BY DEF GovernInv
<1> DEFINE t == [kind |-> "mempool", what |-> "handoff"]
<1>2. /\ ui' = [ui EXCEPT !.loading = TRUE, !.panel = Govern!Panel] /\ world' = world
      /\ \A c \in calls' : \/ c \in calls /\ c.kind = "mempool"
                           \/ \E d \in calls : d.kind = "send" /\ c = [d EXCEPT !.alive = FALSE]
                           \/ c = [kind |-> "load"]
  BY DEF Govern!Load, Govern!Kind
<1>3. GovernShape' /\ ReadyInv'
  <2>1. t.kind = "mempool" /\ t.what = "handoff"
    OBVIOUS
  <2> HIDE DEF t
  <2> QED
    BY <1>1, <1>2, <2>1, Reloading DEF GovernShape
<1>4. \A c \in calls' : c.kind \in {"send", "mempool"} => \E d \in calls :
        /\ d.kind = c.kind /\ d.what = c.what /\ d.op = c.op /\ d.salt = c.salt
        /\ c.kind = "send" => c = [d EXCEPT !.alive = FALSE]
  <2> TAKE c \in calls'
  <2>1. CASE c \in calls /\ c.kind = "mempool"
    BY <2>1
  <2>2. CASE \E d \in calls : d.kind = "send" /\ c = [d EXCEPT !.alive = FALSE]
    BY <1>1, <2>2 DEF GovernShape, GovernSend
  <2>3. CASE c = [kind |-> "load"]
    BY <2>3
  <2> QED
    BY <1>2, <2>1, <2>2, <2>3
<1>5. SaltInv'
  <2>1. \A c \in calls' : Clicked(c) \/ Scheduling(c) => c.salt # 0
    BY <1>1, <1>4 DEF SaltInv, Clicked, Scheduling
  <2>2. ASSUME ~world.again
        PROVE  /\ \A c \in calls' : Scheduling(c) /\ c.salt \notin world.executed => world.salt[c.op] = c.salt
               /\ \A c \in calls' : Executing(c) => world.salt[c.op] = c.salt
    BY <1>1, <1>4, <2>2 DEF SaltInv, Scheduling, Executing
  <2>3. ASSUME ~world.again, NEW c \in calls', NEW d \in calls', Executing(c), Executing(d), c.op = d.op
        PROVE  c = d
    <3>1. PICK x \in calls : Executing(x) /\ x.op = c.op /\ c = [x EXCEPT !.alive = FALSE]
      BY <1>4, <2>3 DEF Executing
    <3>2. PICK y \in calls : Executing(y) /\ y.op = d.op /\ d = [y EXCEPT !.alive = FALSE]
      BY <1>4, <2>3 DEF Executing
    <3>3. x = y
      BY <1>1, <2>3, <3>1, <3>2 DEF SaltInv
    <3> QED
      BY <3>1, <3>2, <3>3
  <2> QED
    BY <1>1, <1>2, <2>1, <2>2, <2>3 DEF SaltInv
<1>6. MintInv'
  <2>1. \A c \in calls' : Executing(c) => \E d \in calls : Executing(d) /\ d.op = c.op /\ d.salt = c.salt
    BY <1>4 DEF Executing
  <2>2. \A c \in calls' : c.kind = "mempool" =>
          \E d \in calls : d.kind = "mempool" /\ d.what = c.what /\ d.salt = c.salt
    BY <1>4
  <2>3. ASSUME NEW c \in calls', Executing(c)
        PROVE  /\ c.salt \in Nat /\ c.salt =< world.minted
               /\ \A o \in Op : world.salt[o] = c.salt => o = c.op
    <3>1. PICK d \in calls : Executing(d) /\ d.op = c.op /\ d.salt = c.salt
      BY <2>1, <2>3
    <3>2. /\ d.salt \in Nat /\ d.salt =< world.minted
          /\ \A o \in Op : world.salt[o] = d.salt => o = d.op
      BY <1>1, <3>1 DEF MintInv
    <3> QED
      BY <3>1, <3>2
  <2>4. ASSUME NEW c \in calls', c.kind = "mempool", c.what = "execute"
        PROVE  c.salt \in world.executed
    <3>1. PICK d \in calls : d.kind = "mempool" /\ d.what = c.what /\ d.salt = c.salt
      BY <2>2, <2>4
    <3> QED
      BY <1>1, <2>4, <3>1 DEF MintInv
  <2>5. world'.salt = world.salt /\ world'.minted = world.minted /\ world'.executed = world.executed /\ world'.ops = world.ops
    BY <1>2
  <2> QED
    BY <1>1, <2>3, <2>4, <2>5 DEF MintInv
<1> QED
  BY <1>3, <1>5, <1>6 DEF GovernInv

LEMMA GovernLoadedStep ==
  ASSUME GovernInv, NEW c \in calls, Govern!Loaded(c) \/ Govern!LoadFailed(c)
  PROVE  GovernInv'
<1>1. GovernShape /\ ReadyInv /\ SaltInv /\ MintInv
  BY DEF GovernInv
<1>2. c.kind = "load" /\ calls' = calls \ {c} /\ world' = world
  BY DEF Govern!Loaded, Govern!LoadFailed
<1>3. DOMAIN ui' = GovernUi /\ ui'.panel = ui.panel /\ ui'.loading = FALSE
  BY <1>1 DEF Govern!Loaded, Govern!LoadFailed, GovernShape, GovernUi
<1>4. \A d \in calls : ~Answering(d) /\ ~Alive(d)
  BY <1>1, <1>2 DEF ReadyInv
<1>5. ui.panel.eta = "none"
  BY <1>1, <1>2 DEF ReadyInv
<1>6. \A d \in calls' : d \in calls /\ d.kind # "load"
  BY <1>1, <1>2 DEF GovernShape
<1>7. GovernShape'
  BY <1>1, <1>2, <1>3 DEF GovernShape
<1>8. SaltsStay
  BY <1>2 DEF SaltsStay
<1>9. ReadyInv'
  BY <1>3, <1>4, <1>5, <1>6 DEF ReadyInv
<1> QED
  BY <1>1, <1>7, <1>8, <1>9, SaltsFrame DEF GovernInv

(* The panel is confirmed and given back. *)
LEMMA ConfirmStep ==
  ASSUME GovernInv, Govern!OnHandoff \/ Govern!CancelConfirm
  PROVE  GovernInv'
<1>1. GovernShape /\ ReadyInv /\ SaltInv /\ MintInv
  BY DEF GovernInv
<1> DEFINE n == world.sends + 1
           b == world.unconfirmed \/ ui.panel.confirm # ui.timelock
           s == [kind |-> "send", what |-> "handoff", op |-> None, on |-> ui.timelock, salt |-> 0,
                 alive |-> TRUE]
<1>2. /\ ~ui.loading
      /\ \E x : ui' = [ui EXCEPT !.panel = [ui.panel EXCEPT !.confirm = x]]
                \/ ui' = [ui EXCEPT !.panel = [ui.panel EXCEPT !.busy = x]]
      /\ \/ UNCHANGED <<calls, world>>
         \/ calls' = calls \cup {s} /\ world' = [world EXCEPT !.sends = n, !.unconfirmed = b]
  BY <1>1 DEF Govern!OnHandoff, Govern!CancelConfirm, Govern!IsBootstrap, Govern!Away, Govern!Set, Govern!Send,
     GovernShape, GovernWorld
<1>3. DOMAIN s = GovernSend /\ s.kind = "send" /\ s.what = "handoff"
  BY DEF GovernSend
<1> HIDE DEF n, b, s
<1>4. /\ DOMAIN ui' = GovernUi /\ ui'.loading = ui.loading /\ ui'.timelock = ui.timelock
      /\ DOMAIN ui'.panel = GovernPanel /\ ui'.panel.op = ui.panel.op /\ ui'.panel.eta = ui.panel.eta
  BY <1>1, <1>2 DEF GovernShape, GovernUi, GovernPanel
<1>5. /\ DOMAIN world' = GovernWorld /\ world'.salt = world.salt /\ world'.minted = world.minted
      /\ world'.ops = world.ops /\ world'.executed = world.executed /\ world'.crossed = world.crossed
      /\ world'.again = world.again
  <2>1. CASE world' = world
    BY <1>1, <2>1 DEF GovernShape
  <2>2. CASE world' = [world EXCEPT !.sends = n, !.unconfirmed = b]
    <3>1. DOMAIN world = GovernWorld
      BY <1>1 DEF GovernShape
    <3> QED
      BY <2>2, <3>1 DEF GovernWorld
  <2> QED
    BY <1>2, <2>1, <2>2
<1>6. \A c \in calls' : c \in calls \/ c = s
  BY <1>2
<1>7. GovernShape'
  BY <1>1, <1>3, <1>4, <1>5, <1>6 DEF GovernShape
<1>8. SaltInv' /\ MintInv'
  <2>1. SaltInv'
    BY <1>1, <1>3, <1>5, <1>6 DEF SaltInv, Clicked, Scheduling, Executing
  <2>2. MintInv'
    BY <1>1, <1>3, <1>5, <1>6 DEF MintInv, Executing
  <2> QED
    BY <2>1, <2>2
<1>9. ReadyInv'
  <2>1. \A c \in calls : c \in calls'
    BY <1>2
  <2>2. ~Answering(s) /\ s.kind # "load"
    BY <1>3 DEF Answering
  <2>3. ~ui'.loading
    BY <1>2, <1>4
  <2> QED
    BY <1>1, <1>4, <1>5, <1>6, <2>1, <2>2, <2>3 DEF ReadyInv, Waits
<1> QED
  BY <1>7, <1>8, <1>9 DEF GovernInv

(* The timelock, the change or the time of the day is another: the time of   *)
(* the change is asked for, or nothing is offered.                           *)
LEMMA EditedStep ==
  ASSUME GovernInv,
         \/ Govern!Tick \/ Govern!ChangeTimelock
         \/ \E t \in Timelock : Govern!SaveTimelock(t)
         \/ \E o \in Op \cup {None} : Govern!Edit(o)
  PROVE  GovernInv'
<1>1. GovernShape /\ ReadyInv /\ SaltInv /\ MintInv
  BY DEF GovernInv
<1>2. PICK on, panel : /\ DOMAIN panel = GovernPanel /\ panel.op \in Op \cup {None}
                       /\ panel.eta = ui.panel.eta /\ Govern!RefreshEta(on, panel) /\ ~ui.loading
  <2>1. CASE Govern!Tick
    BY <1>1, <2>1 DEF Govern!Tick, Govern!Away, GovernShape
  <2>2. CASE Govern!ChangeTimelock \/ \E t \in Timelock : Govern!SaveTimelock(t)
    BY <1>1, <2>2 DEF Govern!ChangeTimelock, Govern!SaveTimelock, Govern!Away, GovernShape
  <2>3. CASE \E o \in Op \cup {None} : Govern!Edit(o)
    <3>1. PICK o \in Op \cup {None} : Govern!Edit(o)
      BY <2>3
    <3> DEFINE q == [ui.panel EXCEPT !.op = o]
    <3>2. DOMAIN q = GovernPanel /\ q.op = o /\ q.eta = ui.panel.eta
      BY <1>1 DEF GovernShape, GovernPanel
    <3>3. Govern!RefreshEta(ui.timelock, q) /\ ~ui.loading
      BY <3>1 DEF Govern!Edit, Govern!IsGoverned, Govern!Away
    <3> HIDE DEF q
    <3> QED
      BY <3>2, <3>3
  <2> QED
    BY <2>1, <2>2, <2>3
<1>3. \E y : world' = world \/ world' = [world EXCEPT !.saved = y]
  BY DEF Govern!Tick, Govern!ChangeTimelock, Govern!SaveTimelock, Govern!SavedTimelock, Govern!Edit
<1>4. PICK p : /\ ui' = [ui EXCEPT !.timelock = on, !.panel = p] /\ DOMAIN p = GovernPanel /\ p.op = panel.op
               /\ p.eta = IF Govern!Asks(on, panel.op) THEN ui.panel.eta ELSE "none"
  <2>1. CASE Govern!Asks(on, panel.op)
    BY <1>2, <2>1 DEF Govern!RefreshEta
  <2>2. CASE ~Govern!Asks(on, panel.op)
    <3> DEFINE q == [panel EXCEPT !.eta = "none"]
    <3>1. DOMAIN q = GovernPanel /\ q.op = panel.op /\ q.eta = "none"
      BY <1>2 DEF GovernPanel
    <3>2. ui' = [ui EXCEPT !.timelock = on, !.panel = q]
      BY <1>2, <2>2 DEF Govern!RefreshEta
    <3> HIDE DEF q
    <3> QED
      BY <2>2, <3>1, <3>2
  <2> QED
    BY <2>1, <2>2
<1>5. DOMAIN ui' = GovernUi /\ ui'.panel = p /\ ui'.loading = ui.loading
  BY <1>1, <1>4 DEF GovernShape, GovernUi
<1>6. /\ DOMAIN world' = GovernWorld /\ world'.salt = world.salt /\ world'.minted = world.minted
      /\ world'.ops = world.ops /\ world'.executed = world.executed /\ world'.crossed = world.crossed
      /\ world'.again = world.again
  BY <1>1, <1>3 DEF GovernShape, GovernWorld
<1>7. PICK c : /\ c.kind = "eta" /\ c.op = panel.op /\ c.salt = world.salt[panel.op]
               /\ calls' = IF Govern!Asks(on, panel.op) THEN calls \cup {c} ELSE calls
  BY <1>2 DEF Govern!RefreshEta, Govern!EtaCall
<1>8. GovernShape'
  BY <1>1, <1>2, <1>4, <1>5, <1>6, <1>7 DEF GovernShape
<1>9. SaltsStay
  BY <1>6, <1>7 DEF SaltsStay
<1>10. ReadyInv'
  <2>1. ~ui'.loading
    BY <1>2, <1>5
  <2>2. CASE Govern!Asks(on, panel.op)
    <3>1. panel.op \in Op /\ world.salt[panel.op] # 0 /\ calls' = calls \cup {c}
      BY <1>2, <1>7, <2>2 DEF Govern!Asks
    <3>2. c \in calls' /\ Answering(c)
      BY <1>7, <3>1 DEF Answering
    <3>3. ui'.panel.eta = ui.panel.eta
      BY <1>4, <1>5, <2>2
    <3>4. \A d \in calls' : Answering(d) => d.op \in Op /\ d.salt = world'.salt[d.op] /\ d.salt # 0
      BY <1>1, <1>6, <1>7, <3>1 DEF ReadyInv
    <3>5. \A d \in calls' : d.kind = "load" => ui'.loading
      BY <1>1, <1>5, <1>7, <3>1 DEF ReadyInv
    <3> QED
      BY <1>1, <1>6, <2>1, <3>2, <3>3, <3>4, <3>5 DEF ReadyInv, Waits
  <2>3. CASE ~Govern!Asks(on, panel.op)
    <3>1. ui'.panel.eta = "none" /\ calls' = calls
      BY <1>4, <1>5, <1>7, <2>3
    <3> QED
      BY <1>1, <1>5, <1>6, <2>1, <3>1 DEF ReadyInv
  <2> QED
    BY <2>2, <2>3
<1> QED
  BY <1>1, <1>8, <1>9, <1>10, SaltsFrame DEF GovernInv

(* The time is answered: what is ready by it was not executed, since the     *)
(* browser still has its salt.                                               *)
LEMMA AnsweredStep ==
  ASSUME GovernInv, NEW c \in calls, Govern!EtaAnswered(c)
  PROVE  GovernInv'
<1>1. GovernShape /\ ReadyInv /\ SaltInv /\ MintInv
  BY DEF GovernInv
<1> DEFINE b == c.op # ui.panel.op \/ c.on # ui.timelock
           p == [ui.panel EXCEPT !.eta = Govern!Eta(c)]
<1>2. /\ c.kind = "eta" /\ ui' = [ui EXCEPT !.panel = p] /\ calls' = calls \ {c}
      /\ world' = [world EXCEPT !.crossed = b]
  BY DEF Govern!EtaAnswered, Govern!Set
<1>3. DOMAIN p = GovernPanel /\ p.op = ui.panel.op /\ p.eta = Govern!Eta(c)
  BY <1>1 DEF GovernShape, GovernPanel
<1>4. b \in BOOLEAN /\ (~b => c.op = ui.panel.op /\ c.on = ui.timelock)
  OBVIOUS
<1> HIDE DEF b, p
<1>5. /\ DOMAIN ui' = GovernUi /\ ui'.loading = ui.loading /\ ui'.timelock = ui.timelock /\ ui'.panel = p
      /\ DOMAIN world' = GovernWorld /\ world'.salt = world.salt /\ world'.minted = world.minted
      /\ world'.ops = world.ops /\ world'.executed = world.executed /\ world'.crossed = b
      /\ world'.again = world.again
  BY <1>1, <1>2 DEF GovernShape, GovernUi, GovernWorld
<1>6. Answering(c) /\ ~ui.loading /\ c.op \in Op /\ c.salt = world.salt[c.op] /\ c.salt # 0
  BY <1>1, <1>2 DEF ReadyInv, Answering
<1>7. p.eta = "ready" => \E s \in world.ops : s.op = c.op /\ s.on = c.on /\ Waits(s)
  <2> SUFFICES ASSUME p.eta = "ready" PROVE \E s \in world.ops : s.op = c.op /\ s.on = c.on /\ Waits(s)
    OBVIOUS
  <2>1. PICK s \in world.ops : s.op = c.op /\ s.on = c.on /\ s.salt = c.salt /\ s.at # "waiting"
    BY <1>3 DEF Govern!Eta
  <2>2. s.salt \notin world.executed
    BY <1>1, <1>6, <2>1 DEF MintInv
  <2>3. s.at = "ready"
    BY <1>1, <2>1, <2>2 DEF MintInv, GovernShape
  <2> QED
    BY <1>6, <2>1, <2>3 DEF Waits
<1>8. GovernShape'
  BY <1>1, <1>2, <1>3, <1>4, <1>5 DEF GovernShape
<1>9. SaltsStay
  BY <1>2, <1>5 DEF SaltsStay
<1>10. ReadyInv'
  <2>1. ~ui'.loading
    BY <1>5, <1>6
  <2>2. ASSUME ui'.panel.eta = "ready"
        PROVE  \E s \in world'.ops :
                 /\ s.at = "ready" /\ s.salt = world'.salt[s.op]
                 /\ ~world'.crossed => s.op = ui'.panel.op /\ s.on = ui'.timelock
    BY <1>3, <1>4, <1>5, <1>7, <2>2 DEF Waits
  <2>3. \A d \in calls' : d \in calls
    BY <1>2
  <2>4. \A d \in calls' : Answering(d) => d.op \in Op /\ d.salt = world'.salt[d.op] /\ d.salt # 0
    BY <1>1, <1>5, <2>3 DEF ReadyInv
  <2>5. \A d \in calls' : d.kind = "load" => ui'.loading
    BY <1>1, <1>5, <2>3 DEF ReadyInv
  <2> QED
    BY <2>1, <2>2, <2>4, <2>5 DEF ReadyInv, Waits
<1> QED
  BY <1>1, <1>8, <1>9, <1>10, SaltsFrame DEF GovernInv

LEMMA UnansweredStep ==
  ASSUME GovernInv, NEW c \in calls, Govern!EtaFailed(c)
  PROVE  GovernInv'
<1>1. GovernShape /\ ReadyInv /\ SaltInv /\ MintInv
  BY DEF GovernInv
<1> DEFINE p == [ui.panel EXCEPT !.eta = "none"]
<1>2. /\ c.kind = "eta" /\ ui' = [ui EXCEPT !.panel = p] /\ calls' = calls \ {c} /\ world' = world
  BY DEF Govern!EtaFailed, Govern!Set
<1>3. DOMAIN p = GovernPanel /\ p.op = ui.panel.op /\ p.eta = "none"
  BY <1>1 DEF GovernShape, GovernPanel
<1> HIDE DEF p
<1>4. /\ DOMAIN ui' = GovernUi /\ ui'.loading = ui.loading /\ ui'.timelock = ui.timelock /\ ui'.panel = p
  BY <1>1, <1>2 DEF GovernShape, GovernUi
<1>5. GovernShape'
  BY <1>1, <1>2, <1>3, <1>4 DEF GovernShape
<1>6. SaltsStay
  BY <1>2 DEF SaltsStay
<1>7. ReadyInv'
  BY <1>1, <1>2, <1>3, <1>4 DEF ReadyInv
<1> QED
  BY <1>1, <1>5, <1>6, <1>7, SaltsFrame DEF GovernInv

LEMMA ScheduleStep == GovernInv /\ Govern!OnSchedule => GovernInv'
<1> SUFFICES ASSUME GovernInv, Govern!OnSchedule PROVE GovernInv'
  OBVIOUS
<1>1. GovernShape /\ ReadyInv /\ SaltInv /\ MintInv
  BY DEF GovernInv
<1> DEFINE o == ui.panel.op
           s == Govern!GetOrCreateSalt(o)
           n == world.sends + 1
           m == IF s > world.minted THEN s ELSE world.minted
           x == [kind |-> "send", what |-> "schedule", op |-> o, on |-> ui.timelock, salt |-> s,
                 alive |-> TRUE]
           p == [ui.panel EXCEPT !.busy = TRUE]
<1>2. /\ ~ui.loading /\ ui.panel.eta = "none" /\ o # None
      /\ ui' = [ui EXCEPT !.panel = p] /\ calls' = calls \cup {x}
      /\ world' = [world EXCEPT !.sends = n, !.salt[o] = s, !.minted = m]
  BY <1>1 DEF Govern!OnSchedule, Govern!IsGoverned, Govern!Away, Govern!Set, Govern!Send, GovernShape,
     GovernWorld
<1>3. /\ o \in Op /\ s \in Nat /\ s # 0 /\ m \in Nat
      /\ world.salt[o] # 0 => s = world.salt[o]
      /\ s =< m /\ world.minted =< m
      /\ world.salt[o] = 0 => s > world.minted
  <2>1. o \in Op /\ world.salt[o] \in Nat /\ world.minted \in Nat
    BY <1>1, <1>2 DEF GovernShape
  <2>2. s = IF world.salt[o] # 0 THEN world.salt[o] ELSE world.minted + 1
    BY DEF Govern!GetOrCreateSalt
  <2> HIDE DEF s
  <2> QED
    BY <2>1, <2>2
<1>4. /\ DOMAIN x = GovernSend /\ x.kind = "send" /\ x.what = "schedule" /\ x.op = o
      /\ x.salt = s
      /\ DOMAIN p = GovernPanel /\ p.op = o /\ p.eta = ui.panel.eta
  BY <1>1 DEF GovernShape, GovernSend, GovernPanel
<1> HIDE DEF s, n, m, x, p
<1>5. /\ DOMAIN ui' = GovernUi /\ ui'.loading = ui.loading /\ ui'.timelock = ui.timelock /\ ui'.panel = p
      /\ DOMAIN world' = GovernWorld /\ world'.salt = [world.salt EXCEPT ![o] = s]
      /\ world'.minted = m /\ world'.ops = world.ops /\ world'.executed = world.executed
      /\ world'.crossed = world.crossed /\ world'.again = world.again
  BY <1>1, <1>2 DEF GovernShape, GovernUi, GovernWorld
<1>6. world'.salt \in [Op -> Nat] /\ world'.salt[o] = s /\ \A a \in Op : a # o => world'.salt[a] = world.salt[a]
  BY <1>1, <1>3, <1>5 DEF GovernShape
<1>7. \A c \in calls' : c \in calls \/ c = x
  BY <1>2
<1>8. GovernShape'
  BY <1>1, <1>3, <1>4, <1>5, <1>6, <1>7 DEF GovernShape
<1>9. SaltInv'
  <2>1. \A c \in calls' : Clicked(c) \/ Scheduling(c) => c.salt # 0
    BY <1>1, <1>3, <1>4, <1>7 DEF SaltInv, Clicked, Scheduling
  <2>2. ASSUME NEW a \in Op, world.salt[a] # 0
        PROVE  world'.salt[a] = world.salt[a]
    BY <1>3, <1>6, <2>2
  <2>3. ASSUME ~world.again
        PROVE  \A t \in world.ops : t.salt \notin world.executed => world'.salt[t.op] = t.salt
    BY <1>1, <2>2, <2>3 DEF SaltInv, GovernShape
  <2>4. ASSUME ~world.again
        PROVE  \A c \in calls' : Scheduling(c) /\ c.salt \notin world.executed => world'.salt[c.op] = c.salt
    <3> TAKE c \in calls'
    <3>1. CASE c = x
      BY <1>4, <1>6, <3>1
    <3>2. CASE c \in calls
      BY <1>1, <2>2, <2>4, <3>2 DEF SaltInv, GovernShape, Scheduling
    <3> QED
      BY <1>7, <3>1, <3>2
  <2>5. \A c \in calls' : Executing(c) => c \in calls
    BY <1>4, <1>7 DEF Executing
  <2>6. ASSUME ~world.again
        PROVE  /\ \A c \in calls' : Executing(c) => world'.salt[c.op] = c.salt
               /\ \A c, d \in calls' : Executing(c) /\ Executing(d) /\ c.op = d.op => c = d
    BY <1>1, <2>2, <2>5, <2>6 DEF SaltInv, GovernShape, Executing, Clicked
  <2> QED
    BY <1>1, <1>5, <2>1, <2>3, <2>4, <2>6 DEF SaltInv
<1>10. ReadyInv'
  <2>1. ~ui'.loading /\ ui'.panel.eta = "none"
    BY <1>2, <1>4, <1>5
  <2>2. \A c \in calls' : Answering(c) => c.op \in Op /\ c.salt = world'.salt[c.op] /\ c.salt # 0
    BY <1>1, <1>3, <1>4, <1>6, <1>7 DEF ReadyInv, Answering
  <2>3. \A c \in calls' : c.kind # "load"
    BY <1>1, <1>2, <1>4, <1>7 DEF ReadyInv
  <2> QED
    BY <1>5, <2>1, <2>2, <2>3 DEF ReadyInv
<1>11. MintInv'
  <2>0. world.minted \in Nat /\ \A a \in Op : world.salt[a] \in Nat
    BY <1>1 DEF GovernShape
  <2>1. ASSUME NEW a \in Op
        PROVE  world'.salt[a] =< m /\ world'.salt[a] \notin world.executed
    <3>1. CASE a = o /\ world.salt[o] = 0
      BY <1>1, <1>3, <1>6, <2>0, <3>1 DEF MintInv
    <3>2. CASE a # o \/ world.salt[o] # 0
      <4>1. world'.salt[a] = world.salt[a]
        BY <1>3, <1>6, <3>2
      <4> QED
        BY <1>1, <1>3, <2>0, <4>1 DEF MintInv
    <3> QED
      BY <3>1, <3>2
  <2>2. ASSUME NEW a \in Op, a # o
        PROVE  world'.salt[a] # s
    <3>1. CASE world.salt[o] = 0
      BY <1>1, <1>3, <1>6, <2>0, <2>2, <3>1 DEF MintInv
    <3>2. CASE world.salt[o] # 0
      BY <1>1, <1>3, <1>6, <2>2, <3>2 DEF MintInv
    <3> QED
      BY <3>1, <3>2
  <2>3. \A a, b \in Op : world'.salt[a] = world'.salt[b] /\ world'.salt[a] # 0 => a = b
    BY <1>1, <1>6, <2>2 DEF MintInv
  <2>4. \A n1 \in world.executed : n1 \in Nat /\ n1 # 0 /\ n1 =< m
    BY <1>1, <1>3, <2>0 DEF MintInv
  <2>5. ASSUME NEW c \in calls', Executing(c)
        PROVE  c.salt \in Nat /\ c.salt =< m /\ \A a \in Op : world'.salt[a] = c.salt => a = c.op
    <3>1. c \in calls /\ c.salt \in Nat /\ c.salt =< world.minted
      BY <1>1, <1>4, <1>7, <2>5 DEF MintInv, Executing
    <3>2. c.salt =< m
      BY <1>3, <2>0, <3>1
    <3>3. ASSUME world'.salt[o] = c.salt
          PROVE  o = c.op
      <4>1. world.salt[o] # 0
        BY <1>3, <1>6, <2>0, <3>1, <3>3
      <4> QED
        BY <1>1, <1>3, <1>6, <2>5, <3>1, <3>3, <4>1 DEF MintInv
    <3>4. \A a \in Op : a # o /\ world'.salt[a] = c.salt => a = c.op
      BY <1>1, <1>6, <2>5, <3>1 DEF MintInv
    <3> QED
      BY <3>1, <3>2, <3>3, <3>4
  <2>6. \A c \in calls' : c.kind = "mempool" => c \in calls
    BY <1>4, <1>7
  <2> QED
    BY <1>1, <1>5, <2>1, <2>3, <2>4, <2>5, <2>6 DEF MintInv
<1> QED
  BY <1>8, <1>9, <1>10, <1>11 DEF GovernInv

LEMMA ExecuteStep == GovernInv /\ Govern!OnExecute => GovernInv'
<1> SUFFICES ASSUME GovernInv, Govern!OnExecute PROVE GovernInv'
  OBVIOUS
<1>1. GovernShape /\ ReadyInv /\ SaltInv /\ MintInv
  BY DEF GovernInv
<1> DEFINE o == ui.panel.op
           n == world.sends + 1
           b == world.again \/ \E c \in Govern!Kind("send") : c.what = "execute" /\ c.op = o
           x == [kind |-> "send", what |-> "execute", op |-> o, on |-> ui.timelock,
                 salt |-> world.salt[o], alive |-> TRUE]
           p == [ui.panel EXCEPT !.busy = TRUE]
<1>2. /\ ~ui.loading /\ o # None /\ world.salt[o] # 0
      /\ ui' = [ui EXCEPT !.panel = p] /\ calls' = calls \cup {x}
      /\ world' = [world EXCEPT !.sends = n, !.again = b]
  BY <1>1 DEF Govern!OnExecute, Govern!IsGoverned, Govern!Away, Govern!Set, Govern!Send, Govern!Asks,
     GovernShape, GovernWorld
<1>3. /\ o \in Op /\ b \in BOOLEAN
      /\ ~b => ~world.again /\ \A c \in calls : Executing(c) => c.op # o
  BY <1>1, <1>2 DEF GovernShape, Govern!Kind, Executing
<1>4. /\ DOMAIN x = GovernSend /\ x.kind = "send" /\ x.what = "execute" /\ x.op = o
      /\ x.salt = world.salt[o]
      /\ DOMAIN p = GovernPanel /\ p.op = o /\ p.eta = ui.panel.eta
  BY <1>1 DEF GovernShape, GovernSend, GovernPanel
<1> HIDE DEF n, b, x, p
<1>5. /\ DOMAIN ui' = GovernUi /\ ui'.loading = ui.loading /\ ui'.timelock = ui.timelock /\ ui'.panel = p
      /\ DOMAIN world' = GovernWorld /\ world'.salt = world.salt
      /\ world'.minted = world.minted /\ world'.ops = world.ops /\ world'.executed = world.executed
      /\ world'.crossed = world.crossed /\ world'.again = b
  BY <1>1, <1>2 DEF GovernShape, GovernUi, GovernWorld
<1>7. \A c \in calls' : c \in calls \/ c = x
  BY <1>2
<1>8. GovernShape'
  BY <1>1, <1>3, <1>4, <1>5, <1>7 DEF GovernShape
<1>9. SaltInv'
  <2>1. \A c \in calls' : Clicked(c) \/ Scheduling(c) => c.salt # 0
    BY <1>1, <1>2, <1>4, <1>7 DEF SaltInv, Clicked, Scheduling
  <2>2. ASSUME ~b
        PROVE  /\ \A c \in calls' : Scheduling(c) /\ c.salt \notin world.executed => world.salt[c.op] = c.salt
               /\ \A c \in calls' : Executing(c) => world.salt[c.op] = c.salt
               /\ \A c, d \in calls' : Executing(c) /\ Executing(d) /\ c.op = d.op => c = d
    <3>1. \A c \in calls : Executing(c) => c.op # o
      BY <1>3, <2>2
    <3>2. ~Scheduling(x) /\ Executing(x)
      BY <1>4 DEF Scheduling, Executing
    <3> QED
      BY <1>1, <1>3, <1>4, <1>7, <2>2, <3>1, <3>2 DEF SaltInv
  <2> QED
    BY <1>1, <1>3, <1>5, <2>1, <2>2 DEF SaltInv
<1>10. ReadyInv'
  <2>1. ~ui'.loading
    BY <1>2, <1>5
  <2>2. ~Answering(x) /\ x.kind # "load"
    BY <1>4 DEF Answering
  <2>3. \A c \in calls : c \in calls'
    BY <1>2
  <2> QED
    BY <1>1, <1>4, <1>5, <1>7, <2>1, <2>2, <2>3 DEF ReadyInv, Waits
<1>11. MintInv'
  <2>1. x.salt \in Nat /\ x.salt =< world.minted /\ \A a \in Op : world.salt[a] = x.salt => a = o
    BY <1>1, <1>2, <1>3, <1>4 DEF MintInv, GovernShape
  <2>2. \A c \in calls' : Executing(c) =>
          c.salt \in Nat /\ c.salt =< world.minted /\ \A a \in Op : world.salt[a] = c.salt => a = c.op
    BY <1>1, <1>4, <1>7, <2>1 DEF MintInv
  <2>3. \A c \in calls' : c.kind = "mempool" => c \in calls
    BY <1>4, <1>7
  <2> QED
    BY <1>1, <1>5, <2>2, <2>3 DEF MintInv
<1> QED
  BY <1>8, <1>9, <1>10, <1>11 DEF GovernInv

LEMMA SendFailedStep ==
  ASSUME GovernInv, NEW c \in calls, Govern!SendFailed(c)
  PROVE  GovernInv'
<1>1. GovernShape /\ ReadyInv /\ SaltInv /\ MintInv
  BY DEF GovernInv
<1>2. /\ c.kind = "send" /\ calls' = calls \ {c} /\ world' = world
      /\ ui' = ui \/ ui' = [ui EXCEPT !.panel.busy = FALSE]
  BY DEF Govern!SendFailed
<1>3. /\ DOMAIN ui' = GovernUi /\ ui'.loading = ui.loading /\ ui'.timelock = ui.timelock
      /\ DOMAIN ui'.panel = GovernPanel /\ ui'.panel.op = ui.panel.op /\ ui'.panel.eta = ui.panel.eta
  BY <1>1, <1>2 DEF GovernShape, GovernUi, GovernPanel
<1>4. GovernShape'
  BY <1>1, <1>2, <1>3 DEF GovernShape
<1>5. SaltsStay /\ TimesStay
  BY <1>2, <1>3 DEF SaltsStay, TimesStay, Answering
<1> QED
  BY <1>1, <1>4, <1>5, SaltsFrame, TimesFrame DEF GovernInv

(* A schedule that is sent keeps its salt in the mempool. *)
LEMMA ScheduleSentStep ==
  ASSUME GovernInv, NEW c \in calls, Govern!Sent(c), c.what = "schedule"
  PROVE  GovernInv'
<1>1. GovernShape /\ ReadyInv /\ SaltInv /\ MintInv
  BY DEF GovernInv
<1> DEFINE t == [kind |-> "mempool", what |-> c.what, op |-> c.op, on |-> c.on, salt |-> c.salt]
           e == [kind |-> "eta", op |-> c.op, on |-> c.on, salt |-> world.salt[c.op]]
<1>2. /\ c.kind = "send" /\ world' = world
      /\ ui' = ui \/ ui' = [ui EXCEPT !.panel.busy = FALSE]
      /\ \A d \in calls' : d \in calls \/ d = t \/ (d = e /\ Alive(c) /\ world.salt[c.op] # 0)
      /\ \A d \in calls : d # c => d \in calls'
  BY DEF Govern!Sent, Alive
<1>3. /\ t.kind = "mempool" /\ t.what = c.what /\ t.op = c.op /\ t.salt = c.salt
      /\ e.kind = "eta" /\ e.op = c.op /\ e.salt = world.salt[c.op]
  OBVIOUS
<1> HIDE DEF t, e
<1>4. /\ DOMAIN ui' = GovernUi /\ ui'.loading = ui.loading /\ ui'.timelock = ui.timelock
      /\ DOMAIN ui'.panel = GovernPanel /\ ui'.panel.op = ui.panel.op /\ ui'.panel.eta = ui.panel.eta
  BY <1>1, <1>2 DEF GovernShape, GovernUi, GovernPanel
<1>5. GovernShape'
  BY <1>1, <1>2, <1>3, <1>4 DEF GovernShape
<1>6. SaltInv'
  <2>1. \A d \in calls' : Clicked(d) \/ Executing(d) => d \in calls
    BY <1>2, <1>3 DEF Clicked, Executing
  <2>2. \A d \in calls' : Scheduling(d) =>
          \E x \in calls : Scheduling(x) /\ x.op = d.op /\ x.salt = d.salt
    <3>1. Scheduling(c)
      BY <1>2 DEF Scheduling
    <3> QED
      BY <1>2, <1>3, <3>1 DEF Scheduling
  <2> QED
    BY <1>1, <1>2, <2>1, <2>2 DEF SaltInv
<1>7. ReadyInv'
  <2>1. \A d \in calls' : /\ d.kind = "load" => d \in calls
                          /\ Alive(d) => d \in calls
                          /\ Answering(d) => d \in calls \/ (d = e /\ Alive(c) /\ world.salt[c.op] # 0)
    BY <1>2, <1>3 DEF Alive, Answering
  <2>2. \A d \in calls : Answering(d) => d \in calls'
    BY <1>2 DEF Answering
  <2>3. c.op \in Op
    BY <1>1, <1>2 DEF GovernShape
  <2>4. \A d \in calls' : Answering(d) => d.op \in Op /\ d.salt = world.salt[d.op] /\ d.salt # 0
    BY <1>1, <1>3, <2>1, <2>3 DEF ReadyInv
  <2>5. ui.loading => \A d \in calls' : ~Answering(d) /\ ~Alive(d)
    BY <1>1, <2>1 DEF ReadyInv
  <2>6. (\A d \in calls' : ~Answering(d)) => \A d \in calls : ~Answering(d)
    BY <2>2
  <2> QED
    BY <1>1, <1>2, <1>4, <2>1, <2>4, <2>5, <2>6 DEF ReadyInv, Waits
<1>8. MintInv'
  <2>1. \A d \in calls' : Executing(d) => d \in calls
    BY <1>2, <1>3 DEF Executing
  <2>2. \A d \in calls' : d.kind = "mempool" /\ d.what = "execute" => d \in calls
    BY <1>2, <1>3
  <2> QED
    BY <1>1, <1>2, <2>1, <2>2 DEF MintInv
<1> QED
  BY <1>5, <1>6, <1>7, <1>8 DEF GovernInv

(* An execution that is sent forgets the salt, which is of what it executes. *)
LEMMA ExecuteSentStep ==
  ASSUME GovernInv, NEW c \in calls, Govern!Sent(c), c.what # "schedule"
  PROVE  GovernInv'
<1>1. GovernShape /\ ReadyInv /\ SaltInv /\ MintInv
  BY DEF GovernInv
<1> DEFINE t == [kind |-> "mempool", what |-> c.what, op |-> c.op, on |-> c.on, salt |-> c.salt]
<1>2. /\ c.kind = "send" /\ ui' = [ui EXCEPT !.loading = TRUE, !.panel = Govern!Panel]
      /\ \A x \in calls' : \/ x \in calls /\ x.kind = "mempool"
                           \/ x = t
                           \/ \E d \in calls : d # c /\ d.kind = "send" /\ x = [d EXCEPT !.alive = FALSE]
                           \/ x = [kind |-> "load"]
      /\ world' = IF c.what = "execute" THEN [world EXCEPT !.salt[c.op] = 0, !.executed = @ \cup {c.salt}]
                  ELSE world
  BY DEF Govern!Sent, Govern!Kind
<1>3. /\ t.kind = "mempool" /\ t.what = c.what /\ t.op = c.op /\ t.salt = c.salt
  OBVIOUS
<1> HIDE DEF t
<1>4. /\ DOMAIN world' = GovernWorld
      /\ world'.minted = world.minted /\ world'.ops = world.ops
      /\ world'.crossed = world.crossed /\ world'.again = world.again
      /\ IF c.what = "execute"
         THEN world'.salt = [world.salt EXCEPT ![c.op] = 0] /\ world'.executed = world.executed \cup {c.salt}
         ELSE world'.salt = world.salt /\ world'.executed = world.executed
  BY <1>1, <1>2 DEF GovernShape, GovernWorld
<1>5. world'.salt \in [Op -> Nat]
  BY <1>1, <1>4 DEF GovernShape
<1>6. t.what \in {"handoff", "schedule", "execute"} /\ (t.what \in {"schedule", "execute"} => t.op \in Op)
  BY <1>1, <1>2, <1>3 DEF GovernShape
<1>7. GovernShape' /\ ReadyInv'
  BY <1>2, <1>3, <1>4, <1>5, <1>6, Reloading
<1>8. \A x \in calls' : x.kind = "send" => \E d \in calls :
        /\ d # c /\ d.kind = x.kind /\ d.what = x.what /\ d.op = x.op /\ d.salt = x.salt
        /\ x = [d EXCEPT !.alive = FALSE]
  <2> TAKE x \in calls'
  <2>1. CASE \E d \in calls : d # c /\ d.kind = "send" /\ x = [d EXCEPT !.alive = FALSE]
    BY <1>1, <2>1 DEF GovernShape, GovernSend
  <2>2. CASE x = [kind |-> "load"] \/ x = t \/ x.kind = "mempool"
    BY <1>3, <2>2
  <2> QED
    BY <1>2, <2>1, <2>2
<1>9. \A x \in calls' : x.kind = "mempool" /\ x.what = "schedule" => x \in calls
  <2> TAKE x \in calls'
  <2>1. CASE \E d \in calls : d # c /\ d.kind = "send" /\ x = [d EXCEPT !.alive = FALSE]
    BY <1>1, <2>1 DEF GovernShape, GovernSend
  <2>2. CASE x = [kind |-> "load"] \/ x = t \/ x \in calls
    BY <1>3, <2>2
  <2> QED
    BY <1>2, <2>1, <2>2
<1>10. SaltInv'
  <2>1. \A x \in calls' : Clicked(x) \/ Scheduling(x) => x.salt # 0
    BY <1>1, <1>8, <1>9 DEF SaltInv, Clicked, Scheduling
  <2>2. ASSUME ~world.again, NEW a \in Op, NEW s, world.salt[a] = s, s \notin world'.executed
        PROVE  world'.salt[a] = s
    <3>1. CASE c.what = "execute"
      <4>1. c.op \in Op /\ world.salt[c.op] = c.salt
        BY <1>1, <1>2, <2>2, <3>1 DEF GovernShape, SaltInv, Executing
      <4>2. a # c.op
        BY <1>4, <2>2, <3>1, <4>1
      <4> QED
        BY <1>1, <1>4, <2>2, <3>1, <4>2 DEF GovernShape
    <3>2. CASE c.what # "execute"
      BY <1>4, <2>2, <3>2
    <3> QED
      BY <3>1, <3>2
  <2>3. world.executed \subseteq world'.executed
    BY <1>4
  <2>4. ASSUME ~world.again
        PROVE  \A s \in world.ops : s.salt \notin world'.executed => world'.salt[s.op] = s.salt
    BY <1>1, <2>2, <2>3, <2>4 DEF SaltInv, GovernShape
  <2>5. \A x \in calls' : Scheduling(x) =>
          \E d \in calls : Scheduling(d) /\ d.op = x.op /\ d.salt = x.salt
    BY <1>8, <1>9 DEF Scheduling
  <2>6. ASSUME ~world.again
        PROVE  \A x \in calls' : Scheduling(x) /\ x.salt \notin world'.executed => world'.salt[x.op] = x.salt
    <3> SUFFICES ASSUME NEW x \in calls', Scheduling(x), x.salt \notin world'.executed
                 PROVE  world'.salt[x.op] = x.salt
      OBVIOUS
    <3>1. PICK d \in calls : Scheduling(d) /\ d.op = x.op /\ d.salt = x.salt
      BY <2>5
    <3>2. d.op \in Op
      BY <1>1, <3>1 DEF GovernShape, Scheduling
    <3> QED
      BY <1>1, <2>2, <2>3, <2>6, <3>1, <3>2 DEF SaltInv
  <2>7. ASSUME ~world.again, NEW x \in calls', NEW y \in calls', Executing(x), Executing(y), x.op = y.op
        PROVE  x = y
    <3>1. PICK d \in calls : Executing(d) /\ d.op = x.op /\ x = [d EXCEPT !.alive = FALSE]
      BY <1>8, <2>7 DEF Executing
    <3>2. PICK e \in calls : Executing(e) /\ e.op = y.op /\ y = [e EXCEPT !.alive = FALSE]
      BY <1>8, <2>7 DEF Executing
    <3>3. d = e
      BY <1>1, <2>7, <3>1, <3>2 DEF SaltInv
    <3> QED
      BY <3>1, <3>2, <3>3
  <2>8. ASSUME ~world.again, NEW x \in calls', Executing(x)
        PROVE  world'.salt[x.op] = x.salt
    <3>1. PICK d \in calls : d # c /\ Executing(d) /\ d.op = x.op /\ d.salt = x.salt
      BY <1>8, <2>8 DEF Executing
    <3>2. d.op \in Op /\ world.salt[d.op] = d.salt
      BY <1>1, <2>8, <3>1 DEF GovernShape, SaltInv, Executing
    <3>3. CASE c.what = "execute"
      <4>1. Executing(c) /\ c.op # d.op
        BY <1>1, <1>2, <2>8, <3>1, <3>3 DEF SaltInv, Executing
      <4> QED
        BY <1>1, <1>4, <3>1, <3>2, <3>3, <4>1 DEF GovernShape
    <3>4. CASE c.what # "execute"
      BY <1>4, <3>1, <3>2, <3>4
    <3> QED
      BY <3>3, <3>4
  <2> QED
    BY <1>1, <1>4, <2>1, <2>4, <2>6, <2>7, <2>8 DEF SaltInv
<1>11. MintInv'
  <2>1. ASSUME c.what = "execute"
        PROVE  /\ c.op \in Op /\ c.salt # 0 /\ c.salt \in Nat /\ c.salt =< world.minted
               /\ \A o \in Op : world.salt[o] = c.salt => o = c.op
    BY <1>1, <1>2, <2>1 DEF MintInv, SaltInv, GovernShape, Executing, Clicked
  <2>2. \A o \in Op : world'.salt[o] = world.salt[o] \/ (world'.salt[o] = 0 /\ c.what = "execute" /\ o = c.op)
    BY <1>1, <1>4 DEF GovernShape
  <2>3. world.minted \in Nat /\ 0 \notin world.executed
    BY <1>1 DEF GovernShape, MintInv
  <2>4. world'.executed = world.executed \/ (c.what = "execute" /\ world'.executed = world.executed \cup {c.salt})
    BY <1>4
  <2>5. ASSUME NEW o \in Op
        PROVE  world'.salt[o] =< world.minted /\ world'.salt[o] \notin world'.executed
    <3>1. CASE c.what = "execute" /\ o = c.op
      <4>1. world'.salt[o] = 0
        BY <1>1, <1>4, <3>1 DEF GovernShape
      <4> QED
        BY <2>1, <2>3, <2>4, <3>1, <4>1
    <3>2. CASE ~(c.what = "execute" /\ o = c.op)
      <4>1. world'.salt[o] = world.salt[o]
        BY <2>2, <3>2
      <4>2. c.what = "execute" => world.salt[o] # c.salt
        BY <2>1, <3>2
      <4> QED
        BY <1>1, <2>4, <4>1, <4>2 DEF MintInv
    <3> QED
      BY <3>1, <3>2
  <2>6. \A o, q \in Op : world'.salt[o] = world'.salt[q] /\ world'.salt[o] # 0 => o = q
    BY <1>1, <2>2 DEF MintInv
  <2>7. \A n \in world'.executed : n \in Nat /\ n # 0 /\ n =< world.minted
    BY <1>1, <2>1, <2>4 DEF MintInv
  <2>8. ASSUME NEW x \in calls', Executing(x)
        PROVE  x.salt \in Nat /\ x.salt =< world.minted /\ \A o \in Op : world'.salt[o] = x.salt => o = x.op
    <3>1. PICK d \in calls : Executing(d) /\ d.op = x.op /\ d.salt = x.salt
      BY <1>8, <2>8 DEF Executing
    <3>2. d.salt \in Nat /\ d.salt # 0 /\ d.salt =< world.minted /\ \A o \in Op : world.salt[o] = d.salt => o = d.op
      BY <1>1, <3>1 DEF MintInv, SaltInv, Executing, Clicked
    <3> QED
      BY <2>2, <3>1, <3>2
  <2>9. \A x \in calls' : x.kind = "mempool" /\ x.what = "execute" => x.salt \in world'.executed
    <3> SUFFICES ASSUME NEW x \in calls', x.kind = "mempool", x.what = "execute"
                 PROVE  x.salt \in world'.executed
      OBVIOUS
    <3>1. CASE x \in calls
      BY <1>1, <2>4, <3>1 DEF MintInv
    <3>2. CASE x = t
      BY <1>3, <1>4, <3>2
    <3>3. CASE \E d \in calls : d # c /\ d.kind = "send" /\ x = [d EXCEPT !.alive = FALSE]
      BY <1>1, <3>3 DEF GovernShape, GovernSend
    <3>4. CASE x = [kind |-> "load"]
      BY <3>4
    <3> QED
      BY <1>2, <3>1, <3>2, <3>3, <3>4
  <2>10. \A s \in world.ops : s.at = "done" => s.salt \in world'.executed
    BY <1>1, <2>4 DEF MintInv
  <2> QED
    BY <1>4, <2>5, <2>6, <2>7, <2>8, <2>9, <2>10 DEF MintInv
<1> QED
  BY <1>7, <1>10, <1>11 DEF GovernInv

(* The timelock: a change is scheduled, or done.                             *)
LEMMA MineStep ==
  ASSUME GovernInv, NEW c \in calls, Govern!Mine(c)
  PROVE  GovernInv'
<1>1. GovernShape /\ ReadyInv /\ SaltInv /\ MintInv
  BY DEF GovernInv
<1>2. /\ c.kind = "mempool" /\ calls' = calls \ {c} /\ ui' = ui
      /\ c.what \in {"handoff", "schedule", "execute"}
  BY <1>1 DEF Govern!Mine, GovernShape
<1> DEFINE a == IF world.admin = Admin THEN c.on ELSE world.admin
           x == [op |-> c.op, salt |-> c.salt, on |-> c.on, at |-> "waiting"]
           O == {IF Govern!Same(s, c) /\ s.at = "ready" THEN [s EXCEPT !.at = "done"] ELSE s : s \in world.ops}
<1>3. \/ world' = [world EXCEPT !.admin = a] \/ world' = world
      \/ c.what = "schedule" /\ world' = [world EXCEPT !.ops = @ \cup {x}]
      \/ c.what = "execute" /\ world' = [world EXCEPT !.ops = O]
  <2>1. CASE c.what = "handoff"
    BY <1>1, <2>1 DEF Govern!Mine, GovernShape, GovernWorld
  <2>2. CASE c.what = "schedule"
    BY <2>2 DEF Govern!Mine
  <2>3. CASE c.what = "execute"
    BY <1>1, <2>3 DEF Govern!Mine, GovernShape, GovernWorld
  <2> QED
    BY <1>2, <2>1, <2>2, <2>3
<1>4. DOMAIN x = {"op", "salt", "on", "at"} /\ x.op = c.op /\ x.salt = c.salt /\ x.at = "waiting"
  OBVIOUS
<1>5. /\ \A y \in O : \E s \in world.ops :
           /\ y.op = s.op /\ y.salt = s.salt /\ DOMAIN y = DOMAIN s
           /\ y.at = s.at \/ (y.at = "done" /\ s.salt = c.salt)
      /\ \A s \in world.ops : s.salt # c.salt => s \in O
  <2>1. \A s \in world.ops : LET y == [s EXCEPT !.at = "done"] IN
           /\ y.op = s.op /\ y.salt = s.salt /\ y.at = "done" /\ DOMAIN y = DOMAIN s
    BY <1>1 DEF GovernShape
  <2>2. \A y \in O : \E s \in world.ops : y = s \/ (y = [s EXCEPT !.at = "done"] /\ s.salt = c.salt)
    BY DEF Govern!Same
  <2>3. \A s \in world.ops : s.salt # c.salt => s \in O
    BY DEF Govern!Same
  <2> HIDE DEF O
  <2>4. ASSUME NEW y \in O
        PROVE  \E s \in world.ops : /\ y.op = s.op /\ y.salt = s.salt /\ DOMAIN y = DOMAIN s
                                    /\ y.at = s.at \/ (y.at = "done" /\ s.salt = c.salt)
    <3>1. PICK s \in world.ops : y = s \/ (y = [s EXCEPT !.at = "done"] /\ s.salt = c.salt)
      BY <2>2
    <3>2. CASE y = s
      BY <3>2
    <3>3. CASE y = [s EXCEPT !.at = "done"] /\ s.salt = c.salt
      BY <2>1, <3>3
    <3> QED
      BY <3>1, <3>2, <3>3
  <2> QED
    BY <2>3, <2>4
<1> HIDE DEF a, x, O
<1>6. /\ DOMAIN world' = GovernWorld /\ world'.salt = world.salt /\ world'.minted = world.minted
      /\ world'.executed = world.executed /\ world'.crossed = world.crossed /\ world'.again = world.again
      /\ \/ world'.ops = world.ops
         \/ c.what = "schedule" /\ world'.ops = world.ops \cup {x}
         \/ c.what = "execute" /\ world'.ops = O
  <2>1. CASE world' = [world EXCEPT !.admin = a]
    BY <1>1, <2>1 DEF GovernShape, GovernWorld
  <2>2. CASE world' = world
    BY <1>1, <2>2 DEF GovernShape
  <2>3. CASE c.what = "schedule" /\ world' = [world EXCEPT !.ops = @ \cup {x}]
    BY <1>1, <2>3 DEF GovernShape, GovernWorld
  <2>4. CASE c.what = "execute" /\ world' = [world EXCEPT !.ops = O]
    BY <1>1, <2>4 DEF GovernShape, GovernWorld
  <2> QED
    BY <1>3, <2>1, <2>2, <2>3, <2>4
<1>7. \A y \in world'.ops :
        \/ \E s \in world.ops :
             /\ y.op = s.op /\ y.salt = s.salt /\ DOMAIN y = DOMAIN s
             /\ y.at = s.at \/ (y.at = "done" /\ c.what = "execute" /\ s.salt = c.salt)
        \/ y = x /\ c.what = "schedule"
  BY <1>5, <1>6
<1>8. c.what = "execute" => c.salt \in world.executed
  BY <1>1, <1>2 DEF MintInv
<1>9. GovernShape'
  <2>1. \A y \in world'.ops :
          DOMAIN y = {"op", "salt", "on", "at"} /\ y.op \in Op /\ y.at \in {"waiting", "ready", "done"}
    BY <1>1, <1>2, <1>4, <1>7 DEF GovernShape
  <2> QED
    BY <1>1, <1>2, <1>6, <2>1 DEF GovernShape
<1>10. SaltInv'
  <2>1. c.what = "schedule" => Scheduling(c)
    BY <1>2 DEF Scheduling
  <2>2. \A y \in world'.ops : y.salt # 0
    BY <1>1, <1>4, <1>7, <2>1 DEF SaltInv
  <2>3. ASSUME ~world.again
        PROVE  \A y \in world'.ops : y.salt \notin world.executed => world.salt[y.op] = y.salt
    BY <1>1, <1>4, <1>7, <2>1, <2>3 DEF SaltInv
  <2> QED
    BY <1>1, <1>2, <1>6, <2>2, <2>3 DEF SaltInv
<1>11. ReadyInv'
  <2>1. \A d \in calls : Answering(d) => d \in calls'
    BY <1>2 DEF Answering
  <2>2. \A s \in world.ops : Waits(s) => s \in world'.ops
    <3> SUFFICES ASSUME NEW s \in world.ops, Waits(s) PROVE s \in world'.ops
      OBVIOUS
    <3>1. CASE c.what = "execute"
      <4>1. s.salt \notin world.executed
        BY <1>1 DEF Waits, GovernShape, MintInv
      <4> QED
        BY <1>5, <1>6, <1>8, <3>1, <4>1
    <3>2. CASE c.what # "execute"
      BY <1>6, <3>2
    <3> QED
      BY <3>1, <3>2
  <2>3. ui.panel.eta = "ready" =>
          \E s \in world'.ops :
            /\ s.at = "ready" /\ s.salt = world.salt[s.op]
            /\ ~world.crossed /\ (\A d \in calls' : ~Answering(d)) => s.op = ui.panel.op /\ s.on = ui.timelock
    BY <1>1, <2>1, <2>2 DEF ReadyInv, Waits
  <2>4. \A d \in calls' : d \in calls
    BY <1>2
  <2>5. /\ \A d \in calls' : d.kind = "load" => ui.loading
        /\ ui.loading => ui.panel.eta = "none" /\ \A d \in calls' : ~Answering(d) /\ ~Alive(d)
        /\ \A d \in calls' : Answering(d) => d.op \in Op /\ d.salt = world.salt[d.op] /\ d.salt # 0
    BY <1>1, <2>4 DEF ReadyInv
  <2> QED
    BY <1>2, <1>6, <2>3, <2>5 DEF ReadyInv, Waits
<1>12. MintInv'
  <2>1. \A y \in world'.ops : y.at = "done" => y.salt \in world.executed
    BY <1>1, <1>4, <1>7, <1>8 DEF MintInv
  <2>2. \A d \in calls' : d \in calls
    BY <1>2
  <2> QED
    BY <1>1, <1>6, <2>1, <2>2 DEF MintInv
<1> QED
  BY <1>9, <1>10, <1>11, <1>12 DEF GovernInv

(* The delay of a change is over. *)
LEMMA PassStep ==
  ASSUME GovernInv, NEW s \in world.ops, Govern!Pass(s)
  PROVE  GovernInv'
<1>1. GovernShape /\ ReadyInv /\ SaltInv /\ MintInv
  BY DEF GovernInv
<1> DEFINE x == [s EXCEPT !.at = "ready"]
<1>2. /\ UNCHANGED <<ui, calls>> /\ s.at = "waiting"
      /\ world' = [world EXCEPT !.ops = (@ \ {s}) \cup {x}]
  BY DEF Govern!Pass
<1>3. DOMAIN x = {"op", "salt", "on", "at"} /\ x.op = s.op /\ x.salt = s.salt /\ x.at = "ready"
  BY <1>1 DEF GovernShape
<1> HIDE DEF x
<1>4. /\ DOMAIN world' = GovernWorld /\ world'.salt = world.salt /\ world'.minted = world.minted
      /\ world'.executed = world.executed /\ world'.crossed = world.crossed /\ world'.again = world.again
      /\ world'.ops = (world.ops \ {s}) \cup {x}
  BY <1>1, <1>2 DEF GovernShape, GovernWorld
<1>5. GovernShape'
  BY <1>1, <1>2, <1>3, <1>4 DEF GovernShape
<1>6. SaltInv'
  BY <1>1, <1>2, <1>3, <1>4 DEF SaltInv
<1>7. ReadyInv'
  <2>1. \A y \in world.ops : y.at # "waiting" => y \in world'.ops
    BY <1>2, <1>4
  <2> QED
    BY <1>1, <1>2, <1>4, <2>1 DEF ReadyInv, Waits
<1>8. MintInv'
  <2>1. \A y \in world'.ops : y.at = "done" => y \in world.ops
    BY <1>3, <1>4
  <2> QED
    BY <1>1, <1>2, <1>4, <2>1 DEF MintInv
<1> QED
  BY <1>5, <1>6, <1>7, <1>8 DEF GovernInv

LEMMA GovernStep == GovernInv /\ (Govern!Next \/ UNCHANGED <<ui, calls, world>>) => GovernInv'
<1> SUFFICES ASSUME GovernInv, Govern!Next \/ UNCHANGED <<ui, calls, world>> PROVE GovernInv'
  OBVIOUS
<1>1. CASE UNCHANGED <<ui, calls, world>>
  BY <1>1 DEF GovernInv, GovernShape, SaltInv, MintInv, ReadyInv, Waits
<1>2. CASE Govern!Next
  BY <1>2, LoadStep, GovernLoadedStep, ConfirmStep, EditedStep, AnsweredStep, UnansweredStep,
     ScheduleStep, ExecuteStep, SendFailedStep, ScheduleSentStep, ExecuteSentStep, MineStep, PassStep
  DEF Govern!Next
<1> QED
  BY <1>1, <1>2

LEMMA GovernHolds == GovernInv => Govern!SaltOutlives /\ Govern!ReadyIsReady
<1> SUFFICES ASSUME GovernInv PROVE Govern!SaltOutlives /\ Govern!ReadyIsReady
  OBVIOUS
<1>1. Govern!SaltOutlives
  BY DEF GovernInv, SaltInv, Govern!SaltOutlives
<1>2. Govern!ReadyIsReady
  BY DEF GovernInv, ReadyInv, Waits, Answering, Govern!Kind, Govern!ReadyIsReady
<1> QED
  BY <1>1, <1>2

-----------------------------------------------------------------------------
(* The deployment wizard.                                                    *)
WizardUi == {"address", "signer", "step", "mode", "resources", "token", "paymaster", "loading", "tx"}
WizardWorld == {"has", "cache", "switches", "failed", "mixed", "missed"}
WizardCheck == {"kind", "n", "of", "mode", "by", "at", "cached", "found", "enough"}
WizardTx == {"kind", "what", "of", "mode", "signer", "alive", "at"}
Cacheable == {"community", "xpnts", "paymaster", "conflict", "super"}

WizardShape ==
  /\ DOMAIN ui = WizardUi /\ DOMAIN world = WizardWorld
  /\ ui.address \in Deployer \cup {None} /\ ui.signer = ui.address
  /\ ui.step \in 1..(IF ui.mode = "aoa+" THEN 8 ELSE 7)
  /\ ui.step > 1 => ui.mode \in Wizard!Mode
  /\ world.has \in [Deployer -> SUBSET Wizard!Lasting]
  /\ world.cache \subseteq Cacheable \X Deployer
  /\ \A c \in calls : \/ c.kind = "check" /\ DOMAIN c = WizardCheck /\ c.enough \in BOOLEAN
                      \/ c.kind = "tx" /\ DOMAIN c = WizardTx

(* Everything that is under way and what was found is of one operator and of  *)
(* the mode that was picked.                                                  *)
ErrandInv ==
  /\ \A c \in calls :
       /\ c.of \in Deployer /\ c.mode = ui.mode /\ c.mode \in Wizard!Mode
       /\ ui.address # None => c.of = ui.address
       /\ ui.resources # None => c.of = ui.resources.of
       /\ c.kind = "tx" => c.signer = c.of /\ ui.resources # None
  /\ \A c, d \in calls : c.of = d.of /\ (c.kind = "check" /\ d.kind = "check" => c = d)
  /\ ui.resources # None =>
       /\ ui.resources.of \in Deployer /\ ui.resources.mode = ui.mode
       /\ ui.address # None => ui.resources.of = ui.address
  /\ ui.step > 2 => ui.resources # None

(* What a check has found, what is cached as done and what was mined is on    *)
(* the chain; so are the steps the wizard is past.                            *)
DoneInv ==
  /\ \A e \in world.cache : Wizard!CachedValue(e[1]) => e[1] \in world.has[e[2]]
  /\ \A c \in calls : c.kind = "check" =>
       /\ c.at = "read" => \A t \in c.cached : Wizard!CachedValue(t) => t \in world.has[c.of]
       /\ c.at # "read" => c.found \subseteq world.has[c.of]
  /\ ui.resources # None => ui.resources.has \subseteq world.has[ui.resources.of]
  /\ \A c \in calls : c.kind = "tx" =>
       /\ c.at = "mined" /\ c.what \in Wizard!Lasting => c.what \in world.has[c.of]
       /\ c.alive => c.what = Wizard!Key
  /\ ui.address # None =>
       /\ ui.tx = "success" /\ Wizard!Key \in Wizard!Lasting => Wizard!Key \in world.has[ui.address]
       /\ \A i \in 3..(ui.step - 1) :
            Wizard!Keys(ui.mode)[i] \in Wizard!Lasting => Wizard!Keys(ui.mode)[i] \in world.has[ui.address]

(* A step of the operator that is mined and whose receipt is still awaited. *)
Awaited(what, of) == \E c \in calls : c.kind = "tx" /\ c.at = "mined" /\ c.what = what /\ c.of = of

(* The wizard need not know it: its receipt is awaited, or it was missed.     *)
Unseen(t, of) == Awaited(Wizard!Subject(t), of) \/ <<t, of>> \in world.missed

(* What is on the chain is known to the wizard or will be: its receipt is     *)
(* awaited, or a check is under way that finds it - or it was missed when it  *)
(* was read last.  What is cached as not done is not done, or unseen.         *)
FoundInv ==
  /\ \A e \in world.cache :
       ~Wizard!CachedValue(e[1]) /\ Wizard!Subject(e[1]) \in world.has[e[2]] => Unseen(e[1], e[2])
  /\ \A c \in calls : c.kind = "check" =>
       /\ c.at = "read" =>
            /\ \A e \in world.cache : e[2] = c.of /\ e[1] \in Wizard!Looked(c.mode) => e[1] \in c.cached
            /\ \A t \in c.cached :
                 ~Wizard!CachedValue(t) /\ Wizard!Subject(t) \in world.has[c.of] => Unseen(t, c.of)
       /\ c.at # "read" => \A t \in Wizard!Looked(c.mode) :
            Wizard!Subject(t) \in world.has[c.of] => Wizard!Subject(t) \in c.found \/ Unseen(t, c.of)
  /\ ui.resources # None => \A t \in Wizard!Looked(ui.resources.mode) :
       Wizard!Subject(t) \in world.has[ui.resources.of] =>
         \/ Wizard!Subject(t) \in ui.resources.has
         \/ Unseen(t, ui.resources.of)
         \/ \E c \in calls : c.kind = "check"

WizardClean == WizardShape /\ ErrandInv /\ DoneInv /\ FoundInv

WizardInv == world.mixed \/ WizardClean

LEMMA LastingSteps == Wizard!Lasting = {"community", "xpnts", "paymaster", "super"}
BY DEF Wizard!Lasting, Wizard!Steps, Wizard!RegisterCommunity, Wizard!DeployXPNTs, Wizard!DeployPaymasterV4,
   Wizard!RegisterSuper, Wizard!ConfigureOperator, Wizard!EntryPointDeposit, Wizard!DepositAPNTs

LEMMA Refreshing ==
  /\ \A k \in {"community", "paymaster", "super"}, b \in BOOLEAN : b \in Wizard!Steps[k].refresh
  /\ TRUE \in Wizard!Steps["xpnts"].refresh
<1>1. \A b \in BOOLEAN : b \in Wizard!Steps["community"].refresh
  BY DEF Wizard!Steps, Wizard!RegisterCommunity
<1>2. \A b \in BOOLEAN : b \in Wizard!Steps["paymaster"].refresh
  BY DEF Wizard!Steps, Wizard!DeployPaymasterV4
<1>3. \A b \in BOOLEAN : b \in Wizard!Steps["super"].refresh
  BY DEF Wizard!Steps, Wizard!RegisterSuper
<1>4. TRUE \in Wizard!Steps["xpnts"].refresh
  BY DEF Wizard!Steps, Wizard!DeployXPNTs
<1> QED
  BY <1>1, <1>2, <1>3, <1>4

(* The steps of the wizard: the check looks for what each may leave. *)
LEMMA StepKeys ==
  ASSUME NEW mode
  PROVE  /\ Wizard!Keys(mode)[1] = "connect" /\ Wizard!Keys(mode)[2] = "resources"
         /\ Wizard!Keys(mode)[IF mode = "aoa+" THEN 8 ELSE 7] = "done"
BY DEF Wizard!Keys

LEMMA LastingLooked ==
  ASSUME NEW mode \in Wizard!Mode, NEW i \in 1..(IF mode = "aoa+" THEN 8 ELSE 7),
         Wizard!Keys(mode)[i] \in Wizard!Lasting
  PROVE  /\ Wizard!Keys(mode)[i] \in Wizard!Looked(mode)
         /\ Wizard!Subject(Wizard!Keys(mode)[i]) = Wizard!Keys(mode)[i]
<1>1. CASE mode = "aoa+"
  <2>1. i \in {1, 2, 3, 4, 5, 6, 7, 8}
    BY <1>1
  <2> QED
    BY <1>1, <2>1, LastingSteps DEF Wizard!Keys, Wizard!Looked, Wizard!Subject
<1>2. CASE mode = "aoa"
  <2>1. i \in {1, 2, 3, 4, 5, 6, 7}
    BY <1>2
  <2> QED
    BY <1>2, <2>1, LastingSteps DEF Wizard!Keys, Wizard!Looked, Wizard!Subject
<1> QED
  BY <1>1, <1>2 DEF Wizard!Mode

LEMMA LookedFor ==
  ASSUME NEW mode, NEW t \in Wizard!Looked(mode)
  PROVE  t \in Cacheable /\ Wizard!Subject(t) \in Wizard!Lasting
BY LastingSteps DEF Wizard!Looked, Wizard!Subject, Cacheable

LEMMA WizardInit == Wizard!Init => WizardInv
<1> SUFFICES ASSUME Wizard!Init PROVE WizardClean
  BY DEF WizardInv
<1>1. /\ ui = [address |-> None, signer |-> None, step |-> 1, mode |-> None, resources |-> None,
               token |-> None, paymaster |-> None, loading |-> FALSE, tx |-> "idle"]
      /\ calls = {}
      /\ world = [has |-> [a \in Deployer |-> {}], cache |-> {}, switches |-> 0, failed |-> 0,
                  mixed |-> FALSE, missed |-> {}]
  BY DEF Wizard!Init
<1>2. WizardShape
  BY <1>1 DEF WizardShape, WizardUi, WizardWorld
<1>3. ErrandInv /\ DoneInv /\ FoundInv
  BY <1>1 DEF ErrandInv, DoneInv, FoundInv
<1> QED
  BY <1>2, <1>3 DEF WizardClean

(* A call that stands, whoever still waits for it. *)
Like(c, d) ==
  /\ c.kind = d.kind /\ DOMAIN c = DOMAIN d /\ c.of = d.of /\ c.mode = d.mode /\ c.at = d.at
  /\ c.kind = "check" => c.cached = d.cached /\ c.found = d.found /\ c.enough = d.enough
  /\ c.kind = "tx" => c.what = d.what /\ c.signer = d.signer

LEMMA LeftStand ==
  ASSUME WizardShape
  PROVE  /\ \A c \in Wizard!Left : \E d \in calls : Like(c, d)
         /\ \A d \in calls : \E c \in Wizard!Left : Like(c, d)
         /\ \A c \in Wizard!Left : c.kind = "tx" => ~c.alive
         /\ (\A c, d \in calls : c.kind = "check" /\ d.kind = "check" => c = d) =>
              \A c, d \in Wizard!Left : c.kind = "check" /\ d.kind = "check" => c = d
<1> DEFINE L(c) == IF c.kind = "check" /\ c.by = "step" THEN [c EXCEPT !.by = "gone"]
                   ELSE IF c.kind = "tx" THEN [c EXCEPT !.alive = FALSE] ELSE c
<1>1. \A c \in calls : Like(L(c), c) /\ L(c).kind = c.kind /\ (L(c).kind = "tx" => ~L(c).alive)
  <2> TAKE c \in calls
  <2>1. CASE c.kind = "check" /\ DOMAIN c = WizardCheck
    BY <2>1 DEF Like, WizardCheck
  <2>2. CASE c.kind = "tx" /\ DOMAIN c = WizardTx
    BY <2>2 DEF Like, WizardTx
  <2> QED
    BY <2>1, <2>2 DEF WizardShape
<1>2. Wizard!Left = {L(c) : c \in calls}
  BY DEF Wizard!Left
<1> HIDE DEF L
<1> QED
  BY <1>1, <1>2

CacheStays ==
  /\ DOMAIN world' = WizardWorld /\ world'.has = world.has /\ world'.cache = world.cache
  /\ world'.missed = world.missed

(* The wizard is at another step, or the wallet is gone, with what it knows. *)
LEMMA MovedStep ==
  ASSUME WizardClean, CacheStays, calls' = Wizard!Left,
         DOMAIN ui' = WizardUi, ui'.resources = ui.resources, ui'.mode = ui.mode, ui'.tx = "idle",
         ui'.address \in {ui.address, None}, ui'.signer = ui'.address,
         ui'.step \in 1..(IF ui.mode = "aoa+" THEN 8 ELSE 7),
         ui'.step > 1 => ui.mode \in Wizard!Mode, ui'.step > 2 => ui.resources # None,
         ui'.address # None => \A i \in 3..(ui'.step - 1) :
            Wizard!Keys(ui.mode)[i] \in Wizard!Lasting => Wizard!Keys(ui.mode)[i] \in world.has[ui.address]
  PROVE  WizardClean'
<1>1. WizardShape /\ ErrandInv /\ DoneInv /\ FoundInv
  BY DEF WizardClean
<1>2. /\ \A c \in calls' : \E d \in calls : Like(c, d)
      /\ \A d \in calls : \E c \in calls' : Like(c, d)
      /\ \A c \in calls' : c.kind = "tx" => ~c.alive
      /\ \A c, d \in calls' : c.kind = "check" /\ d.kind = "check" => c = d
  BY <1>1, LeftStand DEF ErrandInv
<1>3. WizardShape'
  BY <1>1, <1>2 DEF WizardShape, Like, CacheStays
<1>4. ErrandInv'
  BY <1>1, <1>2 DEF ErrandInv, Like
<1>5. DoneInv'
  BY <1>1, <1>2 DEF DoneInv, Like, CacheStays
<1>6. \A x, of : Unseen(x, of) => Unseen(x, of)'
  BY <1>2 DEF Awaited, Unseen, Like, CacheStays
<1>7. FoundInv'
  BY <1>1, <1>2, <1>6 DEF FoundInv, Like, CacheStays
<1> QED
  BY <1>3, <1>4, <1>5, <1>7 DEF WizardClean

LEMMA CachedPairs ==
  ASSUME NEW cache, cache \subseteq Cacheable \X Deployer, NEW e \in cache
  PROVE  <<e[1], e[2]>> \in cache
<1>1. e = <<e[1], e[2]>>
  OBVIOUS
<1> QED
  BY <1>1

(* A check that begins. *)
LEMMA CheckBegins ==
  ASSUME NEW of, NEW mode, NEW cache, NEW by, NEW c, c = Wizard!Check(of, mode, cache, by)
  PROVE  /\ DOMAIN c = WizardCheck /\ c.kind = "check" /\ c.enough \in BOOLEAN /\ c.of = of /\ c.mode = mode /\ c.at = "read"
         /\ c.cached = {t \in Wizard!Looked(mode) : <<t, of>> \in cache}
BY DEF Wizard!Check, WizardCheck

LEMMA WizardConnectStep == WizardClean /\ Wizard!Connect /\ ~world.mixed => WizardInv'
<1> SUFFICES ASSUME WizardClean, Wizard!Connect PROVE WizardInv'
  OBVIOUS
<1>1. WizardShape /\ ErrandInv /\ DoneInv /\ FoundInv
  BY DEF WizardClean
<1>2. PICK a \in Deployer :
        /\ ui' = [ui EXCEPT !.address = a, !.signer = a]
        /\ world' = [world EXCEPT !.mixed = @ \/ calls # {} \/ (ui.resources # None /\ ui.resources.of # a)]
  BY DEF Wizard!Connect
<1>3. ui.step = 1 /\ calls' = calls
  BY DEF Wizard!Connect
<1> DEFINE b == world.mixed \/ calls # {} \/ (ui.resources # None /\ ui.resources.of # a)
<1>4. world' = [world EXCEPT !.mixed = b]
  BY <1>1, <1>2 DEF WizardShape, WizardWorld
<1>5. ~b => calls = {} /\ (ui.resources # None => ui.resources.of = a)
  OBVIOUS
<1> HIDE DEF b
<1>6. CacheStays /\ world'.mixed = b
  BY <1>1, <1>4 DEF CacheStays, WizardShape, WizardWorld
<1>7. /\ DOMAIN ui' = WizardUi /\ ui'.address = a /\ ui'.signer = a /\ ui'.step = 1 /\ ui'.mode = ui.mode
      /\ ui'.resources = ui.resources /\ ui'.tx = ui.tx
  BY <1>1, <1>2, <1>3 DEF WizardShape, WizardUi
<1>8. ASSUME ~b
      PROVE  WizardClean'
  <2>1. calls = {} /\ calls' = {} /\ (ui.resources # None => ui.resources.of = a)
    BY <1>3, <1>5, <1>8
  <2>2. WizardShape'
    BY <1>1, <1>6, <1>7, <2>1 DEF WizardShape, CacheStays
  <2>3. ErrandInv'
    BY <1>1, <1>7, <2>1 DEF ErrandInv
  <2>4. DoneInv'
    <3>1. Wizard!Key' \notin Wizard!Lasting
      BY <1>7, StepKeys, LastingSteps DEF Wizard!Key
    <3>2. 3..(ui'.step - 1) = {}
      BY <1>7
    <3> QED
      BY <1>1, <1>6, <1>7, <2>1, <3>1, <3>2 DEF DoneInv, CacheStays
  <2>5. FoundInv'
    BY <1>1, <1>6, <1>7, <2>1 DEF FoundInv, CacheStays, Unseen, Awaited
  <2> QED
    BY <2>2, <2>3, <2>4, <2>5 DEF WizardClean
<1> QED
  BY <1>6, <1>8 DEF WizardInv

LEMMA ContinueStep == WizardClean /\ ~world.mixed /\ Wizard!HandleContinue => WizardInv'
<1> SUFFICES ASSUME WizardClean, Wizard!HandleContinue PROVE WizardInv'
  OBVIOUS
<1>1. WizardShape /\ ErrandInv /\ DoneInv /\ FoundInv
  BY DEF WizardClean
<1>2. PICK mode \in Wizard!Mode :
        /\ Wizard!Entering(2, mode)
        /\ world' = [world EXCEPT !.mixed = @ \/ Wizard!Checks # {} \/ (ui.resources # None /\ mode # ui.mode)]
  BY DEF Wizard!HandleContinue
<1>3. ui.step = 1 /\ ui.address # None
  BY DEF Wizard!HandleContinue
<1> DEFINE b == world.mixed \/ Wizard!Checks # {} \/ (ui.resources # None /\ mode # ui.mode)
           l == 2 = 2 /\ ui.resources = None
           c == Wizard!Check(ui.address, mode, world.cache, "step")
<1>4. /\ world' = [world EXCEPT !.mixed = b]
      /\ ui' = [ui EXCEPT !.step = 2, !.mode = mode, !.tx = "idle", !.loading = l]
      /\ ui.resources # None => calls' = Wizard!Left
      /\ ui.resources = None => calls' = Wizard!Left \cup {c}
  BY <1>1, <1>2 DEF WizardShape, WizardWorld, Wizard!Entering
<1>5. ~b => Wizard!Checks = {} /\ (ui.resources # None => mode = ui.mode)
  OBVIOUS
<1>6. /\ DOMAIN c = WizardCheck /\ c.kind = "check" /\ c.enough \in BOOLEAN /\ c.of = ui.address /\ c.mode = mode /\ c.at = "read"
      /\ c.cached = {t \in Wizard!Looked(mode) : <<t, ui.address>> \in world.cache}
  BY CheckBegins
<1> HIDE DEF b, l, c
<1>7. CacheStays /\ world'.mixed = b
  BY <1>1, <1>4 DEF CacheStays, WizardShape, WizardWorld
<1>8. /\ DOMAIN ui' = WizardUi /\ ui'.address = ui.address /\ ui'.signer = ui.signer /\ ui'.step = 2
      /\ ui'.mode = mode /\ ui'.resources = ui.resources /\ ui'.tx = "idle"
  BY <1>1, <1>4 DEF WizardShape, WizardUi
<1>9. 3..(ui'.step - 1) = {}
  BY <1>8
<1>10. ASSUME ~b
       PROVE  WizardClean'
  <2>1. CASE ui.resources # None
    <3>1. mode = ui.mode
      BY <1>5, <1>10, <2>1
    <3>2. ui'.step \in 1..(IF ui.mode = "aoa+" THEN 8 ELSE 7) /\ ~(ui'.step > 2)
      BY <1>8
    <3>3. ui.signer = ui.address
      BY <1>1 DEF WizardShape
    <3> QED
      BY <1>4, <1>7, <1>8, <1>9, <2>1, <3>1, <3>2, <3>3, MovedStep
  <2>2. CASE ui.resources = None
    <3>1. calls = {}
      <4>1. \A d \in calls : d.kind # "tx"
        BY <1>1, <2>2 DEF ErrandInv
      <4>2. \A d \in calls : d.kind # "check"
        BY <1>5, <1>10 DEF Wizard!Checks
      <4> QED
        BY <1>1, <4>1, <4>2 DEF WizardShape
    <3>2. calls' = {c}
      BY <1>4, <2>2, <3>1 DEF Wizard!Left
    <3>3. ui.address \in Deployer /\ ui.signer = ui.address
      BY <1>1, <1>3 DEF WizardShape
    <3>4. WizardShape'
      <4>1. ui'.step \in 1..(IF ui'.mode = "aoa+" THEN 8 ELSE 7)
        BY <1>8
      <4> QED
        BY <1>1, <1>6, <1>7, <1>8, <3>2, <3>3, <4>1 DEF WizardShape, CacheStays
    <3>5. ErrandInv'
      BY <1>6, <1>8, <2>2, <3>2, <3>3 DEF ErrandInv
    <3>6. DoneInv'
      <4>1. \A t \in c.cached : Wizard!CachedValue(t) => t \in world.has[c.of]
        <5> TAKE t \in c.cached
        <5> DEFINE e == <<t, ui.address>>
        <5>1. e \in world.cache /\ e[1] = t /\ e[2] = ui.address
          BY <1>6
        <5> QED
          BY <1>1, <1>6, <5>1 DEF DoneInv
      <4> QED
        BY <1>1, <1>6, <1>7, <1>8, <1>9, <2>2, <3>2, <4>1 DEF DoneInv, CacheStays
    <3>7. FoundInv'
      <4>1. \A x, of : Unseen(x, of) => Unseen(x, of)'
        BY <1>7, <3>1 DEF Unseen, Awaited, CacheStays
      <4>2. \A x \in c.cached :
              ~Wizard!CachedValue(x) /\ Wizard!Subject(x) \in world.has[c.of] => Unseen(x, c.of)
        <5> TAKE x \in c.cached
        <5> DEFINE e == <<x, ui.address>>
        <5>1. e \in world.cache /\ e[1] = x /\ e[2] = ui.address
          BY <1>6
        <5> QED
          BY <1>1, <1>6, <5>1 DEF FoundInv
      <4>3. \A e \in world.cache : e[2] = c.of /\ e[1] \in Wizard!Looked(c.mode) => e[1] \in c.cached
        BY <1>1, <1>6, CachedPairs DEF WizardShape
      <4> QED
        BY <1>1, <1>6, <1>7, <1>8, <2>2, <3>2, <4>1, <4>2, <4>3 DEF FoundInv, CacheStays
    <3> QED
      BY <3>4, <3>5, <3>6, <3>7 DEF WizardClean
  <2> QED
    BY <2>1, <2>2
<1> QED
  BY <1>7, <1>10 DEF WizardInv

(* A check that looks past the cache, with no other under way, finds what is  *)
(* on the chain; the receipts of its operator are awaited no longer.          *)
LEMMA CheckedAgain ==
  ASSUME WizardClean, NEW of \in Deployer, NEW c \in calls', c.kind = "check", c.of = of, c.at = "read",
         c.cached = {t \in Wizard!Looked(ui.mode) : <<t, of>> \in Wizard!Cleared(of)},
         \A d \in calls' : d = c \/ (d \in calls /\ d.kind # "check"),
         \A d \in calls : d \in calls' \/ (d.kind = "tx" /\ d.of = of),
         ui'.resources = ui.resources,
         world'.has = world.has, world'.cache = Wizard!Cleared(of), world.missed \subseteq world'.missed
  PROVE  FoundInv' /\ c.cached = {} /\ world'.cache \subseteq world.cache
<1>1. WizardShape /\ ErrandInv /\ DoneInv /\ FoundInv
  BY DEF WizardClean
<1>3. world'.cache \subseteq world.cache /\ \A e \in world'.cache : e[2] # of
  BY DEF Wizard!Cleared
<1>4. c.cached = {}
  <2>1. ASSUME NEW t, <<t, of>> \in Wizard!Cleared(of) PROVE FALSE
    <3> DEFINE e == <<t, of>>
    <3>1. e \in Wizard!Cleared(of) /\ e[2] = of
      BY <2>1
    <3> HIDE DEF e
    <3> QED
      BY <3>1 DEF Wizard!Cleared
  <2> QED
    BY <2>1
<1>5. \A d \in calls' : d.kind = "check" => d = c
  OBVIOUS
<1>6. ASSUME NEW e \in world'.cache,
             ~Wizard!CachedValue(e[1]), Wizard!Subject(e[1]) \in world'.has[e[2]]
      PROVE  Unseen(e[1], e[2])'
  <2>1. e \in world.cache /\ e[2] # of /\ Unseen(e[1], e[2])
    BY <1>1, <1>3, <1>6 DEF FoundInv
  <2> QED
    BY <2>1 DEF Unseen, Awaited
<1>7. FoundInv'
  BY <1>3, <1>4, <1>5, <1>6 DEF FoundInv
<1> QED
  BY <1>3, <1>4, <1>7

LEMMA RunAgainStep == WizardClean /\ ~world.mixed /\ Wizard!RunAgain => WizardInv'
<1> SUFFICES ASSUME WizardClean, ~world.mixed, Wizard!RunAgain PROVE WizardInv'
  OBVIOUS
<1>1. WizardShape /\ ErrandInv /\ DoneInv /\ FoundInv
  BY DEF WizardClean
<1> DEFINE b == world.mixed \/ Wizard!Checks # {}
           c == Wizard!Check(ui.address, ui.mode, Wizard!Cleared(ui.address), "step")
<1>2. /\ ui.address # None /\ ui.step = 2
      /\ ui' = [ui EXCEPT !.loading = TRUE] /\ calls' = calls \cup {c}
      /\ world' = [world EXCEPT !.cache = Wizard!Cleared(ui.address), !.mixed = b]
  BY <1>1 DEF Wizard!RunAgain, Wizard!Live, WizardShape, WizardWorld
<1>3. ~b => \A d \in calls : d.kind # "check"
  BY DEF Wizard!Checks
<1> HIDE DEF b
<1>4. /\ DOMAIN ui' = WizardUi /\ ui'.address = ui.address /\ ui'.signer = ui.signer /\ ui'.step = ui.step
      /\ ui'.mode = ui.mode /\ ui'.resources = ui.resources /\ ui'.tx = ui.tx
  BY <1>1, <1>2 DEF WizardShape, WizardUi
<1>5. /\ DOMAIN world' = WizardWorld /\ world'.has = world.has /\ world'.mixed = b
      /\ world'.cache = Wizard!Cleared(ui.address)
      /\ world'.missed = world.missed
  BY <1>1, <1>2 DEF WizardShape, WizardWorld
<1>6. ASSUME ~b
      PROVE  WizardClean'
  <2>1. ui.address \in Deployer
    BY <1>1, <1>2 DEF WizardShape
  <2>2. /\ DOMAIN c = WizardCheck /\ c.kind = "check" /\ c.enough \in BOOLEAN /\ c.of = ui.address /\ c.mode = ui.mode /\ c.at = "read"
        /\ c.cached = {t \in Wizard!Looked(ui.mode) : <<t, ui.address>> \in Wizard!Cleared(ui.address)}
    BY CheckBegins
  <2> HIDE DEF c
  <2>7. world.missed \subseteq world'.missed
    BY <1>5
  <2>8. /\ c \in calls' /\ \A d \in calls' : d = c \/ (d \in calls /\ d.kind # "check")
        /\ \A d \in calls : d \in calls'
    BY <1>2, <1>3, <1>6
  <2>3. FoundInv' /\ c.cached = {} /\ world'.cache \subseteq world.cache
    BY <1>4, <1>5, <2>1, <2>2, <2>7, <2>8, CheckedAgain
  <2>4. WizardShape'
    BY <1>1, <1>2, <1>4, <1>5, <2>2, <2>3 DEF WizardShape
  <2>5. ErrandInv'
    BY <1>1, <1>2, <1>4, <2>1, <2>2, <2>8 DEF ErrandInv, WizardShape
  <2>6. DoneInv'
    BY <1>1, <1>2, <1>4, <1>5, <2>2, <2>3 DEF DoneInv, Wizard!Key
  <2> QED
    BY <2>3, <2>4, <2>5, <2>6 DEF WizardClean
<1> QED
  BY <1>5, <1>6 DEF WizardInv

(* The next step and the one before. *)
LEMMA WizardNextStep == WizardClean /\ Wizard!OnNext => WizardClean'
<1> SUFFICES ASSUME WizardClean, Wizard!OnNext PROVE WizardClean'
  OBVIOUS
<1>1. WizardShape /\ ErrandInv /\ DoneInv /\ FoundInv
  BY DEF WizardClean
<1> DEFINE n == ui.step + 1
<1>2. /\ Wizard!Key # "done" /\ ui.step > 1 /\ ui.address # None /\ world' = world
      /\ IF Wizard!Key = "resources" THEN ui.resources # None ELSE Wizard!Already \/ ui.tx = "success"
      /\ Wizard!Entering(n, ui.mode)
  BY DEF Wizard!OnNext, Wizard!Live, Wizard!BalancesOk
<1>3. /\ n \in 1..(IF ui.mode = "aoa+" THEN 8 ELSE 7) /\ n > 2 /\ n - 1 = ui.step /\ ui.mode \in Wizard!Mode
  <2>1. ui.step # (IF ui.mode = "aoa+" THEN 8 ELSE 7)
    BY <1>2, StepKeys DEF Wizard!Key
  <2> QED
    BY <1>1, <1>2, <2>1 DEF WizardShape
<1> HIDE DEF n
<1>4. ui.resources # None
  <2>1. CASE ui.step = 2
    BY <1>2, <2>1, StepKeys DEF Wizard!Key
  <2>2. CASE ui.step > 2
    BY <1>1, <2>2 DEF ErrandInv
  <2> QED
    BY <1>1, <1>2, <2>1, <2>2 DEF WizardShape
<1> DEFINE l == n = 2 /\ ui.resources = None
<1>5. calls' = Wizard!Left /\ ui' = [ui EXCEPT !.step = n, !.mode = ui.mode, !.tx = "idle", !.loading = l]
  BY <1>2, <1>4 DEF Wizard!Entering
<1> HIDE DEF l
<1>6. /\ DOMAIN ui' = WizardUi /\ ui'.address = ui.address /\ ui'.signer = ui.signer /\ ui'.step = n
      /\ ui'.mode = ui.mode /\ ui'.resources = ui.resources /\ ui'.tx = "idle"
  BY <1>1, <1>5 DEF WizardShape, WizardUi
<1>7. CacheStays
  BY <1>1, <1>2 DEF WizardShape, CacheStays
<1>8. Wizard!Key \in Wizard!Lasting => Wizard!Key \in world.has[ui.address]
  <2>1. CASE Wizard!Key = "resources"
    BY <2>1, LastingSteps
  <2>2. CASE Wizard!Already
    BY <1>1, <1>2, <2>2 DEF Wizard!Already, DoneInv, ErrandInv
  <2>3. CASE ui.tx = "success"
    BY <1>1, <1>2, <2>3 DEF DoneInv
  <2> QED
    BY <1>2, <2>1, <2>2, <2>3
<1>9. \A i \in 3..(n - 1) :
        Wizard!Keys(ui.mode)[i] \in Wizard!Lasting => Wizard!Keys(ui.mode)[i] \in world.has[ui.address]
  <2>1. \A i \in 3..(n - 1) : i \in 3..(ui.step - 1) \/ i = ui.step
    BY <1>1, <1>3 DEF WizardShape
  <2> QED
    BY <1>1, <1>2, <1>8, <2>1 DEF DoneInv, Wizard!Key
<1>10. ui.signer = ui.address
  BY <1>1 DEF WizardShape
<1> QED
  BY <1>3, <1>4, <1>5, <1>6, <1>7, <1>9, <1>10, MovedStep

LEMMA BackStep == WizardClean /\ Wizard!OnBack => WizardClean'
<1> SUFFICES ASSUME WizardClean, Wizard!OnBack PROVE WizardClean'
  OBVIOUS
<1>1. WizardShape /\ ErrandInv /\ DoneInv /\ FoundInv
  BY DEF WizardClean
<1> DEFINE n == ui.step - 1
<1>2. ui.step > 1 /\ ui.address # None /\ world' = world /\ Wizard!Entering(n, ui.mode)
  BY DEF Wizard!OnBack, Wizard!Live
<1>3. /\ n \in 1..(IF ui.mode = "aoa+" THEN 8 ELSE 7) /\ n < ui.step /\ ui.mode \in Wizard!Mode
      /\ n >= 2 => ui.resources # None
  BY <1>1, <1>2 DEF WizardShape, ErrandInv
<1>4. n = 2 => ui.resources # None
  BY <1>3
<1> HIDE DEF n
<1> DEFINE l == n = 2 /\ ui.resources = None
<1>5. calls' = Wizard!Left /\ ui' = [ui EXCEPT !.step = n, !.mode = ui.mode, !.tx = "idle", !.loading = l]
  BY <1>2, <1>4 DEF Wizard!Entering
<1> HIDE DEF l
<1>6. /\ DOMAIN ui' = WizardUi /\ ui'.address = ui.address /\ ui'.signer = ui.signer /\ ui'.step = n
      /\ ui'.mode = ui.mode /\ ui'.resources = ui.resources /\ ui'.tx = "idle"
  BY <1>1, <1>5 DEF WizardShape, WizardUi
<1>7. CacheStays
  BY <1>1, <1>2 DEF WizardShape, CacheStays
<1>8. \A i \in 3..(n - 1) :
        Wizard!Keys(ui.mode)[i] \in Wizard!Lasting => Wizard!Keys(ui.mode)[i] \in world.has[ui.address]
  <2>1. \A i \in 3..(n - 1) : i \in 3..(ui.step - 1)
    BY <1>1, <1>3 DEF WizardShape
  <2> QED
    BY <1>1, <1>2, <2>1 DEF DoneInv
<1>9. ui.signer = ui.address /\ (n > 2 => ui.resources # None)
  BY <1>1, <1>3 DEF WizardShape
<1> QED
  BY <1>3, <1>5, <1>6, <1>7, <1>8, <1>9, MovedStep

(* The start again: what is under way then would be of another errand. *)
LEMMA RestartStep == WizardClean /\ ~world.mixed /\ Wizard!Restart => WizardInv'
<1> SUFFICES ASSUME WizardClean, Wizard!Restart PROVE WizardInv'
  OBVIOUS
<1>1. WizardShape /\ ErrandInv /\ DoneInv /\ FoundInv
  BY DEF WizardClean
<1> DEFINE b == world.mixed \/ calls # {}
           n == world.switches + 1
<1>2. /\ ui' = [ui EXCEPT !.step = 1, !.mode = None, !.resources = None, !.token = None, !.paymaster = None,
                          !.loading = FALSE, !.tx = "idle"]
      /\ calls' = Wizard!Left /\ world' = [world EXCEPT !.switches = n, !.mixed = b]
  BY <1>1 DEF Wizard!Restart, WizardShape, WizardWorld
<1>3. ~b => calls = {}
  OBVIOUS
<1> HIDE DEF b, n
<1>4. CacheStays /\ world'.mixed = b
  BY <1>1, <1>2 DEF CacheStays, WizardShape, WizardWorld
<1>5. /\ DOMAIN ui' = WizardUi /\ ui'.address = ui.address /\ ui'.signer = ui.signer /\ ui'.step = 1
      /\ ui'.mode = None /\ ui'.resources = None /\ ui'.tx = "idle"
  BY <1>1, <1>2 DEF WizardShape, WizardUi
<1>6. ASSUME ~b
      PROVE  WizardClean'
  <2>1. calls = {} /\ calls' = {}
    BY <1>2, <1>3, <1>6 DEF Wizard!Left
  <2>2. WizardShape'
    BY <1>1, <1>4, <1>5, <2>1 DEF WizardShape, CacheStays
  <2>3. ErrandInv'
    BY <1>5, <2>1 DEF ErrandInv
  <2>4. 3..(ui'.step - 1) = {}
    BY <1>5
  <2>5. DoneInv'
    BY <1>1, <1>4, <1>5, <2>1, <2>4 DEF DoneInv, CacheStays
  <2>6. FoundInv'
    BY <1>1, <1>4, <1>5, <2>1 DEF FoundInv, CacheStays, Unseen, Awaited
  <2> QED
    BY <2>2, <2>3, <2>5, <2>6 DEF WizardClean
<1> QED
  BY <1>4, <1>6 DEF WizardInv

LEMMA AccountStep ==
  ASSUME WizardClean, NEW a \in Deployer \cup {None}, Wizard!AccountsChanged(a)
  PROVE  WizardInv'
<1>1. WizardShape /\ ErrandInv /\ DoneInv /\ FoundInv
  BY DEF WizardClean
<1> DEFINE b == world.mixed \/ a # None
           n == world.switches + 1
<1>2. world' = [world EXCEPT !.switches = n, !.mixed = b]
  BY <1>1 DEF Wizard!AccountsChanged, WizardShape, WizardWorld
<1>3. CASE a # None
  <2>1. b
    BY <1>3
  <2> HIDE DEF b
  <2>2. world'.mixed = b
    BY <1>1, <1>2 DEF WizardShape, WizardWorld
  <2> QED
    BY <2>1, <2>2 DEF WizardInv
<1>4. CASE a = None
  <2> HIDE DEF b, n
  <2>1. /\ ui' = [ui EXCEPT !.address = None, !.signer = None, !.tx = "idle", !.loading = FALSE]
        /\ calls' = Wizard!Left
    BY <1>4 DEF Wizard!AccountsChanged
  <2>2. /\ DOMAIN ui' = WizardUi /\ ui'.address = None /\ ui'.signer = None /\ ui'.step = ui.step
        /\ ui'.mode = ui.mode /\ ui'.resources = ui.resources /\ ui'.tx = "idle"
    BY <1>1, <2>1 DEF WizardShape, WizardUi
  <2>3. CacheStays
    BY <1>1, <1>2 DEF CacheStays, WizardShape, WizardWorld
  <2>4. /\ ui.step \in 1..(IF ui.mode = "aoa+" THEN 8 ELSE 7) /\ (ui.step > 1 => ui.mode \in Wizard!Mode)
        /\ ui.step > 2 => ui.resources # None
    BY <1>1 DEF WizardShape, ErrandInv
  <2>5. WizardClean'
    BY <2>1, <2>2, <2>3, <2>4, MovedStep
  <2> QED
    BY <2>5 DEF WizardInv
<1> QED
  BY <1>3, <1>4

LEMMA RunStep == WizardClean /\ Wizard!Run => WizardClean'
<1> SUFFICES ASSUME WizardClean, Wizard!Run PROVE WizardClean'
  OBVIOUS
<1>1. WizardShape /\ ErrandInv /\ DoneInv /\ FoundInv
  BY DEF WizardClean
<1> DEFINE x == [kind |-> "tx", what |-> Wizard!Key, of |-> ui.address, mode |-> ui.mode,
                 signer |-> ui.signer, alive |-> TRUE, at |-> "sent"]
<1>2. /\ ui.address # None /\ ui.step > 2 /\ ui' = [ui EXCEPT !.tx = "pending"]
      /\ calls' = calls \cup {x} /\ world' = world
  BY DEF Wizard!Run, Wizard!Offered, Wizard!Live
<1>3. /\ DOMAIN x = WizardTx /\ x.kind = "tx" /\ x.what = Wizard!Key /\ x.of = ui.address
      /\ x.mode = ui.mode /\ x.signer = ui.signer /\ x.at = "sent"
  BY DEF WizardTx
<1> HIDE DEF x
<1>4. /\ DOMAIN ui' = WizardUi /\ ui'.address = ui.address /\ ui'.signer = ui.signer /\ ui'.step = ui.step
      /\ ui'.mode = ui.mode /\ ui'.resources = ui.resources /\ ui'.tx = "pending"
  BY <1>1, <1>2 DEF WizardShape, WizardUi
<1>5. Wizard!Key' = Wizard!Key
  BY <1>4 DEF Wizard!Key
<1>6. WizardShape'
  BY <1>1, <1>2, <1>3, <1>4 DEF WizardShape
<1>7. ErrandInv'
  <2>1. /\ ui.address \in Deployer /\ ui.signer = ui.address /\ ui.resources # None
        /\ ui.mode \in Wizard!Mode
    BY <1>1, <1>2 DEF WizardShape, ErrandInv
  <2>2. \A c \in calls' : c \in calls \/ c = x
    BY <1>2
  <2> QED
    BY <1>1, <1>2, <1>3, <1>4, <2>1, <2>2 DEF ErrandInv
<1>8. DoneInv'
  BY <1>1, <1>2, <1>3, <1>4, <1>5 DEF DoneInv
<1>9. \A y, of : Unseen(y, of) => Unseen(y, of)'
  BY <1>2 DEF Unseen, Awaited
<1>10. FoundInv'
  BY <1>1, <1>2, <1>3, <1>4, <1>9 DEF FoundInv
<1> QED
  BY <1>6, <1>7, <1>8, <1>10 DEF WizardClean

LEMMA ExpireStep == WizardClean /\ Wizard!Expire => WizardClean'
<1> SUFFICES ASSUME WizardClean, Wizard!Expire PROVE WizardClean'
  OBVIOUS
<1>1. WizardShape /\ ErrandInv /\ DoneInv /\ FoundInv
  BY DEF WizardClean
<1>2. UNCHANGED <<ui, calls>> /\ world' = [world EXCEPT !.cache = {}]
  BY DEF Wizard!Expire
<1>3. /\ DOMAIN world' = WizardWorld /\ world'.has = world.has /\ world'.cache = {}
      /\ world'.missed = world.missed
  BY <1>1, <1>2 DEF WizardShape, WizardWorld
<1>4. WizardShape'
  BY <1>1, <1>2, <1>3 DEF WizardShape
<1>5. ErrandInv'
  BY <1>1, <1>2 DEF ErrandInv
<1>6. DoneInv'
  BY <1>1, <1>2, <1>3 DEF DoneInv, Wizard!Key
<1>7. FoundInv'
  BY <1>1, <1>2, <1>3 DEF FoundInv, Unseen, Awaited
<1> QED
  BY <1>4, <1>5, <1>6, <1>7 DEF WizardClean

(* The chain and the cache are read: without a failure all that is there is   *)
(* found but what is cached as not done.                                      *)
LEMMA CheckReadStep ==
  ASSUME WizardClean, NEW c \in calls, Wizard!CheckRead(c)
  PROVE  WizardClean'
<1>1. WizardShape /\ ErrandInv /\ DoneInv /\ FoundInv
  BY DEF WizardClean
<1> DEFINE Looked == Wizard!Looked(c.mode)
           There(t) == Wizard!Subject(t) \in world.has[c.of]
           Value(failed, t) == IF t \in c.cached THEN Wizard!CachedValue(t) ELSE t \notin failed /\ There(t)
           P(failed) == {t \in Looked : Value(failed, t)}
           C(failed) == {t \in Looked \ c.cached : Value(failed, t) = Wizard!CachedValue(t)}
           X(failed, enough) ==
             [c EXCEPT !.at = "answer", !.found = {Wizard!Subject(t) : t \in P(failed)}, !.enough = enough]
<1>2. PICK failed : \E enough \in BOOLEAN :
        /\ calls' = (calls \ {c}) \cup {X(failed, enough)}
        /\ world' = [world EXCEPT !.cache = @ \cup {<<t, c.of>> : t \in C(failed)},
                                  !.failed = @ + Wizard!Cardinality(failed),
                                  !.missed = (@ \ {<<t, c.of>> : t \in Looked \ c.cached})
                                               \cup {<<t, c.of>> : t \in failed}]
  BY DEF Wizard!CheckRead
<1>0. PICK enough \in BOOLEAN :
        /\ calls' = (calls \ {c}) \cup {X(failed, enough)}
        /\ world' = [world EXCEPT !.cache = @ \cup {<<t, c.of>> : t \in C(failed)},
                                  !.failed = @ + Wizard!Cardinality(failed),
                                  !.missed = (@ \ {<<t, c.of>> : t \in Looked \ c.cached})
                                               \cup {<<t, c.of>> : t \in failed}]
  BY <1>2
<1>3. c.kind = "check" /\ c.at = "read" /\ ui' = ui /\ c.of \in Deployer
  BY <1>1 DEF Wizard!CheckRead, ErrandInv
<1> DEFINE x == X(failed, enough)
           E == {<<t, c.of>> : t \in C(failed)}
           n == world.failed + Wizard!Cardinality(failed)
           F == {<<t, c.of>> : t \in failed}
           N == {<<t, c.of>> : t \in Looked \ c.cached}
           b == (world.missed \ N) \cup F
<1>4. world' = [world EXCEPT !.cache = @ \cup E, !.failed = n, !.missed = b]
  BY <1>1, <1>0 DEF WizardShape, WizardWorld
<1>5. /\ DOMAIN x = WizardCheck /\ x.kind = "check" /\ x.of = c.of /\ x.mode = c.mode /\ x.at = "answer"
      /\ x.enough \in BOOLEAN /\ x.found = {Wizard!Subject(t) : t \in P(failed)}
  BY <1>1, <1>3 DEF WizardShape, WizardCheck
<1>6. \A t \in Looked : /\ t \in Cacheable
                        /\ Wizard!CachedValue(t) => Wizard!Subject(t) = t
  BY LookedFor DEF Wizard!CachedValue, Wizard!Subject
<1>7. \A t \in P(failed) : There(t)
  <2> SUFFICES ASSUME NEW t \in Looked, Value(failed, t) PROVE There(t)
    OBVIOUS
  <2>1. CASE t \in c.cached
    BY <1>1, <1>3, <1>6, <2>1 DEF DoneInv
  <2>2. CASE t \notin c.cached
    BY <2>2
  <2> QED
    BY <2>1, <2>2
<1>8. \A t \in C(failed) : /\ Wizard!CachedValue(t) => There(t)
                           /\ ~Wizard!CachedValue(t) => ~There(t) \/ t \in failed
  OBVIOUS
<1>9. \A t \in Looked : There(t) =>
        t \in P(failed) \/ t \in failed \/ (t \in c.cached /\ ~Wizard!CachedValue(t))
  OBVIOUS
<1>10. /\ \A t \in failed : <<t, c.of>> \in b
       /\ \A t, of : <<t, of>> \in world.missed /\ <<t, of>> \notin N => <<t, of>> \in b
  OBVIOUS
<1>11. \A e \in E : e \in Cacheable \X Deployer /\ e[2] = c.of /\ e[1] \in C(failed) /\ e[1] \in Looked
  BY <1>3, <1>6
<1>12. /\ DOMAIN world' = WizardWorld /\ world'.has = world.has /\ world'.missed = b
       /\ world'.cache = world.cache \cup E
  <2> HIDE DEF E, n, b, N, F
  <2> QED
    BY <1>1, <1>4 DEF WizardShape, WizardWorld
<1>13. calls' = (calls \ {c}) \cup {x}
  BY <1>0
<1>14. x.found \subseteq world.has[c.of]
  BY <1>5, <1>7
<1>15. \A e \in E : Wizard!CachedValue(e[1]) => e[1] \in world.has[e[2]]
  BY <1>6, <1>8, <1>11
<1>16. \A e \in E : ~Wizard!CachedValue(e[1]) =>
          Wizard!Subject(e[1]) \notin world.has[e[2]] \/ <<e[1], e[2]>> \in b
  BY <1>8, <1>10, <1>11
<1>17. \A t \in Looked : There(t) =>
          \/ Wizard!Subject(t) \in x.found \/ <<t, c.of>> \in b
          \/ t \in c.cached /\ ~Wizard!CachedValue(t)
  BY <1>5, <1>9, <1>10
<1>23. \A d : \A t : <<t, d>> \in N => d = c.of /\ t \in Looked /\ t \notin c.cached
  OBVIOUS
<1> HIDE DEF x, E, n, b, N, F, P, C, Value, X
<1>18. WizardShape'
  BY <1>1, <1>3, <1>5, <1>10, <1>11, <1>12, <1>13 DEF WizardShape
<1>19. ErrandInv'
  BY <1>1, <1>3, <1>5, <1>13 DEF ErrandInv
<1>20. DoneInv'
  <2>1. \A e \in world'.cache : Wizard!CachedValue(e[1]) => e[1] \in world.has[e[2]]
    BY <1>1, <1>12, <1>15 DEF DoneInv
  <2> QED
    BY <1>1, <1>3, <1>5, <1>12, <1>13, <1>14, <2>1 DEF DoneInv, Wizard!Key
<1>21. \A what, of : Awaited(what, of) => Awaited(what, of)'
  BY <1>3, <1>13 DEF Awaited
<1>22. FoundInv'
  <2>1. \A e \in world.cache : Unseen(e[1], e[2]) => Unseen(e[1], e[2])'
    <3> TAKE e \in world.cache
    <3>1. <<e[1], e[2]>> \notin N
      BY <1>1, <1>3, <1>23 DEF FoundInv
    <3> QED
      BY <1>10, <1>12, <1>21, <3>1 DEF Unseen
  <2>2. \A e \in world'.cache : ~Wizard!CachedValue(e[1]) /\ Wizard!Subject(e[1]) \in world.has[e[2]]
          => Unseen(e[1], e[2])'
    <3> TAKE e \in world'.cache
    <3>1. CASE e \in world.cache
      BY <1>1, <2>1, <3>1 DEF FoundInv
    <3>2. CASE e \in E
      BY <1>12, <1>16, <3>2 DEF Unseen
    <3> QED
      BY <1>12, <3>1, <3>2
  <2>3. \A t \in Looked : There(t) => Wizard!Subject(t) \in x.found \/ Unseen(t, c.of)'
    <3>1. \A t \in c.cached : ~Wizard!CachedValue(t) /\ There(t) => Unseen(t, c.of)'
      <4> TAKE t \in c.cached
      <4>1. <<t, c.of>> \notin N
        BY <1>23
      <4> QED
        BY <1>1, <1>3, <1>10, <1>12, <1>21, <4>1 DEF FoundInv, Unseen
    <3> QED
      BY <1>12, <1>17, <3>1 DEF Unseen
  <2>4. \A d \in calls' : d.kind = "check" => d = x
    BY <1>1, <1>3, <1>13 DEF ErrandInv
  <2>5. \E d \in calls' : d.kind = "check"
    BY <1>5, <1>13
  <2> QED
    BY <1>3, <1>5, <1>12, <2>2, <2>3, <2>4, <2>5 DEF FoundInv
<1> QED
  BY <1>18, <1>19, <1>20, <1>22 DEF WizardClean

(* The wizard knows what the check has found. *)
LEMMA CheckAnsweredStep ==
  ASSUME WizardClean, NEW c \in calls, Wizard!CheckAnswered(c)
  PROVE  WizardClean'
<1>1. WizardShape /\ ErrandInv /\ DoneInv /\ FoundInv
  BY DEF WizardClean
<1> DEFINE r == [of |-> c.of, mode |-> c.mode, has |-> c.found, enough |-> c.enough]
<1>2. /\ c.kind = "check" /\ c.at = "answer" /\ calls' = calls \ {c} /\ world' = world
      /\ \E token, paymaster, loading :
           \/ ui' = [ui EXCEPT !.resources = r, !.token = token, !.paymaster = paymaster]
           \/ ui' = [ui EXCEPT !.resources = r, !.token = token, !.paymaster = paymaster, !.loading = loading]
  <2>1. /\ c.kind = "check" /\ c.at = "answer" /\ calls' = calls \ {c} /\ world' = world
    BY DEF Wizard!CheckAnswered
  <2> DEFINE own == IF c.mode = "aoa" THEN Wizard!Known(c, "paymaster") ELSE None
             t1 == IF ui.token = None THEN Wizard!Known(c, "xpnts") ELSE ui.token
             p1 == IF ui.paymaster = None THEN own ELSE ui.paymaster
             t2 == Wizard!Known(c, "xpnts")
             l == IF c.by = "step" THEN FALSE ELSE ui.loading
  <2>2. \/ ui' = [ui EXCEPT !.resources = r, !.token = t1, !.paymaster = p1]
        \/ ui' = [ui EXCEPT !.resources = r, !.token = t2, !.paymaster = own, !.loading = l]
    BY <1>1 DEF Wizard!CheckAnswered, WizardShape, WizardUi
  <2> HIDE DEF own, t1, p1, t2, l, r
  <2>3. CASE ui' = [ui EXCEPT !.resources = r, !.token = t1, !.paymaster = p1]
    BY <2>1, <2>3
  <2>4. CASE ui' = [ui EXCEPT !.resources = r, !.token = t2, !.paymaster = own, !.loading = l]
    BY <2>1, <2>4
  <2> QED
    BY <2>2, <2>3, <2>4
<1>3. c.of \in Deployer /\ c.mode = ui.mode /\ c.mode \in Wizard!Mode /\ c.enough \in BOOLEAN
  BY <1>1, <1>2 DEF ErrandInv, WizardShape
<1>4. c.found \subseteq world.has[c.of] /\ world.has[c.of] \subseteq Wizard!Lasting
  BY <1>1, <1>2, <1>3 DEF DoneInv, WizardShape
<1>5. r # None /\ r.of = c.of /\ r.mode = c.mode /\ r.has = c.found
  <2>1. r \in Wizard!Resource
    BY <1>3, <1>4 DEF Wizard!Resource
  <2> QED
    BY <2>1, NoneAssumption
<1> HIDE DEF r
<1>6. /\ DOMAIN ui' = WizardUi /\ ui'.address = ui.address /\ ui'.signer = ui.signer /\ ui'.step = ui.step
      /\ ui'.mode = ui.mode /\ ui'.resources = r /\ ui'.tx = ui.tx
  BY <1>1, <1>2 DEF WizardShape, WizardUi
<1>7. WizardShape'
  BY <1>1, <1>2, <1>6 DEF WizardShape
<1>8. ErrandInv'
  BY <1>1, <1>2, <1>3, <1>5, <1>6 DEF ErrandInv
<1>9. DoneInv'
  BY <1>1, <1>2, <1>4, <1>5, <1>6 DEF DoneInv, Wizard!Key
<1>10. \A t, of : Unseen(t, of) => Unseen(t, of)'
  BY <1>2 DEF Unseen, Awaited
<1>11. FoundInv'
  <2>1. \A t \in Wizard!Looked(c.mode) : Wizard!Subject(t) \in world.has[c.of] =>
          Wizard!Subject(t) \in c.found \/ Unseen(t, c.of)'
    BY <1>1, <1>2, <1>10 DEF FoundInv
  <2> QED
    BY <1>1, <1>2, <1>5, <1>6, <1>10, <2>1 DEF FoundInv
<1> QED
  BY <1>7, <1>8, <1>9, <1>11 DEF WizardClean

(* A step is mined, or fails; until its receipt is there it is awaited. *)
LEMMA WizardMineStep ==
  ASSUME WizardClean, NEW c \in calls, Wizard!Mine(c)
  PROVE  WizardClean'
<1>1. WizardShape /\ ErrandInv /\ DoneInv /\ FoundInv
  BY DEF WizardClean
<1> DEFINE h == world.has[c.signer] \cup ({c.what} \cap Wizard!Lasting)
<1>2. /\ c.kind = "tx" /\ c.at = "sent" /\ ui' = ui
      /\ \/ calls' = (calls \ {c}) \cup {[c EXCEPT !.at = "mined"]} /\ world' = [world EXCEPT !.has[c.signer] = h]
         \/ calls' = (calls \ {c}) \cup {[c EXCEPT !.at = "failed"]} /\ world' = world
  BY DEF Wizard!Mine
<1>3. PICK x :
        /\ calls' = (calls \ {c}) \cup {x}
        /\ DOMAIN x = WizardTx /\ x.kind = "tx" /\ x.of = c.of /\ x.mode = c.mode /\ x.signer = c.signer
        /\ x.what = c.what /\ x.alive = c.alive
        /\ \/ x.at = "mined" /\ world' = [world EXCEPT !.has[c.signer] = h]
           \/ x.at = "failed" /\ world' = world
  <2> DEFINE y == [c EXCEPT !.at = "mined"]
             z == [c EXCEPT !.at = "failed"]
  <2>1. /\ DOMAIN y = WizardTx /\ y.kind = "tx" /\ y.of = c.of /\ y.mode = c.mode /\ y.signer = c.signer
        /\ y.what = c.what /\ y.alive = c.alive /\ y.at = "mined"
    BY <1>1, <1>2 DEF WizardShape, WizardTx
  <2>2. /\ DOMAIN z = WizardTx /\ z.kind = "tx" /\ z.of = c.of /\ z.mode = c.mode /\ z.signer = c.signer
        /\ z.what = c.what /\ z.alive = c.alive /\ z.at = "failed"
    BY <1>1, <1>2 DEF WizardShape, WizardTx
  <2>3. \/ calls' = (calls \ {c}) \cup {y} /\ world' = [world EXCEPT !.has[c.signer] = h]
        \/ calls' = (calls \ {c}) \cup {z} /\ world' = world
    BY <1>2
  <2> HIDE DEF y, z, h
  <2> QED
    BY <2>1, <2>2, <2>3
<1>4. /\ c.of \in Deployer /\ c.signer = c.of
      /\ h \subseteq Wizard!Lasting /\ world.has[c.of] \subseteq h /\ h \subseteq world.has[c.of] \cup {c.what}
      /\ c.what \in Wizard!Lasting => c.what \in h
  BY <1>1, <1>2 DEF ErrandInv, WizardShape
<1> HIDE DEF h
<1>5. /\ DOMAIN world' = WizardWorld /\ world'.cache = world.cache
      /\ world'.missed = world.missed
      /\ \/ x.at = "mined" /\ world'.has = [world.has EXCEPT ![c.of] = h]
         \/ x.at = "failed" /\ world'.has = world.has
  BY <1>1, <1>3, <1>4 DEF WizardShape, WizardWorld
<1>6. /\ world'.has \in [Deployer -> SUBSET Wizard!Lasting]
      /\ \A a \in Deployer : /\ world.has[a] \subseteq world'.has[a]
                             /\ \A k \in world'.has[a] : k \in world.has[a] \/ (x.at = "mined" /\ a = c.of /\ k = c.what)
      /\ x.at = "mined" /\ c.what \in Wizard!Lasting => c.what \in world'.has[c.of]
  BY <1>1, <1>4, <1>5 DEF WizardShape
<1>7. \A d \in calls' : d \in calls \/ d = x
  BY <1>3
<1>8. WizardShape'
  BY <1>1, <1>2, <1>3, <1>5, <1>6, <1>7 DEF WizardShape
<1>9. ErrandInv'
  BY <1>1, <1>2, <1>3, <1>4, <1>7 DEF ErrandInv
<1>10. DoneInv'
  <2>1. \A e \in world.cache : e[2] \in Deployer
    BY <1>1 DEF WizardShape
  <2>2. \A d \in calls : d.of \in Deployer
    BY <1>1 DEF ErrandInv
  <2>3. ui.address # None => ui.address \in Deployer
    BY <1>1 DEF WizardShape
  <2>4. \A e \in world'.cache : Wizard!CachedValue(e[1]) => e[1] \in world'.has[e[2]]
    BY <1>1, <1>5, <1>6, <2>1 DEF DoneInv
  <2>5. \A d \in calls' : d.kind = "check" =>
          /\ d.at = "read" => \A t \in d.cached : Wizard!CachedValue(t) => t \in world'.has[d.of]
          /\ d.at # "read" => d.found \subseteq world'.has[d.of]
    <3> TAKE d \in calls'
    <3>1. CASE d = x
      BY <1>3, <3>1
    <3>2. CASE d \in calls
      BY <1>1, <1>6, <2>2, <3>2 DEF DoneInv
    <3> QED
      BY <1>7, <3>1, <3>2
  <2>6. ui.resources # None => ui.resources.has \subseteq world'.has[ui.resources.of]
    BY <1>1, <1>6 DEF DoneInv, ErrandInv
  <2>7. \A d \in calls' : d.kind = "tx" =>
          /\ d.at = "mined" /\ d.what \in Wizard!Lasting => d.what \in world'.has[d.of]
          /\ d.alive => d.what = Wizard!Key
    <3> TAKE d \in calls'
    <3>1. CASE d = x
      BY <1>1, <1>2, <1>3, <1>6, <3>1 DEF DoneInv
    <3>2. CASE d \in calls
      BY <1>1, <1>6, <2>2, <3>2 DEF DoneInv
    <3> QED
      BY <1>7, <3>1, <3>2
  <2>8. ui.address # None => world.has[ui.address] \subseteq world'.has[ui.address]
    BY <1>6, <2>3
  <2> QED
    BY <1>1, <1>2, <2>4, <2>5, <2>6, <2>7, <2>8 DEF DoneInv, Wizard!Key
<1>11. \A t, of : Unseen(t, of) => Unseen(t, of)'
  BY <1>2, <1>3, <1>5 DEF Unseen, Awaited
<1>12. x.at = "mined" => Awaited(c.what, c.of)'
  BY <1>3 DEF Awaited
<1>13. FoundInv'
  <2>1. \A a \in Deployer : \A t : Wizard!Subject(t) \in world'.has[a] =>
          Wizard!Subject(t) \in world.has[a] \/ Unseen(t, a)'
    BY <1>6, <1>12 DEF Unseen
  <2>2. \A e \in world.cache : ~Wizard!CachedValue(e[1]) /\ Wizard!Subject(e[1]) \in world'.has[e[2]]
          => Unseen(e[1], e[2])'
    <3> TAKE e \in world.cache
    <3>1. e[2] \in Deployer
      BY <1>1 DEF WizardShape
    <3> QED
      BY <1>1, <1>11, <2>1, <3>1 DEF FoundInv
  <2>3. \A d \in calls' : d.kind = "check" =>
         /\ d.at = "read" =>
              /\ \A e \in world'.cache : e[2] = d.of /\ e[1] \in Wizard!Looked(d.mode) => e[1] \in d.cached
              /\ \A t \in d.cached :
                   ~Wizard!CachedValue(t) /\ Wizard!Subject(t) \in world'.has[d.of] => Unseen(t, d.of)'
         /\ d.at # "read" => \A t \in Wizard!Looked(d.mode) :
              Wizard!Subject(t) \in world'.has[d.of] => Wizard!Subject(t) \in d.found \/ Unseen(t, d.of)'
    <3> TAKE d \in calls'
    <3> HAVE d.kind = "check"
    <3>1. d \in calls /\ d.of \in Deployer
      BY <1>1, <1>3, <1>7 DEF ErrandInv
    <3> QED
      BY <1>1, <1>5, <1>11, <2>1, <3>1 DEF FoundInv
  <2>4. ui.resources # None => \A t \in Wizard!Looked(ui.resources.mode) :
          Wizard!Subject(t) \in world'.has[ui.resources.of] =>
            \/ Wizard!Subject(t) \in ui.resources.has
            \/ Unseen(t, ui.resources.of)'
            \/ \E d \in calls' : d.kind = "check"
    <3>1. (\E d \in calls : d.kind = "check") => \E d \in calls' : d.kind = "check"
      BY <1>2, <1>3
    <3>2. ui.resources # None => ui.resources.of \in Deployer
      BY <1>1 DEF ErrandInv
    <3> QED
      BY <1>1, <1>2, <1>11, <2>1, <3>1, <3>2 DEF FoundInv
  <2> QED
    BY <1>2, <1>5, <2>2, <2>3, <2>4 DEF FoundInv
<1> QED
  BY <1>8, <1>9, <1>10, <1>13 DEF WizardClean

(* The receipt of a step is there: what it left is checked for, unless that   *)
(* was not asked for - of what lasts only the token, when the wait for its    *)
(* receipt failed.                                                            *)
LEMMA EndedStep ==
  ASSUME WizardClean, ~world.mixed, NEW c \in calls, Wizard!Ended(c)
  PROVE  WizardInv'
<1>1. WizardShape /\ ErrandInv /\ DoneInv /\ FoundInv
  BY DEF WizardClean
<1>2. PICK success \in Wizard!Succeeded(c) :
       /\ ui' = [ui EXCEPT !.tx = IF ~c.alive THEN @ ELSE IF success THEN "success" ELSE "error",
                           !.token = IF c.what = "xpnts" /\ success THEN c.of ELSE @,
                           !.paymaster = IF c.what = "paymaster" /\ c.at = "mined" THEN c.of ELSE @]
       /\ calls' = (calls \ {c}) \cup IF Wizard!Refreshes(c, success) /\ c.of # None
                      THEN {Wizard!Check(c.of, c.mode, Wizard!CacheToRead(c.of), "refresh")} ELSE {}
       /\ world' = [world EXCEPT !.cache = IF Wizard!Refreshes(c, success) THEN Wizard!CacheToRead(c.of) ELSE @,
                                 !.failed = @ + (IF c.at = "mined" /\ ~success THEN 1 ELSE 0),
                                 !.mixed = @ \/ (Wizard!Refreshes(c, success) /\ Wizard!Checks # {}),
                                 !.missed = @ \cup IF c.what = "xpnts" /\ c.at = "mined" /\ ~success
                                                   THEN {<<"xpnts", c.of>>} ELSE {}]
  BY DEF Wizard!Ended
<1>3. c.kind = "tx"
  BY DEF Wizard!Ended
<1>4. /\ c.of \in Deployer /\ c.of # None /\ c.mode = ui.mode /\ c.mode \in Wizard!Mode
      /\ ui.resources # None /\ (ui.address # None => c.of = ui.address)
  BY <1>1, <1>3, OperatorAssumption DEF ErrandInv
<1>5. success \in BOOLEAN /\ (success => c.at = "mined")
  BY DEF Wizard!Succeeded
<1> DEFINE R == Wizard!Refreshes(c, success)
           k == IF ~c.alive THEN ui.tx ELSE IF success THEN "success" ELSE "error"
           t == IF c.what = "xpnts" /\ success THEN c.of ELSE ui.token
           p == IF c.what = "paymaster" /\ c.at = "mined" THEN c.of ELSE ui.paymaster
           x == Wizard!Check(c.of, ui.mode, Wizard!Cleared(c.of), "refresh")
           e == IF R THEN Wizard!Cleared(c.of) ELSE world.cache
           n == world.failed + (IF c.at = "mined" /\ ~success THEN 1 ELSE 0)
           b == world.mixed \/ (R /\ Wizard!Checks # {})
           l == world.missed \cup IF c.what = "xpnts" /\ c.at = "mined" /\ ~success
                                  THEN {<<"xpnts", c.of>>} ELSE {}
<1>6. /\ ui' = [ui EXCEPT !.tx = k, !.token = t, !.paymaster = p]
      /\ world' = [world EXCEPT !.cache = e, !.failed = n, !.mixed = b, !.missed = l]
      /\ R => calls' = (calls \ {c}) \cup {x}
      /\ ~R => calls' = calls \ {c}
  BY <1>1, <1>2, <1>4 DEF WizardShape, WizardUi, WizardWorld, Wizard!CacheToRead
<1>7. /\ k \in {ui.tx, "success", "error"} /\ (k = "success" => ui.tx = "success" \/ (c.alive /\ c.at = "mined"))
  BY <1>5
<1>8. /\ ~b /\ R => \A d \in calls : d.kind # "check"
      /\ world.missed \subseteq l
      /\ ~R /\ c.at = "mined" /\ c.what \in Wizard!Lasting => c.what = "xpnts" /\ <<"xpnts", c.of>> \in l
  <2>1. ~b /\ R => \A d \in calls : d.kind # "check"
    BY DEF Wizard!Checks
  <2>2. world.missed \subseteq l
    OBVIOUS
  <2>3. ASSUME ~R, c.at = "mined", c.what \in Wizard!Lasting
        PROVE  c.what = "xpnts" /\ <<"xpnts", c.of>> \in l
    <3>1. CASE c.what \in {"community", "paymaster", "super"}
      BY <1>5, <2>3, <3>1, Refreshing DEF Wizard!Refreshes
    <3>2. CASE c.what = "xpnts"
      <4>1. success # TRUE
        BY <2>3, <3>2, Refreshing DEF Wizard!Refreshes
      <4> QED
        BY <1>5, <2>3, <3>2, <4>1
    <3> QED
      BY <2>3, <3>1, <3>2, LastingSteps
  <2> QED
    BY <2>1, <2>2, <2>3
<1>9. /\ DOMAIN x = WizardCheck /\ x.kind = "check" /\ x.enough \in BOOLEAN /\ x.of = c.of /\ x.mode = ui.mode
      /\ x.at = "read" /\ x.cached = {y \in Wizard!Looked(ui.mode) : <<y, c.of>> \in Wizard!Cleared(c.of)}
  BY CheckBegins
<1>10. e \subseteq world.cache /\ (R => e = Wizard!Cleared(c.of)) /\ (~R => e = world.cache)
  BY DEF Wizard!Cleared
<1> HIDE DEF R, k, t, p, x, e, n, b, l
<1>11. /\ DOMAIN ui' = WizardUi /\ ui'.address = ui.address /\ ui'.signer = ui.signer /\ ui'.step = ui.step
       /\ ui'.mode = ui.mode /\ ui'.resources = ui.resources /\ ui'.tx = k
  BY <1>1, <1>6 DEF WizardShape, WizardUi
<1>12. /\ DOMAIN world' = WizardWorld /\ world'.has = world.has /\ world'.cache = e /\ world'.mixed = b
       /\ world'.missed = l
  BY <1>1, <1>6 DEF WizardShape, WizardWorld
<1>13. ASSUME \A d \in calls' : d \in calls \/ (/\ DOMAIN d = WizardCheck /\ d.kind = "check"
                                                  /\ d.enough \in BOOLEAN /\ d.of = c.of
                                                  /\ d.mode = ui.mode /\ d.at = "read" /\ d.cached = {}),
              \A d, f \in calls' : d.kind = "check" /\ f.kind = "check" => d = f
       PROVE  WizardShape' /\ ErrandInv' /\ DoneInv'
  <2>2. WizardShape'
    BY <1>1, <1>8, <1>10, <1>11, <1>12, <1>13 DEF WizardShape
  <2>3. ErrandInv'
    BY <1>1, <1>3, <1>4, <1>11, <1>13 DEF ErrandInv
  <2>4. k = "success" /\ ui.address # None /\ Wizard!Key \in Wizard!Lasting => Wizard!Key \in world.has[ui.address]
    BY <1>1, <1>3, <1>4, <1>7 DEF DoneInv
  <2>5. DoneInv'
    BY <1>1, <1>10, <1>11, <1>12, <1>13, <2>4 DEF DoneInv, Wizard!Key
  <2> QED
    BY <2>2, <2>3, <2>5
<1>14. CASE R /\ ~b
  <2>1. /\ x \in calls' /\ \A d \in calls' : d = x \/ (d \in calls /\ d.kind # "check")
        /\ \A d \in calls : d \in calls' \/ (d.kind = "tx" /\ d.of = c.of)
    BY <1>3, <1>6, <1>8, <1>14
  <2>2. world.missed \subseteq world'.missed
    BY <1>8, <1>12
  <2>3. FoundInv' /\ x.cached = {}
    BY <1>4, <1>9, <1>10, <1>11, <1>12, <1>14, <2>1, <2>2, CheckedAgain
  <2>4. WizardShape' /\ ErrandInv' /\ DoneInv'
    BY <1>6, <1>9, <1>13, <1>14, <2>1, <2>3
  <2> QED
    BY <2>3, <2>4 DEF WizardInv, WizardClean
<1>15. CASE ~R
  <2>1. WizardShape' /\ ErrandInv' /\ DoneInv'
    <3>1. \A d \in calls' : d \in calls
      BY <1>6, <1>15
    <3> QED
      BY <1>1, <1>13, <3>1 DEF ErrandInv
  <2>2. FoundInv'
    <3>1. \A y : Wizard!Subject(y) \in Wizard!Lasting => (Unseen(y, c.of) => Unseen(y, c.of)')
      <4> SUFFICES ASSUME NEW y, Wizard!Subject(y) \in Wizard!Lasting, Awaited(Wizard!Subject(y), c.of)
                   PROVE  Unseen(y, c.of)'
        BY <1>8, <1>12 DEF Unseen
      <4>1. PICK d \in calls : d.kind = "tx" /\ d.at = "mined" /\ d.what = Wizard!Subject(y) /\ d.of = c.of
        BY DEF Awaited
      <4>2. CASE d = c
        <5>1. c.what = "xpnts" /\ <<"xpnts", c.of>> \in l
          BY <1>8, <1>15, <4>1, <4>2
        <5>2. y = "xpnts"
          BY <4>1, <4>2, <5>1 DEF Wizard!Subject
        <5> QED
          BY <1>12, <5>1, <5>2 DEF Unseen
      <4>3. CASE d # c
        BY <1>6, <1>15, <4>1, <4>3 DEF Unseen, Awaited
      <4> QED
        BY <4>2, <4>3
    <3>2. \A y, of : of # c.of => (Unseen(y, of) => Unseen(y, of)')
      BY <1>6, <1>8, <1>12, <1>15 DEF Unseen, Awaited
    <3>11. \A y, of : Wizard!Subject(y) \in Wizard!Lasting => (Unseen(y, of) => Unseen(y, of)')
      BY <3>1, <3>2
    <3>3. \A a \in Deployer : world.has[a] \subseteq Wizard!Lasting
      BY <1>1 DEF WizardShape
    <3>4. \A y \in world.cache : y[2] \in Deployer
      BY <1>1 DEF WizardShape
    <3>5. \A d \in calls : d.of \in Deployer
      BY <1>1 DEF ErrandInv
    <3>6. ui.resources.of \in Deployer
      BY <1>1, <1>4 DEF ErrandInv
    <3>7. (\E d \in calls : d.kind = "check") => \E d \in calls' : d.kind = "check"
      BY <1>3, <1>6, <1>15
    <3>8. \A y \in world.cache : ~Wizard!CachedValue(y[1]) /\ Wizard!Subject(y[1]) \in world.has[y[2]]
            => Unseen(y[1], y[2])'
      BY <1>1, <3>11, <3>3, <3>4 DEF FoundInv
    <3>9. \A d \in calls : d.kind = "check" =>
         /\ d.at = "read" =>
              /\ \A y \in world.cache : y[2] = d.of /\ y[1] \in Wizard!Looked(d.mode) => y[1] \in d.cached
              /\ \A y \in d.cached :
                   ~Wizard!CachedValue(y) /\ Wizard!Subject(y) \in world.has[d.of] => Unseen(y, d.of)'
         /\ d.at # "read" => \A y \in Wizard!Looked(d.mode) :
              Wizard!Subject(y) \in world.has[d.of] => Wizard!Subject(y) \in d.found \/ Unseen(y, d.of)'
      BY <1>1, <3>11, <3>3, <3>5 DEF FoundInv
    <3>10. \A y \in Wizard!Looked(ui'.resources.mode) :
         Wizard!Subject(y) \in world.has[ui'.resources.of] =>
           \/ Wizard!Subject(y) \in ui'.resources.has
           \/ Unseen(y, ui.resources.of)'
           \/ \E d \in calls' : d.kind = "check"
      BY <1>1, <1>4, <1>11, <3>11, <3>3, <3>6, <3>7 DEF FoundInv
    <3> QED
      BY <1>6, <1>10, <1>12, <1>15, <3>8, <3>9, <3>10 DEF FoundInv
  <2> QED
    BY <2>1, <2>2 DEF WizardInv, WizardClean
<1>16. CASE b
  BY <1>12, <1>16 DEF WizardInv
<1> QED
  BY <1>14, <1>15, <1>16

LEMMA WizardStep == WizardInv /\ (Wizard!Next \/ UNCHANGED <<ui, calls, world>>) => WizardInv'
<1> SUFFICES ASSUME WizardInv, Wizard!Next \/ UNCHANGED <<ui, calls, world>> PROVE WizardInv'
  OBVIOUS
<1>1. CASE UNCHANGED <<ui, calls, world>>
  <2>1. ui' = ui /\ calls' = calls /\ world' = world
    BY <1>1
  <2>2. WizardShape' <=> WizardShape
    BY <2>1 DEF WizardShape
  <2>3. ErrandInv' <=> ErrandInv
    BY <2>1 DEF ErrandInv
  <2>4. DoneInv' <=> DoneInv
    BY <2>1 DEF DoneInv, Wizard!Key
  <2>5. FoundInv' <=> FoundInv
    <3>1. \A t, of : Unseen(t, of)' <=> Unseen(t, of)
      BY <2>1 DEF Unseen, Awaited
    <3> QED
      BY <2>1, <3>1 DEF FoundInv
  <2> QED
    BY <2>1, <2>2, <2>3, <2>4, <2>5 DEF WizardInv, WizardClean
<1>2. CASE Wizard!Next
  <2>1. WizardClean /\ ~world.mixed
    BY <1>2 DEF WizardInv, Wizard!Next
  <2>2. WizardClean' => WizardInv'
    BY DEF WizardInv
  <2> QED
    BY <1>2, <2>1, <2>2, WizardConnectStep, ContinueStep, RunAgainStep, WizardNextStep, BackStep, RestartStep, RunStep,
       ExpireStep, AccountStep, CheckReadStep, CheckAnsweredStep, WizardMineStep, EndedStep DEF Wizard!Next
<1> QED
  BY <1>1, <1>2

LEMMA WizardHolds == WizardInv => Wizard!PastIsDone /\ Wizard!OfferedIsUndone
<1> SUFFICES ASSUME WizardInv PROVE Wizard!PastIsDone /\ Wizard!OfferedIsUndone
  OBVIOUS
<1>1. Wizard!PastIsDone
  BY DEF WizardInv, WizardClean, DoneInv, Wizard!PastIsDone, Wizard!Live
<1>2. Wizard!OfferedIsUndone
  <2> SUFFICES ASSUME Wizard!Offered, calls = {}, ~world.mixed,
                      <<Wizard!Key, ui.address>> \notin world.missed,
                      Wizard!Key \in world.has[ui.address]
               PROVE  FALSE
    BY DEF Wizard!OfferedIsUndone
  <2>1. WizardShape /\ ErrandInv /\ FoundInv
    BY DEF WizardInv, WizardClean
  <2>2. ui.address # None /\ ui.step > 2 /\ ~Wizard!Already
    BY DEF Wizard!Offered, Wizard!Live
  <2>3. ui.resources # None /\ ui.resources.of = ui.address /\ ui.resources.mode = ui.mode /\ ui.address \in Deployer
    BY <2>1, <2>2 DEF ErrandInv, WizardShape
  <2>4. Wizard!Key \in Wizard!Lasting /\ ui.mode \in Wizard!Mode
    BY <2>1, <2>2, <2>3 DEF WizardShape
  <2>5. Wizard!Key \in Wizard!Looked(ui.mode) /\ Wizard!Subject(Wizard!Key) = Wizard!Key
    BY <2>1, <2>4, LastingLooked DEF WizardShape, Wizard!Key
  <2>6. Wizard!Key \in ui.resources.has
    BY <2>1, <2>3, <2>5 DEF FoundInv, Unseen, Awaited
  <2> QED
    BY <2>2, <2>3, <2>4, <2>6 DEF Wizard!Already
<1> QED
  BY <1>1, <1>2

-----------------------------------------------------------------------------
(* The launch sale.                                                          *)
SaleUi == {"chain", "eoa", "client", "connecting", "token", "mode", "pay", "amount", "recipient",
           "balances", "quote", "buying", "lastTx"}
SaleWorld == {"active", "chain", "price", "moves", "orders", "edits", "nets", "buys", "switched",
              "twice", "late"}
SaleBuy == {"kind", "n", "step", "token", "amount", "mode", "pay", "to", "client", "eoa", "at", "read",
            "floor"}

SaleShape ==
  /\ DOMAIN ui = SaleUi /\ DOMAIN world = SaleWorld
  /\ \A b \in calls : b.kind = "buy" => DOMAIN b = SaleBuy
  /\ world.active \in Buyer /\ world.moves \in Nat
  /\ world.twice \in BOOLEAN /\ world.switched \in BOOLEAN /\ world.late \in BOOLEAN

(* A quote under way is of the form as it is. *)
QuoteInv ==
  /\ \A c \in calls : c.kind = "quote" => c.of = Sale!Input(ui)
  /\ (\A c \in calls : c.kind # "quote") => ui.quote = None \/ ui.quote.of = Sale!Input(ui)

(* A purchase knows the number of price changes at its click, and from its    *)
(* own quote on the number at that.                                           *)
FloorInv ==
  /\ \A b \in calls : b.kind = "buy" =>
       /\ b.at \in Nat /\ b.read \in Nat /\ b.at =< world.moves
       /\ b.step = "sign" => b.at =< b.read
  /\ \A o \in world.orders : o.read >= o.at

(* There is one purchase, and past the wallet's chain the button is off. *)
PurchaseInv ==
  ~world.twice =>
    /\ \A b \in calls : b.kind = "buy" /\ b.step # "chain" => ui.buying
    /\ \A b, d \in calls : b.kind = "buy" /\ d.kind = "buy" => b = d

(* Until the wallet's account is changed every client is the account's that   *)
(* is active, and the address that is shown is that account.                  *)
ClientInv ==
  ~world.switched =>
    /\ ui.eoa \in {None, world.active}
    /\ ui.client = None \/ ui.client.account = ui.eoa
    /\ \A c \in calls : c.kind = "ensure" => c.client.account = world.active
    /\ \A c \in calls : c.kind = "rebind" => ui.eoa # None

(* Where there is no sale no balances are shown but those of a late answer. *)
LateInv == world.late \/ (ui.balances # None => ui.chain = Sale!Sale)

SaleInv == SaleShape /\ QuoteInv /\ FloorInv /\ PurchaseInv /\ ClientInv /\ LateInv

LEMMA SaleInit == Sale!Init => SaleInv
<1> SUFFICES ASSUME Sale!Init PROVE SaleInv
  OBVIOUS
<1>1. (CHOOSE a \in Buyer : TRUE) \in Buyer
  BY OperatorAssumption
<1>2. SaleShape
  BY <1>1 DEF Sale!Init, SaleShape, SaleUi, SaleWorld
<1>3. QuoteInv
  BY DEF Sale!Init, QuoteInv, Sale!Input
<1> QED
  BY <1>2, <1>3 DEF Sale!Init, SaleInv, FloorInv, PurchaseInv, ClientInv, LateInv


(* What a step leaves alone. *)
FormStays ==
  /\ ui'.token = ui.token /\ ui'.amount = ui.amount /\ ui'.chain = ui.chain /\ ui'.quote = ui.quote
  /\ \A c : c.kind = "quote" => (c \in calls' <=> c \in calls)

OrdersStay ==
  /\ world'.moves >= world.moves /\ world'.orders = world.orders
  /\ \A c \in calls' : c.kind = "buy" => c \in calls

PurchasesStay ==
  /\ ui'.buying = ui.buying /\ world'.twice = world.twice
  /\ \A c \in calls' : c.kind = "buy" => c \in calls

ClientStays ==
  /\ ui'.eoa = ui.eoa /\ ui'.client = ui.client
  /\ world'.switched = world.switched /\ (world'.active = world.active \/ world'.switched)
  /\ \A c \in calls' : c.kind \in {"ensure", "rebind"} => c \in calls

BalancesStay ==
  ui'.balances = ui.balances /\ ui'.chain = ui.chain /\ world'.late = world.late

LEMMA FormFrame == QuoteInv /\ FormStays => QuoteInv'
BY DEF QuoteInv, FormStays, Sale!Input

LEMMA OrdersFrame == SaleShape /\ SaleShape' /\ FloorInv /\ OrdersStay => FloorInv'
<1> SUFFICES ASSUME SaleShape, SaleShape', FloorInv, OrdersStay PROVE FloorInv'
  OBVIOUS
<1>1. world.moves \in Nat /\ world'.moves \in Nat
  BY DEF SaleShape
<1> QED
  BY <1>1 DEF FloorInv, OrdersStay

LEMMA PurchasesFrame == PurchaseInv /\ PurchasesStay => PurchaseInv'
BY DEF PurchaseInv, PurchasesStay

LEMMA ClientFrame == ClientInv /\ ClientStays => ClientInv'
BY DEF ClientInv, ClientStays

LEMMA BalancesFrame == LateInv /\ BalancesStay => LateInv'
BY DEF LateInv, BalancesStay

LEMMA QuotedStep ==
  ASSUME SaleInv, NEW c \in calls, Sale!Quoted(c) \/ Sale!QuoteFailed(c)
  PROVE  SaleInv'
<1>1. SaleShape /\ QuoteInv
  BY DEF SaleInv
<1>2. c.kind = "quote" /\ calls' = calls \ {c} /\ world' = world
  BY DEF Sale!Quoted, Sale!QuoteFailed
<1>3. \E q : ui' = [ui EXCEPT !.quote = q] /\ (q = None \/ q.of = c.of)
  BY DEF Sale!Quoted, Sale!QuoteFailed
<1>4. PICK q : ui' = [ui EXCEPT !.quote = q] /\ (q = None \/ q.of = c.of)
  BY <1>3
<1>5. /\ DOMAIN ui' = SaleUi /\ Sale!Input(ui') = Sale!Input(ui) /\ ui'.quote = q
      /\ PurchasesStay /\ OrdersStay /\ ClientStays /\ BalancesStay
  BY <1>1, <1>2, <1>4 DEF SaleShape, SaleUi, Sale!Input, PurchasesStay, OrdersStay, ClientStays, BalancesStay
<1>6. SaleShape'
  BY <1>1, <1>2, <1>5 DEF SaleShape
<1>7. QuoteInv'
  BY <1>1, <1>2, <1>4, <1>5 DEF QuoteInv
<1> QED
  BY <1>5, <1>6, <1>7, OrdersFrame, PurchasesFrame, ClientFrame, BalancesFrame DEF SaleInv

LEMMA BalancesStep ==
  ASSUME SaleInv, NEW c \in calls, Sale!BalancesShown(c) \/ Sale!BalancesFailed(c)
  PROVE  SaleInv'
<1>1. SaleShape
  BY DEF SaleInv
<1> DEFINE b == ui.chain # Sale!Sale
<1>2. /\ c.kind = "balances" /\ calls' = calls \ {c}
      /\ ui' = ui \/ \E x : ui' = [ui EXCEPT !.balances = x]
      /\ UNCHANGED <<ui, world>> \/ world' = [world EXCEPT !.late = b]
  BY DEF Sale!BalancesShown, Sale!BalancesFailed
<1>3. b \in BOOLEAN /\ (~b => ui.chain = Sale!Sale)
  BY <1>1
<1> HIDE DEF b
<1>4. /\ DOMAIN ui' = SaleUi /\ FormStays /\ ui'.buying = ui.buying
      /\ ui'.eoa = ui.eoa /\ ui'.client = ui.client
  BY <1>1, <1>2 DEF SaleShape, SaleUi, FormStays
<1>5. /\ DOMAIN world' = SaleWorld /\ world'.moves = world.moves /\ world'.orders = world.orders
      /\ world'.twice = world.twice /\ world'.switched = world.switched /\ world'.active = world.active
      /\ world'.late = b \/ UNCHANGED <<ui, world>>
  BY <1>1, <1>2 DEF SaleShape, SaleWorld
<1>6. SaleShape'
  BY <1>1, <1>2, <1>3, <1>4, <1>5 DEF SaleShape
<1>7. OrdersStay /\ PurchasesStay /\ ClientStays
  BY <1>1, <1>2, <1>4, <1>5 DEF OrdersStay, PurchasesStay, ClientStays, SaleShape
<1>8. LateInv'
  BY <1>3, <1>4, <1>5 DEF SaleInv, LateInv, FormStays
<1> QED
  BY <1>4, <1>6, <1>7, <1>8, FormFrame, OrdersFrame, PurchasesFrame, ClientFrame DEF SaleInv

(* What the page becomes when it asks for a quote, and for balances. *)
LEMMA EnteredQuote ==
  ASSUME NEW u, DOMAIN u = SaleUi,
         DOMAIN ui' = SaleUi, Sale!Input(ui') = Sale!Input(u), ~Sale!Quotable(u) => ui'.quote = None,
         \A c \in calls' : c.kind = "quote" => c \in Sale!Quoting(u),
         \A c \in Sale!Quoting(u) : c \in calls'
  PROVE  QuoteInv'
<1>1. \A c \in calls' : c.kind = "quote" => c.of = Sale!Input(u) /\ Sale!Quotable(u)
  BY DEF Sale!Quoting
<1>2. CASE Sale!Quotable(u)
  <2> DEFINE q == [kind |-> "quote", of |-> Sale!Input(u)]
  <2>1. q \in calls' /\ q.kind = "quote"
    BY <1>2 DEF Sale!Quoting
  <2> QED
    BY <1>1, <2>1 DEF QuoteInv
<1>3. CASE ~Sale!Quotable(u)
  BY <1>1, <1>3 DEF QuoteInv
<1> QED
  BY <1>2, <1>3

LEMMA ReloadedPage ==
  ASSUME NEW u, DOMAIN u = SaleUi, NEW v, v = Sale!Reloaded(u)
  PROVE  /\ DOMAIN v = SaleUi
         /\ v.chain = u.chain /\ v.eoa = u.eoa /\ v.client = u.client /\ v.token = u.token
         /\ v.amount = u.amount /\ v.quote = u.quote /\ v.buying = u.buying
         /\ v.balances # None => v.chain = Sale!Sale
         /\ v.balances \in {None, u.balances} /\ v.connecting = u.connecting
<1>1. CASE Sale!Balances(u) = {}
  BY <1>1 DEF Sale!Reloaded, SaleUi
<1>2. CASE Sale!Balances(u) # {}
  BY <1>2 DEF Sale!Reloaded, Sale!Balances
<1> QED
  BY <1>1, <1>2

LEMMA BalancesKind ==
  ASSUME NEW u, NEW c \in Sale!Balances(u)
  PROVE  c.kind = "balances"
BY DEF Sale!Balances

LEMMA BalancesOf ==
  ASSUME NEW u, NEW c \in Sale!Balances(u)
  PROVE  c.of = u.eoa /\ u.eoa # None
BY DEF Sale!Balances

LEMMA EditStep == SaleInv /\ Sale!Edit => SaleInv'
<1> SUFFICES ASSUME SaleInv, Sale!Edit PROVE SaleInv'
  OBVIOUS
<1>1. SaleShape /\ QuoteInv
  BY DEF SaleInv
<1>2. /\ DOMAIN world' = SaleWorld
      /\ world'.active = world.active /\ world'.moves = world.moves /\ world'.orders = world.orders
      /\ world'.twice = world.twice /\ world'.switched = world.switched /\ world'.late = world.late
  BY <1>1 DEF Sale!Edit, SaleShape, SaleWorld
<1>3. ASSUME NEW u, DOMAIN u = SaleUi, Sale!Entered(u),
             u.eoa = ui.eoa, u.client = ui.client, u.buying = ui.buying, u.balances = ui.balances,
             u.chain = ui.chain
      PROVE  SaleInv'
  <2>1. /\ DOMAIN ui' = SaleUi /\ Sale!Input(ui') = Sale!Input(u)
        /\ ~Sale!Quotable(u) => ui'.quote = None
        /\ ui'.eoa = ui.eoa /\ ui'.client = ui.client /\ ui'.buying = ui.buying
        /\ ui'.balances = ui.balances /\ ui'.chain = ui.chain
    BY <1>3 DEF Sale!Entered, Sale!Input, SaleUi
  <2>2. calls' = Sale!Quoting(u)
    BY <1>3 DEF Sale!Entered
  <2>3. \A c \in calls' : c.kind # "quote" => c \in calls
    BY <2>2 DEF Sale!Quoting
  <2>4. QuoteInv'
    BY <1>3, <2>1, <2>2, EnteredQuote
  <2>5. SaleShape'
    BY <1>1, <1>2, <2>1, <2>3 DEF SaleShape
  <2>6. OrdersStay /\ PurchasesStay /\ ClientStays /\ BalancesStay
    BY <1>1, <1>2, <2>1, <2>3 DEF SaleShape, OrdersStay, PurchasesStay, ClientStays, BalancesStay
  <2> QED
    BY <2>4, <2>5, <2>6, OrdersFrame, PurchasesFrame, ClientFrame, BalancesFrame DEF SaleInv
<1>4. ASSUME UNCHANGED calls, DOMAIN ui' = SaleUi, ui'.eoa = ui.eoa, ui'.client = ui.client,
             ui'.buying = ui.buying, ui'.balances = ui.balances, ui'.chain = ui.chain,
             ui'.token = ui.token, ui'.amount = ui.amount, ui'.quote = ui.quote
      PROVE  SaleInv'
  <2>1. SaleShape'
    BY <1>1, <1>2, <1>4 DEF SaleShape
  <2>2. FormStays /\ OrdersStay /\ PurchasesStay /\ ClientStays /\ BalancesStay
    BY <1>1, <1>2, <1>4
    DEF SaleShape, FormStays, OrdersStay, PurchasesStay, ClientStays, BalancesStay
  <2> QED
    BY <2>1, <2>2, FormFrame, OrdersFrame, PurchasesFrame, ClientFrame, BalancesFrame DEF SaleInv
<1>5. CASE \E t \in Sale!Token : Sale!Entered([ui EXCEPT !.token = t])
  <2>1. PICK t \in Sale!Token : Sale!Entered([ui EXCEPT !.token = t])
    BY <1>5
  <2> QED
    BY <1>1, <1>3, <2>1 DEF SaleShape, SaleUi
<1>6. CASE \E a \in {0, 2} : Sale!Entered([ui EXCEPT !.amount = a])
  <2>1. PICK a \in {0, 2} : Sale!Entered([ui EXCEPT !.amount = a])
    BY <1>6
  <2> QED
    BY <1>1, <1>3, <2>1 DEF SaleShape, SaleUi
<1>7. CASE UNCHANGED calls /\ \E m : ui' = Sale!Moded(ui, m)
  BY <1>1, <1>4, <1>7 DEF SaleShape, SaleUi, Sale!Moded
<1>8. CASE UNCHANGED calls /\ \E q : ui' = [ui EXCEPT !.pay = q]
  BY <1>1, <1>4, <1>8 DEF SaleShape, SaleUi
<1>9. CASE UNCHANGED calls /\ \E r : ui' = [ui EXCEPT !.recipient = r]
  BY <1>1, <1>4, <1>9 DEF SaleShape, SaleUi
<1> QED
  BY <1>5, <1>6, <1>7, <1>8, <1>9 DEF Sale!Edit

LEMMA NetworkStep ==
  ASSUME SaleInv, NEW id \in Sale!Chain, Sale!HandleSelectNetwork(id)
  PROVE  SaleInv'
<1>1. SaleShape /\ ClientInv
  BY DEF SaleInv
<1> DEFINE u == [ui EXCEPT !.chain = id, !.quote = None]
<1>2. /\ ui' = Sale!Reloaded(u)
      /\ calls' = Sale!Quoting(u) \cup Sale!Balances(u)
                    \cup (IF ui.eoa # None THEN {[kind |-> "rebind", chain |-> id]} ELSE {})
      /\ world' = [world EXCEPT !.nets = @ + 1, !.late = FALSE]
  BY DEF Sale!HandleSelectNetwork
<1>3. /\ DOMAIN u = SaleUi /\ u.eoa = ui.eoa /\ u.client = ui.client /\ u.buying = ui.buying
      /\ u.quote = None
  BY <1>1 DEF SaleShape, SaleUi
<1> HIDE DEF u
<1>4. /\ DOMAIN world' = SaleWorld
      /\ world'.active = world.active /\ world'.moves = world.moves /\ world'.orders = world.orders
      /\ world'.twice = world.twice /\ world'.switched = world.switched /\ world'.late = FALSE
  BY <1>1, <1>2 DEF SaleShape, SaleWorld
<1>5. /\ DOMAIN ui' = SaleUi /\ Sale!Input(ui') = Sale!Input(u) /\ ui'.quote = None
      /\ ui'.eoa = ui.eoa /\ ui'.client = ui.client /\ ui'.buying = ui.buying
      /\ ui'.balances # None => ui'.chain = Sale!Sale
  BY <1>2, <1>3, ReloadedPage DEF Sale!Input
<1>6. \A c \in calls' : \/ c \in Sale!Quoting(u)
                        \/ c.kind = "balances"
                        \/ c.kind = "rebind" /\ ui.eoa # None
  BY <1>2, BalancesKind
<1>7. \A c \in calls' : \/ c \in calls
                        \/ c.kind \in {"quote", "balances"}
                        \/ c.kind = "rebind" /\ ui.eoa # None
  BY <1>6 DEF Sale!Quoting
<1>8. QuoteInv'
  BY <1>2, <1>3, <1>5, <1>6, EnteredQuote
<1>9. SaleShape'
  BY <1>1, <1>4, <1>5, <1>7 DEF SaleShape
<1>10. OrdersStay /\ PurchasesStay
  BY <1>1, <1>4, <1>5, <1>7 DEF SaleShape, OrdersStay, PurchasesStay
<1>11. ClientInv'
  BY <1>1, <1>4, <1>5, <1>7 DEF ClientInv
<1>12. LateInv'
  BY <1>5 DEF LateInv
<1> QED
  BY <1>8, <1>9, <1>10, <1>11, <1>12, OrdersFrame, PurchasesFrame DEF SaleInv

(* An answer that is not waited for, and a connection that is over.          *)
LEMMA DroppedStep ==
  ASSUME SaleInv, NEW c \in calls, Sale!RebindFailed(c) \/ Sale!NotConnected(c) \/ Sale!ChainRefused(c)
  PROVE  SaleInv'
<1>1. SaleShape
  BY DEF SaleInv
<1>2. /\ c.kind # "quote" /\ calls' = calls \ {c} /\ world' = world
      /\ ui' = ui \/ ui' = [ui EXCEPT !.connecting = FALSE]
  BY DEF Sale!RebindFailed, Sale!NotConnected, Sale!ChainRefused, Sale!At
<1>3. /\ DOMAIN ui' = SaleUi /\ FormStays /\ PurchasesStay /\ OrdersStay /\ ClientStays /\ BalancesStay
  BY <1>1, <1>2
  DEF SaleShape, SaleUi, FormStays, PurchasesStay, OrdersStay, ClientStays, BalancesStay
<1>4. SaleShape'
  BY <1>1, <1>2, <1>3 DEF SaleShape
<1> QED
  BY <1>3, <1>4, FormFrame, OrdersFrame, PurchasesFrame, ClientFrame, BalancesFrame DEF SaleInv

LEMMA ReboundStep ==
  ASSUME SaleInv, NEW c \in calls, Sale!Rebound(c)
  PROVE  SaleInv'
<1>1. SaleShape /\ ClientInv
  BY DEF SaleInv
<1>2. /\ c.kind = "rebind" /\ calls' = calls \ {c}
      /\ ui' = [ui EXCEPT !.client = Sale!Client(c.chain)]
      /\ world' = [world EXCEPT !.chain = c.chain]
  BY DEF Sale!Rebound
<1>3. /\ DOMAIN world' = SaleWorld
      /\ world'.active = world.active /\ world'.moves = world.moves /\ world'.orders = world.orders
      /\ world'.twice = world.twice /\ world'.switched = world.switched /\ world'.late = world.late
  BY <1>1, <1>2 DEF SaleShape, SaleWorld
<1>4. /\ DOMAIN ui' = SaleUi /\ FormStays /\ ui'.eoa = ui.eoa /\ ui'.client.account = world.active
      /\ ui'.buying = ui.buying /\ ui'.balances = ui.balances
  BY <1>1, <1>2 DEF SaleShape, SaleUi, FormStays, Sale!Client
<1>5. PurchasesStay /\ OrdersStay /\ BalancesStay
  BY <1>1, <1>2, <1>3, <1>4 DEF SaleShape, FormStays, PurchasesStay, OrdersStay, BalancesStay
<1>6. ClientInv'
  BY <1>1, <1>2, <1>3, <1>4 DEF ClientInv
<1>7. SaleShape'
  BY <1>1, <1>2, <1>3, <1>4 DEF SaleShape
<1> QED
  BY <1>4, <1>5, <1>6, <1>7, FormFrame, OrdersFrame, PurchasesFrame, BalancesFrame DEF SaleInv

LEMMA ConnectingStep ==
  ASSUME SaleInv, Sale!HandleConnect \/ \E c \in calls : Sale!Accepted(c)
  PROVE  SaleInv'
<1>1. SaleShape /\ ClientInv
  BY DEF SaleInv
<1>2. /\ world' = world /\ (ui' = ui \/ ui' = [ui EXCEPT !.connecting = TRUE])
      /\ \A d \in calls' : \/ d \in calls
                           \/ d.kind = "connect"
                           \/ d.kind = "ensure" /\ d.client.account = world.active
      /\ \A d : d.kind = "quote" => (d \in calls' <=> d \in calls)
  <2>1. CASE Sale!HandleConnect
    BY <2>1 DEF Sale!HandleConnect
  <2>2. CASE \E c \in calls : Sale!Accepted(c)
    BY <2>2 DEF Sale!Accepted, Sale!Client
  <2> QED
    BY <2>1, <2>2
<1>3. /\ DOMAIN ui' = SaleUi /\ FormStays /\ ui'.eoa = ui.eoa /\ ui'.client = ui.client
      /\ ui'.buying = ui.buying /\ ui'.balances = ui.balances
  BY <1>1, <1>2 DEF SaleShape, SaleUi, FormStays
<1>4. PurchasesStay /\ OrdersStay /\ BalancesStay
  BY <1>1, <1>2, <1>3 DEF SaleShape, FormStays, PurchasesStay, OrdersStay, BalancesStay
<1>5. ClientInv'
  BY <1>1, <1>2, <1>3 DEF ClientInv
<1>6. SaleShape'
  BY <1>1, <1>2, <1>3 DEF SaleShape
<1> QED
  BY <1>3, <1>4, <1>5, <1>6, FormFrame, OrdersFrame, PurchasesFrame, BalancesFrame DEF SaleInv

LEMMA ConnectedStep ==
  ASSUME SaleInv, NEW c \in calls, Sale!Connected(c)
  PROVE  SaleInv'
<1>1. SaleShape /\ ClientInv
  BY DEF SaleInv
<1> DEFINE u == [ui EXCEPT !.eoa = c.client.account, !.client = c.client]
<1>2. /\ c.kind = "ensure" /\ ui' = Sale!Reloaded(u)
      /\ calls' = (calls \ {c}) \cup Sale!Balances(u) \cup {[kind |-> "eth"]}
      /\ world' = [world EXCEPT !.chain = c.client.chain]
  BY DEF Sale!Connected
<1>3. /\ DOMAIN u = SaleUi /\ u.eoa = c.client.account /\ u.client = c.client /\ u.buying = ui.buying
      /\ u.token = ui.token /\ u.amount = ui.amount /\ u.chain = ui.chain /\ u.quote = ui.quote
  BY <1>1 DEF SaleShape, SaleUi
<1> HIDE DEF u
<1>4. /\ DOMAIN world' = SaleWorld
      /\ world'.active = world.active /\ world'.moves = world.moves /\ world'.orders = world.orders
      /\ world'.twice = world.twice /\ world'.switched = world.switched /\ world'.late = world.late
  BY <1>1, <1>2 DEF SaleShape, SaleWorld
<1>5. /\ DOMAIN ui' = SaleUi
      /\ ui'.eoa = c.client.account /\ ui'.client = c.client /\ ui'.buying = ui.buying
      /\ ui'.token = ui.token /\ ui'.amount = ui.amount /\ ui'.chain = ui.chain /\ ui'.quote = ui.quote
      /\ ui'.balances # None => ui'.chain = Sale!Sale
  BY <1>2, <1>3, ReloadedPage
<1>6. /\ \A d \in calls' : d \in calls \/ d.kind \in {"balances", "eth"}
      /\ \A d : d.kind = "quote" => (d \in calls' <=> d \in calls)
  BY <1>2, BalancesKind
<1>7. FormStays
  BY <1>5, <1>6 DEF FormStays
<1>8. OrdersStay /\ PurchasesStay
  BY <1>1, <1>4, <1>5, <1>6 DEF SaleShape, OrdersStay, PurchasesStay
<1>9. ClientInv'
  <2> SUFFICES ASSUME ~world'.switched PROVE ClientInv'
    BY DEF ClientInv
  <2>1. /\ c.client.account = world.active /\ world.active # None
        /\ \A d \in calls : d.kind = "ensure" => d.client.account = world.active
    BY <1>1, <1>2, <1>4, OperatorAssumption DEF ClientInv, SaleShape
  <2> QED
    BY <1>4, <1>5, <1>6, <2>1 DEF ClientInv
<1>10. SaleShape'
  BY <1>1, <1>4, <1>5, <1>6 DEF SaleShape
<1>11. LateInv'
  BY <1>5 DEF LateInv
<1> QED
  BY <1>7, <1>8, <1>9, <1>10, <1>11, FormFrame, OrdersFrame, PurchasesFrame DEF SaleInv

LEMMA ModeStep ==
  ASSUME SaleInv, NEW c \in calls, Sale!ModeByBalance(c)
  PROVE  SaleInv'
<1>1. SaleShape
  BY DEF SaleInv
<1>2. PICK m \in {"GASLESS", "SELFPAY"} : ui' = [Sale!Moded(ui, m) EXCEPT !.connecting = FALSE]
  BY DEF Sale!ModeByBalance
<1>3. c.kind = "eth" /\ calls' = calls \ {c} /\ world' = world
  BY DEF Sale!ModeByBalance
<1>4. DOMAIN ui' = SaleUi /\ FormStays /\ PurchasesStay /\ OrdersStay /\ ClientStays /\ BalancesStay
  BY <1>1, <1>2, <1>3
  DEF SaleShape, SaleUi, Sale!Moded, FormStays, PurchasesStay, OrdersStay, ClientStays, BalancesStay
<1>5. SaleShape'
  BY <1>1, <1>3, <1>4 DEF SaleShape
<1> QED
  BY <1>4, <1>5, FormFrame, OrdersFrame, PurchasesFrame, ClientFrame, BalancesFrame DEF SaleInv

LEMMA WalletStep ==
  ASSUME SaleInv, Sale!WalletChanged \/ Sale!PriceMoves
  PROVE  SaleInv'
<1>1. SaleShape
  BY DEF SaleInv
<1>2. UNCHANGED <<ui, calls>>
  BY DEF Sale!WalletChanged, Sale!PriceMoves
<1>3. \/ \E a \in Buyer : world' = [world EXCEPT !.active = a, !.nets = @ + 1, !.switched = TRUE]
      \/ \E c : world' = [world EXCEPT !.chain = c, !.nets = @ + 1]
      \/ \E q : world' = [world EXCEPT !.price = q, !.moves = @ + 1]
  BY DEF Sale!WalletChanged, Sale!PriceMoves
<1>4. /\ DOMAIN world' = SaleWorld /\ world'.active \in Buyer
      /\ world'.moves = world.moves \/ world'.moves = world.moves + 1
      /\ world'.orders = world.orders /\ world'.twice = world.twice /\ world'.late = world.late
      /\ world'.switched \in BOOLEAN
      /\ world'.switched \/ (world'.switched = world.switched /\ world'.active = world.active)
  <2>1. CASE \E a \in Buyer : world' = [world EXCEPT !.active = a, !.nets = @ + 1, !.switched = TRUE]
    <3>1. PICK a \in Buyer : world' = [world EXCEPT !.active = a, !.nets = @ + 1, !.switched = TRUE]
      BY <2>1
    <3>2. world'.switched = TRUE /\ world'.active = a
      BY <1>1, <3>1 DEF SaleShape, SaleWorld
    <3>3. world'.switched /\ world'.switched \in BOOLEAN
      BY <3>2
    <3>4. /\ DOMAIN world' = SaleWorld /\ world'.active \in Buyer
          /\ world'.moves = world.moves /\ world'.orders = world.orders
          /\ world'.twice = world.twice /\ world'.late = world.late
      BY <1>1, <3>1, <3>2 DEF SaleShape, SaleWorld
    <3> QED
      BY <3>3, <3>4
  <2>2. CASE \E c : world' = [world EXCEPT !.chain = c, !.nets = @ + 1]
    BY <1>1, <2>2 DEF SaleShape, SaleWorld
  <2>3. CASE \E q : world' = [world EXCEPT !.price = q, !.moves = @ + 1]
    BY <1>1, <2>3 DEF SaleShape, SaleWorld
  <2> QED
    BY <1>3, <2>1, <2>2, <2>3
<1>5. world'.moves \in Nat /\ world'.moves >= world.moves
  BY <1>1, <1>4 DEF SaleShape
<1>6. FormStays /\ PurchasesStay /\ OrdersStay /\ BalancesStay
  BY <1>2, <1>4, <1>5 DEF FormStays, PurchasesStay, OrdersStay, BalancesStay
<1>7. ClientInv'
  BY <1>2, <1>4 DEF SaleInv, ClientInv
<1>8. SaleShape'
  BY <1>1, <1>2, <1>4, <1>5 DEF SaleShape
<1> QED
  BY <1>6, <1>7, <1>8, FormFrame, OrdersFrame, PurchasesFrame, BalancesFrame DEF SaleInv

(* A purchase at a later step of its own, or over. *)
LEMMA BuyGoes ==
  ASSUME SaleShape, PurchaseInv, FloorInv, NEW b \in calls, b.kind = "buy", NEW b2,
         DOMAIN b2 = SaleBuy, b2.kind = "buy", b2.at = b.at, b2.step # "chain",
         b2.read \in Nat, b2.step = "sign" => b.at =< b2.read,
         calls' = (calls \ {b}) \cup {b2},
         world'.twice = world.twice, world'.moves = world.moves, ui'.buying \/ (b.step # "chain" /\ ui'.buying = ui.buying)
  PROVE  /\ \A c \in calls' : c.kind = "buy" => DOMAIN c = SaleBuy
         /\ \A c \in calls' : c.kind = "buy" =>
              /\ c.at \in Nat /\ c.read \in Nat /\ c.at =< world'.moves
              /\ c.step = "sign" => c.at =< c.read
         /\ PurchaseInv'
         /\ \A c : c.kind # "buy" => (c \in calls' <=> c \in calls)
<1>1. \A c \in calls' : c \in calls \/ c = b2
  OBVIOUS
<1>2. PurchaseInv'
  <2> SUFFICES ASSUME ~world'.twice PROVE PurchaseInv'
    BY DEF PurchaseInv
  <2>1. /\ \A c \in calls : c.kind = "buy" /\ c.step # "chain" => ui.buying
        /\ \A c, d \in calls : c.kind = "buy" /\ d.kind = "buy" => c = d
    BY DEF PurchaseInv
  <2>2. \A c \in calls' : c.kind = "buy" => c = b2
    BY <2>1
  <2>3. ui'.buying
    BY <2>1
  <2> QED
    BY <2>2, <2>3 DEF PurchaseInv
<1> QED
  BY <1>1, <1>2 DEF SaleShape, FloorInv

LEMMA HandleBuyStep == SaleInv /\ ~world.twice /\ Sale!HandleBuy => SaleInv'
<1> SUFFICES ASSUME SaleInv, ~world.twice, Sale!HandleBuy PROVE SaleInv'
  OBVIOUS
<1>1. SaleShape /\ PurchaseInv /\ FloorInv
  BY DEF SaleInv
<1> DEFINE b == [kind |-> "buy", n |-> world.buys + 1, step |-> "chain", token |-> ui.token,
                 amount |-> ui.amount, mode |-> ui.mode, pay |-> ui.pay, to |-> Sale!To,
                 client |-> ui.client, eoa |-> ui.eoa, at |-> world.moves, read |-> 0, floor |-> 0]
           t == world.twice \/ \E d \in Sale!Buys : d.step = "chain"
           n == world.buys + 1
<1>2. /\ calls' = calls \cup {b} /\ ui' = ui /\ ~ui.buying
      /\ world' = [world EXCEPT !.buys = n, !.twice = t]
  BY <1>1 DEF Sale!HandleBuy, Sale!Buyable, SaleShape, SaleWorld
<1>3. /\ DOMAIN b = SaleBuy /\ b.kind = "buy" /\ b.step = "chain" /\ b.at = world.moves /\ b.read = 0
  BY DEF SaleBuy
<1>4. /\ t \in BOOLEAN /\ (~t => \A d \in calls : d.kind = "buy" => d.step # "chain")
  BY DEF Sale!Buys
<1> HIDE DEF b, t, n
<1>5. /\ DOMAIN world' = SaleWorld /\ world'.twice = t
      /\ world'.active = world.active /\ world'.moves = world.moves /\ world'.orders = world.orders
      /\ world'.switched = world.switched /\ world'.late = world.late
  BY <1>1, <1>2 DEF SaleShape, SaleWorld
<1>6. SaleShape'
  BY <1>1, <1>2, <1>3, <1>4, <1>5 DEF SaleShape
<1>7. PurchaseInv'
  <2> SUFFICES ASSUME ~t PROVE PurchaseInv'
    BY <1>5 DEF PurchaseInv
  <2>1. \A d \in calls : d.kind # "buy"
    BY <1>1, <1>2, <1>4 DEF PurchaseInv
  <2> QED
    BY <1>2, <1>3, <2>1 DEF PurchaseInv
<1>8. FloorInv'
  <2>1. world.moves \in Nat
    BY <1>1 DEF SaleShape
  <2> QED
    BY <1>1, <1>2, <1>3, <1>5, <2>1 DEF FloorInv
<1>9. FormStays /\ ClientStays /\ BalancesStay
  BY <1>2, <1>3, <1>5 DEF FormStays, ClientStays, BalancesStay
<1> QED
  BY <1>6, <1>7, <1>8, <1>9, FormFrame, ClientFrame, BalancesFrame DEF SaleInv

LEMMA ChainEnsuredStep ==
  ASSUME SaleInv, NEW b \in calls, Sale!ChainEnsured(b)
  PROVE  SaleInv'
<1>1. SaleShape /\ PurchaseInv /\ FloorInv
  BY DEF SaleInv
<1> DEFINE b2 == [b EXCEPT !.step = "quote"]
<1>2. /\ b.kind = "buy" /\ b.step = "chain" /\ calls' = (calls \ {b}) \cup {b2}
      /\ ui' = [ui EXCEPT !.buying = TRUE, !.lastTx = 0]
      /\ world' = [world EXCEPT !.chain = Sale!Sale]
  BY DEF Sale!ChainEnsured, Sale!At, Sale!Goes
<1>3. /\ DOMAIN b2 = SaleBuy /\ b2.kind = "buy" /\ b2.step = "quote" /\ b2.at = b.at /\ b2.read = b.read
      /\ b.read \in Nat
  BY <1>1, <1>2 DEF SaleShape, SaleBuy, FloorInv
<1> HIDE DEF b2
<1>4. /\ DOMAIN world' = SaleWorld
      /\ world'.active = world.active /\ world'.moves = world.moves /\ world'.orders = world.orders
      /\ world'.twice = world.twice /\ world'.switched = world.switched /\ world'.late = world.late
  BY <1>1, <1>2 DEF SaleShape, SaleWorld
<1>5. /\ DOMAIN ui' = SaleUi /\ ui'.buying = TRUE
      /\ ui'.token = ui.token /\ ui'.amount = ui.amount /\ ui'.chain = ui.chain /\ ui'.quote = ui.quote
      /\ ui'.eoa = ui.eoa /\ ui'.client = ui.client /\ ui'.balances = ui.balances
  BY <1>1, <1>2 DEF SaleShape, SaleUi
<1>9. /\ ui'.buying \/ (b.step # "chain" /\ ui'.buying = ui.buying)
      /\ b2.step # "chain" /\ (b2.step = "sign" => b.at =< b2.read)
  BY <1>3, <1>5, Zenon
<1>6. /\ \A c \in calls' : c.kind = "buy" => DOMAIN c = SaleBuy
      /\ \A c \in calls' : c.kind = "buy" =>
              /\ c.at \in Nat /\ c.read \in Nat /\ c.at =< world'.moves
              /\ c.step = "sign" => c.at =< c.read
      /\ PurchaseInv'
      /\ \A c : c.kind # "buy" => (c \in calls' <=> c \in calls)
  BY <1>1, <1>2, <1>3, <1>4, <1>9, BuyGoes
<1>7. SaleShape' /\ FloorInv'
  BY <1>1, <1>4, <1>5, <1>6 DEF SaleShape, FloorInv
<1>8. FormStays /\ ClientStays /\ BalancesStay
  BY <1>4, <1>5, <1>6 DEF FormStays, ClientStays, BalancesStay
<1> QED
  BY <1>6, <1>7, <1>8, FormFrame, ClientFrame, BalancesFrame DEF SaleInv

LEMMA RequotedStep ==
  ASSUME SaleInv, NEW b \in calls, Sale!Requoted(b)
  PROVE  SaleInv'
<1>1. SaleShape /\ PurchaseInv /\ FloorInv
  BY DEF SaleInv
<1>2. /\ b.kind = "buy" /\ b.step = "quote" /\ calls' = (calls \ {b}) \cup {Sale!Floored(b)}
      /\ ui' = ui /\ world' = world
  BY DEF Sale!Requoted, Sale!At, Sale!Goes
<1>3. /\ DOMAIN Sale!Floored(b) = SaleBuy /\ Sale!Floored(b).kind = "buy" /\ Sale!Floored(b).step = "sign"
      /\ Sale!Floored(b).at = b.at /\ Sale!Floored(b).read = world.moves
  BY <1>1, <1>2 DEF SaleShape, SaleBuy, Sale!Floored
<1>4. world.moves \in Nat /\ b.at =< world.moves
  BY <1>1, <1>2 DEF SaleShape, FloorInv
<1>6. /\ \A c \in calls' : c.kind = "buy" => DOMAIN c = SaleBuy
      /\ \A c \in calls' : c.kind = "buy" =>
              /\ c.at \in Nat /\ c.read \in Nat /\ c.at =< world'.moves
              /\ c.step = "sign" => c.at =< c.read
      /\ PurchaseInv'
      /\ \A c : c.kind # "buy" => (c \in calls' <=> c \in calls)
  BY <1>1, <1>2, <1>3, <1>4, BuyGoes
<1>7. SaleShape' /\ FloorInv'
  BY <1>1, <1>2, <1>6 DEF SaleShape, FloorInv
<1>8. FormStays /\ ClientStays /\ BalancesStay
  BY <1>2, <1>6 DEF FormStays, ClientStays, BalancesStay
<1> QED
  BY <1>6, <1>7, <1>8, FormFrame, ClientFrame, BalancesFrame DEF SaleInv

LEMMA SubmittedStep ==
  ASSUME SaleInv, NEW b \in calls, Sale!Submitted(b)
  PROVE  SaleInv'
<1>1. SaleShape /\ PurchaseInv /\ FloorInv
  BY DEF SaleInv
<1> DEFINE b2 == [b EXCEPT !.step = "refresh"]
           o == [at |-> b.at, read |-> b.read]
<1>2. /\ b.kind = "buy" /\ b.step = "sign" /\ calls' = (calls \ {b}) \cup {b2}
      /\ ui' = [ui EXCEPT !.lastTx = b.n]
      /\ world' = [world EXCEPT !.orders = @ \cup {o}]
  BY DEF Sale!Submitted, Sale!At, Sale!Goes
<1>3. /\ DOMAIN b2 = SaleBuy /\ b2.kind = "buy" /\ b2.step = "refresh" /\ b2.at = b.at /\ b2.read = b.read
      /\ b.read \in Nat /\ o.at = b.at /\ o.read = b.read /\ b.at \in Nat /\ b.at =< b.read
  BY <1>1, <1>2 DEF SaleShape, SaleBuy, FloorInv
<1> HIDE DEF b2, o
<1>4. /\ DOMAIN world' = SaleWorld
      /\ world'.active = world.active /\ world'.moves = world.moves
      /\ world'.orders = world.orders \cup {o}
      /\ world'.twice = world.twice /\ world'.switched = world.switched /\ world'.late = world.late
  BY <1>1, <1>2 DEF SaleShape, SaleWorld
<1>5. /\ DOMAIN ui' = SaleUi /\ ui'.buying = ui.buying
      /\ ui'.token = ui.token /\ ui'.amount = ui.amount /\ ui'.chain = ui.chain /\ ui'.quote = ui.quote
      /\ ui'.eoa = ui.eoa /\ ui'.client = ui.client /\ ui'.balances = ui.balances
  BY <1>1, <1>2 DEF SaleShape, SaleUi
<1>6. /\ \A c \in calls' : c.kind = "buy" => DOMAIN c = SaleBuy
      /\ \A c \in calls' : c.kind = "buy" =>
              /\ c.at \in Nat /\ c.read \in Nat /\ c.at =< world'.moves
              /\ c.step = "sign" => c.at =< c.read
      /\ PurchaseInv'
      /\ \A c : c.kind # "buy" => (c \in calls' <=> c \in calls)
  BY <1>1, <1>2, <1>3, <1>4, <1>5, BuyGoes
<1>7. SaleShape' 
  BY <1>1, <1>4, <1>5, <1>6 DEF SaleShape
<1>8. FloorInv'
  <2>1. o.read >= o.at
    BY <1>3
  <2> QED
    BY <1>1, <1>4, <1>6, <2>1 DEF FloorInv
<1>9. FormStays /\ ClientStays /\ BalancesStay
  BY <1>4, <1>5, <1>6 DEF FormStays, ClientStays, BalancesStay
<1> QED
  BY <1>6, <1>7, <1>8, <1>9, FormFrame, ClientFrame, BalancesFrame DEF SaleInv

(* It failed, or what was bought is shown. *)
LEMMA BoughtStep ==
  ASSUME SaleInv, NEW b \in calls, Sale!BuyFailed(b) \/ Sale!Refreshed(b)
  PROVE  SaleInv'
<1>1. SaleShape /\ PurchaseInv
  BY DEF SaleInv
<1> DEFINE l == ui.chain # Sale!Sale
<1>2. /\ b.kind = "buy" /\ b.step # "chain" /\ calls' = calls \ {b}
      /\ \/ ui' = [ui EXCEPT !.buying = FALSE] /\ world' = world
         \/ /\ ui' = [ui EXCEPT !.buying = FALSE, !.balances = b.eoa]
            /\ world' = [world EXCEPT !.late = l]
  BY DEF Sale!BuyFailed, Sale!Refreshed, Sale!At
<1>3. DOMAIN ui' = SaleUi /\ FormStays /\ ui'.buying = FALSE /\ ui'.eoa = ui.eoa /\ ui'.client = ui.client
  BY <1>1, <1>2 DEF SaleShape, SaleUi, FormStays
<1>4. l \in BOOLEAN /\ (l \/ ui.chain = Sale!Sale)
  OBVIOUS
<1> HIDE DEF l
<1>5. (ui'.balances = ui.balances /\ world' = world) \/ world' = [world EXCEPT !.late = l]
  BY <1>1, <1>2 DEF SaleShape, SaleUi
<1>6. /\ DOMAIN world' = SaleWorld
      /\ world'.active = world.active /\ world'.moves = world.moves /\ world'.orders = world.orders
      /\ world'.twice = world.twice /\ world'.switched = world.switched
      /\ world'.late = l \/ (ui'.balances = ui.balances /\ world' = world)
  BY <1>1, <1>5 DEF SaleShape, SaleWorld
<1>7. SaleShape'
  BY <1>1, <1>2, <1>3, <1>4, <1>6 DEF SaleShape
<1>8. PurchaseInv'
  BY <1>1, <1>2, <1>6 DEF PurchaseInv
<1>9. OrdersStay /\ ClientStays
  BY <1>1, <1>2, <1>3, <1>6 DEF SaleShape, OrdersStay, ClientStays
<1>10. LateInv'
  BY <1>3, <1>4, <1>6 DEF SaleInv, LateInv, FormStays
<1> QED
  BY <1>3, <1>7, <1>8, <1>9, <1>10, FormFrame, OrdersFrame, ClientFrame DEF SaleInv

LEMMA SaleStep == SaleInv /\ (Sale!Next \/ UNCHANGED <<ui, calls, world>>) => SaleInv'
<1> SUFFICES ASSUME SaleInv, Sale!Next \/ UNCHANGED <<ui, calls, world>> PROVE SaleInv'
  OBVIOUS
<1>1. CASE UNCHANGED <<ui, calls, world>>
  BY <1>1 DEF SaleInv, SaleShape, QuoteInv, FloorInv, PurchaseInv, ClientInv, LateInv, Sale!Input
<1>2. CASE Sale!Next
  <2>1. ASSUME NEW c \in calls, Sale!Answers(c) PROVE SaleInv'
    BY <2>1, QuotedStep, BalancesStep, DroppedStep, ReboundStep, ConnectingStep, ConnectedStep, ModeStep,
       ChainEnsuredStep, RequotedStep, SubmittedStep, BoughtStep DEF Sale!Answers
  <2> QED
    BY <1>2, <2>1, EditStep, ConnectingStep, HandleBuyStep, WalletStep, NetworkStep DEF Sale!Next
<1> QED
  BY <1>1, <1>2

(* The account that is connected is connected once, as long as the page is    *)
(* there: what is read of it, and bought for it, is of the one that is shown.  *)
BuyerInv ==
  /\ ui.balances \in {None, ui.eoa}
  /\ \A c \in calls : c.kind = "balances" => c.of = ui.eoa /\ ui.eoa # None
  /\ \A c \in calls : c.kind = "buy" => c.eoa = ui.eoa /\ ui.eoa # None
  /\ \A c \in calls : c.kind \in {"connect", "ensure"} => ui.eoa = None
  /\ \A c \in calls : c.kind \in {"connect", "ensure", "eth"} => ui.connecting
  /\ \A c, d \in calls : {c.kind, d.kind} \subseteq {"connect", "ensure", "eth"} => c = d

LEMMA BuyerInit == Sale!Init => BuyerInv
BY DEF Sale!Init, BuyerInv

(* Most steps answer no call of the account. *)
LEMMA BuyerFrame ==
  ASSUME BuyerInv, ui'.eoa = ui.eoa, ui'.connecting = ui.connecting,
         ui'.balances \in {None, ui.balances, ui.eoa},
         \A c \in calls' : c.kind \in {"connect", "ensure", "eth"} => c \in calls,
         \A c \in calls' : c.kind = "balances" => c \in calls \/ (c.of = ui.eoa /\ ui.eoa # None),
         \A c \in calls' : c.kind = "buy" =>
           \/ \E d \in calls : d.kind = "buy" /\ c.eoa = d.eoa
           \/ c.eoa = ui.eoa /\ ui.eoa # None
  PROVE  BuyerInv'
BY DEF BuyerInv

LEMMA BuyerQuiet ==
  ASSUME SaleShape, BuyerInv,
         \/ Sale!Edit \/ Sale!WalletChanged \/ Sale!PriceMoves
         \/ \E c \in calls : \/ Sale!Quoted(c) \/ Sale!QuoteFailed(c) \/ Sale!BalancesShown(c)
                             \/ Sale!BalancesFailed(c) \/ Sale!Rebound(c) \/ Sale!RebindFailed(c)
                             \/ Sale!ChainRefused(c) \/ Sale!BuyFailed(c) \/ Sale!Refreshed(c)
  PROVE  BuyerInv'
<1>1. ui'.eoa = ui.eoa /\ ui'.connecting = ui.connecting /\ ui'.balances \in {None, ui.balances, ui.eoa}
  <2>1. ASSUME NEW u, DOMAIN u = SaleUi, Sale!Entered(u),
               u.eoa = ui.eoa, u.connecting = ui.connecting, u.balances = ui.balances
        PROVE  ui'.eoa = ui.eoa /\ ui'.connecting = ui.connecting /\ ui'.balances = ui.balances
    BY <2>1 DEF Sale!Entered, SaleUi
  <2>2. CASE Sale!Edit
    <3>1. CASE \E t \in Sale!Token : Sale!Entered([ui EXCEPT !.token = t])
      <4>1. PICK t \in Sale!Token : Sale!Entered([ui EXCEPT !.token = t])
        BY <3>1
      <4> QED
        BY <2>1, <4>1 DEF SaleShape, SaleUi
    <3>2. CASE \E a \in {0, 2} : Sale!Entered([ui EXCEPT !.amount = a])
      <4>1. PICK a \in {0, 2} : Sale!Entered([ui EXCEPT !.amount = a])
        BY <3>2
      <4> QED
        BY <2>1, <4>1 DEF SaleShape, SaleUi
    <3>3. CASE \E m : ui' = Sale!Moded(ui, m)
      BY <3>3 DEF SaleShape, SaleUi, Sale!Moded
    <3>4. CASE \E q : ui' = [ui EXCEPT !.pay = q]
      BY <3>4 DEF SaleShape, SaleUi
    <3>5. CASE \E q : ui' = [ui EXCEPT !.recipient = q]
      BY <3>5 DEF SaleShape, SaleUi
    <3> QED
      BY <2>2, <3>1, <3>2, <3>3, <3>4, <3>5 DEF Sale!Edit
  <2>3. CASE Sale!WalletChanged \/ Sale!PriceMoves
    BY <2>3 DEF Sale!WalletChanged, Sale!PriceMoves
  <2>4. ASSUME NEW c \in calls, Sale!Quoted(c) \/ Sale!QuoteFailed(c) \/ Sale!Rebound(c)
        PROVE  ui'.eoa = ui.eoa /\ ui'.connecting = ui.connecting /\ ui'.balances = ui.balances
    BY <2>4 DEF SaleShape, SaleUi, Sale!Quoted, Sale!QuoteFailed, Sale!Rebound
  <2>5. ASSUME NEW c \in calls, \/ Sale!BalancesShown(c) \/ Sale!BalancesFailed(c) \/ Sale!RebindFailed(c)
                                \/ Sale!ChainRefused(c) \/ Sale!BuyFailed(c) \/ Sale!Refreshed(c)
        PROVE  /\ ui'.eoa = ui.eoa /\ ui'.connecting = ui.connecting
               /\ ui'.balances \in {None, ui.balances, ui.eoa}
    <3>1. CASE Sale!BalancesShown(c)
      <4>1. c.of = ui.eoa
        BY <3>1 DEF Sale!BalancesShown, BuyerInv
      <4> QED
        BY <3>1, <4>1 DEF Sale!BalancesShown, SaleShape, SaleUi
    <3>2. CASE Sale!Refreshed(c)
      <4>1. c.eoa = ui.eoa
        BY <3>2 DEF Sale!Refreshed, Sale!At, BuyerInv
      <4>2. ui' = [ui EXCEPT !.buying = FALSE] \/ ui' = [ui EXCEPT !.buying = FALSE, !.balances = c.eoa]
        BY <3>2 DEF Sale!Refreshed
      <4> QED
        BY <4>1, <4>2 DEF SaleShape, SaleUi
    <3>3. CASE Sale!BalancesFailed(c) \/ Sale!RebindFailed(c) \/ Sale!ChainRefused(c)
      BY <3>3 DEF Sale!BalancesFailed, Sale!RebindFailed, Sale!ChainRefused
    <3>4. CASE Sale!BuyFailed(c)
      BY <3>4 DEF Sale!BuyFailed, SaleShape, SaleUi
    <3> QED
      BY <2>5, <3>1, <3>2, <3>3, <3>4
  <2> QED
    BY <2>2, <2>3, <2>4, <2>5
<1>2. \A c \in calls' : c.kind # "quote" => c \in calls
  <2>1. ASSUME NEW u, Sale!Entered(u) PROVE \A c \in calls' : c.kind # "quote" => c \in calls
    BY <2>1 DEF Sale!Entered, Sale!Quoting
  <2>2. CASE Sale!Edit
    BY <2>1, <2>2 DEF Sale!Edit
  <2> QED
    BY <2>2
    DEF Sale!WalletChanged, Sale!PriceMoves, Sale!Quoted, Sale!QuoteFailed, Sale!BalancesShown,
        Sale!BalancesFailed, Sale!Rebound, Sale!RebindFailed, Sale!ChainRefused, Sale!BuyFailed, Sale!Refreshed
<1> QED
  BY <1>1, <1>2, BuyerFrame

LEMMA BuyerNetwork ==
  ASSUME SaleShape, BuyerInv, NEW id \in Sale!Chain, Sale!HandleSelectNetwork(id)
  PROVE  BuyerInv'
<1> DEFINE u == [ui EXCEPT !.chain = id, !.quote = None]
<1>1. /\ ui' = Sale!Reloaded(u)
      /\ calls' = Sale!Quoting(u) \cup Sale!Balances(u)
                    \cup (IF ui.eoa # None THEN {[kind |-> "rebind", chain |-> id]} ELSE {})
  BY DEF Sale!HandleSelectNetwork
<1>2. /\ DOMAIN u = SaleUi /\ u.eoa = ui.eoa /\ u.connecting = ui.connecting /\ u.balances = ui.balances
  BY DEF SaleShape, SaleUi
<1> HIDE DEF u
<1>3. ui'.eoa = ui.eoa /\ ui'.connecting = ui.connecting /\ ui'.balances \in {None, ui.balances}
  BY <1>1, <1>2, ReloadedPage
<1>4. \A c \in calls' : \/ c \in calls \/ c.kind \in {"quote", "rebind"}
                        \/ c.kind = "balances" /\ c.of = ui.eoa /\ ui.eoa # None
  BY <1>1, <1>2, BalancesKind, BalancesOf DEF Sale!Quoting
<1> QED
  BY <1>3, <1>4, BuyerFrame

(* The account is asked for once, and taken once. *)
LEMMA BuyerConnects ==
  ASSUME SaleShape, BuyerInv, Sale!HandleConnect \/ \E c \in calls : Sale!Accepted(c)
  PROVE  BuyerInv'
<1>1. CASE Sale!HandleConnect
  <2>1. /\ ui'.eoa = ui.eoa /\ ui'.balances = ui.balances /\ ui'.connecting /\ ui.eoa = None /\ ~ui.connecting
        /\ \A d \in calls' : d \in calls \/ d = [kind |-> "connect", chain |-> ui.chain]
    BY <1>1 DEF Sale!HandleConnect, SaleShape, SaleUi
  <2>2. \A d \in calls : d.kind \notin {"connect", "ensure", "eth"}
    BY <2>1 DEF BuyerInv
  <2> QED
    BY <2>1, <2>2 DEF BuyerInv
<1>2. CASE \E c \in calls : Sale!Accepted(c)
  <2>1. PICK c \in calls : Sale!Accepted(c)
    BY <1>2
  <2> DEFINE e == [kind |-> "ensure", client |-> Sale!Client(c.chain)]
  <2>2. c.kind = "connect" /\ calls' = (calls \ {c}) \cup {e} /\ ui' = ui /\ e.kind = "ensure"
    BY <2>1 DEF Sale!Accepted
  <2> HIDE DEF e
  <2>3. \A d \in calls \ {c} : d.kind \notin {"connect", "ensure", "eth"}
    BY <2>2 DEF BuyerInv
  <2> QED
    BY <2>2, <2>3 DEF BuyerInv
<1> QED
  BY <1>1, <1>2

LEMMA BuyerTaken ==
  ASSUME SaleShape, BuyerInv, NEW c \in calls, Sale!Connected(c)
  PROVE  BuyerInv'
<1> DEFINE u == [ui EXCEPT !.eoa = c.client.account, !.client = c.client]
<1>1. /\ c.kind = "ensure" /\ ui' = Sale!Reloaded(u)
      /\ calls' = (calls \ {c}) \cup Sale!Balances(u) \cup {[kind |-> "eth"]}
  BY DEF Sale!Connected
<1>2. /\ DOMAIN u = SaleUi /\ u.connecting = ui.connecting /\ u.balances = ui.balances
  BY DEF SaleShape, SaleUi
<1> HIDE DEF u
<1>3. ui'.eoa = u.eoa /\ ui'.connecting = ui.connecting /\ ui'.balances \in {None, ui.balances}
  BY <1>1, <1>2, ReloadedPage
<1>4. ui.eoa = None /\ ui.balances = None /\ ui.connecting
  BY <1>1 DEF BuyerInv
<1>5. \A d \in calls : d.kind \notin {"balances", "buy"}
  BY <1>4 DEF BuyerInv
<1>6. \A d \in calls \ {c} : d.kind \notin {"connect", "ensure", "eth"}
  BY <1>1 DEF BuyerInv
<1>7. \A d \in calls' : \/ d \in calls \ {c} \/ d = [kind |-> "eth"]
                        \/ d.kind = "balances" /\ d.of = u.eoa /\ u.eoa # None
  BY <1>1, BalancesKind, BalancesOf
<1> QED
  BY <1>3, <1>4, <1>5, <1>6, <1>7 DEF BuyerInv

LEMMA BuyerDone ==
  ASSUME SaleShape, BuyerInv, NEW c \in calls, Sale!NotConnected(c) \/ Sale!ModeByBalance(c)
  PROVE  BuyerInv'
<1>1. /\ c.kind \in {"connect", "ensure", "eth"} /\ calls' = calls \ {c}
      /\ ui'.eoa = ui.eoa /\ ui'.balances = ui.balances /\ ui'.connecting = FALSE
  BY DEF SaleShape, SaleUi, Sale!NotConnected, Sale!ModeByBalance, Sale!Moded
<1>2. \A d \in calls' : d.kind \notin {"connect", "ensure", "eth"}
  BY <1>1 DEF BuyerInv
<1> QED
  BY <1>1, <1>2 DEF BuyerInv

LEMMA BuyerBuys ==
  ASSUME SaleShape, BuyerInv,
         Sale!HandleBuy \/ \E b \in calls : Sale!ChainEnsured(b) \/ Sale!Requoted(b) \/ Sale!Submitted(b)
  PROVE  BuyerInv'
<1>1. CASE Sale!HandleBuy
  <2> DEFINE b == [kind |-> "buy", n |-> world.buys + 1, step |-> "chain", token |-> ui.token,
                   amount |-> ui.amount, mode |-> ui.mode, pay |-> ui.pay, to |-> Sale!To,
                   client |-> ui.client, eoa |-> ui.eoa, at |-> world.moves, read |-> 0, floor |-> 0]
  <2>1. calls' = calls \cup {b} /\ ui' = ui /\ ui.eoa # None /\ b.kind = "buy" /\ b.eoa = ui.eoa
    BY <1>1 DEF Sale!HandleBuy, Sale!Buyable
  <2> HIDE DEF b
  <2> QED
    BY <2>1, BuyerFrame
<1>2. CASE \E b \in calls : Sale!ChainEnsured(b) \/ Sale!Requoted(b) \/ Sale!Submitted(b)
  <2>1. PICK b \in calls : Sale!ChainEnsured(b) \/ Sale!Requoted(b) \/ Sale!Submitted(b)
    BY <1>2
  <2>2. b.kind = "buy" /\ DOMAIN b = SaleBuy
    BY <2>1 DEF Sale!ChainEnsured, Sale!Requoted, Sale!Submitted, Sale!At, SaleShape
  <2>3. ui'.eoa = ui.eoa /\ ui'.connecting = ui.connecting /\ ui'.balances = ui.balances
    BY <2>1 DEF Sale!ChainEnsured, Sale!Requoted, Sale!Submitted, SaleShape, SaleUi
  <2>4. \E b2 : calls' = (calls \ {b}) \cup {b2} /\ b2.kind = "buy" /\ b2.eoa = b.eoa
    <3>1. CASE Sale!ChainEnsured(b)
      <4> DEFINE b2 == [b EXCEPT !.step = "quote"]
      <4>1. calls' = (calls \ {b}) \cup {b2} /\ b2.kind = "buy" /\ b2.eoa = b.eoa
        BY <2>2, <3>1 DEF Sale!ChainEnsured, Sale!Goes, SaleBuy
      <4> QED
        BY <4>1
    <3>2. CASE Sale!Requoted(b)
      <4>1. /\ calls' = (calls \ {b}) \cup {Sale!Floored(b)}
            /\ Sale!Floored(b).kind = "buy" /\ Sale!Floored(b).eoa = b.eoa
        BY <2>2, <3>2 DEF Sale!Requoted, Sale!Goes, Sale!Floored, SaleBuy
      <4> QED
        BY <4>1
    <3>3. CASE Sale!Submitted(b)
      <4> DEFINE b2 == [b EXCEPT !.step = "refresh"]
      <4>1. calls' = (calls \ {b}) \cup {b2} /\ b2.kind = "buy" /\ b2.eoa = b.eoa
        BY <2>2, <3>3 DEF Sale!Submitted, Sale!Goes, SaleBuy
      <4> QED
        BY <4>1
    <3> QED
      BY <2>1, <3>1, <3>2, <3>3
  <2> QED
    BY <2>2, <2>3, <2>4, BuyerFrame
<1> QED
  BY <1>1, <1>2

LEMMA BuyerStep ==
  SaleShape /\ BuyerInv /\ (Sale!Next \/ UNCHANGED <<ui, calls, world>>) => BuyerInv'
<1> SUFFICES ASSUME SaleShape, BuyerInv, Sale!Next \/ UNCHANGED <<ui, calls, world>> PROVE BuyerInv'
  OBVIOUS
<1>1. CASE UNCHANGED <<ui, calls, world>>
  BY <1>1 DEF BuyerInv
<1>2. CASE Sale!Next
  <2>1. ASSUME NEW c \in calls, Sale!Answers(c) PROVE BuyerInv'
    BY <2>1, BuyerQuiet, BuyerConnects, BuyerTaken, BuyerDone, BuyerBuys DEF Sale!Answers
  <2> QED
    BY <1>2, <2>1, BuyerQuiet, BuyerNetwork, BuyerConnects, BuyerBuys DEF Sale!Next
<1> QED
  BY <1>1, <1>2

LEMMA SaleHolds ==
  ASSUME SaleInv, BuyerInv
  PROVE  /\ Sale!QuoteIsOfForm /\ Sale!FloorIsFresh /\ Sale!OnePurchase /\ Sale!SignerIsEoa
         /\ Sale!BalancesOfSale
<1>1. Sale!QuoteIsOfForm
  BY DEF SaleInv, QuoteInv, Sale!QuoteIsOfForm
<1>2. Sale!FloorIsFresh
  BY DEF SaleInv, FloorInv, Sale!FloorIsFresh
<1>3. Sale!OnePurchase
  BY DEF SaleInv, PurchaseInv, Sale!OnePurchase, Sale!Buys
<1>4. Sale!SignerIsEoa
  BY DEF SaleInv, ClientInv, Sale!SignerIsEoa
<1>5. Sale!BalancesOfSale
  BY DEF SaleInv, LateInv, BuyerInv, Sale!BalancesOfSale
<1> QED
  BY <1>1, <1>2, <1>3, <1>4, <1>5

-----------------------------------------------------------------------------
(* The pages together: a behaviour is of one of them.                        *)
OperatorInv ==
  /\ part = "console" => ConsoleInv
  /\ part = "govern" => GovernInv
  /\ part = "wizard" => WizardInv
  /\ part = "sale" => SaleInv /\ BuyerInv

LEMMA OperatorInit == Init => OperatorInv
<1> SUFFICES ASSUME Init PROVE OperatorInv
  OBVIOUS
<1>1. CASE part = "console" /\ Console!Init
  BY <1>1, ConsoleInit DEF OperatorInv
<1>2. CASE part = "govern" /\ Govern!Init
  BY <1>2, GovernInit DEF OperatorInv
<1>3. CASE part = "wizard" /\ Wizard!Init
  BY <1>3, WizardInit DEF OperatorInv
<1>4. CASE part = "sale" /\ Sale!Init
  BY <1>4, SaleInit, BuyerInit DEF OperatorInv
<1> QED
  BY <1>1, <1>2, <1>3, <1>4 DEF Init

LEMMA OperatorStep == OperatorInv /\ [Next]_vars => OperatorInv'
<1> SUFFICES ASSUME OperatorInv, [Next]_vars PROVE OperatorInv'
  OBVIOUS
<1>1. CASE UNCHANGED vars
  <2>1. part' = part /\ UNCHANGED <<ui, calls, world>>
    BY <1>1 DEF vars
  <2> QED
    BY <2>1, ConsoleStep, GovernStep, WizardStep, SaleStep, BuyerStep DEF OperatorInv, SaleInv
<1>2. CASE Of("console") /\ Console!Next
  BY <1>2, ConsoleStep DEF OperatorInv, Of
<1>3. CASE Of("govern") /\ Govern!Next
  BY <1>3, GovernStep DEF OperatorInv, Of
<1>4. CASE Of("wizard") /\ Wizard!Next
  BY <1>4, WizardStep DEF OperatorInv, Of
<1>5. CASE Of("sale") /\ Sale!Next
  BY <1>5, SaleStep, BuyerStep DEF OperatorInv, SaleInv, Of
<1> QED
  BY <1>1, <1>2, <1>3, <1>4, <1>5 DEF Next

(* The invariants of the four pages hold in every state that is reached.      *)
THEOREM PagesKeep == Spec => []OperatorInv
<1> QED
  BY OperatorInit, OperatorStep, PTL DEF Spec

(* What the console and the sale show, for any number of switches and       *)
(* loads: the console's contracts are of the operator it names unless the   *)
(* load that succeeded last since the operator changed was begun for        *)
(* another one, a connection is never of a prompt from before a disconnect, *)
(* the sale's quote is of the form as it stands.                            *)
THEOREM ShownOfWallet == Spec => []WalletIsShown
<1>1. OperatorInv => WalletIsShown
  BY ConsoleHolds, SaleHolds DEF OperatorInv, WalletIsShown
<1> QED
  BY <1>1, PagesKeep, PTL

(* Who signs is who the page shows while the wallet's account was not       *)
(* changed; a write of a page is in flight once unless another of the page  *)
(* was in flight with it; the salt of a change that waits is kept unless a  *)
(* second execution of it was sent around a schedule; the wizard is past a  *)
(* step only when it is done unless the operator, mode or wizard changed    *)
(* with requests about; a purchase is made once unless it was clicked again *)
(* before the wallet had told its chain, at a floor that was read after the *)
(* click.                                                                   *)
THEOREM SentOfShown == Spec => []SentByShown
<1>1. OperatorInv => SentByShown
  BY ConsoleHolds, GovernHolds, WizardHolds, SaleHolds DEF OperatorInv, SentByShown
<1> QED
  BY <1>1, PagesKeep, PTL

(* What is offered: an execution only of a change that waits, is not        *)
(* executed, and whose salt the browser has - at rest the one that is       *)
(* entered, unless the answer that came last was about another; a step of   *)
(* the wizard only while it is undone, unless its own check failed or its   *)
(* receipt was lost, or the operator, mode or wizard changed with requests  *)
(* about; a purchase with balances of the account that is connected, on a   *)
(* network of the sale unless an answer came since the network was chosen.  *)
THEOREM OfferedOpen == Spec => []OfferedIsOpen
<1>1. OperatorInv => OfferedIsOpen
  BY GovernHolds, WizardHolds, SaleHolds DEF OperatorInv, OfferedIsOpen
<1> QED
  BY <1>1, PagesKeep, PTL
=============================================================================
