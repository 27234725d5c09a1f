# Verification of Cos72

TLA+ models, TLC runs and TLAPS proofs for Cos72, the community application of
this repository: a NestJS backend (`aastar/`), a Next.js front end
(`aastar-frontend/`) and a server-side contribution to the AAStar SDK (`sdk/`).
`PROJECT.json` lists the components, the runs, the mutants that show each checked
property can fail, the source lines behind every definition, the hazards and the
theorems.

## 1. The system

Backend (`aastar/src`):

| Part | Keeps | Does | Hard because |
|---|---|---|---|
| Event indexer (`indexer/`) | cursor and recorded block hashes per source, the indexed events, poll-loop state (backoff, disabled sources, metrics) | polls an RPC node, detects reorganisations, rescans a lookback window, commits chunk by chunk | the chain changes between any two awaits, nodes lag and miss logs, writes crash half way |
| Indexer persistence (`indexer/persistence/`) | two JSON files, or two Postgres tables | transactions, corruption detection | the JSON flush is two renames |
| MyTask index (`mytask-index/`) | nothing of its own | drains the event index page by page into a task view | the indexer writes between two pages |
| Guardians and recovery (`guardian/`) | guardians and recovery requests of each account | add, revoke, initiate, support, execute (after a delay), cancel; prepare and relay a passkey guardian's recovery | requests interleave at the awaits; the chain and the database change separately |
| Database (`database/`) | users, accounts, transfers, ... | read-modify-write of whole JSON files, or Postgres | no lock between read and write |
| Authentication (`auth/`) | one-time codes, login challenges, users | e-mail code login, passkey/KMS login, linking of wallets | codes and challenges are read before an await and deleted after |
| SSO (`sso/`) | one-time authorization codes | authorize, exchange | single use, expiry, eviction at a cap |
| Rate limiters (`auth/guards`, `sso/guards`) | hits per key in a sliding window | allow or reject, evict at a cap | eviction can forget a caller |
| Accounts, transfers (`account/`, `transfer/`, `userop/`) | account and transfer records | build, sign, submit, track | polling a bundler, late results |
| Address book, user tokens, user NFTs, saved paymasters | a JSON file or rows per user | read-modify-write around awaits | lost updates, duplicates |
| Data tools (`data-tools/`) | the data directory | export, import next to a backup | a failed import must restore, a crash does not |
| Community, operator, registry, sale, token, admin | nothing | thin calls of contracts | - |
| KMS, BLS, e-mail, Ethereum | - | clients of outside services | - |

Front end (`aastar-frontend`):

| Part | Keeps | Does | Hard because |
|---|---|---|---|
| Send page (`app/transfer`) | form, judged tier, one transfer and its poll timer | prepare, passkey, guardian, submit, confirm at a DVT node, poll | answers of an earlier amount or transfer; a node that withholds its signature |
| Tasks (`app/tasks`, `contexts/TaskContext`) | the task, lists, jury panel | sponsored operations to the escrow and jury contracts | several users act on a task each has read earlier; `cosSend` may give up on an operation that lands |
| Session and dashboard (`contexts/`, `app/dashboard`) | login, cache, account, history, balances | load, refresh, 401, logout | loads that outlive the login they were made with |
| Accounts (`CreateAccountDialog`, `app/guardian-sign`) | wizard steps, guardians' signatures or passkeys | prepare, collect, create | the dialog is closed and opened again while requests are out |
| Recovery (`app/recovery`, `PasskeyRecoveryCard`) | wizard step | three people log in one after the other | calls served whose answer is lost |
| Sign-in (`app/auth`) | a code, a passkey set-up | log in, register, provision a wallet | two tabs, one mail address |
| Operator (`app/operator`, `contexts/WalletContext`, `lib/resources`) | connected wallet, drafts, resource cache | read and write contracts of the operator, scheduled governance, onboarding in eight steps | the wallet's account changes at any time; cached answers |
| Launch sale, tier limits, guard (`app/tokens`, `app/tier-raise`, `app/guard`) | form, quote or signatures | buy; collect two guardians' signatures and submit | what is signed must be what is shown |
| Address book, NFTs, tokens, paymasters, data tools (pages) | the list shown | edit lists of the services above | a load started before a change ends after it |

The pieces meet at few places: `MyTaskIndexService` registers a source with
`IndexerService` and reads it through `queryEvents`; `GuardianService`,
`AccountService`, `AuthService` and `TransferService` share `DatabaseService`;
the SSO service reads `AccountService`; the pages call all of them over HTTP with
the token that is in `localStorage` when the request is made; `TaskContext` and
the operator's pages talk to contracts without the backend.

What each part must guarantee, and where it is stated:

- **Event indexer, one source** (`EventIndexer`). A log is stored once; a stored
  event can always be recognised as an orphan later (a hash is recorded at its
  height); a finished round leaves exactly the canonical logs; logs a node forgot
  to return are found later; only orphans are deleted; the store catches up once
  the chain and the faults rest.
- **Poll loop** (`PollLoop`). The error state shown agrees with the rounds that
  failed; a corrupt store is left alone; a failing source starves no other; a
  shutdown ends.
- **MyTask index** (`MyTaskIndex`). An answer leaves no gap while the index grows
  and is complete while it rests; one that says it was cut short was cut at the
  cap; a recent list is the newest prefix.
- **Recovery** (`Recovery`). A request is only executed with its quorum and after
  its time lock; a quorum reached is not lost; an execution recorded happened.
- **Codes and challenges** (`OtpLogin`, `KmsLogin`, `SsoCodes`). Used once; guessed
  a bounded number of times; in bounded memory; not dropped while alive without
  need.
- **Rate limits** (`RateLimit`). No window lets more through than the limit;
  `Retry-After` is honest.
- **Persistence** (`JsonStore`). Each adapter is the row store (`RowStore`) the
  services take it for, as far as no two writers of a table overlap.
- **Pages.** What is shown is of what the page is about now; what is sent is what
  was shown; what is offered is accepted; what the user did is done once and is
  seen; what an action sets out to replace is kept until it succeeds; buttons come
  back.

## 2. Modules

| Module | Models | Checked through |
|---|---|---|
| `EventIndexer` | `pollSource` and both stores, over the chain as `getBlockNumber`, `getBlock`, `getLogs` show it (environment) | `MCEventIndexer` |
| `PollLoop` | `pollTick`, `pollOnce`, `doPoll`, shutdown, metrics | `Services`, `MCLiveness` |
| `MyTaskIndex` | `getRecentChallenges`, `getChallengesByTaskId` over `queryEvents` | `Services` |
| `Recovery` | `GuardianService` over the Postgres adapter and the account contract | itself |
| `OtpLogin` | `requestOtp`, `verifyOtp`, `cleanupExpiredChallenges` | `Services` |
| `KmsLogin` | `generateLoginChallenge`, `verifyKmsLogin`, `linkWallet` | `Services` |
| `SsoCodes` | `SsoService` | itself |
| `RateLimit` | both rate limit guards | `Services` |
| `Filters` | `Array.filter`, which the limiter, the poll loop and the task index use | with them |
| `Services` | `OtpLogin`, `RateLimit`, `KmsLogin`, `MyTaskIndex`, `PollLoop` side by side | itself |
| `RowStore` | abstract: what services take the persistence layer for | `JsonStore` (refinement) |
| `JsonStore` | one table on each adapter: file, Postgres table, Postgres document | itself |
| `Transfer`, `TransferForm` | the send page with `TransferService`; its form | `Pages`, `MCLiveness` |
| `TaskPage`, `TaskCreate`, `TaskLists`, `JuryPage` | tasks over `TaskContext` and `cosSend` | `Pages`, `MCLiveness` |
| `Dashboard` | session, cache and dashboard of one tab | `Pages` |
| `CreateAccount`, `GuardianSign` | the account dialog with `AccountService`; the guardian's page | `Pages`, `MCLiveness` |
| `RecoveryPage`, `PasskeyRecovery` | the recovery wizard; the passkey guardian's card, both with `GuardianService` | `Pages`, `MCLiveness` |
| `SignIn` | login and registration pages with `AuthService` and the KMS | `Pages` |
| `UserTokens`, `UserNFTs`, `AddressBook`, `Paymasters` | a service's file or rows and the page (or selector) over it | `Pages` |
| `TierRaise` | the page that raises tier limits, over the account contract | `Pages` |
| `DataTools` | export and import of the data directory, with its page | `Pages` |
| `Manage` | the operator's wallet and the management pages over it | `Operator` |
| `Governance`, `DeployWizard`, `TokenSale` | slash governance; onboarding; the launch sale | `Operator` |
| `Operator` | those pages side by side | itself |
| `Pages` | the pages that are checked through it, side by side | itself |
| `MCEventIndexer`, `MCLiveness` | instances for TLC | the runs |
| `EventIndexerProofs`, `RecoveryProofs`, `ServicesProofs`, `SsoCodesProofs`, `JsonStoreProofs`, `OperatorProofs`, `PagesProofs` | theorems about the module of that name; `ServicesProofs` about all five services (and the lemmas about `Filters` they need), `OperatorProofs` about its four pages, `PagesProofs` about the eighteen page modules of `Pages` | TLAPS |
| `ChainPagesProofs` | the lemmas about the eleven pages that sign or send, which `PagesProofs` extends with the other seven | TLAPS |

Node and the browser run one step of JavaScript at a time, up to the next `await`;
so an action is the code between two awaits, and every other action may come
between. Where the code has no await (`exchange`, the rate limiters, the address
book) the whole handler is one action. Operators with a comment that begins "Bug:"
are altered copies of the definition after them. No specification uses them;
`PROJECT.json` lists each with the property that catches it.

### EventIndexer

A block is the number of the fork that produced it and its logs of the indexed
contract; hashes are only compared at one height, so the fork number is the hash.
`Mine` adds a block, `Reorg` replaces the newest ones by as many of a new fork,
with the dropped logs anywhere or nowhere in it.

`pc` is the await a round is at:

| `pc` | Waits for | Actions that leave it |
|---|---|---|
| `idle` | the timer | `BeginRound` (`getBlockNumber`) |
| `tip` | `getBlock(latest)` | `FetchTip` |
| `load` | `getState` | `LoadState`, `StopBeforeSource` |
| `detect` | the block at the highest height not compared yet | `HashDiffers`, `StartScan`, `NothingToScan` |
| `chunk` | nothing: the head of the chunk loop | `StartChunk`, `FinishRound`, `StopBetweenChunks` |
| `logs` | `getLogs` | `GetLogs`, `SplitRange` |
| `commit` | the transaction | `CommitChunk` (Postgres), `FlushEvents` (JSON) |
| `flush` | the rename of the state file (JSON) | `FlushState` |

`Fault` ends a round at any await with what is stored so far: an RPC call that
fails for good, a write that fails, or a crash. `state` is the round's copy of
the saved state, `reorg` the `lowestMismatch`, `unchecked` the heights
`detectReorg` has yet to look at. `MaxLag` lets a node report a head behind the
chain, `MissDepth` lets `getLogs` miss logs of the newest blocks.

### PollLoop

`polling` is the mutual exclusion, `queue` the sources the round has still to poll,
`skip` the timer ticks until `backoffUntil`, the rest are the service's fields of
the same names. A source's turn is one step with three outcomes: `SourceSucceeds`,
`SourceFails`, `SourceCorrupt`; the last two may have committed some chunks.

### MyTaskIndex

`index` is the table in the order `getEvents` sorts by. `StoreEvent` puts an event
at the top or a little below it (a log that was missed before), `DropOrphans`
removes the newest. `reader` is one call: a page and a count are read in either
order (`Promise.all`), `Gather` is the loop's body. `start` remembers the index
when the call began.

### Recovery

`calls` holds for each API call in flight the step it is at and what it has read:
the row found (`ref`; for a request to be saved its `executeAfter`), the caller
(`who`), the list of supporters (`seen`), the new signer (`new`). A call that
throws goes back to `idle`. `chain` is the account contract: its owner, the owner
proposed to it, and whether its own quorum and delay are over; the guardians'
wallets move it without the backend. `FirstMatch` selects whether a find with
several matching rows answers the oldest (the JSON file) or any (the table).

### OtpLogin, KmsLogin, SsoCodes, RateLimit

`OtpLogin` is one address: `otp` the entry of `otpStore`, `users` how many rows
have the address, `calls` the verifications that are past the code and at a
database await. `UniqueEmail` is the unique constraint of the entity.
`KmsLogin` keeps one challenge per wallet; a verification reads it, waits for the
KMS, and then drops whatever is there (`CleanedUp`). `SsoCodes` numbers codes as
they are minted, which is the order of the keys of the map. `RateLimit` keeps the
map as a sequence in the order of insertion; a value set again stays where its key
was inserted, as in JavaScript.

### RowStore and JsonStore

`RowStore` is the table as the services see it: a call that is the only writer
from its beginning to its end, is not rejected and did not fail to read takes effect
exactly as asked and a find answers what is there; of overlapping writers nothing is
promised but that they leave a
table. `JsonStore` has the steps of each adapter (`adapter`): the file is read
whole, truncated, and written whole; a Postgres table is served by statements;
the rows that are one document (transfers) are selected, merged and put back.
`torn` is a file between truncation and writing, which `readJSON` takes for an
empty table, as it does one that stays torn and any other file it cannot read (`ReadFails`, which
notes in the call that it has `misread`: every error of `readFile` is caught, not
only that of an unparsable file). A write may be rejected before it touches the file
(`OpenRejects`) or after it was truncated (`WriteRejects`, the process going on with
a file that reads as empty), and a statement before or after it was served (`StatementRejects`).
`Store` maps it to `RowStore`: `rows` is itself, `exact` is "the adapter is a
Postgres table", a call is shown without its step and copy, but with whether it
misread and whether it was rejected.

The row store of the services is therefore weaker than they take it for, and says so:
a call that misread is served as from an empty table, so that a save that nobody
overlaps leaves its own row alone, an update finds nothing to update and leaves the
table, and a find answers nothing; a rejected write of a file may have emptied it; a
rejected statement was served or not. The same swallowed read and torn write are in
the services that keep files of their own, and in their models: `UserTokens`
(`Unreadable`, `Readable`), `UserNFTs` (`Fails`, `Tears`, reads that answer none),
`AddressBook` (`Read`, `Misread`, `Torn`), `Paymasters` (`Read`, `Stored`, `Torn`).

### Pages

Every page module has the variables `ui` (the state of the component), `calls`
(the requests and operations in flight, each a record with what it was made with)
and `world` (the backend, the contracts, the wallet, other users). A handler is an
action up to its first await, which adds a call; an answer is an action that takes
a call, changes `world` or `ui` and removes it; a failure is an action of its own.
A request that is slow is one whose answer action comes late, so all reorderings
are behaviours.

Some fields are history and exist for the properties only. What they remember:

- loads: `crossed` (one began before and ended after a change), `excused` (one failed,
  and the page was told nothing), `late` (an answer of what was asked before), `foreign`
  (in `Manage`: the load that succeeded last was begun for another operator),
  `sure` (the load begun last ended last and was answered; in `JuryPage` and
  `Dashboard`, nothing came in between), `atVisit`, `left`;
- files: `overlapped` (others wrote around an addition), `misread`, `lost`, `loose`
  (what was saved is lost, or a default is of something else), `dirty` (others wrote
  during an import);
- what was sent: `hasty`, `unsure`, `stray`, `switched`, `twice`, `overlap`, `again`,
  `mixed`, `missed`, `both`, `foreign` (elsewhere: someone else acted), `edited`, `cut`.

Where the code has a step that puts right what a field remembers (a load in order, a
new network, a check that looks again, a new operator), that step resets the field,
so that one crossing does not silence a property for the rest of a behaviour.
Where a property excludes a case by such a field, the code really has that case and
the property does not hold in it; the exclusion is stated in the property's comment,
and section 5 lists all of them.

Contracts are environment: what they accept and change is taken from how the page,
its context and the ABIs in the front end use them, and marked external in the map.
`cosSend` (`lib/sdk/cosTx`) appears as its outcomes: dropped, landed, reverted, or
given up while the operation may still land.

`Pages` has a variable `part` that says which page a behaviour is of, and gives each
page the constants it declares. `TaskOf(workers, lost)` is `TaskPage` with these
workers and this many operations that may land late: two rivals and none for the
race for a task (part `race`), one worker and late operations otherwise (`task`).

## 3. Runs

| Run | Question | Instance |
|---|---|---|
| `indexer_any_chain` | Do type, uniqueness and hash cover hold whatever chain, node and faults do? | 2 logs, 4 blocks, 1 reorganisation of any depth at any step, lag 1, missed logs 1, 1 fault, 1 split |
| `indexer_orderly` | Is the store exact after each round; are missed logs found; does pruning stop where it must; do the JSON adapter's two files converge after a crash between them; is nothing canonical deleted? | four orderly environments in one run: logs missed 1 = `Lookback`; 4 blocks with reorganisations of depth 3 = `Lookback` + 2 between rounds; 5 blocks, no lookback, the shortest hash window; JSON files and no reorganisation; 1 fault each |
| `indexer_catches_up` | Does the index reach the chain's head and stay there? | 3 blocks, 1 fault, fair |
| `indexer_lagging_node` | Violation: a lagging head hides a reorganisation | lag 1 |
| `indexer_narrow_window` | Violation: a fault leaves the cursor below heights that were recorded | `Lookback` 2, `ScanWindow` 1 |
| `recovery` | Are executions due, backed, and quorums kept? | 2 guardians, 2 calls in flight, 2 requests, 1 crash |
| `sso_codes` | Single use, cap, no needless eviction | 4 codes, cap 2, 2 redirects, 2 calls |
| `services` | Codes used once and guesses bounded; the limiter; KMS challenges; paged reads; the error state of the poll loop and its corrupt stores | 3 codes, 2 calls, 2 attempts, 1 crash; 3 keys, cap 2, limit 2, window 2; 2 wallets, 2 verifications, 3 challenges; pages of 2, cap 6, up to 8 events, 1 reorganisation; 2 sources, backoff cap 2 ticks, 1 restart |
| `stores` | Do all adapters implement the row store? | 2 rows of 2 fields, 2 calls, reads and writes that fail, a crash between any two steps |
| `pages` | The six questions of a page (below) for 18 page modules, one of them (`TaskPage`) with two instances | 1 to 3 users, addresses or files each; `Pages.cfg` gives them |
| `operator` | The same for what is signed by the injected wallet | 1 or 2 accounts, 1 or 2 switches, 2 changes of network, 4 sends and 2 salts of scheduled changes, 2 purchases |
| `liveness` | Do buttons come back, does polling end, are sources served, does a shutdown end? | smaller instances of the pages; poll loop with 2 sources, backoff cap 2 ticks, 1 shutdown or crash |

The questions asked of every page, each a conjunction with a part for each page it
applies to (the parts are defined and explained in the page's own module):
`ShownIsCurrent` (no late answer is shown for something else), `SentAsShown`,
`OfferedIsAccepted`, `OwnEffectSeen`, `DoneOnce`, `NothingLost`; in the operator's
run `WalletIsShown`, `SentByShown`, `OfferedIsOpen`.

The compositions (`Pages`, `Operator`, `Services`, `MCLiveness`,
and the environments of `MCEventIndexer`) put modules that do not interact side by side: a variable
says which one a behaviour is of, and the others do not move. They check the same
as runs of their own would.

Why the bounds are enough. The chunk loop is exercised by a chain of twice the
scan window, a rescan that crosses a chunk, and a hash window that prunes inside
the chain; a fault may come at every await, and one is enough to leave any state a
round can leave behind. Two calls in flight give every interleaving of two
handlers, which is what one row read before an await and written after it can
tell apart; the proofs of section 4 cover any number of calls, guardians, codes
and rows. In a page two users, two values and two requests of a kind are enough
for every crossing of an answer with a change. The caps (codes, keys, attempts,
pages of the index) are set below the number of things that meet them, so that
each is reached and passed. Every bound is a constant named `Max...` or marked
`bound` in the module that declares it.

The scope of a pass is its configuration. `RoundConverges`, `MatchProvesBelow` and
`NoCanonicalLoss` do **not** hold for every environment: they are checked, and
proved, for *orderly* ones (section 4, `Orderly`), and the two violation runs show
what happens in others. `TypeOK`, `NoDuplicates` and `HashCover` hold without such
conditions (`HashCover` on Postgres).

Deadlock is not checked in `pages`, `operator` and `liveness`: a page whose bounded
prompts, loads and sends are used up, or a poll loop whose sources are all disabled
with no restart left, really has nothing more to do. That a page is not stuck
before its bounds are reached is what `ButtonsComeBack` says.

### Fairness

*Pages* (`Flow` of each module in `MCLiveness`, weak): a request is answered or
fails (HTTP timeouts), a prompt of the wallet or authenticator is answered or times
out, a bundled operation lands, reverts or is given up after `cosSend`'s poll
limit. The interval that polls a transfer fires (weak), a sent operation is mined
(weak) and its status, asked for again and again, is answered now and then
(strong: a single request may fail). Nothing is assumed of users, of other wallets
or of the order of answers.

*`PollLoop`*: weak fairness of the timer (`setInterval` fires while the process is
up), of a round's steps (every await settles, by an answer or a timeout), of the
module's start and its consumers' registration (start-up code), and of the
process's exit and restart (a supervisor). Strong fairness of `HeadKnown`: a node
that is asked for the head again and again answers at last; without it every round
may end before its sources, and no source is served. Nothing is assumed of
sources: each may fail in every round.

*`EventIndexer`*: weak fairness of the steps of a round and of the restart. There,
faults and chain steps are finite in the model, which is the hypothesis of
`EventuallyCaughtUp`: once both rest.

## 4. Proofs

The theorems hold for every value of the constants their module's `ASSUME` (or the
theorem's own) admits. They are of the form `Spec => []P`, `Spec => [][A]_vars`,
and once `Spec => AbstractSpec`.

| Module | Theorem | Property |
|---|---|---|
| `EventIndexerProofs` | `TypeCorrect` | `TypeOK`, and that no round asks for a block above the chain |
| | `NeverDuplicated` | `NoDuplicates`, on both adapters |
| | `AlwaysCovered` | `HashCover`, on Postgres |
| | `IndexerInvariant` | the invariant behind the next four, in an `Orderly` environment |
| | `MatchIsProof` | `MatchProvesBelow` |
| | `RoundsConverge` | `RoundConverges` |
| | `NoOrphans` | `OrphansDropped` |
| | `NothingCanonicalLost` | `NoCanonicalLoss` |
| `RecoveryProofs` | `TypeCorrect` | `TypeOK` |
| | `NeverExecutedEarly` | `ExecutedWasDue` |
| | `QuorumNeverLost` | `QuorumKept` |
| | `EveryExecutionBacked` | `ExecutionsBacked` |
| `ServicesProofs` | `TypeCorrect` | `TypeOK` of the code login |
| | `UsedOnce` | `CodeUsedOnce` |
| | `GuessingBounded` | `GuessesBounded` |
| | `LimiterCorrect`, `LimiterBounded` | `LimiterHonest`; the limiter's `TypeOK`, with its caps |
| | `ChallengeGone`, `ChallengeStays` | `UsedChallengeGone`, `KeptUntilLogin` |
| | `DrainsHonest`, `NewestReturned` | `DrainHonest`, `RecentAreNewest` |
| | `ErrorNeverStale`, `CorruptStoresUntouched` | `ErrorStateAgrees`, `CorruptStoreUntouched` |
| `SsoCodesProofs` | `TypeCorrect` | `TypeOK`, with the cap |
| | `RedeemedOnce` | `FirstTryOnly` |
| | `NeverEvictedNeedlessly` | `KeptWhileAlive` |
| `JsonStoreProofs` | `TypeCorrect` | `TypeOK` |
| | `Implements` | `ImplementsRowStore`: the refinement of `RowStore` |
| `OperatorProofs` | `PagesKeep` | the invariants of the four pages, behind the next three |
| | `ShownOfWallet` | `WalletIsShown` |
| | `SentOfShown` | `SentByShown` |
| | `OfferedOpen` | `OfferedIsOpen` |
| `PagesProofs` | `PagesKeep` | the invariants of the eighteen page modules, behind the next six |
| | `ShownCurrent` | `ShownIsCurrent` |
| | `SentShown` | `SentAsShown` |
| | `OfferedAccepted` | `OfferedIsAccepted` |
| | `EffectSeen` | `OwnEffectSeen` |
| | `OnceDone` | `DoneOnce` |
| | `KeptUntilReplaced` | `NothingLost` |

Along which argument:

- **EventIndexer.** `TypeOK` is inductive. A chunk may be fetched in several
  answers between which the chain reorganises, so uniqueness needs `RangesInv`: the
  pending ranges are apart and above the logs already fetched, hence one block has
  one hash in one chunk, and of two logs with one id the lower one is stored. For
  `HashCover` the round's copy of the hashes must not drift from the saved ones
  (`CopyInv`): up to the first commit it is the saved state rewound, afterwards what
  was saved; a rewind drops hashes only at heights whose events the same
  transaction deletes.

  Convergence is proved from `Orderly`, which says what the code counts on: heads
  are truthful (`MaxLag = 0`), the chain reorganises between rounds and no deeper
  than `Lookback` + 2, `getLogs` misses logs of the newest `Lookback` blocks at
  most, a chunk is longer than the lookback window, a hash window of one block or
  more, and the JSON files meet no reorganisation. None of the conditions can be
  left out: TLC finds a counterexample without each (`indexer_lagging_node` and
  `indexer_narrow_window` are two of them). The invariant (`IndexerInv`) names a
  height `d` below which store and chain agree (`StoreKnows`): a recorded hash
  below `d` is the chain's and one at `d` or above is not (`HashesKnow`), a stored
  event below `d` is a log of the chain and one above is not, and of the chain's
  logs the ones below `d` and `cursor - MissDepth` are stored (`EventsKnow`), and
  the cursor is not further above `d` than the next rescan goes back
  (`CursorKnows`). A reorganisation lowers `d`; `detectReorg` finds it, as the
  lowest recorded height whose hash differs, and the commit of the first chunk
  raises it again to the chunk's end; each await of a round has its own part of
  the invariant (`RoundInv`).
- **Recovery.** What a call has read is stale as soon as it has read it, so the
  invariant says what stays true of it (`GoodCall`): a request that a call is to
  execute had its quorum and its time lock over when it was read, and both only
  get truer (`Grows`: every request keeps its quorum and its time, the clock
  advances). `QuorumKept` follows because a support writes a list with the initiator
  or more and, besides, a caller who was not on it, which is a quorum of two again
  whatever it overwrites. `ExecutionsBacked` counts the executions made against the
  requests marked and the calls about to mark one (`Counted`).
- **Services.** A behaviour of `Services` is one of each part (`EachIsServed`), so a
  theorem of a part's specification is one of `SpecAll`. Three of the parts filter
  sequences, which is a recursion; what it leaves is proved by least
  counterexample over the natural numbers (the lemmas at the head of
  `ServicesProofs`): the elements and their
  order, that it distributes over concatenation, and what it does to prefixes.
- **OtpLogin.** `StoreInv` relates the entry of the store to what was counted for
  its code: nothing admitted, as many wrong guesses as attempts.
- **SsoCodes.** Every code is kept as it was minted, under a number of its own, and
  one that was presented is gone (`CodesInv`). `NewestBounded` and `NewestFull` say
  how many entries the eviction leaves, the second that it leaves none of them
  unused: it drops a code only if `MAX_CODES - 1` newer live ones stay, beside the
  one being minted.
- **JsonStore.** Every step is mapped to a step of `RowStore` or to a stutter: a read
  that fails to the abstract call noting that it misread, a rejected write to its
  rejection, with the table emptied or not. The invariant it needs is about the
  copies (`GoodCall`): a call that has been the only writer since it began, and has
  read, has a copy that is its own change to the present table, or to the empty one if
  it misread. A torn file is a table without rows in both.
- **KmsLogin.** Challenges have numbers of their own, and a verification that has
  read one knows it by a number that no other wallet's entry has. A challenge that
  let a login pass was dropped in the same step, with whatever had taken its place.
- **RateLimit.** The hits kept for a key are the last ones of the calls it was
  granted, and those before them are a window old (`Remembers`): pruning and the
  sweep only drop such hits, because the sweep's window is no shorter than the
  limiter's, and the cap drops a key together with what it was granted. Hits are in
  the order of time, so the first of `Limit` kept ones tells when a call is let in
  again (`FreedAt`), and any `Limit + 1` calls are more than a window apart
  (`Spread`).
- **MyTaskIndex.** As long as nothing was written since the call began, the answer
  so far is the filter of the events scanned (`RestOK`), which a page extends by
  the filter of the page. While the index only grows, a map tells where each event
  of the beginning is now (`Places`); it is monotone, and the events it sends among
  those scanned have been seen (`GapOK`), whatever was put in between page and
  page. The count read beside a page is of no longer an index than the present one
  (`CapOK`). The attempt to prove `TruncatedOnlyAtCap` as it first stood failed:
  see section 5.
- **PollLoop.** A round that has failed shows its error from then on, whatever the
  sources after it do (`roundFailed => currentError`), so the accounting at its end
  agrees with what is shown; the backoff is only ever set beside a failure count
  (`ErrorInv`). The queue of a round has each source once and none that is disabled
  (`LoopInv`): a source found corrupt has left the queue in the same step.
- **Operator.** A behaviour is of one page, so `OperatorInv` is an invariant for each
  page. Assumed of the constants is only that `None` is none of the values it stands
  beside (`OperatorAssumption`, `NoneAssumption`) and that there is an account.
  - `ConsoleInv` (`Manage`): a prompt under way is not one that was
    dropped when the wallet was locked (`PromptInv`); reads under way
    know whom they were begun for, and what is shown is of the operator or an error
    unless the last success was `foreign` (`LoadInv`); the button
    of a write in flight is off, unless another write overlapped it (`WriteInv`).
  - `GovernInv`: the browser has the salt of every change that is scheduled or was
    asked to be, from the click until its execution was sent, and one execution of a
    change waits for the wallet (`SaltInv`, unless it was executed `again`); the times
    asked for are of the timelock that governs, and a time shown is of the change
    entered, or an answer is under way, or the last one was about another (`ReadyInv`).
  - `WizardInv`: all that is under way and was found is of one operator and one mode
    (`ErrandInv`); what was found, cached as done, or shown as a success is on the chain
    (`DoneInv`); and what is on the chain was found, or its receipt is awaited, or a
    check is under way that will find it, or it is among what was `missed`: its own read
    failed when it was last made, or the receipt was lost and not looked for since
    (`FoundInv`). It ends where operators or modes are `mixed`.
  - `SaleInv`: every quote under way is of the form as it is (`QuoteInv`), a purchase
    carries the price changes counted at its click and at its own quote (`FloorInv`),
    and there is one purchase at most while its button is off (`PurchaseInv`). Balances
    are asked for the account on the page or dropped with it, and on a network without
    a sale only a `late` answer shows any.

- **Pages.** `PagesInv` is an invariant for each page, as in `OperatorInv`; each of
  the six properties follows from it, page by page. The numbers of users, requests,
  loads, sends, retries and failures are arbitrary, and so is the order of the
  answers. The assumptions (the `ASSUME`s of `Pages`) say that `None` is none of the
  values it stands beside, that amounts are amounts and tiers three, that an NFT and
  two guardians exist, and that lists and directories a page starts from are of the
  rows and files there are. What an invariant adds to its properties is mostly what
  is known of the requests under way:
  - *Send page* (`TransferInv`): each await of `executeTransfer` knows what was done
    before it (`FlowOK`); the polls are of the transfer on the page or of one whose
    poll was on its way when that was begun (`StatusInv`); a transfer is about to be
    recorded, was, or is not to be
    (`BookInv`). *Its form* (`FormInv`): a judgement that was not cancelled is of what
    is entered (`TierInv`); a balance of another token is being replaced
    (`BalanceInv`).
  - *Tasks.* `TaskInv`, for any set of workers: a page awaits one operation
    (`AwaitedInv`), and what its user did was read back, is about to be, or was not
    found (`OwnInv`). `CreateInv`: the operations the page lost sight of are those
    that may post a task beside the one it awaits. `ListsPageInv`: loads are numbered, the
    newest one is of the account and no older than its request, and a list is as new
    as that when the newest load ended last and did not fail. `JuryInv`:
    while nothing was given up one operation is under way and awaited (`BackedInv`),
    and a page that is sure has a lookup under way that saw its vote (`SureInv`).
  - *Dashboard* (`TabInv`): what a request brings belongs to the login it was made
    under, or it is known to be of more than one; what is kept and shown belongs to who
    is logged in, unless it was `left` behind (`BelongInv`); a load that nothing crosses
    reads what belongs to its login (`FlightInv`).
  - *Accounts.* `BirthInv`: both signatures are over the hash of the dialog, and the
    one ceremony under way knows the key in the other slot. `DeviceInv`: the result is
    of the address that signed.
  - *Recovery.* `RecoverInv`: one request is under way, of the step the wizard is at,
    and what was answered is so. `PasskeyPageInv`: one flow is under way, its challenge
    of the nonce the account is at, unless someone else moved it. `RaisePageInv`: the
    page waits for one answer at a time and shows no form meanwhile, so no edit comes
    between a digest and a signature over it; the signatures are of different
    guardians.
  - *Lists of a user.* `TokensInv`, `CollectionInv`: an addition that waits for the
    chain or for metadata has the rows of the file, or none if its read failed, unless
    somebody wrote since, and the last load has what is there or will have it.
    `BookPageInv`, `SponsorsInv`: loads are numbered, and the last is shown or has read
    nothing older than what is saved. An unreadable book is an empty one, so a use is
    never counted that was not made (`UsesInv`); a default is a name the page, each list
    read and the file have it under, or nothing, until it is `loose` (`HeldInv`).
  - *Data tools* (`ArchiveInv`): an import that extracts has the directory it replaces
    in its backup (`ExtractInv`), however many imports crashed before it.
  - *Sign-in* (`SignInv`): a tab waits for one answer at a time; a code is asked for
    the address it was sent to; a wallet is set up for a user without one.

  Two attempts failed, and the model was wrong. `Paymasters.DefaultIsSaved` did not
  hold with more loads than the run allowed: a default that was chosen while a load
  was under way is not a default of the list the page is to show. That is now one of
  its excuses. `Dashboard.DataIsOwn` did not hold with four logins, one more than the
  run allowed: a reload of the page cuts short the load that was to put right what a
  crossing load had left. `Reload` now keeps what was not put right, and the run has
  four logins.

What is only model-checked: liveness (`EventuallyCaughtUp`, `SourcesServed`,
`ShutdownCompletes`, `ButtonsComeBack`, `PollingEnds`), which TLAPS does not prove
under fairness. `RoundsExact`, which is `RoundConverges` at a `MissDepth` of 0 in
three named environments, is covered by `RoundsConverge`. That the instances of
`Pages.cfg` are states of these theorems, TLC confirms: it evaluates the assumptions
of `Pages` in the run.

## 5. Where the code and its documents differ

`indexer_lagging_node` shows one: `detectReorg` compares only heights up to the
reported head and up to the cursor, and a round moves the cursor back to the head
it was told. After a node answered with an older head, a reorganisation of the
heights above is never noticed and its orphans stay, though the class comment says
that a changed hash at a recorded height deletes all events from there on.

The others below were met while modelling. Where a property is named it is stated
in its module with the line it is taken from, does not hold, and is part of no
run; the rest was read in the code and is not expressed in a model.

Backend:

- A reorganisation during a round mixes two forks in the recorded hashes; the JSON
  adapter keeps an orphan when a crash between its files is followed by a
  reorganisation; a lookback window larger than a scan window loses the check after
  a fault; reorganisations deeper than `Lookback` + 2 lose canonical logs; two
  sources of one contract share event ids. (`EventIndexer` with other constants;
  `indexer_narrow_window` is the run of the lookback window.)
- `PollLoop.NoLagMeansCaughtUp`: `lagBlocks` is "0 when ... fully caught up", but
  leaves out sources that have not committed since the start.
- `MyTaskIndex.NotFoundIsAuthoritative`: a drain that says it is complete may miss
  events when the index shrinks under it. A drain of an empty index may say that it
  was cut short (`truncated`) though it is far from the cap: the page is read, the
  first event is stored, and the count that is read beside the page is one
  (`TruncatedOnlyAtCap` excludes it).
- `Recovery`: two concurrent initiations leave two pending recoveries
  (`OnePending`); a settled request is overwritten (`SettledForGood`); a guardian
  who was added again is looked up as the revoked one (`OneActiveRow`); a mined
  recovery whose confirmation fails is never recorded (`RelayedIsRecorded`); the
  signer written is not compared with the new owner (`SignerReflectsOwner`).
- `OtpLogin.OneUser`: on the JSON adapter, without the unique constraint, two
  verifications create two users.
- `KmsLogin`: a slow second login with an old challenge drops a newer one of the
  same wallet (`KeptUntilLogin` allows it, since a login passed).
- `user-token.controller.ts:209` declares `@Put("reorder")` after
  `@Put(":tokenId")` (line 111), which takes its requests.
- `user-token.service.ts:124-127` answers an empty list where
  `TokenSelector.tsx:87-88` expects a 404.
- Removing an absent paymaster or address answers `success: false` with status
  200, and the page reports success.
- `data-tools.service.ts:152` ("Verify extraction was successful") only looks for
  the directory: entries that were not written are warnings, and the backup is
  then removed (157-160). An error of the decompressor has no listener (126-132),
  while the page accepts plain tar files (`data-tools/page.tsx:236`). If removing
  the backup fails, the half-removed backup is restored over the data imported
  (157-170). A crash during the extraction is not repaired at the next start.

Front end:

- `Dashboard.SessionIsOwn`: `Cos72SessionContext.tsx:6-7` says that
  the session exposes the account address of whoever logged in; after another login
  in the same tab the address of the earlier one stays. The 401
  interceptor (`api.ts:33-44`) leaves the cached dashboard.
- `CreateAccount.LimitAsSigned`: the daily limit that guardians signed need not be
  the one submitted (`guardian-setup.dto.ts`, `account.service.ts:128-129`):
  the dialog sends it in the second call only (`CreateAccountDialog.tsx:261`).
  `CreateAccount.SubmitIsWhole`: the submission of
  a passkey at birth lacks the `challengeId` that `guardian-setup.dto.ts:213-214`
  requires.
- `RecoveryPage.DuplicatesAreSafe`: "idempotent - duplicate calls are safe"
  (`recovery/page.tsx:49`); the service refuses a guardian who is there already
  (`guardian.service.ts:161-163`).
- `PasskeyRecovery.CreatedIsRecoverable`: `guardian.service.ts:484` handles a single
  passkey guardian, the dialog creates accounts with two.
- `Manage.ClientFollows`: `WalletContext.tsx:84-88` speaks of an unpinned
  client that follows the provider's account; `connectWallet` (`client.ts:46-64`)
  binds the account to it.
- `Governance.HandoffConfirmed`: `WritePanel.tsx:6-8` speaks of two clicks to hand
  the admin role over; they need not be for the same timelock.
  `governance/page.tsx:13-16` says the library's write support
  is off, where it is on.
- `DeployWizard.NoNegativeCached`: "never cache a negative"
  (`resourceChecker.ts:42`) against lines 249-259. `DeployWizard.GateIsOfMode`:
  the resource check of the mode gates "Continue" (`Step2ResourceCheck.tsx:6-7`); a
  mode picked later goes by the check of the earlier one.
- `tasks/page.tsx:28` marks tasks as "(you)" by the signer's address where tasks are
  posted by the account.
- `tokens/page.tsx:67-72` configures the SDK for each network; `ensureSdkConfig`
  (`client.ts:25-30`) does it once.
- `auth/register/page.tsx:142` asks to "try the passkey step again" after the code
  was consumed (`auth.service.ts:87`). The login page's `runPasskeyWalletSetup`
  (125-129) leaves out the passkey's coordinates that registration sends, and
  `linkWallet` (230-239) keeps the old ones.
- `guard/page.tsx:190-195` does not look at `success: false`, which
  `tier-raise/page.tsx:183-185` says the same call answers.

### Cases that properties exclude

Each is a case the code has; in it the property named does not hold, or says less. The
list is of every exclusion of a property some run checks.

- *Tables* (`ImplementsRowStore`): writers of one table that overlap; a read of the file
  that fails, which is taken for an empty table, whatever the reason
  (`json.adapter.ts:40-42`): a save that nobody overlaps then replaces the table with
  its own row; a rejected write, which may have emptied the file; a rejected statement,
  which may have been served.
- *Indexer*: reorganisations during a round and the other conditions of `Orderly`, as
  above; `HashCover` on the JSON files. *MyTask*: an index that shrinks
  (`DrainHonest`). *Limiter*: keys that were forgotten at the cap (`LimiterHonest`).
- *Challenges* (`KeptUntilLogin`, `UsedChallengeGone`): two logins that pass on one
  challenge, and the loss of a newer challenge to a login that passes.
- *Send page*: a status answer of an earlier transfer that was on its way when the
  present one was begun, which is shown whenever it comes (`StatusIsOwn`); a second DVT
  node that withholds (`ShownWasSent`, `PollingEnds`); a send while the judgement is
  loading or after it failed (`PathAsJudged`, `hasty`); a gas estimate that comes after
  the amount was edited (`GasIsOfAmount`, `lateEstimate`) and a balance of an asset no
  longer selected (`OfferCovered`, `lateBalance`).
- *Tasks*: an older load of a list that ends after the newest one, or a newest load that
  fails: the list is older than the last request, or of an earlier account, until one
  ends in order (`ListIsOwn`, `sure`). A task whose own read fails is left out of a list
  and nothing says so (`TaskContext.tsx:183-195`, 220-222): no property says a list is
  whole. A page that shows an older state of a task, and the window, stake and verdict
  of a challenge (`OfferedIsAccepted`); a read that fails after a success shows "Task
  not found" (`OwnEffectSeen`). An operation given up, which may have posted its task or
  moved the allowance (`PostedOnce`, `CreateFunded`, `unsure`); a receipt that times out
  reports failure of a task that exists. The stake of a challenge: the rejected read and
  the missing configuration are cases of `TaskPage.Allowance`, and do not stop the page.
- *Jury*: a failed read of the staking token, after which the registration is sent
  without its approval (`RegistrationBacked`, `failed`); a lookup that failed or met
  another, and votes that cannot be read, which are an empty list (`OwnVoteSeen`,
  `sure`); a task, juror or reward other than the page has read (`OfferedIsAccepted`).
- *Dashboard*: data put together for more than one login - a load under way over a
  logout and another login, a refresh of the balance that writes an older history back -
  and the cache that an expired login leaves, until a load of one login is applied
  (`DataIsOwn`, `left`); for the account also loads that overlapped, failed or crossed
  a login (`AccountShown`, `sure`, `atVisit`).
- *Accounts*: a ceremony that outlives the dialog it was begun in (`KeysDiffer`,
  `stray`); the daily limit (`CreatedAsSigned`, see `LimitAsSigned` above).
- *Recovery*: acts elsewhere, and lost answers, after which the wizard stays behind
  (`StepIsTrue`); a nonce someone else moved (`SignedIsAccepted`).
- *Sign-in*: an address edited while its code is sent (`CodeShownWasSent`, `edited`);
  two tabs that set up a wallet for one user at once (`PasskeySignsIn`, `both`). An
  attempt that fails leaves a key at the KMS that nobody knows.
- *Tier limits*: signers that are no guardians, an hour that passed, a nonce moved
  by someone else (`SubmitIsTaken`). The limits are read again before the operation is
  mined, and a read that fails is shown as limits of zero.
- *Tokens, NFTs*: rows read before an await and written after it, when somebody wrote
  meanwhile (`PromisedIsKept`, `CollectionIsOwn`, `OneRowEach`, `overlapped`); a file
  that could not be read or was torn, from then on (`PromisedIsKept`, `misread`;
  `CollectionIsOwn`, `lost`); loads that crossed or failed, changes made elsewhere or by
  a page that was left, reads that failed (`AddedIsListed`, `StatsAreOfList`,
  `crossed`, `excused`).
- *Address book*: a book that was changed after a read that failed, or torn: it counts
  fewer uses (`UsesAreCounted`, `lost`); loads that crossed or failed, reads that failed,
  a transfer recorded meanwhile (`BookIsShown`); an edit begun while a deletion is under
  way (`EditIsOfShown`, `cut`). Adding an address again without a name erases the name.
- *Paymasters*: a default that names an overwritten paymaster or one lost with an
  unreadable file, one chosen before the account was known or while a removal or load
  was under way, or whose list failed to load (`DefaultIsSaved`, `DefaultIsShown`,
  `loose`); loads or their reads that failed or crossed, a torn file (`SavedIsShown`).
- *Data tools*: what other services write during an import, or later (`KeptSomewhere`,
  `LeftAsPromised`, `dirty`); entries that could not be read or written, and a
  restoration that fails.
- *Operator's wallet*: the account of the wallet changed while it is connected
  (`SignerIsShown`, `SentByOperator`; `SignerIsEoa` of the sale; `switched`): the client
  stays with the account it was made for. The load that succeeds last was begun for
  another operator - its answer came late, or it is the reload four seconds after a
  write of the earlier one - and the page shows that operator's contracts under the new
  one's name until it loads again (`ShownIsOperators`, `foreign`). A second write of a
  page while one is in flight, since one flag serves all (`WriteInFlightOnce`,
  `overlap`). A wallet that is locked while connecting leaves `isConnecting` set.
- *Governance*: an execution of a change that waits for the wallet when the page is
  loaded again, where it can be asked for a second time: whichever is sent last clears
  the salt (`WritePanel.tsx:193`), by then perhaps that of a later schedule, which this
  browser cannot execute any more (`SaltOutlives`, `again`; it takes four sends). An
  answer about another change or timelock that comes last is shown until the next tick
  (`ReadyIsReady`, `crossed`).
- *Onboarding*: a step whose own read failed when it was made last, and is then a "no",
  cached for an hour in AOA+; the token whose receipt was lost and that no check has
  looked for since (`OfferedIsUndone`, `missed`); operator, mode or wizard changed while
  data or requests of the earlier one are about (`PastIsDone`, `OfferedIsUndone`,
  `mixed`, where the model of the wizard ends).
- *Launch sale*: balances that arrive after a network without a sale was chosen, shown
  until the network or account changes (`BalancesOfSale`, `late`); a second click before
  the wallet has told its chain (`OnePurchase`, `twice`).

Seen beside these: the default BLS configuration may be written over one that could not
be read (`json.adapter.ts:187-215`); it is not modelled.

## 6. Not modelled

`PROJECT.json` gives the reason for each component. In short:

- *Thin calls* of contracts and outside services (community, operator, registry,
  sale, token, admin; KMS, BLS, e-mail and Ethereum clients) have no transitions.
- *Parts of modelled components*: creating an account without guardians, balances
  and `rotateSigner`; the history of transfers; tokens' order; the check of an
  NFT's owner and its metadata addresses; the BLS configuration's row; decoding in
  the task index; x402 receipts and the listing of a task's validation
  requirements; registration of DVT nodes; session tokens and the guards that read
  them.
- *Pages* of one request and one answer (guard, history, community, roles and the
  rest): their hazard, an answer that comes after the input has changed, is that of
  the modelled ones.
- *Inside the SDK*: prepared transfers and operations live in a dependency that is
  not in this repository; they appear as an answer.
- *Data*: rendering and wording; cryptography (codes, tokens, passkeys, signatures)
  is reduced to "equal or not"; e-mail addresses, redirects and amounts are model
  values. Time is a counter, and the tables of one account, one address and one
  source are modelled instead of all of them, as the code never relates two, save
  for the event id that two sources of one contract would share.

## 7. What is left

1. `EventLog`, the abstract promise of the indexer (a set that follows the canonical
   logs), implemented by `EventIndexer` in an orderly environment; `MyTaskIndex` on
   top of it instead of on its own index.
2. `OtpLogin` behind `RateLimit`: the guesses an address can be given in a window.
3. The page modules over `JsonStore` instead of over exact rows.
4. Two sources of one contract (`EventIndexer` twice over one table).
5. The pages of section 6 with crossing answers, the DVT registration, x402.

Proofs to follow: the refinement of 1; `OneUser` with the constraint.
