# DARKMARKET in TLA+

A model of the DARKMARKET dark pool: positions on Polymarket markets are sealed
on Midnight, matched against each other there, or covered from a vault on
Polygon; a Bun backend drives both chains and a page drives the backend. Beside
it the repository keeps a node that indexes two chains and a demo page in front
of it, which are modelled too. The modules are checked with TLC on small instances, and
every safety property of theirs is proved with TLAPS for every instance.

Paths below are relative to the repository; `src/packages/ui/server.ts:441`
is line 441 of `packages/ui/server.ts`.

## 1. Inventory

### The parts that make the dark pool

| part | code | state | operations |
|---|---|---|---|
| Vault on Polygon | `contracts-evm/src/contracts/DarkPoolVault.sol` | deposits, their total, committed collateral, settlements, which (contract, epoch) settled, executor | deposit/receive, withdraw, settleResidual, releaseEpoch, setExecutor |
| Sealed book on Midnight | `contracts-midnight/contract-round-value/src/darkmarket.compact` | commitments, counters `round`/`opened`/`matched`, two notional totals, condition id | open_position, match_positions, mark_covered |
| Backend, trading | `ui/server.ts` 438-604, `ui/evm.ts` | `positions`, `nextId`, `nextCoverSlot`, `busy`, all in memory | /api/open, /api/match, /api/cover |
| Backend, boot | `ui/server.ts` 135-347 | `address`, `booting`, `bootError`, `wallets[].ready` | wait, find or deploy the contract, pay, boot each wallet |
| Backend, read side | `ui/server.ts` 349-436, `ui/polymarket.ts` | market cache | /api/markets, /api/state |
| Page | `ui/public/index.html` | `backendLive`, what is painted, cards, `workToast`, `bootToast` | poll every 4 s, Open, Match, Cover |
| Executor | `executor/src` | none | netOff, shieldedFraction, buildOrder, resolveMarket |

The page posts to the backend; the backend calls circuits on Midnight (one
proof of minutes per call) and `settleResidual` on Polygon. Nothing but the
backend's memory says which commitment is whose. Nothing but the order of its
awaits ties the two chains together: a cover first settles on Polygon, then is
marked on Midnight, then is noted in the book.

### What is hard, and what correct means

* **Vault.** `withdraw` hands control to the receiver in the middle
  (line 111). Correct: books balance at every moment, committed collateral is
  covered by deposits, an epoch settles once for ever.
* **Sealed book.** Commitments are never removed and sizes are never
  published. Correct: the public totals and counters are exactly those of the
  included calls, and only sealed openings are used.
* **Trading handlers.** Every `await` lets another handler in; `busy` is read
  before one and set after it; calls may throw although they took effect; the
  memory is lost at a restart while transactions are in flight. Correct: one
  transaction at a time, book entries are sealed and leave the open state once,
  the three accounts (book, Midnight, vault) agree.
* **Boot.** Five nested loops of retries with lost answers. Correct: no money
  or wallet goes to a contract that is not there, nothing is paid twice
  unless an answer was lost, boot ends, and nothing of it moves afterwards.
* **Page.** Polls overlap and are painted in any order; one global names the
  card the next answer goes to. Correct: cards show their own answer and stop
  spinning; the page catches up.
* **Executor.** Pure. Correct: netting neither loses nor invents notional.

### The parts that index two chains

The project was built on a template whose node and demo page are still there.

| part | code | state | operations |
|---|---|---|---|
| Chain-indexing node | `node/state-machine.ts`, `node/api.ts`, `node/config.dev.ts` | none of its own | the transitions `transfer-assets` and `midnightContractState`, `/api/erc721` |
| Database | `database/migrations`, `database/sql` | `evm_midnight`, `evm_midnight_properties` | two upserts, a lookup, a join |
| Demo page | `frontend/client/src/components/WalletDemo.tsx`, `WalletModal.tsx` | cards, selection, three flags, wallets | load, mint, set a property, edit |
| Midnight wallet | `frontend/client/src/increment.ts` | three module variables | build, sync, register NIGHT, join, call |
| Block watcher | `frontend/client/src/hooks/BlockWatcher.ts`, `App.tsx` | `latestBlock`, `initializationPromise` | poll, subscribe, waitForBlock |
| Table hook | `frontend/client/src/hooks/useTableData.ts` | names, schemas, tables, two caches | initialize, reload |

The page mints on an EVM chain and sets properties through a circuit on
Midnight; the node merges the events of both chains into its tables; the page
reads their join and waits for what it did to appear in it.

* **Node and database.** Two chains, one table of tokens: a property may come
  before the token it is about. A failing query is logged and the transition
  goes on. Correct: neither chain's events disturb what the other's wrote.
* **Demo page.** Six asynchronous functions replace the cards with answers of
  different ages, and one flag is shared by several loads. Correct: buttons
  come back, cards settle on what the node serves and never make a token look
  owned that is not.
* **Midnight wallet.** Eight awaits, each of which may fail; what was built is
  kept in globals set at two different times. Correct: one wallet is kept, fees
  are provided for, the button comes back.
* **Block watcher.** Overlapping polls. Correct: heights never fall, never run
  ahead of the node, and follow it.
* **Table hook.** Two chains of parallel requests that may fail, and reloads
  beside them; in a development build React starts the initial load twice, on
  the same state. Correct: what was shown stays, columns come from the schema,
  the initial load ends.

### The rest of the repository

The batcher configuration, the Counter and token contracts that the pool does
not use, the orchestrator's process lists, one-shot scripts, and
`scripts/preprod-supervisor.sh`, a watchdog for a deployment. None of this is
modelled; section 7 says why.

## 2. Modules

| module | models | grain |
|---|---|---|
| `DarkPoolVault` | the vault | one action per function |
| `DarkMarketLedger` | the Compact contract | one action per circuit |
| `DarkMarketServer` | the three trading handlers between an instance of each of the two | one action per stretch between awaits |
| `OrderBook` | what the backend promises of its book (abstract) | |
| `MCDarkMarketServer` | symmetry for TLC | |
| `BackendBoot` | the boot driver | one action per outcome of an await |
| `TradingPage` | polls, clicks and cards of the page | one action per handler or continuation |
| `Netting` | the executor's pure functions | one operator per function |
| `MarketFeed` | resolving and listing markets, the epoch's order, the cache of `/api/markets`; with the theorems about these and about `Netting` | one action per stretch between awaits |
| `EvmMidnightNode` | the node's state machine, its tables, `/api/erc721` | one action per transition |
| `TokenRegistry` | what the node promises of the tables (abstract) | |
| `WalletDemo` | the demo page on the node | one action per stretch between awaits |
| `MidnightWallet` | connecting the Midnight wallet | one action per await |
| `BlockWatcher` | the heights of the chains, and `App`'s loop over them | one action per callback |
| `TableData` | the table hook | one action per answer or continuation |
| `Sums` | facts about sums over finite sets | |
| `DarkPoolVaultProofs`, `DarkMarketLedgerProofs`, `DarkMarketServerProofs`, `BackendBootProofs`, `WalletDemoProofs` | theorems about the module they are named for | |
| `PageProofs` | theorems about `BlockWatcher`, `MidnightWallet`, `TradingPage`, `TableData` | |

How they fit: `DarkMarketServer` instantiates `DarkMarketLedger` (as
`Midnight`) and `DarkPoolVault` (as `Vault`) and drives their actions; the
book of the server is shown to implement `OrderBook`. `BackendBoot` gives in
detail what `DarkMarketServer` keeps of boot (`BootOne`, `BootDone`), and
`TradingPage` keeps of the backend only what a snapshot of `/api/state` shows.
`WalletDemo` extends `EvmMidnightNode`: the page's transactions are the chains'
events, the node's tables are the page's answers. The two together are shown
to implement `TokenRegistry`. `MidnightWallet` gives in detail what `WalletDemo` keeps of
the Midnight wallet (`ConnectMidnight`), `BlockWatcher` what it keeps of
`waitForBlock` (`BlockSeen`). `MarketFeed` extends `Netting`.

`PageProofs` extends four modules that share nothing, so their names are kept
apart: the specifications are `Spec` (`BlockWatcher`), `WalletSpec`, `PageSpec`
and `HookSpec`.

In every module an operator marked `mutant:` is a plausible bug. It is not part
of the specification; it stands next to the definition that it would replace
and shows that the properties would notice.

### Correspondence

**DarkPoolVault.** The variables are the contract's storage, plus its native
balance. A transaction is one step, except for a `withdraw` by an account with
code: `withdrawCall` debits and pushes what a revert would restore on `frames`;
then any call by a contract may run, nested to `MaxDepth`; then
`withdrawReturn` or `withdrawRevert`. Reverted calls change nothing, so a
Solidity `revert` is a conjunct that fails. `released` and `exact` are history:
they record how the executor used `releaseEpoch`, and the code does not have
them. Events and timestamps are left out.

**DarkMarketLedger.** The variables are the cells of the contract; `history`
is the chain's record of the calls. `persistentCommit` hides and does not
collide, so the opening itself stands for the hash. `open_position` receives
the commitment only; the model passes the opening behind it, because callers
make commitments no other way.

**DarkMarketServer.** Each client has at most one request under way, whose `pc`
names the await it is suspended at. A suspended request carries its local
variables (`own`, `target`, `slot`) and `tx`, what became of the transaction
it waits for. What a handler read before an await it uses after it. A refused
request is a step that changes nothing, so it is left out unless it ends
a request (`Refuse`, `MatchBadSize`, `OpenBadBody`, and `Throw` for an await that
throws).
`ThrowAndLeave`: the call throws and its transaction is still out there
(`midnightLate`, `polygonLate`). `Restart`: memory gone, transactions not,
contract the same or new. `Faults` names which of these the environment may do:

| fault | what it is |
|---|---|
| `overlap` | another request arrives while a body is still being read (`await req.json()`, lines 442, 488, 557) |
| `lost_reply` | an await throws although its transaction goes through |
| `mark_lost` | `mark_covered` fails after the vault has settled |
| `withdraw` | a depositor withdraws between the check and the fill |
| `restart` | the process dies and starts again |

Position sizes are in units; `Unit` is `EVM_UNIT_WEI`. `fills` and `blinds` are
history.

**BackendBoot.** `stage` is the await the driver is at, `tries` the failed
rounds of its loop. A deployment and a payment each have an outcome where the
chain did it and the answer did not come; `lostDeployments` and `lostPayments`
count those, `deployed` and `payments` all of them (four histories). `settling`
is the pause that gives a payment time to be in a block. `hung` holds the driver
and the wallets whose await neither answers nor throws (`Hang`).

**TradingPage.** `statePoll` and `call` are the page's requests, each in its one
await; `toasts` are the cards on the screen. Ids are reused once a card is
gone, because only equality of ids is ever observed. What a snapshot paints is
its `version`. A second click may be made while the first is under way: no
button waits for the answer but Open (`index.html:902`, 924, 946), and that one is
enabled again by the next poll that finds the backend idle (875). `crossed` is history: the clicks that overlapped
another.

**Netting.** `netOff`, `shieldedFraction`, `buildOrder` over unbounded naturals
(the code uses `bigint`). `packages/ui/netting.ts` is a copy of the
executor's file. Prices, shares and token ids come from the market and are left
out, as is `Number(residual.size)`, which is exact below 2^53.

**MarketFeed.** A row of Gamma is a record with a condition id, token ids and
prices in hundredths. A condition id is a record whose `hash` is what
`toLowerCase` keeps of it. `listMarkets` gives the places of the rows it lists.
A request to `/api/markets` is suspended in its one await (`Gamma`); `list.asOf`
is when Gamma gave the list, which is history, and `now` when the request began,
which is what the code dates the cache with (`server.ts:404-405`). The rest of
`/api/state` is not here: `TradingPage` treats its answer as a snapshot.

**EvmMidnightNode.** `tokens` and `properties` are the two tables as functions
from their unique keys, so that both `INSERT ... ON CONFLICT DO UPDATE` are
`Upsert`. `evm` and `midnight` are the events published and not yet taken; the
engine takes them one at a time, in an order that is the merge's. `DbFails`: any
query of `midnightContractState` may fail, is logged, and the transition ends
with what it had written. `Blank` is a token id that is empty after decoding;
such an event is dropped. The join of `getEvmMidnight` is on the token id only,
so the answer takes any owner and any value among the rows of that id; before
the migrations the API answers with an empty list.

**WalletDemo.** `load`, `mint`, `add`, `confirm` are the functions suspended in
an await, with their local variables; an answer is a snapshot of the tables
made when the node serves it (`fetchNFTData`, `MintPoll`, `ConfirmPoll`), and
applied later. `Tick` is the interval, `Select` and `Deselect` a click on a
card, which stops and starts it. What the user types is the page's own copy of
a card (`Edit`). Only one mint and one `addProperty` run at once, because their
flags disable the buttons; `pollForProperty` is not awaited and runs behind
them. A mint may be refused, revert (its receipt's status is not read) or go
through.

**MidnightWallet.** `pc` is the await the one connection is at, the globals hold
the number of the wallet they belong to. The chain may send NIGHT at any time,
and dust accrues from NIGHT that is registered. `Fail` is every await that
throws out of the handler; timeouts that are caught become an outcome of their
step (`Sync`, `Register`, `Accrued`).

**BlockWatcher.** `polling` is `USE_HTTP_POLLING`, fixed at the start. A request
is sent, served by the node with the heights of that moment, and received
later; an event of a subscription is the same with the height of one chain.
`StrictMode` mounts `App` twice, so `Mount` and `Unmount` may alternate.

**TableData.** `init` and `initScheduled` are the two halves of `initialize`, in
each of its `Runs`: `strict` is a development build, whose `StrictMode`
(`main.tsx:7`) runs the effect twice, on the same state and the same caches.
`refresh` are the calls of `refreshPrimitiveData` under way; `init` and
`refresh` hold the batch of their `Promise.all`. A table is whether it has rows
and where its columns came from. The intervals that the effect sets are left out:
their bodies are commented out (`useTableData.ts:553-579`). Nothing in the repository imports the hook, so its component is whatever
may call it.

## 3. Runs

`tlc -config <run>.cfg <module>`; every run is exhaustive within its bounds.

| run | module | asks |
|---|---|---|
| `vault_books` | DarkPoolVault | Do the books stay balanced and backed when a receiver calls back into the vault, two calls deep? |
| `ledger_totals` | DarkMarketLedger | Do the public cells say exactly what the included calls did, up to the top of a cell? |
| `server_overlap` | MCDarkMarketServer | What survives two requests whose bodies arrive in any order? |
| `server_faults` | MCDarkMarketServer | What survives lost answers, lost marks, withdrawals and restarts, for requests in turn? |
| `server_quiet` | MCDarkMarketServer | Do book, Midnight and vault agree when requests come in turn and nothing is lost? |
| `boot` | BackendBoot | All ways the boot of three wallets can go, with answers that are lost or never come |
| `page` | TradingPage | Overlapping, late and failing polls, with two clicks that may overlap |
| `demo` | WalletDemo | Does the page, over a node whose database fails, show what the node has, and do its buttons come back? |
| `wallet` | MidnightWallet | Every way for up to three connections, one after the other, to end |
| `watcher` | BlockWatcher | Two polls or events answered in any order, or not at all |
| `tables` | TableData | One initial load, or the two of a development build, whose requests fail or find nothing, with two reloads |
| `find_overlap` | MCDarkMarketServer | `OneAtATime` with overlapping bodies: violated |

### What the passing runs show

* `vault_books`: `BooksBalance`, `SettledOnce`, and `CommittedIsAccountedFor`:
  what is committed is never more than was settled, and as long as releases are
  exact it is what was settled less what was released.
  `EveryLayerSound` is the inductive invariant of the proof; that committed
  collateral is covered is part of it. `ExactReleasesAreBacked`: deposits cover
  all open fills **as long as** the executor releases each epoch once and for
  its size.
* `ledger_totals`: `CountersAddUp` (the covers are `round - opened - matched`),
  `TotalsAreExact` (both totals are sums over the included calls).
* `server_overlap`: ids stay places in the book, every listed position is
  sealed under a blind of its own (`ListedIsSealed`), a match shown is a match
  proved (`MatchedIsProved`), covers never share a slot (`SlotsAreNotShared`),
  although `busy` fails as a lock there.
* `server_faults`: `OneAtATime` (`busy` is a lock when bodies come whole),
  `BusyIsReleased` (and one that is let go), `BootingIsQuiet`, `FillsAreSealed`,
  and `LeavesTheBookOnce`: the server implements `OrderBook`, restarts included.
* `server_quiet`: `OneFate`, `BookAgreesWithChains`, `LedgersAgree`. These need
  the quiet day: see section 6 for what breaks each of them. `SealedIsListed`.
* `boot`: `AddressIsReal`. `SpendsOnce`: every contract deployed but the one in
  use, and every payment but one, is one whose answer was lost. `BootEnds`, unless
  an await hangs; a wallet that hangs keeps boot from ending, but no other
  wallet from being ready or giving up.
* `page`: `CardsShowTheirOwn` (only clicks that overlapped can get each other's
  answers), `SpinningEnds` (nor does any other card spin for ever, while the
  boot, if the card is its, goes on to end or fail), `CatchesUp`.
* `demo`: `RegistrySpec`, the node implements `TokenRegistry` whatever fails in
  its database and whichever chain's event comes first. `ValidIsMinted`: no old
  answer, edit or early property makes a token look owned. `ButtonsComeBack`: they all do,
  unless `waitForBlock` waits for a height that is never reported.
  `PageCatchesUp`.
* `wallet`: `OneWalletKept`, `NightIsPutToWork`, and `ConnectEnds`, unless
  registering NIGHT hangs.
* `watcher`: `ShownWasReached`, `HeightNeverFalls`, `HeightFollows` (up to the
  rejected promise that is kept for good, which the property says).
* `tables`: `KeepsWhatItShowed` (in a development build, from the end of both
  loads on), `ColumnsFollowSchema` (in a build that loads once),
  `InitialLoadEnds`. Section 6 says what the second load can do.

`server_overlap` and `page` check a type invariant, which is more than types
where the code relies on it: slots and blinds stay in range, `workToast` and
`bootToast` never name a card that is gone. The type invariants of all modules
but the table hook's (which has none of its own, `HookTyped` is in its proof) are
theorems (section 5), and so is every invariant and action property of the runs.

### Bounds, and why they are enough

* `vault_books`: two accounts, one of them a contract that may call the
  vault back while it is being paid, one Midnight contract and two epochs, amounts 0..2, three units of currency, two settlements, depth 2.
  Two epochs are needed for two settlements of one contract, depth 2 for a
  revert inside a call that itself returns, amount 0 for the zero check.
* `ledger_totals`: cells hold at most 3 and sizes are 1 and 2, so that two
  matches or covers reach the top and one more must fail; two blinds and both
  sides give pairs of equal and of opposite positions; four calls are enough
  for two opens, a match and a cover.
* `server_*`: two clients and two wallets (a match needs two wallets); two or
  three commitments (a match makes two, and with the third two matches
  compete); two slots; one contract, two with restarts. `Sizes` is `{1}` where
  the size does not matter and `{1, 2}` in `server_quiet`, where unequal sizes
  test what is added up. The vault holds just enough for one or two fills,
  so that the collateral check bites.
* `boot`: two rounds of every loop or more, three wallets, so that one payer
  and two others can end differently.
* `page`: one timer slot and two clicks, whose answers start polls of their own,
  so up to three polls overlap; the two clicks may overlap as well. Two cards on
  the screen at once, so any two of boot's and the clicks'; with three the liveness
  check takes too long, and the proofs hold for any number. One change of the
  backend's book.
* `demo`: one token, which a transfer, a property of it and a property of
  another contract under the same token id race for; two loads under way, so
  that one overtakes the other and both share `isLoading`; one retry of every
  poll; one event of each chain is what a mint and a save publish. Old
  answers come from before either event.
* `wallet`: two coins, so that one may be registered and the other not; three
  candidate files, as the code has; three wallets built, so that two attempts
  fail and a third follows.
* `watcher`: two requests, so that one overtakes the other; two chains, so that
  the height of one moves without the other; heights 0..2, so that the page can
  skip one.
* `tables`: a primitive with a table and another to fail beside it, and the L2
  that has none; one load or two; two reloads, so that one overtakes the other.

Deadlock is checked in the server, page and table runs and in the vault's.
`CHECK_DEADLOCK FALSE` is set where the bounds stop the system (`ledger_totals`,
the number of calls; `demo`, `wallet` and `watcher`, the events, wallets and
heights) or where it ends by itself (`boot`).

## 4. Fairness

* `DarkMarketServer.FairSpec`: weak fairness of `Resume(r)`, what a handler does
  once its await has settled (the event loop runs settled continuations), and
  of `MidnightBlock` (the chain includes what is sent). That each await does
  settle is an assumption: `callTx` has no timeout (`server.ts:456`), and a call
  that never settled would leave `busy` set for good. Nothing is assumed of
  clients, who may leave a body half sent.
* `BackendBoot.Spec`: weak fairness of each part of the driver: its awaits answer
  or throw, *unless they hang*, which `Hang` lets any of them do at any time, for
  good. Only the wait for dust has a limit (`server.ts:288-290`); the poll (145),
  the indexer's answer (158), a deployment's output and exit (170-177), the
  payment (220-271) and a wallet's sync and join (282-317) have none, and
  `preprod-supervisor.sh:2-3` says of the deployment that it "waits forever". The
  loops do have bounds. So `BootEnds` says that boot ends or something
  hangs, and in the latter case the backend stays in boot and refuses to trade.
* `TradingPage.PageSpec`: timers fire, requests are answered or fail, and a card
  that reports an end closes after its delay. The boot need not end, because it
  may hang. Nothing is assumed of the user.
* `WalletDemo.Spec`: the node migrates and takes what is published, the interval
  goes on, requests are answered or fail, and a request repeated for ever does
  not fail for ever (`SF` on an answer that is not `Failed`), which is what the
  page's endless polling is there for. `MintGivenUp` needs a free slot
  for one more load, of which the code has no limit; strong fairness says that
  `Loads` does not make one. Nothing is assumed of `BlockSeen`: `waitForBlock`
  (`BlockWatcher.ts:39-42`) loops without a limit until the height of the mint is
  reported, and it may never be. `ButtonsComeBack` excepts it. Nothing is assumed
  of the user.
* `MidnightWallet.WalletSpec`: weak fairness of the connection in every await but
  `register`: `registerNightForDust` waits for the wallet's state without a limit
  first (`increment.ts:319-323`), so that nothing is assumed there and
  `ConnectEnds` excepts it. The sync and the wait for dust have limits; that
  building, joining and reading settle is an assumption about the library.
  Nothing is assumed of the chain.
* `BlockWatcher.Spec`: the interval goes on, requests are answered or fail, and
  among infinitely many answers some are true (`SF`). Blocks need not be made.
* `TableData.HookSpec`: weak fairness of the initial load: each `fetch` of each of
  its runs settles. That is an assumption about the browser; the code sets no
  limit. Nobody need call the reload functions.

The other runs use no fairness.

## 5. Proofs

`tlapm <module>` checks each of them from nothing. Every invariant, every
action property and both refinements that a passing run checks are theorems;
liveness is not (see the end of this section). The assumptions on constants are
those of the modules (`VaultAssumption`, `ServerAssumption`, ...); a theorem that needs more
says so in its `ASSUME`.

**Sums.** The books of the vault and the totals of the Compact contract are sums
over sets (`SumFunctionOnSet`), defined by recursion. The library's induction
theorems cannot be used here, but well-foundedness can: `SubsetInduction` takes
the set of the subsets for which a fact holds, and a least subset
outside of it. From it: the recursion has a solution (`SolutionExists`), and a
sum with one element more, one less or one value changed is what it should be
(`SumOneMore`, `SumLessOne`, `SumWithOneChanged`).

**DarkPoolVaultProofs**, for any accounts, contracts, epochs, amounts and depth.
The storage invariants alone are not inductive, because a failing call brings an
older storage back. `EveryLayerSound` says that the present storage *and every
storage on the call stack* is sound: balance, total and the sum of what
depositors hold agree, committed is covered and at most the sum of the fills,
keys are settled once, and, as long as releases are exact, committed is the sum of
the fills not yet released, so that every open fill is covered. `StorageIsSound` proves it, one step per action;
`VaultTypes`, `BooksAlwaysBalance`, `CollateralIsBacked`, `CommitmentsHaveFills`,
`SettlesAtMostOnce` and `OpenFillsStayBacked` follow. `SettlementsStay` proves
the action property.

**DarkMarketLedgerProofs**, for any number of calls and any cell width. That
every opening used was sealed earlier is not inductive on its own: the circuits
look in `commitments`, not in the chain's past. The strengthening
`CommitmentsAreRecorded` says that every commitment has an opening transaction
behind it. `Counted` and `Summed` say what one more call does to a count and to a
total. `LedgerIsSound` is the invariant; `LedgerTypes`, `CountersAreExact`,
`TotalsAreSums`, `OnlySealedIsUsed` follow.

**DarkMarketServerProofs**, for any clients, wallets, sizes, markets, contracts,
blinds and slots. The invariants build on each other:

| invariant | says | theorem | holds with |
|---|---|---|---|
| `Memory`, `VaultBooks` | types of what the process and its suspended requests keep, and what the vault's actions need | `ServerTypes` | any faults |
| `Quiet` | until boot is done nothing is listed and no request is past its body | `CoverNeedsNoBootCheck` | any faults |
| `Fresh`, `SlotsTaken` | a draft has no slot yet, and `nextCoverSlot` is above every slot that a position or a request has | `SlotsAreTakenOnce` | any faults |
| `BookSealed` | every listed position, and every draft whose circuit is included, is a commitment of the contract in use; blinds differ | `WhatIsListedIsSealed` | any faults |
| `Paired` | a match that is proved or shown has its call on Midnight; both keep their partner | `WhatIsMatchedWasProved` | any faults |
| `FillsBacked` | a fill, or a settlement that is still out, has its commitment | `WhatIsFilledIsSealed` | any faults |
| `Alone` | at most one request is not idle, and `busy` is set exactly while one is past it | `TakeTurns` | all but `overlap` |
| `BookOpen` | what a request is about to close is open | `TheBookIsKept` | all but `overlap` |

`TheBookIsKept` is the refinement: under the mapping of `DarkMarketServer` every
step is a step of `OrderBook` or a stutter. Here a position closed twice would
show, which is why it needs `BookOpen`, which needs `Alone`.

Most proofs do not go through the actions but through what a step
can do to the part they are about: `KindsOfStep` proves once that a step ends a
request, seals a draft, takes a slot, goes on or lands on a chain, or else
leaves that part alone.

What the README and the comments of the code claim about the *agreement* of book
and chains does not hold with every fault (section 6 shows what breaks each
claim). Four theorems say how much of it is left with which:

| theorem | says | holds with | inductive invariant |
|---|---|---|---|
| `EachHasOneFate` | a commitment is matched or filled, once and never both, and marked at most once | all but `overlap` and `lost_reply`: restarts, lost marks and withdrawals included | `OneAfterAnother` |
| `BookAgrees` | between requests the book shows as matched or covered exactly what the chains hold | at most `mark_lost` | `CalmDay` |
| `MarksHaveFills` | no mark on Midnight without its fill on Polygon, at any moment (`MarkedIsFilled`, which no run checks) | at most `mark_lost` | `CalmDay` |
| `LedgersCarryOneNumber` | between requests both ledgers carry the same number | no fault | `CalmDay`, `KeysOnce`, `Level` |

* `OneAfterAnother` is the table above and `Once`: what is done to a commitment,
  *or may still be done* by a transaction that a restart or a failed mark left
  behind, is one deed at most; every listed position that has the commitment
  tells of a deed that is done, by its status or by the request under way that is about
  to write it (`HasProved`, `HasFilled`, `HasMarked`); a blind still to be
  handed out has none. The last two are what makes it inductive: a request
  takes up an open position, which tells of no deed, so that there is none.
  What a restart leaves behind is harmless because the book is lost with it.
* `CalmDay` adds that no settlement is out that nobody waits for; `Funded`: a
  cover that has passed the collateral check still passes it when its fill is
  mined, because deposits only grow and no other request is under way
  (otherwise a settlement could revert and be marked, which `withdraw` does);
  and `Filled`: what is shown, or about to be shown, as covered, and what is or
  may still be marked, has its fill.
* `KeysOnce`: no two fills have one key, and `Level`: the vault's sum is the
  covered total, plus the one cover between its fill and its mark.

TLC checked `Once` with `{"mark_lost", "withdraw", "restart"}` (6.3 million states)
and `Filled` with `{"mark_lost"}` before they were proved.

**BackendBootProofs**, for any number of wallets and any length of the loops.
`StageSound` says, stage by stage, what the stages before have left: during
`deploying` the address is unset and every contract deployed was a lost answer,
from `funding` on the address is set, and at most one more than the lost answers
has been spent, and so on. `WalletsSound` ties wallets to `bootError`.
`BootIsSound` is the invariant; `BootTypes`, `JoinsARealContract`,
`BootSpendsOnce`, `NobodyIsMissedSilently` follow, and `BootIsForGood`.

**WalletDemoProofs**, for any tokens, owners, events, loads and polls.
`ValidIsMinted` is not inductive: cards come from answers, and an answer in
flight shows an older table. `PageInv` says that *every view in flight* shows
owners the node holds now (owners are never taken away) beside the page's own
types, and that every property row has its token's row. `DemoIsSound` proves it;
`DemoTypes`, `PropertiesHaveTokens` (the foreign key cannot fail) and
`ValidCardsAreMinted` follow. `ImplementsRegistry` proves the refinement of
`TokenRegistry` that `demo` checks: initial states map to initial states, every
step of node or page maps to a step or a stutter.

**PageProofs**, for any number of chains, requests, coins, tables and cards.

* Block watcher: `Reachable` says that every answer in flight and every
  remembered height was reached; `Merged` only raises. `WatcherIsSound`,
  `NeverAheadOfTheNode`, `HeightsOnlyGrow`.
* Wallet: `OneWalletKept` needs that a wallet is only being built while none is
  kept and that who joins does so with the kept one (`OneBuildAtATime`);
  `NightIsPutToWork` needs that what was seen is still held and registered from
  the registration on (`SeenIsHeld`). `WalletIsSound`, `WalletTypes`,
  `KeepsOneWallet`, `PutsNightToWork`, `BuildsOnce`.
* Trading page, for any user and any clicks: `PageTypes`. `Named` is what the two
  globals stand for: `bootToast` is the boot's card, and `workToast`, once every
  click that overlapped another is set aside (`crossed`), the card of the one
  click under way. With it `CardsKeepTheirOwn`, and with `Tracked`
  `SpinningCardsAreTracked`: whatever the overlapping clicks do to each other, no
  card of the boot and no later click is drawn into it.
* Table hook: `HookInv` says of a build that loads once (`Single`) that the initial
  load is alone until it ends and nothing is shown before (`Loading`), that a batch
  under way was asked with the schemas that are kept (`InStep`), and that no table
  kept or on its way shows guessed columns where there is a schema (`Faithful`).
  `ColumnsComeFromTheSchema`, and `TablesStayShown`, which also needs that the
  scheduled tables are loaded once (`ScheduledOnce`). For a build that loads twice
  `TablesStayShown` speaks of the time after both loads.

**MarketFeed**, for any number of requests and any clock: `ServesFreshLists`, by
the invariant that a list is at least as new as its date, which is why an answer
that is overtaken does no harm (`server.ts` dates the cache by the start of
the request). `ListedResolves` and `OrdersTheRightToken` are about all rows. The
theorems about `Netting` are here too, for every epoch: `EachSideIsFilled` (crossed plus bought is what
each side submitted), `OrderShowsTheDifference` (two epochs with the same
difference send the same order, which is the privacy claim of
`netting.ts:1-9`), `ShieldedIsAShare` (0 to 100%, the empty epoch included).

**Only model-checked**: all liveness, because fairness (`ENABLED`) is out of the
prover's reach: `BusyIsReleased`, `SealedIsListed`, `BootEnds`, `CatchesUp`,
`SpinningEnds`, `ButtonsComeBack`, `PageCatchesUp`, `ConnectEnds`,
`HeightFollows`, `InitialLoadEnds`.

## 6. Where code and words disagree

**Two transactions in flight** (`find_overlap`). `busy` is read before
`await req.json()` and set after it (`server.ts:441`, 442, 447). Two requests
whose bodies arrive late both go on; the first `finally` then clears the
flag of the second. The refusal says "another transaction is in flight".

Further disagreements are stated in the modules and do not hold; each can be
seen by changing the named `.cfg`:

* `FilledOnce` (`DarkPoolVault.sol:12-14`), in `server_quiet` with
  `Faults = {"lost_reply"}`: `settleResidual` is mined, waiting for it throws
  (`evm.ts:135`), the position stays open; covering again takes the next slot,
  which the vault has never seen, and the position is filled twice.
* `MarkedIsFilled` ("the same number should appear in the vault's settlement",
  `darkmarket.compact:98-99`), in `server_faults` with `Faults = {"withdraw"}`:
  the receipt's status is not read (`evm.ts:135`), so a settlement that reverted
  is marked as covered. With `restart` or `lost_reply` likewise: a settlement that
  was left behind is mined after the next cover has read the vault, takes the
  collateral or the slot it counted on, and the next one reverts and is marked.
* "The card goes up the moment you click and stays until the backend answers"
  (`index.html:664`), of clicks that overlap: `workToast` is one global (903) and
  no button is disabled by a click on another. Click Open, click Match
  before the answer: the first answer ends the second card, the second answer
  finds `workToast` cleared, and the first card spins for ever. In `page`, drop
  `crossed` from `SpinningIsTracked` (or from `CardsShowTheirOwn`, for the card
  that shows the other's answer); both hold with it.
* "Don't clear data on error, keep existing data" (`useTableData.ts:400`), in a
  development build: `StrictMode` (`main.tsx:7`) runs `initialize` twice, the
  second to end replaces what the first has shown with `setPrimitiveData` and
  `setScheduledData` (496, 537), and what failed there is gone. If the two were
  told different schemas, the columns shown may not be those of the schema kept.
  In `tables`, drop the condition on `strict` from either property.
* Boot waits "in minutes" (`server.ts:140`), and its loops count rounds, but a
  round has no limit: `preprod-supervisor.sh:2-3` exists because the deployment
  that `bringUpChain` runs "waits forever" when its sync dies. `booting` then stays
  set, and every trade is refused; see `BootEnds` and section 4.
* `OpenFillsBacked` (`DarkPoolVault.sol:41-42` against 166), in `vault_books`:
  `releaseEpoch` takes the amount on trust and may be called again for the same
  epoch, so open fills can lose their collateral. `ExactReleasesAreBacked` is
  the part that holds.
* `LeavesOnce` (`darkmarket.compact:11-13`), in `ledger_totals`: the contract
  alone does not stop a position from being matched twice; the backend does.
* `OneFate` ("one of two ways", `server.ts:8`), in `server_quiet` with
  `Faults = {"overlap"}`: a position is matched by one request and covered
  by another; with `{"lost_reply"}`: a match whose answer is lost is matched
  again.
* `LedgersAgree` ("both ledgers carry the same number", `server.ts:579`), in
  `server_quiet` with `{"mark_lost"}`: a `mark_covered` that fails is
  swallowed, and no one marks it later.
* `NothingLeftOver` ("whatever is left over still needs a counterparty",
  `darkmarket.compact:86`), in `server_quiet`: `/api/match` takes a size of its
  own (`server.ts:500`), and the remainder of the larger position is closed.
* `SizesArePositive` ("size must be positive", `server.ts:445`), with
  `Sizes = {0, 1}`: 0.5 passes the check and is sealed as 0 (451).
* `OneBootCard` ("One card for the whole cold start", `index.html:803`), in
  `page`: after the first `bootError`, which nothing clears, every poll
  ends the card and makes a new one.
* `backendLive` is set to false by one failed poll (`index.html:891`) and
  nothing sets it again. The page's liveness is stated up to that.
* `resolveMarket` names an undefined `slug` in one of its messages
  (`executor/src/polymarket.ts:53`, `ui/polymarket.ts:59`); it throws there
  either way.
* `transfer-assets` stores every transfer under the address of the development
  chain (`state-machine.ts:94`), in the production configuration too, while
  `midnightContractState` keys by the address the event names. A token whose
  rows differ in the contract has two rows under one id, and the join of
  `/api/erc721` is on that id alone (`sm_example.queries.ts:157`); `OwnersOf`
  says which owners the page may then show.
* `pollForProperty` waits for "some value" of the property (`WalletDemo.tsx:768`):
  after a second save the old value ends the wait. `Confirmed` is written so.
* The mint recognises its token by comparing ids (`WalletDemo.tsx:624`), and does
  not look at the receipt's status (604): a reverted mint is polled for until
  the attempts run out. `ButtonsComeBack` covers it.
* A rejected `initializationPromise` is kept (`BlockWatcher.ts:51`): after one
  failed first poll the header says "Connection Error" until the page is
  reloaded. `HeightFollows` excepts it by name.
* A failed `/config` is never asked again, and a 404 of a table is remembered for
  the session (`useTableData.ts:271`); a hook unmounted before its initial load
  ends sets its intervals afterwards (550-582), and nobody clears them. They do
  nothing: their bodies are commented out.
* A connection to Midnight that fails after its wallet was started leaves that
  wallet running and starts another at the next click (`increment.ts:702-753`);
  `BuiltOnce` says when that stops.

## 7. Not modelled, and why

* What zero knowledge hides. The model treats a commitment as its opening and
  says nothing of who learns what.
* Reorganisations of either chain, gas, fees, dust balances.
* What `/api/state` adds to a snapshot: it reads the chain, awaits the market,
  then reads the positions, so its totals may be older than its positions. The
  page prints them and nothing acts on them.
* The batcher (`packages/batcher`): options handed to a library that does the
  batching; `postToBatcher` and its helpers in `increment.ts` have no caller.
* `run-epoch.ts` and `ledger-read.ts`: they use circuits and cells that the
  contract no longer has.
* `scripts/preprod-supervisor.sh`: a loop around one command. It is read (its
  `stalled` counter survives a restart of the attempt, lines 24-30) and not
  modelled, since nothing interacts with it.
* The orchestrator's process lists, deployment scripts and entrypoint:
  configuration, or programs run once by hand.
* The template's contracts (`Counter.sol` and the test tokens), of which the
  model has only what the node sees of them: transfers.
* Rendering and style: `Header.tsx`, `examples.ts`, the forms of
  `WalletModal.tsx`, the toasts of the demo, the counters it reads for display.

## 8. Plan

Done: the two contracts, the handlers between them, the abstract book, boot, the
page, netting; the market feed, the node with its database and abstract
registry, the demo page, its wallet, its block watcher, the table hook; proofs of
every safety property that a run checks.

Left:

1. `LedgersAgree` as an inequality with `mark_lost`: Midnight calls no more
   covered than the vault settled. (`BookAgrees` and `MarksHaveFills` cannot be
   had with more faults, see section 6.)
2. That `BackendBoot` implements the boot that `DarkMarketServer` keeps of it
   (`BootOne`, `BootDone`).
3. `/api/state` as a snapshot of two times, in place of `TradingPage`'s
   one-variable backend.
