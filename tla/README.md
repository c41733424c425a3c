# Formal model of the Poker System

The repository is the cash desk of a poker clube: wallets, cash tables and
tournaments behind a NestJS + Prisma + PostgreSQL backend
(`src/apps/backend`), a Next.js frontend (`src/apps/frontend`) and a package of
shared DTO types. This directory holds TLA+ models of it, the TLC runs that
check them and the TLAPS proofs about them. Paths below are relative to
`src/apps/backend/src/` unless they start with `src/`; `front/` stands for
`src/apps/frontend/src/`.

Contents: [inventory](#inventory), [plan](#plan), [modules](#modules),
[how code becomes steps](#how-code-becomes-steps),
[state and actions](#state-and-actions), [runs](#runs), [bounds](#bounds),
[fairness and deadlock](#fairness-and-deadlock), [proofs](#proofs),
[disagreements found](#disagreements-found), [not modelled](#not-modelled).

## Inventory

| component | source | state | operations | must be true |
| --- | --- | --- | --- | --- |
| wallet ledger | `wallet/wallet.service.ts` | `wallets.balance`, append-only `wallet_transactions`, unique idempotency keys, the wallet's row lock | `applyLedgerEntry`, called by every money route inside its own transaction | the balance is the sum of the ledger; nothing is posted from a stale balance; one key posts once |
| cash tables | `table/table.service.ts` | tables, `table_sessions` (stack, totals, optimistic `version`), `stack_movements` | create, sit, seat a walk-in, re-buy, cash out (own, admin), record a result, close, reopen | no stack update is lost; a session is paid once, and what it holds; wallet and stack ledgers mirror each other; closing settles everyone it listed |
| transactions | `prisma/prisma.service.ts` | one open transaction per request, tenant filter | `withClube` (commit, rollback, 15 s timeout) | what a failed request wrote disappears; its locks too |
| tournament money | `tournament/tournament.service.ts` | tournaments, entries (status, seat, position), prizes | create, update, register (member, walk-in), unregister, eliminate, redraw, finish | an entry is paid for once; the pool is what was collected; prizes come from the pot; places are distinct; finished is final |
| tournament seating | `tournament/seating.ts` | pure | first seat, rebalance, redraw | tables differ by at most one player, no seat twice, nobody moves twice |
| tournament clock | `tournament/tournament-clock.service.ts`, `tournament.mappers.ts` | level, end, time left, version | start, pause, resume, step, edit levels, advance by reading | no command is lost or applied to another row; time is neither gained nor lost by pausing |
| television | `front/hooks/use-tournament-clock.ts` | last answer, offset of the device | poll, count down | never further off than the last answer was late |
| blind structures | `tournament/blind-structure.service.ts` | level sets | create, update, delete; copied by tournaments | every grid is one that somebody sent as a whole |
| refresh tokens | `auth/auth.service.ts` | token rows: family, revoked, replaced by | login, refresh (rotation, grace window), logout | a token is rotated once; nothing comes of one that was revoked before it was rotated |
| club membership | `club/club.service.ts` | memberships, roles, wallets | create, join by code, upsert, create a member, register | the clube keeps an active admin; a member has a wallet |
| participation history | `entries/entries.service.ts` | pure over two tables | keyset pagination of two merged sources | no entry skipped or repeated |
| frontend session | `front/lib/http-client.ts`, `front/components/providers/session-provider.tsx` | access token, refresh in flight, attempt counter, club | request with retry on 401, hydrate, login, logout, switch club | a late answer neither undoes a sign-in nor revives a closed session |
| page of a table | `front/components/table/seat-grid.tsx` | last poll, fields shared by all seats, requests under way | sit, re-buy, cash out, report a result, close, reopen | an amount goes to the seat it was typed for; once, if answers come and one sit is sent at a time |
| page of a tournament | `front/components/tournament/tournament-detail.tsx` | last poll, shared fields and dialogs | register, cancel, eliminate, finish | what was typed for one player never reaches another |
| operator's clock page | `front/components/tournament/clock-control.tsx` | cached answer, fields of a level | commands, edits, polls | no poll replaces the answer to a command by an older row; a level's fields stay its own |
| tournament form | `front/components/tournament/tournament-form-fields.tsx` and the two forms around it | fields, hidden ones included | create, edit | what is stored is what was shown |
| gateway client | `integrations/abacatepay` | none | create charge, ask for it, withdraw | the caller learns what happened; carried out twice only after an unclear answer |
| health, configuration, other pages, shared types | `health`, `config`, `front/app`, `src/packages/shared` | none | probes, validation, rendering | - |

How they interact. Every money route (tables, tournaments) opens a transaction
with `withClube` and calls `applyLedgerEntry` in it, so the wallet row is the
one resource that tables and tournaments share; `applyLedgerEntry` takes it with
`SELECT ... FOR UPDATE`. A table session is guarded by an optimistic version, a
tournament by `FOR UPDATE` on its row, the clock by a version again, which every
entry moves as well. The seating planners run inside the tournament's lock. The
database runs at READ COMMITTED, so a value read in one statement may be stale
in the next. Clients retry with an `Idempotency-Key`, whose uniqueness the
ledger enforces. There are no queues, no background jobs and no events: all
concurrency is between HTTP requests, and, in the browser, between the awaits of
the asynchronous functions of one page and of several tabs that share a cookie.

What is hard:

- reads before a transaction, used inside it: the stack of a cash-out, the
  entries and prizes of `finishTournament`;
- statements outside any transaction: `recordMovement`, `closeTable`'s list and
  its final update, the chain of statements of a refresh;
- retries: the optimistic loops (three attempts), the idempotency key looked up
  before the transaction and enforced at its end, the gateway's second attempt;
- a request that dies anywhere, holding a lock;
- cycles of row locks between two tournaments that pay the same winners;
- races of two refreshes around the rotation of one token, in one tab or two;
- seats moved one statement at a time under a unique index;
- pages whose fields outlive the dialog, the row, the seat or the level they were
  filled in for, and answers that arrive after the page has moved on.

`PROJECT.json` lists each of these at its line under `hazards`, with the
properties that cover it. Three have none, and a note instead: a sit that commits
after `closeTable` listed the sessions, a structure deleted while a tournament is
created from it, and a failed login that leaves the page loading. Others have a
property and a note on what it leaves open, such as the token that is issued after
its family was disconnected. All are what the code does, and no property states the
contrary.

## Plan

Done, in this order: wallet and cash tables; seating; tournaments over the same
wallets; clock, television; blind structures, refresh tokens, club membership,
history, gateway; the browser's session in front of the tokens; the four pages
that keep state between requests. Each part has its safety properties, the
money routes and the tournament routes have liveness, the cash tables and the
clock have an abstract specification they are shown to implement.

Left, should the project go on:

- one instance with a cash table and a tournament on the same wallet. Both call
  the same `applyLedgerEntry`, which `WalletLedger` states once, so what remains
  to be seen there is lock order between a table route, which holds one wallet,
  and `finishTournament`, which collects several.

## Modules

| module | what it is |
| --- | --- |
| `WalletLedger` | `applyLedgerEntry`: the row lock, the standby credit, the postings, the unique keys; the invariant `LedgerChain` |
| `CashTable` | `TableService` over `WalletLedger`: one action per route's arrival, then one per awaited step |
| `ChipBank` | abstract specification of the money routes: purses and chips, every operation in one instant |
| `CashTableProps` | types, invariants, action properties, liveness, and the refinement mapping to `ChipBank` |
| `Seating` | the planners of `seating.ts` and the statements that carry their plans out, on a room |
| `SeatingRoom` | one room on its own, with more players than a tournament can be checked with |
| `Tournament` | `TournamentService` over `WalletLedger` and `Seating` |
| `TournamentProps` | what it must keep true |
| `TournamentClock` | `TournamentClockService`: pure plans, and the `mutate` loop that writes them |
| `LiveClock` | abstract specification: a clock that counts down by itself |
| `TournamentClockProps` | types, the refinement mapping to `LiveClock`, and what a write may do |
| `ClockDisplay` | the television in front of `TournamentClock` |
| `BlindStructures` | the catalogue of presets and the grids that tournaments copy from it |
| `RefreshTokens` | `AuthService`: login, refresh statement by statement, logout |
| `BrowserSession` | `http-client.ts` and the session provider in front of `RefreshTokens` |
| `ClubMembership` | `ClubService` and account registration |
| `EntryHistory` | the merged, paged history |
| `PixGateway` | the client of the PIX gateway; the gateway itself is external |
| `SeatGrid`, `TournamentDetail`, `ClockControl`, `TournamentForm` | the pages that keep state, each in front of an abstraction of its service |
| `House` | the parts that share no state, as one specification: `part` says which one a behaviour is about |
| `MCCashTable`, `MCTournament`, `MCTournamentClock`, `MCBrowserSession`, `MCHouse` | the instances for TLC |
| `SumLemmas` | sums over finite sets, by induction over sets |
| `SeatingProofs` | proofs about the planners and their statements, for rooms of any size |
| `CashTableProofs` | proofs about the cash tables: types and the two locks; then the sums and the refinement |
| `TournamentProofs`, `TournamentPrizeProofs` | proofs about the tournaments' desk and seats; about places, prizes and what is final |
| `TournamentClockProofs` | proofs about the clock, its refinement and the television |
| `HouseServerProofs`, `HousePageProofs` | proofs about the parts of `House`: tokens, clubs, structures, gateway, history and the seating room; the four pages and the browser |

## How code becomes steps

One action is what happens between two points where another request can be
seen. Three rules make the steps:

- **Reads before the transaction are steps of their own**: the key lookup, the
  session read that the stack and version come from, the query of `closeTable`,
  the three queries of `finishTournament`. Checks on data that cannot change
  afterwards (a table's buy-in range is fixed at creation; membership) are made
  on arrival, together with the status of the table, which the code also reads
  once, first.
- **A transaction is one step per lock it waits for, and the commit.** What it
  writes between them is invisible to others under READ COMMITTED, and every row
  it writes stays locked until it ends, so its effects appear at once. Its
  guards - the version compared by `updateMany`, the unique indexes on seats,
  active users, idempotency keys, join codes and addresses - are evaluated at the
  commit: the row lock or the index entry that the statement takes makes a
  competitor wait for that commit. Where two statements of a transaction read
  different snapshots and that matters, they are two steps: the guarded `UPDATE`
  of `updateTournament`, the delete and insert of a structure's levels.
- **In the browser a step runs from one `await` to the next.** Between them no
  other JavaScript runs; at an `await` anything may.

The paths that end a transaction without effect are actions too: `RetryCommit`
(version lost: roll back, read again, at most `MaxAttempts` times),
`RefuseCommit` (no funds, key used, seat taken) and `Fail` (the process, the
connection or the 15 s timeout, at any step). A client that got no answer sends
a new request, perhaps with the same key: `Keys` is smaller than the number of
requests in most runs, so repeats of a key happen all the time.

## State and actions

### Money

| variable | code |
| --- | --- |
| `wallets` | which `wallets` rows exist (a walk-in's is created with the seat or the entry) |
| `balance`, `ledger` | `Wallet.balance`; `WalletTransaction` rows by wallet, in order of insertion |
| `walletLock` | who holds the row after `SELECT ... FOR UPDATE` (`wallet.service.ts:185`) |
| `tables` | `Table.status`, `minBuyIn`, `maxBuyIn` |
| `sessions` | `TableSession`: status, owner, table, seat, `currentStack`, `totalBuyIn`, `totalCashOut`, `version` |
| `movements` | `StackMovement` rows by session |
| `results` | history variable: sum of the results `recordMovement` has applied to a stack |
| `tours`, `time` | `Tournament` rows: status, setting (prices, grade, limits), prize pool; start, late registration and level reached |
| `entries` | `TournamentEntry` rows in order of insertion |
| `rooms` | `TournamentTable` and active `TournamentSeat` rows of each tournament |
| `tourLock` | who holds the tournament's row |
| `req` | each request's point in its route (`pc`) and its local variables |

`CashTable`: a request's `pc` is `lookup` (find the key), `read`
(`mustGetSession`), `lock` (open the transaction, wait for the wallet), `commit`,
and for the routes without a transaction `apply`, `insert` (`recordMovement`),
`list`, `next` (`closeTable`) and `set` (`reopenTable`). `listed` is a history
variable: the sessions `closeTable` got from its query.

`Tournament`: `lookup`, `lock` (`LockAndCheck`: the row, then every check under
it), `wallet`, `commit` for the routes that pay; `lock` and commit in one step for
`eliminate` and `redraw`, which wait for nothing else; `update`, `apply` for the
guarded `UPDATE`, whose subquery sees the snapshot of its start and whose own
columns are looked at again after the wait; `grade`, `entries`, `lock`, `pay` for
`finishTournament`, which takes one winner's wallet per step, in prize order. Each
slot of `Reqs` takes one call after the other. `AbortDeadlock` is PostgreSQL's
deadlock detection: a request on a cycle of row locks is rolled back. Amounts
are small integers, percentages hundredths of a percent, and a share of the pot is
rounded as the code rounds it.

`Seating`: `PlanInitialSeat`, `PlanRebalance` and `PlanRedraw` are the planners of
`seating.ts`; `SeatEntry`, `Vacate` and `Redraw` carry their plans out statement by
statement and set `clash` if an insert meets the unique index on the way. The shuffle is any order.

### Clock and structures

`TournamentClock` keeps the four columns of the row (`clock`), the durations of
the levels (`grid`), how often they were replaced (`copies`) and `version`. A
command reads, plans and writes if the version still matches; entries and
structure changes move the version too. `now` is the wall clock; `lag` says
whether commands take time that shows on it. `Advance` is
`advanceClockToNow`, the pure function every reader applies. `LiveClock` is what it must look like from
outside; `ClockDisplay` adds the television, its device's clock (of any offset
and rate within `Strides`) and one answer on its way.

`BlindStructures` keeps the rows of presets, the transaction that has deleted
some (`rowLock`), and each tournament's copy. Blinds are compared only as far as
the validation of a grid compares them.

### Sessions and clubs

`RefreshTokens` keeps the token rows (owner, family, revoked, replaced by, expiry)
with two history fields, `from` (the token it came of) and `ended` (what revoked it
first; the code writes to no row that is revoked already, but for the rotation's pointer). A refresh is `revoke` (the compare-and-set), `won` or `lost` (the row is
read again), then `rotate` (a successor, and the pointer to it, in one
transaction), `issue` (forgiven: a further token of the family) or `disown` (reuse:
the family is revoked); it can stop after any of them, with a 500 or, where the user is
read, a 401 for one that is inactive (no route makes one so). Passwords, signatures and
hashes are right or wrong.

`BrowserSession` puts tabs in front of it: `cookie` and `stored` are shared,
`tab` is one tab's module variables and React state, `flow` its asynchronous
functions. The fields `signed` and `overlap` are of the model: the sign-in that
stands, and whether a renewal began while one was under way.

`ClubMembership` keeps accounts, codes, memberships and wallets. An
administrator's route looks at the caller's role in one step and writes in a
later one. `linked` (added by user id, without a wallet) and `contested` (two
administrators' requests at once) are of the model: they say where the two
invariants are not promised.

### Pages

`SeatGrid`, `TournamentDetail`, `ClockControl` and `TournamentForm` are one page
each: its last answer (`view`, `shown`), its React state (`page`, `form`,
`fields`), its requests under way (`sent`, `asked`), and an abstraction of the
service that keeps what the page can tell apart. The abstraction is looser than
the service modules: other people and other operators change it as they may. The
variables that number what is typed or say what became of it (`typed`, `known`,
`booked`, `crossed`, `wanted`, `latest`) are of the model, and so is the `age` of the
clock's row, which counts the ends of levels as well as the versions.

- `SeatGrid`: a button is off while its own mutation is pending. The three kinds of sit
  share a field and do not wait for each other; `crossed` counts the clicks that sent an
  amount while another sit had it under way.
- `ClockControl`: a button is off while the last command of its mutation is its own and
  pending (`clock-control.tsx:155`); an earlier one goes on. The service refuses `start`
  without levels (`tournament-clock.service.ts:99-104`; the page does not look at levels),
  and any command after three conflicts: `Contended` says that the row was written three
  times since the command was sent, so a 409 is possible. Attempts that lost leave nothing
  behind and have no step.
- `TournamentDetail`: a mutation knows its last request only (`newest`); an earlier one
  blocks nothing.
- `TournamentForm`: `gone` are the presets that were deleted, here in one step; the two
  statements of the deletion are in `BlindStructures`, and a tournament that names the
  preset by then is left out. A preset is its number of levels, which does not change.
  One request is under way at a time; a form that was closed and opened again while its
  first request runs could send a second.

### History and gateway

`EntryHistory` reads pages while rows are written; an id says nothing about when
its row was written, a time may be shared. `PixGateway` is a call, its one or two
requests on the wire and what the gateway carried out. The gateway is external
and modelled as the client treats it: any answer, late, lost, or after it acted.

## Runs

| run | question | expect |
| --- | --- | --- |
| `stack` | Four requests race on one stack: re-buys, cash-outs, results, sitting again, closings. Is an update lost, is anything but the current stack paid, is a listed player left behind by a closing that goes on? | pass |
| `counter` | Two tables on one wallet, with payments enabled; walk-ins paying cash, no funds, repeated keys. Does a posting start from a stale balance, do the wallet's and the stack's ledger mirror each other? | pass |
| `refines` | Do the table routes implement `ChipBank`, with no chip made or lost, and does every accepted request end? | pass |
| `movements` | see [disagreements](#disagreements-found) | violation |
| `desk` | Members, re-entries, staff bonus, cancellations and eliminations race for two vacancies, keys repeated. Is an entry paid once, is the pool what was collected, is a vacancy sold twice? | pass |
| `knockout` | A freezeout to its end, with walk-ins, redraws, three grades, and a finish with another finish, an entry or an elimination between its reads and its lock. Do prizes come from the pot, do places count down, does the room follow the entries at every commit, is finished final? | pass |
| `tourAnswers` | Two tournaments finished at once with the same winners in opposite order; edits against entries. Does every request end? | pass |
| `cancelled`, `update` | see below | violation |
| `clock` | Commands of two admins, levels that end by themselves, entries and new grids, a television. Is what anybody reads a live clock, is a command written only over the row it was planned on, how far off is the television? | pass |
| `house` | Everything that shares no state with money or the clock, one part at a time: room, structures, tokens, browser, clubs, four pages, gateway, history | pass |
| `login` | see below | violation |

`house` is one run over the eleven instances of `House`: a variable `part`, fixed in
the initial state, says which one a behaviour is about, and the variables of the
others stay absent. The parts do not interact; each is the module's own `Init` and
`Next`. Two invariants of one part that ask two sides of one question are one
property of `House` (for instance `SeatsAreSound`: the room at rest, and the plan on the
way).

## Bounds

Every unbounded thing is bounded by a constant: requests, rows, keys, amounts,
time, versions, attempts. `Workload` restricts which routes the clients
of an instance call. Each `MC` module states **plans** as state constraints: a
run explores the union of a few plans instead of everything its constants allow.

| run | plans |
| --- | --- |
| `stack` | `OneStack` (re-buys, cash-outs, results on a seat) or `Closing` (two closings, a cash-out and results) |
| `counter` | `OneWallet` (two tables) or `Counter` (walk-ins, one key for everything); two sessions, taken in order (`SeatsInOrder`) |
| `desk` | `TimePassesLate`: the clock of a tournament moves once it runs; before, the time decides nothing |
| `knockout` | `FinishOverlaps`: what runs at the same time is a finish with an entry, an elimination or a finish; `desk` has the races without one, `cancelled` a finish with a cancellation |
| `tourAnswers` | `TwoTournaments` (finished against each other) or `Edits` (one player against updates) |
| `clock` | `Prompt` (commands take no time), `Slow` (they take time, and entries and structures move the row), `Watched` (one admin and the television) |
| `house` | one per part, in `MCHouse`: on the page of a table one request under way or two kinds of sit, and at most one click that crosses another; on the page of a tournament one request; two commands of the clock's operator (while the grid is full and no field is refused); one optional field of the form at a time |

Why they are enough. A stale read needs the reader and one writer; an exhausted
retry loop needs `MaxAttempts` writers against one reader: three requests and one
to create the session, four in all, with `MaxAttempts` 2 (3 in the code). A lost
wallet update needs two postings on one wallet after its creation. A repeated key
needs two requests. A last vacancy needs two takers and a tournament of two. A
lock cycle needs two tournaments and two winners. Rebalancing needs a third table
to lose its players: ten entries at tables of three. A refresh race needs two
calls and three tokens. Pagination needs a page of one and three rows, two at one
time. Stacks move by 1 with buy-ins of 1 or 2: the equations are linear in the
amounts, so sizes matter only where they are compared (funds, range, a stack that
would go below zero), and each comparison comes out both ways in some run.
Explicit places (`Positions`) are left empty in the runs: an admin may type any
place, the code accepts it, and `PlacesCountDown` is about the automatic ones.

Numbers are interchangeable where requests, sessions, keys or tables are numbers;
`UsedInOrder`, `KeysInOrder`, `TablesInOrder` and `SeatsInOrder` explore only the runs that use
them in increasing order. Any other run is one of these with the numbers
permuted, and no property names a number. `SYMMETRY` is used in `desk`, `knockout`
and `clock`: in the first two over requests, keys and members, in the last over
requests; none of them checks liveness. The `VIEW` of `house` looks at a seating
room by the places taken instead of who takes them, because the planners never
look at names.

## Fairness and deadlock

`CashTable`'s `FairSpec` asks weak fairness of `Proceed(r)` for each request: the
Node process goes on with the requests it accepted. Nothing is asked of arrivals,
of table creation or of `Fail`. A request waits only for a wallet's row lock, and
what holds one can always commit, retry or be refused.

`Tournament`'s asks in addition strong fairness of `TakeLock(r)`: whoever waits
for a row is granted it if it is free again and again. PostgreSQL grants row
locks in queue order, so a waiter is not overtaken for ever. Weak fairness would
not do: two slots that call one route after the other can leave a third waiting.
A cycle is no fairness matter; `AbortDeadlock` breaks it, as the database does
after a second.

`CHECK_DEADLOCK FALSE` everywhere: an instance ends when its requests, rows, time
or versions are used up. That no request is left waiting there is what
`EveryRequestEnds` says for the routes that take locks.

## Proofs

Each theorem holds for every value of the constants that the named assumptions
allow: `WalletConstants`, `CashTableConstants` and `BooksConstants` (buy-ins, openings
and ranges are natural numbers, results integers, `None` is nothing else, guests are
users; people and sessions can be counted), `TournamentConstants` and `SettingConstants`
(what the validation of a tournament's form lets through; a table seats two at least),
`ClockConstants` (durations are positive), and for the parts of `House`
`SeatingConstants` (a table has a seat), `TokenConstants`, `ClubConstants`,
`ControlConstants`, `FormConstants`, `GridConstants`, `SubmissionConstants`,
`GatewayConstants` and `HistoryConstants` (`None` is no row, code, request or set of
rows, a lifetime is a number, a grid has a last level, attempts and amounts can be
counted, ids and times can be compared, and a page is shorter than what is fetched from
one source, as the validated limit of 100 is shorter than `SOURCE_FETCH_CAP`). TLC
evaluates all of them in the runs.

| module | theorem | what it says |
| --- | --- | --- |
| `CashTableProofs` | `Typing` | `[]TypeOK`: no balance, recorded balance or stack is negative |
| | `StacksKept` | `[]NoLostStackUpdate` |
| | `LedgersChained` | `[]LedgerChain` |
| | `StackPaidOnce` | `CashOutPaysTheStackOnce` |
| | `ClosingSettles` | `[]ClosingSettlesWhatItListed` |
| | `Conservation` | `[]MoneyConserved` |
| | `EntriesPaired` | `[]DoubleEntry` |
| | `Refinement` | `ImplementsChipBank` |
| `TournamentProofs` | `DeskIsSound` | the next four, as long as `SettingLockedByEntries` |
| | `EntriesPaidForOnce` | `[]PaidForOnce`, where nobody asks for an edit |
| | `PoolsAreWhatWasCollected` | `[]PoolIsWhatWasCollected`, likewise |
| | `VacanciesSoldOnce` | `[]VacanciesRespected`, likewise |
| | `TypesKept` | `[]TypeOK`, likewise |
| | `SettingsLocked` | `SettingLockedByEntries`, likewise |
| | `SeatsAreTheirs` | `[]SeatsFollowEntries`, likewise |
| `TournamentPrizeProofs` | `PlacesCounted` | `[]PlacesCountDown` in `Freezeouts` |
| | `PrizesAreFromThePot` | `[]PrizesComeFromThePot` in `Freezeouts` whose grades pay a second place and no more than 100 % |
| | `FinishedTournamentsStay` | `FinishedIsFinal` in `Freezeouts` whose grades pay a second place |
| `TournamentClockProofs` | `ClockIsCoherent` | `[]TypeOK`: whoever has the clock running knows its end, whoever paused it what was left |
| | `CommandsFollowTheRow` | `WritesFollowTheRow` |
| | `ClockIsLive` | `ImplementsLiveClock`, as long as nobody replaces the grid |
| | `TelevisionKeepsUp` | `[]DisplayTracksServer` |
| `HouseServerProofs` | `RotationNeverForks`, `NothingRevives` | `[]RotationChain`, `[]RevokedTokensStayRevoked` |
| | `AdministratorRemains`, `WalletsStayWithMembers` | `[]AdminRemains`, `[]WalletsFollowMembers` |
| | `GridsCopiedWhole` | `[]GridsAreWhole` |
| | `CallsStayHonest` | `[]CallsAreHonest` |
| | `PagesLoseNothing` | `[]PagesAreComplete` |
| | `SeatsStaySound`, `TablesStayBalanced`, `PlansMoveNobodyTwice` | `[]SeatsAreSound`, `[]TablesBalanced`, `[]NobodyMovesTwice` |
| `HousePageProofs` | `LevelsAreNotMixed`, `AnswersAreNotUndone`, `OffersAgree` | `[]EditKeepsItsLevel`, `OwnCommandStaysShown`, `[]RefusedOnlyIfMoved` |
| | `FormsAreKept` | `[]FormIsKept` |
| | `LoginsStand` | `[]LoginStands` |
| | `AmountsStayWithTheirSeat`, `AmountsBookedOnce` | `[]AmountsKeepTheirSeat`, `[]BookedOnce` |
| | `NothingStays` | `[]NothingLeftOver` |

`SumLemmas` serves `CashTableProofs`, `SeatingProofs` and through it `TournamentProofs`
and `HouseServerProofs`: what a sum over a finite set becomes when an element is added,
taken away or changed, and that it is a number. The library's induction theorems take an
operator, so `SubsetInduction` is stated over a set of sets (if the empty set is in it,
and it is closed under one more element, every finite set is) and proved from the least
size of a counterexample.

### The hypothesis about edits

`TournamentProofs` cannot claim its invariants of every behaviour: the run `update`
refutes what the code says of `updateTournament`, and an edit that slips under an
entry changes the price it is refunded at, the share of the pool it stands for and
the number of places. `DeskIsSound` therefore assumes of a behaviour that each of its
edits respects the entries (`SettingLockedByEntries`, the very property the run
refutes), and of nothing else: edits are still requests, wait for the row and write.
`SettingsLocked` discharges the assumption where `Workload` has no edit in it, as in
`desk` and `knockout`. So the race of that run is the only thing that stands between
the code and these invariants.

### The hypotheses about places and prizes

`TournamentPrizeProofs` is about `Freezeouts`: no route that cancels or edits, no place
typed by an admin, and no setting with late entries or re-entries. `EveryGradePaysMore`
adds that every grade pays some place below the first, `EveryGradeFits` that none adds up
to more than 100 %. The instance of `knockout` is one of them, so none is empty. They are
what the code needs, as the [disagreements](#disagreements-found) show: a finish pays over
a cancellation (`cancelled`); an edit may replace the grade between the reading of it and
the payment; a typed place may be one that is taken; a player who enters after the entries
were read may be found champion by a second finish, and with a single prize that finish
meets no entry that was paid; and the tolerance of the validation lets 100.01 % through.
Nothing is assumed about how many finishes run, when they read, or what is eliminated,
entered, drawn again, refused or rolled back in between.

### The inductive invariants, and why they are needed

- `TypeInv` (`CashTableProofs`). `TypeOK` is not inductive: a commit writes rows
  out of the locals of its request, filled several steps earlier. `RequestShape`
  says what those locals hold at each `pc` of each route (for instance, that a
  movement about to be applied will not make the stack negative) and
  `SessionShape` that an existing session has an owner with a wallet.
- `VersionInv` (`CashTableProofs`), the optimistic lock. Whoever is between
  its read and its write holds a snapshot not newer than the row, and while the
  versions are equal the session is active and has the stack that was read.
  Every write raises the version, so the snapshots of the others become stale
  with it, and a write whose version matches starts from the current stack.
- `LockInv`, the row lock. A request between its lock and its commit holds its
  payer's row and knows its balance; a posting changes only a balance whose lock
  the poster holds. `PostingsChained` shows that a posting computed from the true
  balance keeps the chain, with the standby credit or without. A walk-in's wallet
  needs no lock, because a user without a wallet has no entries (`NoWalletNoMoney`).
  `StackPaidOnce` needs both locks.
- `CloseInv`, the loop of `closeTable`. Everything listed and no longer to do has
  ended, but for the session under way; the key `close-table` of a session is in the
  ledger only once that session ended, so a replay may skip it; and what ended stays
  so (`EndedStays`).
- The books of `CashTableProofs` add no invariant: `MoneyConserved` and `DoubleEntry` are
  inductive relative to `TypeInv`, `VersionInv` and `LockInv`, which make the balance
  and the stack that a commit starts from the current ones. One lemma per kind of
  posting says which terms of the sums it changes (`PostedKeepsMoney`,
  `GuestKeepsMoney`, `ResultKeepsMoney`; for the legs `OneMoreLeg`). `Refinement`
  maps `balance` to the purses and columns of `sessions` to chips, status and owner:
  a commit is a step of the bank, every other step a stutter.
- `DeskInv` (`TournamentProofs`). Its half `Books` relates rows: an entry that is
  registered has one buy-in leg at its price and no refund, one that was cancelled the
  refund of that very leg (`EntrySound`); the pool is the share of an entry times the
  entries kept; the limits on places and re-entries hold (`TourSound`); a user without
  a wallet has no postings. `PaidForOnce` and the others are read off it, but are not
  inductive: a refund is right only if the leg it reverses is the entry's own. The half
  `Desk` relates requests to rows: whoever is past `LockAndCheck` holds the
  tournament's row and what entitled it is still so (`Granted`: there is room, the
  player is not alive, the entry is his and alive), since every step that could change
  it needs that row too. Payouts and eliminations keep both (`EntriesSettled`): they
  settle entries without touching a leg.
- `CountInv` (`TournamentPrizeProofs`). While a tournament runs, the places of those who
  are out are the numbers from those still in up to all, each once (`CountDown`); before,
  everybody is in. It holds because who enters found the tournament open for entries under
  the lock of its row, and eliminations hold the same lock (`Entering`).
- `PrizeInv` (`TournamentPrizeProofs`) is about what `finishTournament` decides before the
  lock. `Decision` says of a finish that waits or pays: each entry it will pay holds the
  place it is paid for, or is the last one in for the first place; it pays every place of
  the grade, by the shares of a pool not larger than the one there; or it pays nothing,
  because another finish is done. Nothing undoes that: who holds a place keeps it
  (`HoldsKept`), a place has one holder (`PlaceTaken`), and the pool only grows. So the
  second of two finishes meets an entry that was paid, whose key is used, and is rolled
  back (`StillDue`, `PaysNothingTwice`). `PlacesSound` and `PaidOut` say what is left
  behind: who was paid has a place of the grade, a prize of its share of the pool and one
  leg of that amount. The prizes then fit the pot because places and legs are different
  for different entries, and each share is rounded by half a unit at most (`SumOfImages`,
  `SumOfShares`, `SumOfFewer`).
- `HouseServerProofs`, tokens: `TokensRowSound` orders rows and their successors,
  `TokensCallShape` says what each refresh knows of its token, and `TokensOneWinner`
  that of all who present one token a single call has won its compare-and-set and not
  yet rotated it. Clubs: `ClubsTaskShape` types the requests and `ClubsAlone` says that
  in a clube that is not contested the one administrator who is about to write is still
  an administrator. `PartMoves` carries an invariant of a part to `House`.
  Structures: a grid that is at rest, and what a request is about to insert, was sent as
  a whole (`StructuresIInv`); any two accepted grids share level number 1, so a stale
  insert into a preset that is not empty is refused instead of mixing with it.
- `HousePageProofs`, the operator's page: rows only get newer, and every success starts
  the poll anew, so a poll that has read is no older than the newest answer on the page
  (`ControlPageSound`). A command remembers the row its button was offered on
  (`ControlOffers`); if it is refused while status and level are still those, the service
  accepts it unless there are no levels or the row was contended (`ControlExcused`).
  The form: a request under way carries what its form showed (`FormFaithful`), with no
  limits unless re-entry is ticked, and is refused for its structure only
  (`FormRefusedFor`).
  The grid of a table: a field and whatever was sent from it were typed for one seat
  (`GridPageSound`, `GridSentSound`). `GridBooks` counts together what was booked of an
  amount and the requests that may still book it: one, and one more for every answer
  lost and every click that crossed; `BookedOnce` alone is not inductive, because a
  request under way would add to a count that is full already. A tournament:
  what is ticked or typed is of the member of the dialog (`DetailPageSound`), and one
  elimination at most carries it. The browser: a sign-in has an attempt of its own,
  after the hydration's, so only a renewal that overlapped it can find it current
  (`BrowserTabSound`, `BrowserFlowSound`).
- `HouseServerProofs`, gateway: what was carried out for a call, and its requests that
  were not or not yet, are no more than its attempts, and there is a second attempt only
  after an unclear answer (`GatewayCount`, `GatewaySound`); an amount survives its
  conversions (`GatewayAmounts`). History: a row that was there when the list was opened
  is on a page or lies beyond the cursor, and what a source was asked for leaves out only
  rows that come after a full page of newer ones (`HistoryIInv`, `HistoryFetched`).
- `SeatingProofs`, on which `SeatInv` (`TournamentProofs`) and `SeatingIInv`
  (`HouseServerProofs`) rest. The planners fold over a room, and a fold is a `CHOOSE` of a
  function over the subsets of the list of moves; `FoldingExists` and `FoldingIsChain` turn
  it into a chain of rooms, one per move, and `SubsetInduction` carries a fact along the
  chain. The fact about a plan being made is that carrying out its moves so far leads to
  the planner's working copy (`ChainsAgree`, `ApplyOneMore`): each move then aims at the
  first free seat of a table with room in the very room it will be carried out in, so the
  unique index is never met (`TakeFreeSeat`, `RelocateOk`). A broken table finds room for
  all its players because of the comparison of `Breaks` with the sum of the capacities
  (`FullTables`, `SurvivorHasSeat`), and the destinations of a draw are different because
  its round robin is a division with remainder within the tables needed (`RoundRobin`,
  `TablesAreEnough`). `RoomOk` is what every route leaves behind: seats own and within an
  open table (`Sound`), no open table empty (`Tidy`), capacities alike (`Alike`; without it
  a draw could aim past the end of an older, smaller table). `SeatInv` adds who sits:
  everyone alive, and besides them only who was paid; `SeatingIInv` that entries still to
  come have no seat and that the room is balanced. `HouseServerProofs` takes `SeatingProofs`
  with `INSTANCE` and first shows that each operator of the instance `Room` is the one of
  `Seating`.

  Balance (`Balanced`) is that open tables differ by one player at most (`Level`) and are no
  more than the players need (`Snug`). Neither survives a plan half carried out, so the proof
  follows the counts turn by turn. When somebody leaves a balanced room, one table alone may
  lack players (`VacatedNearly`). Each turn of `planRebalance` either finds the tables level
  and moves nobody, or moves one player to that table, which stays the only one that lacks
  any (`Nearly`, `NearlyTurn`, `BalanceLevels`). It lacks two at most, so one move levels the
  tables and nobody moves twice. If the tables are too many, every player of the broken one goes to
  the emptiest of the others, which keeps those level, and then there is nothing left to
  balance (`BreakLevels`, `OthersAreLevel`, `VacatePlanIsShort`). A newcomer
  sits at an emptiest table, or opens one when all are full, and then the balance fills the
  new one (`NewcomerKeepsBalance`, `NewTableLevels`); a draw deals round robin, and the turns
  of two tables differ by one (`RoundRobinIsFair`, `DrawIsBalanced`). `BalancedCounts` says
  that balanced tables are exactly `TablesNeeded`.
- `TournamentClockProofs`: `PlanSound` says that while the version is the one a
  command read, its plan is what the command makes of the row that is there, at some
  time up to now (now itself, unless requests take time). `ClockIsLive` adds `RowSound`
  and that a running or paused clock is on a level of its grid (`Fits`). The ends of
  levels that pass by themselves are a recursive function, known by its equation
  (`AreEnds`), and a second of the abstract clock by induction along it. `updateTournament`
  may replace the grid while the clock is on a level the new one lacks; then the reads of
  the code differ from any clock that counts down, hence the hypothesis `copies = 0`. The
  run `clock` replaces grids only where requests take time, and there it compares nothing.
  `DInv` says how old the television's answer is: since it arrived the device went as far
  as the server, but for drift.

### Only model-checked

Liveness (`EveryRequestEnds`), which is out of the prover's reach: it is checked under the
fairness stated above. Every other property of the passing runs is a theorem, some of them
under the hypotheses named in this chapter.

## Disagreements found

Four are runs that TLC refutes:

- `movements`: the comment in `prisma/schema/table.prisma` (lines 125-128) says
  the movements of a session add up to its `currentStack`, which is updated in
  the transaction that inserts the movement. `recordMovement`
  (`table/table.service.ts:832-856`) does the two in separate statements without
  a transaction. Between them the sum is wrong, and it stays wrong if the second
  never runs. Its money effect is nil: the stack is right, its history is not.
- `cancelled`: `tournament.prisma:50-51` says the only way back to a wallet is the
  prize, credited from the prize pool. `finishTournament` computes prizes from the
  pool and the entries it read before the lock (`tournament.service.ts:1200`); a
  cancellation that commits in between is paid over. TLC shows the only entry
  refunded in full and then paid the first prize, out of a pool of 0. With entries,
  eliminations and other finishes in between the pot suffices (`knockout`), if the grade
  pays a place below the first and entries end before the tournament starts.
- `update`: the comment of `updateTournament` (`tournament/tournament.service.ts:175-179`)
  says the filter on entries makes the `UPDATE` match no row if somebody registers
  meanwhile. The subquery sees the snapshot the statement starts with, and after
  waiting for the row PostgreSQL looks again at its own columns only: the price
  changes under an entry that paid another, and a later refund is not its reverse.
- `login`: `session-provider.tsx:193-198` says that after the click only this login
  writes the session. A renewal that starts during the login, for a request that
  left before it, takes the login's attempt number; its late 401 ends the session
  that was just signed in.

Others were met while modelling and are in the models as the code has them. They
have no run of their own:

- the guarantee of a tournament is not looked at when prizes are computed
  (`tournament.service.ts:1280`), which `tournament.prisma:126-127` announces;
- late registration is not bounded below by the start (`:1485`;
  `tournament.prisma:114-116`);
- a sit that read the table OPEN and commits after closeTable's query leaves an
  active session at a CLOSED table, which closeTable's comment admits
  (`table/table.service.ts:732-736`) and reopenTable's does not (`:785-786`);
- a structure may be deleted between its in-use count and its delete
  (`blind-structure.service.ts:131`);
- `eliminateEntry` accepts an entry that was cancelled (`tournament.service.ts:883`
  excludes those eliminated and paid only), which then counts among the places;
- the grade of a tournament may add up to 100.01 % (`tournament.service.ts`, the
  tolerance of its validation), so for a pot that is large enough the rounded prizes
  may exceed it by a cent, hence the hypothesis `EveryGradeFits`;
- two finishes can pay the pot twice when the grade has one prize. `finishTournament`
  looks at no status once it holds the lock (`:1200-1300`), and its keys are per entry.
  The first read one entry alive, a second player registers, the first pays and sets
  FINISHED; the second, which read the status before, then reads the entries, finds the
  newcomer champion and pays the whole pot again. With a second prize, or with the same
  entries, the second finish meets a key that was used and is refused, as the comment
  at the lock expects of two simultaneous finishes;
- an amount on the grid is booked twice without any lost answer if an admin sends "sit",
  switches the dialog to a guest while that is pending, and sends "sit guest" with the same
  buy-in: the buttons of a mode are off only while its own mutation is pending
  (`front/components/table/seat-grid.tsx:431-458`, `:691`), and the seat may have been left
  in between. `BookedOnce` allows one booking more for each such click, and no other;
- the winner of a rotation that issues its successor after a reuse disconnected the family
  leaves a live token, although the answer says that all devices were disconnected
  (`auth/auth.service.ts:179-182`): `revokeFamily` touches neither the row that is being
  rotated nor the one that is not there yet. A logout is passed over in the same way, and
  a request that is forgiven still gets its token. `RevokedTokensStayRevoked` is about
  tokens that were revoked before they were rotated;
- the answer to an earlier command of the operator replaces that of a later one if it comes
  last (`front/components/tournament/clock-control.tsx:67-71` does not compare), until the
  poll it asks for is answered;
- "Iniciar" is offered for a tournament without levels and always refused
  (`front/components/tournament/clock-control.tsx:27-38`,
  `tournament/tournament-clock.service.ts:99-104`);
- a form that names a preset which was deleted since it was listed is refused with a 404
  (`tournament/tournament.service.ts:1174-1176`), though nothing it shows is wrong;
- winners' wallets are locked in prize order (`:1299`), so two finishes can
  deadlock; one is aborted and the admin sees an error;
- deposit forms make a new key per click, though `front/lib/api/wallet.ts:34-38`
  speaks of reusing it;
- in the tournament form an emptied optional field keeps its stored value;
  unticking re-entry while limits are stored is always refused; and the coherence
  check of `updateTournament` reads before it writes.

## Not modelled

- Front-end pages that show one query or send one form of their own (lists, the
  map of the tables, members, deposits, sign-up): nothing is kept between requests.
- Health probes and start-up validation; the shared package (types only).
- The tenant filter of `PrismaService`: one clube is enough for these properties,
  so that component is listed as partly modelled.
- Listings, balances and single-row reads: they only read. The two paged ones are
  `EntryHistory`.
- Deposits, withdrawals and the payment webhook answer 503 while payments are on
  standby (`wallet.service.ts`) and write nothing; an opening balance stands for
  earlier deposits, with its ledger entry. The gateway's client is modelled though
  nothing calls it yet.
- Wall-clock time outside the clock, tokens and histories, amounts' cents (but for
  the gateway's conversion and prize rounding), formatting, and who may call a
  route where roles are checked before the handler.
