# Avoir: a verification of the money that moves

Avoir is a personal finance application: an Electron shell starts one backend
process (Rust, `src/rust`), which serves a React application from one SQLite
file. This directory holds TLA+ specifications of the parts that decide whether
the figures a user sees are right and whether the program comes up, the TLC
instances that check them, and proofs, checked by TLAPS, of the most important
facts.

The backend exists twice. `src/apps/api` (TypeScript, Prisma, Postgres) is the
implementation the Rust was ported from, statement by statement, and is kept as
the reference that `src/tools/differential` compares it with. A part that is in
both is modelled once. The ledger with its proofs, line items, schedules, debts
and backups follow the Rust, where what a kill leaves behind is the user's only
copy. The gate's hooks for totals, chain, holdings and budgets, and
reconciliation, follow the TypeScript, where the rules are written down and
tested; section 3 says where the two differ.

## 1. How the backend executes

Three facts shape every model.

* **One connection.** The pool has a single SQLite connection
  (`db/src/lib.rs`, `connect`). A handler that holds it, as the ledger gate does
  for a whole operation, excludes every other. A handler that passes the pool to
  each query takes the connection again for every statement, and other requests
  run in between.
* **Statements commit one by one** unless the handler opened a database
  transaction. A kill, an error or a dropped request between two statements
  leaves what was written so far.
* **Anything may stop at any await.** A client that hangs up drops the future of
  its handler; the shell sends SIGTERM; the process watches its parent and exits
  when the parent is gone.

* **The TypeScript backend has a pool of connections.** Postgres serves requests at
  once; outside a `$transaction` every statement of a request commits by itself
  and those of another may come between any two of them. Hooks and fire-and-forget
  recomputations run after the row they belong to is committed.

So the unit of atomicity is the statement, the gate operation, or the database
transaction, as the handler has it, and each module says which.

## 2. Inventory

State, operations and what makes each part right. The components, with what is
covered, are listed one by one in `PROJECT.json`.

| Component | State it keeps | Operations | Hard because | Right when |
|---|---|---|---|---|
| Ledger gate and balance chain (`db/src/ledger.rs`, `db/src/balance.rs`) | `Account.balance`, `openingBalance`; `Transaction`; the four chain columns of a row | create, update, delete of a row, each followed by the rebuild of the accounts it names | rebuilds of several accounts after one change; a walk cut short; rows that land in the middle of the chain | balance = opening + signed rows; the chain links up; the last link is the balance |
| Transaction and purchase routes (`api/src/transactions.rs`, `purchases.rs`) | - | post, edit, delete, bulk delete, split purchase | which of them are in one database transaction | the ledger stays right |
| Line items and links (`api/src/transactions_children.rs`) | `parentId`, `expenseId`, `incomeId` | add, edit, delete an item; link, unlink | check and write are separate statements | items fit their receipt; one row per occurrence |
| Accounts (`api/src/accounts.rs`) | `Account` | create, edit, delete, recalculate, rebuild | read, then write what was read | the ledger stays right |
| Reset (`db/src/bulk_delete.rs`) | - | delete all, delete imported | derived state must start over | baselines that need no replay |
| Schedule generator and matcher (`db/src/schedule_generator.rs`, `schedule_matcher.rs`) | `ScheduledTransaction` | generate a window; match, release, rematch a payment | moving due dates, history that must stay, several rows in reach | a paid bill is not owed again; a row and its payment agree |
| Schedule routes (`api/src/scheduled.rs`), recurring items (`api/src/recurring.rs`) | status of a row; settings of an item | pay, snooze, skip; edit, pause, archive, restore | status read, then written; rows deleted under a request | nothing settled is lost or settled twice |
| Debts (`db/src/debt_payment.rs`, `api/src/debts.rs`, `core/src/debt.rs`) | `Debt.currentBalance`, `paidOff`; `DebtPayment` | payment by an expense, reversal, extra payment, edit, delete | flooring, reversal, balances read early | a debt never shows less than is owed; paid off means zero |
| Backups and restore (`db/src/backup.rs`, `api/src/backups.rs`, start of `server/src/main.rs`) | the database file and its journal, the staged file, `backups/`, `Backup`, the lock | backup, retention, delete, stage, upload; apply at the next launch | deaths anywhere, two processes, records inside the file being replaced | never a corrupt database; what a restore replaces is kept |
| Holdings, trades, transfers of holdings (`db/src/holdings.rs`, `transfers.rs`, `snapshot.rs`, `api/src/investments*.rs`) | quantity, cost basis, snapshots | buy, sell, transfer, reverse | applied as entered, not by date; reversed after others moved the holdings; division of a basis | units follow the rows; a transfer keeps the cost |
| Reconciliation (`api/src/reconciliations*.rs`, `db/src/reconciliation.rs`, `core/src/matcher.rs`) | sessions, statement rows, matches | import, match, merge, adjust, close | residual read, then closed on; a matcher beside manual pairings; merges replace rows others name | closed at zero and kept; lines stored as printed; merges move nothing |
| Budgets (`api/src/budgets.rs`, `category_budgets.rs`, `db/src/budget_links.rs`, `core/src/leftovers.rs`) | versions, links, overrides | recompute from links, override, reassign | nine call sites must remember to recompute | follows its links unless overridden |
| Pay periods (`api/src/pay.rs`, `db/src/pay_period.rs`) | periods | generate, extend by one | a hook of every recurring row | contiguous, none twice |
| Dates, occurrences, utilities (`core/src/occurrences.rs`, `dates.rs`, `schedule_amount.rs`) | none | pure functions | month ends, weekends, readings near two dates | against a reference definition |
| Electron shell, updater (`electron/main.js`, `updater.js`) | child process, kill timer; state of the updater, `update-history.json` | launch, wait for the port, verify, report a death, stop; check, download, install at quit | a death at each point of a start; a stop that meets a start; a history written before what it records happens | a start ends, a death is told, no backend stays behind; the history claims what ran |
| Preferences, healthcare, descriptions, connected services | one table each | single-row writes | - | no derived state |
| Dashboards, predictions, cash flow | none | reads | - | - |
| Importer, exporter, schema generator, UI, showcase, tools | - | run by hand or in the browser | - | - |

Interactions: every route that moves money calls the gate; the gate calls, in
order of priority and on the same connection, the hooks for holdings, balance,
debts, schedule, pay periods and snapshots (`db/src/ledger.rs`). Line items and
account deletion write `Transaction` past the gate. Foreign keys do the rest:
`ON DELETE CASCADE` from a receipt to its items, `ON DELETE SET NULL` from a
payment or a schedule row to its transaction.

## 3. Modules

`X` is a specification, `MCX` its instance for TLC, `XProofs` its theorems. An
operator named after a mistake and commented *Wrong:* is what a plausible bug
would make of the definition that follows it; no behaviour uses one. They show
that the property named with it in `PROJECT.json` can tell the difference.
`HostProofs` has the theorems of BackupRestore and Shell, `GateProofs` those of Gate,
Chain, Holdings and BudgetLinks over `MCGate`, which puts the four side by side.

**LegSums** (pure). A *leg* is what a row does to one account. `SumDelta` is the
fold of `rebuild_chain`, `Precedes` the ORDER BY of `chain_after` (date,
createdAt, id: a row's id in the model is its rank by the last two), `RunningAt`
the running balance when the walk reaches a leg, `IsWalkPrefix` what an
interrupted walk may have written.

**Ledger**. `acct`, `txs` are the tables; `chain` holds the columns
`balanceBefore/After` (side 0) and `toBalanceBefore/After` (side 1). A gate
operation on a bare connection is the change of the row (`CreateTx`, `UpdateTx`,
`DeleteTx`), which sets `todo` to the accounts whose rebuild it owes, then
`WalkRows` and `WriteTotal` for each; nothing else runs until `todo` is empty,
but `Interrupt` may throw it away after any prefix of the walk. What runs in a
database transaction (split purchases, batch deletions, the reset, account
deletion) is one action. `PUT /accounts/:id` and `recalculate-balance` are a read
and a later write, and the first also a rebuild after that, with what was read in `edit`;
any number of them (`Editors`) may be in flight, on one account or several.

*History.* `driftTotal` and `driftChain` name the accounts that a step known to
skip the rebuild has touched since the account was last rebuilt. Exactly four
kinds of step add to them: `Interrupt`, `DeleteAccount` (for the other end of a
transfer), `WritePut` when what it writes differs from what is there, and
`WriteRecalculated` on top of a stale opening balance. The invariants are
claimed of every other account, so they say that *no other step* leaves a figure
wrong and that a rebuild, whoever asks for it, repairs every figure. Each such
step counts as a fault, and `MaxFaults` bounds them.

**LineItems**. The routes of `transactions_children.rs` and the deletion of a row, statement by
statement. `req` holds what each handler in flight was asked, has read, and does next. *History*:
`past` remembers whether two requests were ever in flight together (`"overlap"`), whether the
route for plain rows changed an amount (`"edit"`), and whether it, or the creation of a row, gave
a link (`"relink"`): those two look neither at the other side of a split nor at other rows of an
occurrence. A *source* is an occurrence, an expense together with a date. The promises of the
module comment hold only without them, and the properties say which they need. Whether a request
is refused depends on types and totals alone, so tax, category and note are left out.

**Schedule**. One recurring item. `rule` is the set of due dates its settings yield now
(computing them is `core/src/occurrences.rs`, not modelled), `price` what an occurrence costs
now. `sched` maps a due date to its row, `txs` a transaction to its link (the item, another item,
none), which day it counts for and its amount. An income differs from an expense: the gate is
given no `incomeId`, so the matcher stays out of `PayCreate`, and a third statement of `pay` sets
the link (`PayAttach`). `Generate` is one database operation; `Enter`, `PutTx`, `DeleteTx` are
gate operations with the matcher in them; `pay`, `snooze`, `skip`, edits and archive are handlers
in several statements, each of which may be dropped between them. Rows that go past the gate
(`DeleteItem`, `DeleteAccount`) are not released. A month has `MonthLength` days. Bounds: a
payment linked to another item while it settles no row here does not come back (`Elsewhere`), and
links are moved to other items only where requests come one at a time.

**BackupRestore**. `disk` is the sequence of files that have been `avoir.db`, the
last being the one at the path; a process that opened an earlier one keeps
writing to it, as a renamed-over inode does. `journal` is SQLite's rollback
journal at the path and says which file it belongs to: opening a database rolls
a hot journal back into it (`Recovered`), and a foreign one corrupts it. A
process walks through startup (`Launch`, `ReadStaged`, `Swap`, `Clean`,
`CarryCredentials`, `Lock`, `Open`) and may die at any step, then serves. The
content of a ledger is the number of the last write. The rows of `Backup` are inside the
database that a restore replaces: `listed` of a file is the set of them, and `created` of a
backup the `createdAt` that retention orders them by (`Surplus`), 0 until its row is
written. Three simplifications: restores are asked for one at a time, as the modal dialog has
it, though the route (`api/src/backups.rs:480`) would take another; every file has a name of
its own, while adopted uploads are named to the second and overwrite (712-717); and the rows
of failed backups, which name no file, are left out. The lock is that of unix.

**Debts**. Transactions that may fund a debt, the payments recorded for them, the debts, and the
extra payment in three statements (`ExtraRead`, `ExtraPost`, `ExtraRecord`). Rates, periods and
the rounding of the interest are the code's (`Interest`: a half cent goes up), and so is the
split of a payment. *History*: `owed` is what each debt owes but for the payments on it, as last
typed in, reset, or written over by an extra payment that read the balance too early (its
frequency is read as early); `typed` are the debts whose fields a user wrote last, for there is
no telling what a user types.

**Shell**. One record for the shell (its module variables die with it), the backends as processes
of their own, the state object of the updater with what is in flight, and what stays on disk.
`at` of a backend is `booting` until `TakeLock`, `locked` until `PrintPort`, then `up`, which is
when it watches its parent. `Exit` is the orderly end, which installs what was downloaded;
`ShellCrash` installs nothing. A backend whose shell is gone is an `orphan`: its pipe is closed.
`shell.server` is the variable `server` of main.js, which `stopServer` clears before the process
is dead, `told` that its `exit` was handled. A start may fail with no child at all
(`LaunchFails`), the check of a living backend may fail (`NotVerified`), and a write of the
history may be lost, which the code swallows (`WriteHistory`; `healed` says that the one of this
launch was not). `electron-updater` is external and appears as its events.

**Book** and **Gate**. Book is the promise of a ledger gate: rows enter, change
and leave together with what they move. Gate is `lib/lifecycle/ledger.ts` and
`balance.ts`: a request commits the row (`CreateRow`, `WriteRow`, `DeleteRow`),
reads it back, turns it into legs (a reversal of the old row, an application of
the new), and increments one account per statement (`ApplyLeg`), all of it
interleaved with other requests; `recalculateAccountBalance` and the deletion of
imported rows read sums and write them. `ImplementsBook` maps the total of an
account to what it will be when every request in flight is done
(`Settled`). *History*: `drift` is what a total lacks because a request died or a
route left the opening balance out; nothing else adds to it, and a
recalculation clears it.

**Chain**. `balance.hook.ts` in full, one request at a time: where a chain is entered
(`Previous`, `Start`, `Heal`), the walk with its two ways to stop (`Walk`), both sides of a
transfer (`WithDestination`), and the rebuild. A walk is said by what it leaves behind: the code
visits the later links in order, carries the balance along and stops at the first that was never
written or already agrees, so what it has written are the links with no such link before or at
them, each with the start plus the links in between (`Running`, `Written`). A row's id is its
rank in creation. *History*: `stale` are the accounts whose chain a step known to be wrong has
touched since a rebuild: an edit of a date that moves a row over later ones (`Crossed`), a
deletion whose walk starts too early or not at all because an inbound row, or none, comes next
before it (`Skipped`), an edit of the first row of a chain, whose healing walk stops at the row
itself (`Converged`), and a create cut short (`CutCreate`). `MaxSlips` bounds them. The Rust has
none of the four: it walks from the opening balance each time, which is Ledger's `WalkRows`. What
the comments promise of the next create (`NextCreateHeals`) holds of a chain whose written links
are right on both columns and come before every link that was never written (`GapOnly`): a walk
that fills a gap stops at the first link that agrees, so a gap *behind* such a link stays. With
two creates cut short whose amounts cancel, or with a right `balanceAfter` beside a wrong
`balanceBefore`, this happens; TLC finds both with more slips than the run allows.

**Holdings**. Trades and Bitcoin payments through their hooks, transfers past
the gate (`lib/transfers.ts`), their reversal, and the fee row of a stock
transfer. One asset, two places. A cost is moved in proportion and rounded. A payment
edited without its metadata is not checked against what is held, as in the route. What a user
writes into a holding directly (`PUT /investments/:id`, `investments.ts:183`) is left out, so
`HoldingFollowsRows` is about every other request.

**BudgetLinks**. One budget, its version, its high-water mark and the expenses
that can be linked. A route commits its change and sets `due`; `Recompute` runs
then, or `Fail` logs and leaves `behind`. Requests come one at a time, so that a recomputation
never overtakes another; an expense has one amount for all months; the user's figure replaces
the version of the present month in one step, where the route deletes and then creates
(`category-budgets.ts:240`).

**Reconcile**. One account, one session at a time, the statement's rows, the
pairings, and the requests in flight, each as far as it has read. `Overlap` names
the kinds of request that let others in between their statements. Which pairs
the matcher proposes is any pairing of equal amounts (`Pairings`). `sound` says
whether the account's total agrees with its rows, which the close checks and
other work may break (`Disturb`). `Claimed` is what was matched by hand, `Unclaimed` what an
automatic pass may pair. Nothing bounds the matchers in flight but `Handlers` and `Overlap`. A
row has one `amount`: the merge compares that column (`routes/reconciliations.merge.ts:117`) and
the residual sums `netAmount` (`lib/reconciliation/residual.ts:75`), which the gate keeps equal
(`lib/lifecycle/ledger.ts:146`). Merges are of expenses (those of refunds run the same code), and
`Charge` is over all months.

The modules share the rows of `Transaction` and no variable that two of them
write, so each abstracts the rest of the row on its own. `MCGate` puts Gate, Chain,
Holdings and BudgetLinks into one instance and lets one of them move in each
behaviour: none reads what another writes.

## 4. Runs

All runs are exhaustive over their instance. Sizes are distinct states, with
symmetry where model values are interchangeable (no property or action tells
them apart, and the run that checks liveness has no symmetry).

| Run | Instance | States | Shows |
|---|---|---|---|
| `ledger` | 2 accounts, 2 rows, transfers and trades, 2 days, two opening balances, both account edits, 1 fault; and 1 account, 1 row, 2 account edits in flight, 2 faults | 681k | Whatever is posted, moved, retyped, re-dated and deleted, both sides of the chain and the total are right and end on the same figure; only the steps of the drift history leave them wrong, and the next rebuild repairs them. |
| `line_items` | 3 rows, 2 amounts, no links, 2 overlapping handlers; and 3 rows of 1 amount, 2 occurrences, one request at a time | 625k | Served one after another, no sequence of requests overfills a receipt or takes items along with a row, and while rows get their link by `link` alone an occurrence has one row; overlapping, an item still always has a receipt, and the excess is bounded. |
| `schedule` | 2 months of 2 days, 2 prices, 1 transaction, one request at a time: an expense with 2 rules, an income with 1 and with links lost and moved; and 1 month of 2 days, 2 transactions, 2 overlapping handlers, for each of the two | 1.35M | Settled rows have a payment in reach and show it while it is linked; a paid month is not owed again; whatever overlaps, PAID, PARTIAL and SKIPPED rows are never removed. |
| `backup` | 1 process, 2 jobs, manual, scheduled, upload, dies while serving; and 2 processes, 1 job, manual, restore, delete, dies anywhere | 2.1M | Retention removes a backup only when enough newer ones of its source stay; the safety snapshot is filed first and kept; stored keys come through; a swap that is not cut short leaves one database; two backends never serve together. |
| `debts` | 1 debt, 3 transactions, 2 extra payments at a time, all requests | 697k | Nothing understates a debt, and a debt marked paid off owes nothing unless a user typed it so. |
| `shell` | 2 backends, 3 versions, history of 3, 2 crashes or lost writes of the history | 238k | The history claims nothing that did not run and, where the launch could write it, offers no restart into the past; a start settles, a dead backend is told, an orphan leaves. |
| `hooks` | totals: 2 accounts, 2 rows, 2 handlers, 1 death; chain: 3 rows, 2 days, 2 amounts, 1 slip; holdings: 2 places, 2 trades, 1 transfer, 5 requests; budgets: 2 expenses, 1 death | 296k | The gate implements the book; the chain is right but for the four slips, and the next create fills a gap; holdings follow their rows; transfers keep the cost; budgets cover their links and only a user lowers them. |
| `reconcile` | 2 transactions, 2 statement rows, 2 lines, 1 handler and the matcher left open beside everything else, 2 edits, 1 death | 2.1M | See the properties in Reconcile: lines, merges, adjustments, the close and what it certified. |
| `matchers` | 2 transactions, 2 rows of 1 line, 2 handlers, matchers open beside each other and everything else, 2 edits, 1 death | 852k | No pass touches a pairing made by hand. |
| `restore_crash` | 1 process, dies anywhere | violated | section 6 |
| `merge_split` | as `reconcile`, with a split receipt | violated | section 6 |
| `delete_imported` | as `hooks`, totals only, no death | violated | section 6 |

The types of Ledger, Gate, Chain, Holdings and BudgetLinks are an invariant of a run (`TypeOK`,
`HooksTypeOK`); `TypeOK` of LineItems, Schedule, BackupRestore, Debts and Reconcile and `ShellTypeOK`
hold on the same instances and are left out of the configurations: all of them are proved.

**What an instance leaves apart.** States of features that do not meet would only multiply, so
some instances are a union of smaller ones, chosen once in the initial state: `emphasis` of
MCLedger (trades of two rows on a day; two rows and a lost rebuild; one row, an account edit and a
lost rebuild; one account and two edits in flight) and of MCLineItems (amounts; links), the
`Workloads` of Schedule and BackupRestore, `subject` of MCGate. What is thus not seen together:
two rows under an account edit, a transfer under two, overlapping requests across a month's end,
two processes with overlapping jobs, a link of a row and an item of another amount. `matchers`
gives the pass of `reconcile` a second one beside it at the price of a smaller statement.

**Bounds.** `MaxFaults`, `MaxSlips`, `MaxEdits` and `MaxDeaths` limit faults and outside edits,
not operations: the ledger, gate, chain, budget, schedule and shell runs are unbounded in length.
Ids in LineItems, Debts and Reconcile are used up, so those runs may end (deadlock is not checked
there: the model stops because its ids do). `MaxRequests`, and the workload's writes, backups and
`MaxSwaps`, bound Holdings and BackupRestore. `MaxFaults` of Shell also counts writes of the
history that are lost. Two accounts are the most one row names; three rows give a chain a first,
a middle and a last; two handlers are the least that overlap, and a check-then-write pair needs
no third to go wrong. Three ids let a receipt have two items, which is what overfilling needs;
the bound of `OvershootIsBounded` is only approached with a third item, which these ids do not
allow. Two months of two days with a window of two put two pending rows in reach of one payment,
one of them in another month. One swap and four files reach a restore with a snapshot, an upload
and an eviction. Two trades, a transfer and five requests reach a transfer reversed after a later
trade was edited. Three versions let a download be recorded, not installed, and overtaken by
another; two backends let a slow stop meet the next start. Two transactions and two lines let a
merge have two originals, a line be printed twice and an adjustment stand beside a match. Two
statement rows let a file be imported again and no more: that a shorter file followed by a longer
one stores each line as printed is shown by the theorem, which has no such bound.

**Fairness.** Shell alone assumes any: weak fairness of a backend that is starting,
told to stop or left by its parent, and of the events the shell's loop has
waiting (the port, the answer to the check, the exit of the child) and of its own
exit once it closes. The operating system runs processes that can run and Node
delivers events that have happened. Nothing obliges a person to launch, dismiss,
quit, check or download, and the SIGKILL timer, which is unref'd and dies with
the shell, is not relied on. The other modules state safety only: the server
retries nothing and promises no end to a request, so what is true of its safety
is true of every prefix.

## 5. Theorems

Every theorem holds for every value of the constants that the assumption of its module
allows: any sets of accounts, rows, debts, holdings, backends, jobs and requests in flight,
any amounts, rates, limits and numbers of faults. The assumptions ask only what the code
gives: amounts are whole cents, ids that are created in order are numbers, the rows and
requests of a moment are finitely many, and `None` or `Nil` is no row.

**Sums.** `SumsProofs` stands under all of them. A sum is a fold of the library, which the
provers cannot unfold by induction, nor instantiate with an operator. So `SumIter` shows the fold
to be a function defined on the subsets of the set, `MinimalSubset` (a nonempty family of subsets
of a finite set has a minimal one) stands for the induction, and what follows is stated of
functions: a sum is an integer (`SumType`, `SumNat`), can be taken apart at any element whatever
order CHOOSE visits (`SumRemove`), depends on the summands alone (`SumFrame`), splits over a
union (`SumSplit`), is no less than a part of it where nothing is negative (`SumPart`), carries
over to an image (`SumImage`), changes sign with its summands (`SumNegate`), leaves out what adds
nothing (`SumDrop`), is the sum of the sums of its groups (`SumGroups`) and keeps its value when
some summands are exchanged for others of the same sum (`SumSwap`). A module that sums an
expression states in one lemma which function that is (`SumOfLegsIsSum`, `PrincipalIsSum`,
`ItemsTotalIsSum`, ...).

**Ledger** (`LedgerProofs`).

* `TypesAreKept`: `TypeOK` is inductive. Its hard conjunct is that a row names only
  accounts that exist: deleting an account must take every row that names it, on either
  side, and the items of those rows.
* `BalancesAddUp` (`BalanceSound`). A change of rows can disturb the total of an account
  only through its legs (`LegsFrame`), those of accounts the changed rows name; each action
  puts these in `todo` or the drift history, or writes their totals itself. So for each
  action one lemma shows that every account outside stays summed as it was (`TotalFrame`,
  `MineWith`, `MineWithout`).
* `ChainsAreSound` (`ChainSound`). Not inductive: between the two halves of
  `rebuild_chain` an account is still owed its total and is walked already. `ChainInv` says
  of every account outside the drift history, and outside `todo` but for the one that has
  just been walked (`Rewritten`), that each column holds what `Step` computes. From there
  to `ChainSound`: between a leg and the next there is none, so the legs before the second
  are those before the first and the first (`SumRemove`), and `RunningAt` grows by one
  amount.
* `BalanceEndsTheChain` (`LedgersAgree`) takes the two together: at the last leg the legs
  before it and itself are all there are.

**Line items** (`LineItemsProofs`). `ItemsInv` says what each request in flight still relies
on, at the step it is at; it is inductive because a given id is never given again and a
row never changes its parent, so what was read of a row is true of it or the row is gone.

* `ItemsAlwaysHaveReceipts`: whatever overlaps, an item has a receipt that is there and is no
  item itself.
* `DeletionsSpareItems`, `OccurrencesHaveOneRow`: need `ServedInTurn`, that a request in flight
  is alone and what it has read (no items, no other link) still holds. The second is about links
  given by `link`: the routes of rows give them unchecked (section 6, `SecondClaim.cfg`).
* `ItemsAlwaysFit`: adds `FitsInTurn`, the sum that was read is the sum that there is.
* `OvershootIsAlwaysBounded`: with n requests overlapping, the items of a receipt come to n
  times the receipt at most. The invariant is not about the sum of the items. `Charged`
  takes every choice of the requests about to write, no two to one row, adds what they
  would write to the items they would leave alone, and bounds that by n times the receipt.
  A write moves one line from the asked to the items and changes no charge; an admission
  adds one request, whose own line and the items it has counted fit the receipt, beside at
  most n - 1 others that ask for no more than a receipt each.

**Debts** (`DebtsProofs`). The inductive invariant adds to the two promises that an id is used
once (`IdsAreOnce`): a payment has the id of its transaction, and an extra payment in progress
has an id no payment has.

* `DebtsAreNeverUnderstated`, `PaidOffDebtsOweNothing`: for every rate and frequency. A
  payment is split on the balance as it was read, a reversal returns at least what is
  recorded, and taking a payment out of the sum takes out its principal (`PrincipalRemove`).

**Schedule** (`ScheduleProofs`), for every workload: any days, prices, rules and payments, any
match window, requests one at a time or overlapping.

* `ScheduleInv` says of each row by itself what it has to do with its payment (`RowOK`: the payment
  is there, in reach, and as the row shows it), that no payment is two rows', and of each
  request to pay that its payment is for the day that was asked for. One lemma for
  each thing that befalls the rows (`MatchedSound`, `ReleasedSound`, `RefreshedSound`, `PaidSound`,
  `GeneratedSound`, ...) and one for each way a request goes on (`TransactKeeps`, `RequestsEnd`,
  `RequestStarts`) cover the actions.
* `PaidRowsHaveTheirPayment`, `RowsAlwaysTellThePayment`, `PaymentsStayInReach`: for expenses and
  incomes. The conditions in the properties (one request at a time; no account and no linked line
  item deleted; the payment has a link, of this item or another; no payment edited while another
  request pays) are the places of section 6 where the code fails them, and nothing else is
  assumed: a request may be dropped after any statement, and a payment unlinked, linked to
  another item and back.
* `HistoryIsAlwaysKept` needs no condition. `PaidBillsStayPaid` is for months of any length: a window of
  whole months that has one day of a month has all of it (`WindowOfMonths`).

**The gate and its hooks** (`GateProofs`, over the specification the run `hooks` checks).

* `GateImplementsBook`: `Spec => ImplementsBook` where no two requests in flight are about one
  row (`~Overlap`; with it the code reverses the same legs twice, section 6). Each statement
  of the gate maps to a posting of Book or to a stutter. `GateInv` has what a request may rely on at
  each step (`JobOK`), that requests are about different rows (`Apart`), and that an account is
  `Even`: balance, drift and what requests still owe it add up to the opening balance and the
  rows, unless a recomputation that has read sums is about to overwrite it.
* `GateKeepsTheOpening`: without the deletion of imported rows, `OpeningIsKept`: a ledger at
  rest that nothing died in shows opening balance plus rows (`Unspoilt`: only a death
  drifts). With it the property fails, which is the run `delete_imported`.
* `BudgetsCoverTheirLinks`, `OnlyTheUserLowersABudget`: `Covers` says that the baseline, a sum over the
  linked expenses, is below the figure or a recomputation is due.
* `HoldingsFollowTheirRows`, `TransfersKeepTheCost`: from `HoldInv` (a transfer on the books is between
  two places that hold the asset, which reversing relies on), with the arithmetic of a cost
  that is moved in proportion and rounded.
* `ChainIsKept` (`ChainKept`), `TheNextCreateHeals` (`NextCreateHeals`): for any accounts, dates,
  amounts and number of rows. A chain is a finite set of links no two of which are the same row
  (`IsChain`), so that of two one is before the other, and the balance before a link is a sum
  over those before it (`RunningWith`: what one more link adds). The invariant is `ChainTypeOK /\
  ChainKept`; all the work is in a step. `WalkMakesExact` is what a walk needs: the links up to
  its place are right, its start is what they come to, and each later link either is right or is
  such that the walk does not stop before it (`GoesOn`). A create, an edit of an amount and a
  move of a date are then one argument (`PlaceShift`, `Ready`): take the row out of the chain;
  the rest was right with the row at its old place and amount, and no link lies between the old
  place and a later new one (`Uncrossed`, which `Crossed` excludes). Every later link is off by
  the same nonzero amount, so the walk stops at none of them, or by nothing, so it may stop at
  the first. The source's walk leaves the receiving account alone and the other way round
  (`OnlyAt`, `OffChain`), also where the columns of the row itself are written in between. A
  deletion starts from the nearest row the account is the source of: if no inbound row is nearer
  (`Skipped`), that is the last link before the gap. The healing walk (`GapMends`, `GapHealed`)
  starts at the last written link before the new row, or at the opening balance, and what lies
  behind is either never written, which it fills, or written without the new row, which makes it
  wrong by that row's amount.
* `HooksTypesAreKept`, `HooksKeepTheirPromises` put the four together for the specification the run
  checks, in which one of the hooks is at work.

**Reconciliation** (`ReconcileProofs`), for any transactions, rows, files, budgets and requests in flight.

* `ReconcileTypesAreKept`: whatever overlaps. `ReconcileInv` has the types, that a match joins a row and a
  transaction that are there (`MatchesOK`; deleting a transaction takes its matches along), and what a request
  in flight says of itself at each step (`JobOK`).
* `PassKeepsManual` (`ManualIsKept`) has no condition, and any number of passes may be in flight:
  the pairs a pass is about to write are its own, not made by hand, and avoid what was claimed
  when it read them.
* The other five each assume that the requests whose promise it is let nothing in between their
  own statements (`"close" \notin Overlap` and so on), while all the others overlap as they like;
  without it the close fails (`CloseRace.cfg`). `OnlyTheLoneOne` carries them: while a request
  outside `Overlap` is in flight, every step is its own, so what it has read is what there is. So
  each needs one more invariant, of what such a request has read: `CloseHolds` (residual zero;
  then also a sound ledger and the matches it is to stamp), `AdjustHolds` (the sum to be booked
  is the residual; once booked, there is none), `ImportHolds` (what is fresh of the file is what
  it prints beyond the rows there are), `StatusHolds` (the session is a draft), `MergeHolds` (the
  originals are live expenses, as they are now, and come to the row's amount).
* `LinesAreStoredAsPrinted` (`StoredAsPrinted`): an import adds to a line what the file has of it more than the
  session, so the count of a line becomes the larger of the two, as does `printed`.
* `MergeMovesNoMoney` (`MergeIsNeutral`): an exchange of summands, the originals for the merged
  row (`SumSwap`). Its parts are the originals but one, grouped by budget, so its shares come to
  the sum of those (`SumGroups`), and what is left to the parent is the amount of that one, in
  its budget.

**Backups and restore** (`HostProofs`).

* `NeverTwoBackends`: any number of backends on one directory, deaths anywhere. `OneBackend` says
  nothing of a process that has the lock and has yet to open the database; `LockIsHeld` adds
  it. `GotoStep` and `DownStep` reduce each action to the move of one process.
* The other four are about one backend that may die whenever it serves, with any
  number of jobs and restores, since that is what the properties promise. `SwapsAreClean` and
  `CredentialsAreKept` follow from `Order`: a journal belongs to the file at the path but for the
  moment between the rename and the removal of the sidecars, what is about to be
  renamed is a whole copy, no job outlives its process, and what startup has read of the
  keys is in the file it ends with.
* `SnapshotsAreKept` and `RetentionIsSparing` need `Books` besides. Retention runs in several
  statements and several jobs may be in it at once, so counting the files that are there is not
  inductive. `GoneHasSuccessors` says of every backup that is gone *or marked by a job that is
  about to remove it* that at least `Retention` newer ones of its source are there and unmarked.
  `RetentionSpares` itself asks the same of every removal: that `Retention` backups of the source
  that were created later stay. A selection keeps it because the newest of what is gone or is
  being marked has `Retention` newer rows on the list that are neither (`SelectedHasSuccessors`).
  That the newest is what counts needs rows to be stamped when they are listed
  (`ListsAreStamped`) and no two jobs to record one file (`RecordsDiffer`).

**Shell** (`HostProofs`).

* `ShellTypes`, with `HealedFacts` and `RecordedFacts` on what `healHistory` and `appendHistory` do to a
  history of any length.
* `NoFalseInstall` and `NoStaleRestart`, with any number of lost writes of the history; the
  second where the write of this launch was not one of them (`updater.healed`), for what earlier
  ones left behind is healed as well. Neither is inductive: an entry is marked by the version
  that is on disk, which must have been started by then (`RunningWasStarted`), and an entry that
  awaits a restart is recorded by a download, which must be of a newer version
  (`UpdatesGoForward`). `HistoryInv` is the four together.

**Model-checked only.** Of the properties the passing runs check, the three about the liveness of
Shell (`StartSettles`, `DeadBackendIsReported`, `NoOrphanStays`): liveness under fairness and
ENABLED are out of the prover's reach. Every invariant and every action property of a passing
run, and the refinement of Book by Gate, is a theorem. The four properties of section 6 that fail
are no theorems; `GateKeepsTheOpening` proves the one of them that holds without the route at
fault. An induction theorem that takes an operator is out of reach as well: where a recursion had
to be followed, a minimal counterexample stands for it, and where the code is a loop whose result
can be said outright (Chain's walk) the model says it. Nothing in these modules is RECURSIVE, so
that they can be proved about.

## 6. Where the code parts from what it says

Three disagreements are runs that end in a counterexample.

* `restore_crash`. A death between the rename and the removal of the sidecars
  (`db/src/backup.rs:451`) leaves the journal of the old database to be rolled back into
  the new one, and no marker is left; `db/src/backup.rs:29` promises a restore that is
  "pending rather than half-applied".
* `merge_split`. What may be merged is decided from the `parentId` of each row
  (`routes/reconciliations.merge.ts:86`, and the same in
  `api/src/reconciliations_merge.rs:165`), so a receipt with line items is merged as one
  row and their amounts go to its budget, against line 149: "every budget still
  receives its exact amount".
* `delete_imported`. `DELETE /transactions/imported` (`routes/transactions.ts:420`) sums
  from zero and drops the opening balance of every account, the mistake that
  `lib/account-balance.ts:24` describes. The Rust does not have it.

Six more have a configuration of their own that ends in a counterexample.

* `SecondClaim.cfg` (MCLineItems). The create and update routes of a row store the `expenseId`
  they are sent with no look at other rows (`api/src/transactions.rs:1252`, 1336-1390), so two
  requests one after the other give an occurrence two rows, against
  `api/src/transactions_children.rs:548`: "One transaction per occurrence".
* `BudgetFloor.cfg` (MCGate). What is stored as a budget's amount is computed from the high-water
  mark alone (`lib/budget-linking.ts:175`; `db/src/budget_links.rs:137`), so linking a
  smaller expense lowers an amount the user set, against line 149.
* `LedgerDeleteAccount.cfg` (MCLedger). `DELETE /accounts/:id` (`api/src/accounts.rs:499`)
  removes the rows of the account by a plain DELETE; the other end of a transfer keeps
  a balance that counts it, against `db/src/ledger.rs:3`, "Every mutation of the Transaction
  table goes through here".
* `SchedulePayOther.cfg` (MCSchedule). Paying a row that is SNOOZED, SKIPPED or PARTIAL
  posts the transaction first, and the matcher, which knows pending rows only, may give
  it to another row; the unique index then refuses the link (`api/src/scheduled.rs:200`,
  against `db/src/schedule_matcher.rs:57`).
* `StockFee.cfg` (MCGate). The fee of a stock transfer is entered without a
  `netAmount`, whose default is 0 (`lib/transfers.ts:337`), and the balance is moved past
  the gate: the next recalculation gives the fee back.
* `CloseRace.cfg` (MCReconcile). The residual is read and the session closed in separate
  statements (`routes/reconciliations.close.ts:136`, "The entire guarantee of this
  endpoint rests on this figure being current"): a row entered in between is certified
  unseen.

Others met while modelling are no runs; each is excluded from the passing runs by
the condition in brackets, which is part of what those runs show.

* An account edit writes back the balance it read (`accounts.rs:402`, against 362), and a
  kill between an INSERT and its rebuild leaves the total wrong (`balance.rs:231`)
  [drift history of Ledger].
* Two items added at once overfill a receipt (`transactions_children.rs:21`); an item
  inserted during a deletion goes with the row (`transactions.rs:1406`); two links at once to one
  occurrence (`transactions_children.rs:579`) [`"overlap"`]; the route for rows edits a
  receipt below its items [`"edit"`].
* Two requests pay a row twice (`scheduled.rs:153`), and a skip overwrites a payment
  (`scheduled.rs:336`) [`Serial`]. A payment moved to another day while `pay` is between its
  statements is linked all the same (`scheduled.rs:200`) [condition of `SettledWithinWindow`]. A
  part of a month does not see what was paid in the rest (`schedule_generator.rs:21`)
  [`WholeMonths`]. The last day of the window is never matched (`schedule_matcher.rs:5`)
  [`Candidates` is the code's]. An unlinked payment keeps its row (`ledger.rs:961`, against
  `schedule_matcher.rs:151`), and so does that of an income whose `pay` was dropped before its
  third statement (`scheduled.rs:258`): the row no longer follows its amount [a payment without a
  link, in `RowsTellThePayment`]. Posting an income never carries its `incomeId` to the matcher
  (`ledger.rs`, `LedgerCreate`) [`Enter` is the code's]. A deleted account, or a deleted line
  item that settled a row (`transactions_children.rs:529`), leaves the row PAID
  (`schedule_matcher.rs:131`) [`Orderly`].
* On Windows `try_lock_exclusive` refuses nobody (`server/src/main.rs:451`): the file is opened
  with the sharing that is Rust's default, against the comment there, so two backends can serve
  one directory [the lock is that of unix]. Two uploads within a second share a file
  (`api/src/backups.rs:712`) [names are unique].
* The staged restore is applied before the lock is taken (`server/src/main.rs:86`, against
  78); writes served between request and restart are lost (`api/tests/backups.rs:523`);
  the row of the snapshot is in the database that is replaced (`api/src/backups.rs:315`);
  a truncated staged file makes every launch fail until it is removed; SIGTERM is not
  handled, though `electron/main.js:237` relies on it.
* Taking back an overpayment returns more than was taken (`db/tests/debt_payment.rs:121`);
  taking back a payment of no principal opens a settled debt (`debt_payment.rs:115`); the
  payment hook splits every debt as monthly (`debt_payment.rs:50`); a link records no
  payment (`transactions_children.rs:621`, against `ledger.rs:823`); the reset owes the
  original amount of a debt entered partly paid (`bulk_delete.rs:4`, against `debts.rs:532`);
  an extra payment writes over a balance that moved since (`debts.rs:802`) [`owed` follows
  the last three; the first two only overstate].
* Two due dates within 15 days of one reading both move to it
  (`core/src/schedule_amount.rs:38`), and the generator inserts one row twice [the due dates
  of an item are a constant of Schedule].
* Two requests of the TypeScript gate about one row reverse the same legs twice
  (`lifecycle/ledger.ts:170`) [`Overlap`]. `balance.hook.ts` leaves a chain wrong after an edit
  that moves a row over later ones, an edit of the first row of an account, and a deletion
  that follows an inbound row or none (`balance.hook.ts:220`, `525`, `627`) [`stale`]. It compares rows by a
  number beyond 2^53 (line 111).
* A trade that is made something else leaves its units behind (`lifecycle/ledger.ts:30`)
  [`Retyped`]. A triggered recomputation that fails is only logged
  (`expense-budget-recompute.ts:13`) [`behind`]; one that overtakes another may write last, and
  the baseline of an `amountSchedule` changes with the calendar and no recomputation
  (`budget-linking.ts:45`) [one request at a time, one amount].
* Import, patch, abandon, adjust and close read the status or the residual of a session and write
  later: interrupted, a file can arrive in a session that was closed meanwhile, or a closed
  session be abandoned (`routes/reconciliations.ts:705`) [`Overlap`; of these requests the
  properties of Reconcile are shown only where nothing interrupts them, whatever overlaps
  besides]. A merge of a row whose `netAmount` is not its amount, as the fee of a stock transfer,
  moves the balance (`routes/reconciliations.merge.ts:117`) [one amount].
* A session keeps the residual it was closed with at zero, though `schema.prisma:880` calls
  it "Non-zero only when an adjustment was made": with one it is zero as well.

## 7. Plan

Done: every module of section 3 checked, and its safety proved for every value of the constants; the
refinement of Book by Gate checked and proved; the liveness of Shell checked. What would come next, in this order:

1. **Pure algorithms** against reference definitions: occurrences and readings
   (`core/src/occurrences.rs`, `schedule_amount.rs`), the matcher's scores.
2. **Liveness of a restore**: applied or refused for good under weak fairness of startup.
3. **Chain under overlapping requests**, as Gate has them.

## 8. Not modelled

Pay periods (computed from settings, one row at a time), snapshots of net worth (written from
balances that are modelled), year plans and category budgets, utilities' providers and readings,
ignored rows and the list of sessions of a reconciliation. Reads (lists, statistics, dashboards,
predictions), formatting and parsing; sockets, tokens and routing; the user interface; the
importer, exporter and portable copy, which run with no process beside them; tables that nothing
is derived from. Amounts are integers without a width: cents are `i64` and the sums of a
household do not approach it. SQLite and the file system are taken from how the code relies on
them: statements are atomic, a journal left by a dead process is rolled back by the next to open
the file, rename is atomic, `flock` dies with its process.
