# Moventra: a verification development

Moventra is a card and funds service: customers hold wallet balances, order
cards at a provider (Slash), move money to them, and deposit, exchange and
withdraw digital assets. The repository holds three programs that decide
something: the Go service in `src/services/api`, the *local workspace* in
`src/services/local-workspace`, a server of its own with a SQLite database on
which the operators' and customers' procedures are worked out, and the pages of
the client and of the administration in `src/apps` and `src/packages/shared`. The
TLA+ modules here model the parts of them that
move money, commit to an external call, or act on something read earlier, and
state what must hold whatever is interleaved, lost, repeated or interrupted.

Paths are relative to `src/services/api/internal` (Go files),
`src/services/local-workspace/demo-server/slash` (`.mjs`) and
`src/apps/client/src`, `src/apps/admin/src` or `src/packages/shared/src` (`.ts`,
`.tsx`); those that start with `docs/` to `src/`.

## The system

| Part | State it keeps | Operations | What is hard, what makes it correct |
| --- | --- | --- | --- |
| Funds ledger (`ledger`, `blnk`) | `ledger_operations`, `ledger_journal`; balances at Blnk | Submit, Resolve, Process, Drain, Provision, SnapshotTx | Money moves at Blnk before the row says so; responses are lost, requests are late, processes race and crash. An operation moves money once, a reservation is committed or released, the rows end up agreeing with Blnk. |
| Card issuing (`issuing`) | `issuing_orders`, `issuing_deposits`, `issuing_supplier_blocks`, catalog tables | Quote, Checkout, Submit, Topup, Process, Tick, recovery, catalog administration | A saga over the ledger and the provider. A card is asked for once; money goes back only when there is no card; what a card may spend is in its account. |
| Crypto funds (`cryptofunds`) | `crypto_orders`, address jobs, provider requests, observations | commands, worker Process/Drain, live events, card transfers | Orders of several ledger moves; payout requests whose result is only known by query or callback; chain observations. |
| Deposit addresses (`depositaddress`) | `funds_address_jobs`, `crypto_addresses` | Request, Import, callbacks | One address per customer although the creation may be lost. |
| Manual funds (`manualfunds`) | `manual_funds_orders` | Execute (submit, review), worker | Two persons, evidence used once, recoveries capped by the original. |
| Test funds (`testfunds`) | synthetic balances | Execute | Idempotent adjustments. |
| Slash webhooks (`slashhook`) | event inbox, card states, control commands | receive, Step, controlStep | Reads through HTTP become stale; a command is sent at most once. |
| Messages (`messages`) | campaigns, jobs, inbox | campaign review, DeliverOne, Retry | At-least-once work, at-most-once inbox rows in sequence. |
| Projection, fund records, metrics, HTTP API, commands | imports, reads, presentation | | Not modelled as components; where an API handler or a command changes an order it is an action of that order's module. |
| Finance workbench (`crypto-finance.mjs`) | orders, holds, reviews, channel jobs, fixed quotes, prices, entries | withdrawal, payout, amend, return, cancel, approve, execute, reconcile, channel events; quote, draft, confirm | Several persons decide about one order at different times; the channel reports in any order and repeatedly. What is paid is what was reviewed, held and reported, once. |
| Card administration (`card-admin.mjs`) | cards, operations, jobs, holds, entries | request, review, freeze, customer's freeze and unfreeze request, worker, refresh | A result that arrives after the card changed. A freeze stops what was not sent; a late unfreeze lifts no newer freeze. |
| Users, groups, sessions (`management.mjs`) | groups, users, reset links, sessions | create, move, review, enable, disable, reset, login | Disabling and password changes meet open sessions and links. No session outlives what it was granted on. |
| Catalogue and channels (`bins.mjs`, `channels.mjs`) | channels, imported directories, products, card links | save, import, bind, list, open | Two editors and an old list. A card opened is the product that was shown, and still is it. |
| Portal state (`portal/model.ts`, `portal.mjs`) | one state per customer with a revision, applied requests | deposits, exchanges, withdrawals, card transfers, events | Balances are changed by transitions in two steps; requests are repeated. |
| Portal pages (`portal/Portal.tsx`, `UnfreezeRequestDialog.tsx`) | the state last read, calls under way | poll, apply, recover, dialog | Answers overtake each other or are lost after the server acted. |
| Secret card view (`portal/remoteCvv.ts`, `RemoteCardCvv.tsx`) | session, timers, the page's node | show, hide, focus, answers | A late answer must not put another card's details on the page. |
| Checkout form (`issuing/CardIssuing.tsx`, `issuing/pending.ts`) | form, quote, consent, kept request | select, price, agree, submit, retry | What is ordered is what was priced and agreed to; one order at a time whose outcome is unknown. |
| Cross-currency projection (`fx/store.mjs`, `fx/query.mjs`) | records, reads, relations, a daily report and whether it is out of date | register, read, event, relation, report, detail | The source has no version and answers in any order. A record that says it is current is the newest one known; a stored report and the pages computed on their own agree. |
| Lists and details of both front ends (fifty screens in `AdminConsolePage.tsx`, `FxPage.tsx`, `ManagementPage.tsx`, `operations/*`, `finance/*`, ...) | query, what was last read, readings under way | filter, turn, reload, poll | Readings overtake each other, in a dozen hooks that keep, clear and forgive different things. What is shown belongs to the query. |
| Forms of the administration (`BinManagementPage.tsx`, `ChannelManagement.tsx`, `ManagementPage.tsx`, ...) | a draft, the record read, the revision it had | open, type, save, read again | Others change the record meanwhile. A save changes what was typed and nothing else. |
| Dialogs that confirm (`CardAdminPage.tsx`, `FinancePanel.tsx`, `CustomerFunds.tsx`, `OtcExchange.tsx`, ...) | inputs, the price shown, a kept request | price, confirm, repeat | Prices are late, answers are lost. What is sent was shown, and is executed once. |
| Message center (`portal/MessageCenter.tsx`, `messageQuery.ts`) | list, selection, a mark under way | filter, turn, select, mark, open | The list is read again for every state. A mark reaches what was there and selected. |
| Card list of the client (`portal/CardCenter.tsx`, `cardQuery.ts`) | query, selection, dialog | filter, select, export, freeze | The state changes under selection and dialog; two revisions. The button does what it says. |
| Rest of the front ends, shared helpers | presentation | | Not modelled: they decide nothing (see below). |

The parts meet in the database and in calls. Issuing, crypto funds and manual
funds call `ledger.Submit` and `ledger.Process` for each leg and keep their own
row in another transaction; their workers call those again until the leg is
applied. The ledger talks to Blnk by a *reference* (operation id and phase)
that Blnk accepts once. Nothing is shared in memory: processes meet at
PostgreSQL's row locks, a per-customer lock and per-order session locks, and a
process that dies frees them while its last request may still be under way.

In the local workspace every command is one SQLite transaction in one process:
commands do not interleave, but the persons, jobs, reports and pages that issue
them do, and each acts on what it saw before. Pages meet the server in calls
that may be answered late, in another order, or never. The finance workbench
and card administration read the same table of persons (`Principals`); otherwise
these parts keep tables and variables of their own.

`PROJECT.json` lists every component with its status, and the hazards of the
code, each at the line where it bites, with the properties that watch it.

## Modules

**Ledger** (`ledger/service.go`, `blnk/client.go`, `database/006_blnk_shadow.sql`).
State: `command` and `state` are a row of `ledger_operations`, `journal` is
`ledger_journal`, `lock` the customer's advisory lock, `worker` the
place of each process in `Process` and `Apply`, `blnk` and `balance` the
transactions and balances at Blnk, `late` the requests Blnk has received and not
executed although nobody waits for them.
`Submit` and `Resolve` are one transaction each. `Process` is cut where the
program calls Blnk: `Begin` (locks, choice of the phase), `Lookup`, `Post` and
its three bad ends (`PostResponseLost`, `PostAbandoned`, `LookupFails`),
`Recheck`, then `Finish`, which commits the journal row and the state or only
the error. `Crash` ends it anywhere. The request parameters, hashes and
currencies are left out; `FOREIGN` is a reference Blnk holds with other contents.
`Driven` names the operations of orders that a worker goes over again and again;
only `FairSpec` reads it.

**LedgerPromise** says what an operation promises its callers without Blnk,
journals or processes: it waits, is reserved, and is settled once. `Ledger`
instantiates it and `KeepsPromise` is the refinement.

**MCLedger** fixes one wallet, card, transit, escrow and clearing account, and
the operations of each run. **LedgerProofs** holds the theorems about the books
and the refinement.

**Issuing** (`issuing/engine.go`, `orders.go`, `funds.go`, `slash.go`). `state`
is `issuing_orders.state`; `run` what the process that holds the order's session
lock does; `op` the ledger operation of each of the order's legs (reserve, fee,
fund, the two legs that send the funding back, release); `limit` the card and
its limit at the provider; `inflight` requests the provider may execute later;
`blocked`, `allowed`, `paused` the switches `Process` reads. The ledger appears
through `PostLeg`, `SettleLeg` and `RefuseLeg`, as LedgerPromise allows.
`Transfers` is the table of the states that wait for the ledger; `MayTransfer`
their guards; the creation of the card and its enabling are cut at each provider
call, and `GiveUp` stops a process between any two. Amounts are small integers;
cards have the limits zero, the funding, or something else (`Loose`).

**MCIssuing** gives the orders their cards, fees and fundings. **IssuingProofs**
holds the theorems about the saga.

The two compose through the promise: Issuing's legs may do what an operation of
LedgerPromise may do, and LedgerProofs proves that the ledger does no more than
that as long as no request is executed after its client went away. With such a
request a leg could be refused and move its money (finding 1), which Issuing
does not contain.

**Principals** is the table of persons and permissions (`ca_principals`).

**Finance** (`crypto-finance.mjs`). `order`, `hold`, `reviews`, `queries` are
the rows of `fn_orders` (withdrawals), `fn_holds`, `fn_reviews` and `fn_jobs`;
`trade`, `quote`, `price` those of trades, fixed quotes and prices; `customer`
and `stock` sums of posted entries. One action per command: `NewWithdrawal`,
`Payout`, `RiskCheck`, `Approve`, `Reject`, `Amend`, `Cancel`, `Return`,
`Execute`, `Reconcile`; `Quote`, `Draft`, `ConfirmOtc` and what a draft shares
with a withdrawal; `SetPrice`. `ReceiveEvent` is the channel's report with
`ApplyEvent`, `Stale`, `Deliver`, `Confirming`, `Fail` and `Progress` in the
order of the code's tests. A channel pays an order in one of five ways
(`Outcome`); `Reports` is everything it may then say, repeated and in any
order. Addresses, evidence and digests are left out: whether the checker refuses
an address is a choice.

**CardAdmin** (`card-admin.mjs`). `card` is the restrictions, status and
revision of the card under test, `op`, `job`, `held` rows of `ca_operations`,
`ca_jobs`, `ca_holds`, `money` the sums of `ca_entries`. `Capable` is what a
request is tested for, `MayBegin` what is tested again when it is approved,
`StateChanged` what the worker tests before it sends. `ProcessCardJob` answers a
job as the provider might: success, failure, or unknown. `Work` is the worker,
with the rollback that blocks a job, `Refresh` the person who asks again.

**Management** (`management.mjs`). `group`, `user`, `resets`, `sessions` are the
rows of the tables of those names. A user's credential is a counter of passwords
set; reset links are numbered in the order they were made.

**Catalog** (`bins.mjs`, `channels.mjs`). `channel`, `directory`, `product`,
`cards` are tables; `listed` is what a customer's list last showed. `Blocked`
follows `productChannel` and `binProduct`, `SaveBin` the checks of a save
(`MaySave`, `Bindable`), `ImportChannelProducts` an import with its refusal of
changed prefixes, `Open` the opening with the revision from the list.

**Wallet** (`portal/model.ts`): balances and reserves per currency, budgets of
cards, and `item`, the orders and quotes of a customer. Customer's actions and
events are the transitions of the reducer; the retry of an order whose result is
unknown is the next event.

**PortalPage** (`portal/Portal.tsx`, `UnfreezeRequestDialog.tsx`, `portal.mjs`):
`revision` and `actions` are the server's, `page` what each page remembers,
`calls` what is under way, including writes no page waits for any more. The
contents of the state are Wallet's matter; here a state is its revision.

**CvvSession** (`portal/remoteCvv.ts`, `RemoteCardCvv.tsx`): a session per card
in view, its sequence, request and timers; `node` is what the page shows. Where
the page shows all details at once, `ShowSecret` follows `ViewCard`.

**Checkout** (`issuing/CardIssuing.tsx`, `issuing/pending.ts`): the form, its
quote and consent, and requests under way. The end of a React effect is
`Silenced`: a request it started may still be answered but is ignored; `Requoted`
is the effect that runs whenever something it depends on has changed. `pending`
is the request kept in the component, `stored` the one in the session storage.

**Fx** (`fx/store.mjs`, `fx/query.mjs`): `fx` is the row of each record with the
last read asked for and the last one applied, `observed` the answers kept,
`relations` the rows of `fx_relations` (child, parent, kind, and whether it is
confirmed), `heard` the events received, `dirty` and `daily` the stored report. `Register`, `BeginRead`,
`ApplyRead` (with the test that keeps a late answer or one that would take back a
posting from overwriting, `Superseded`), `Notified` and `AddRelation` mark the
report out of date, as the database's triggers do; `ReadReport` rebuilds it
first. The parent of a relation is a purchase; the child is any other record, a
purchase too, and one pair may be related under several kinds, since the key of
the table includes the kind. Report and detail page read the relations in
different ways. `RootDate` and `RootOf` want exactly one confirmed row for a later
record, and let a purchase be its own root; `NetOf`, the sum of the detail page,
takes every record that some row confirms. `Strays` are the records on which the
two differ: they are in the net amount of a purchase and the report counts them
elsewhere.

**Crypto** (`cryptofunds/worker.go`, `live.go`, `commands.go`) is the one part of
MCWorkspace that is in the Go service. `filed` is `crypto_orders.state`,
`resolution` why a hold goes back, `leg` the ledger operation of each move of an
order, `recorded` and `known` the row in `funds_provider_requests` and whether its
`provider_id` is stored; `wire`, `custody` and `made` are the channel's side:
requests it may still execute, the payout it knows, how often it paid. `driver` is the `Process`
that holds the customer's lock: its steps are cut at each ledger move and at each
call, and what it would save is in memory (`driver.state`) until it ends, so
`DriverStops` loses all of it but the moves and the row written before the
channel is asked. The ledger appears through `LedgerStep` as LedgerPromise
allows; `Holding` adds up what the moves that were made put into an account.

**Screens** is one module for every list and detail that reads for a query. A
screen is a record of how its hook reads (`Hook`: which answers stay when another
reading begins, which readings take an error away, whether it reads again by
itself, whether an error clears the page) and how its query is entered (`Screen`).
`AllScreens` names them; each run starts with any of them. `readings` are the
calls under way; the one the present effect may still use is `live`, and the end
of an effect (`Silent`) takes that from it. `ReadFor` is the effect, `Visit` a
filter, a link or Back, `Reread` a poll or the return to the page, `world` the
version of the data. Screens whose polls are not ordered are not among them (see
below).

**Editors** is the same for the forms that change a stored record (`Form`: what
makes the draft again, which revision is sent, what a save does next). `current`
is the server's record, `seen` the page's, `draft` the inputs, `typed` what the
operator changed since the draft was made. Others save in between
(`OthersSave`); a save of an older revision is refused (`ServeSave`).

**Confirm** is the same for the dialogs that price and confirm (`Dialog`: who
makes the price, what a change of the inputs does to one under way, whether a
request for it is kept, what the confirmation sends and what names it).
`offered` is the price on the page, `pricing` the one under way, `unanswered` a
request for one that got no answer and is kept in the session storage, `sending`
the confirmation under way, `kept` one whose outcome is unknown and which may be
repeated (`RetryKept`), `executed` what the server did, by the identity the
dialog names: its own, its price's, a kept key, or none. `LeavePage` opens the
funds of the other tab of the card, with other inputs; `RetryPrice` repeats the
kept request there, and the generation its answer is compared with is that of the
repetition. A price whose inputs have gone while it was asked for is `overtaken`;
a click records the inputs its price was made for (`priced`) next to those on the
page (`typed`).

**Inbox** (`portal/MessageCenter.tsx`, `messageQuery.ts`, `portal.mjs`): `notes`
are the server's notices, read or not, `mine` the state the page was last given,
`listing` and `rows` the list, `ticked` the selection, `marking` the mark under
way. `ListAgain` is the effect of the list, which runs for each query and each
state the page is given, so that every poll of the portal clears the selection.

**CardDesk** (`portal/CardCenter.tsx`, `cardQuery.ts`, `portal.mjs`,
`card-admin.mjs`): `owned` are the server's cards, some of them taken over by the
card administration (`Adopt`), with a revision of their own; `desk` is the state
of the page, `sought` the query, `picked` the selection, `confirmed` the card in
the dialog, `toggle` the click under way.

**MCWorkspace** puts these fifteen parts side by side. They share no variable,
so a behaviour of the whole is one of each part and a property of one part
depends on that part alone; `part` picks the one that moves in a behaviour, so
that the state space is their sum instead of their product. The theorems about
the parts' own specifications are in **BackOfficeProofs** (Finance, CardAdmin),
**ManagementProofs** (Management, Catalog, Fx), **CryptoProofs** and
**PageProofs** (CvvSession, Checkout, Screens, Wallet, PortalPage, Confirm,
Editors, CardDesk, Inbox); **WorkspaceProofs** carries them over to the
composition. **SumProofs** holds what all of them use about sums over finite
sets and induction over them.

Commands that are refused change nothing and are left out everywhere; a repeated
command of the workspace returns the stored result, so that an identifier is
used once.

## Runs

| Run | Question | Instance |
| --- | --- | --- |
| LedgerRace | Do the books stay right when everything races? | a credit of 3, two transfers to a card and a hold that cannot all be paid, 2 workers, one late request |
| LedgerMix | Do operations keep the promise made to callers, and does driven work end? | a credit and a hold that workers drive, a transfer nobody has to drive whose commit reference is taken at Blnk, a settlement that may overdraw the card; 2 workers, no late request, fairness |
| LedgerLate | Is `rejected` without effect? (it is not) | as LedgerRace, smaller, with a late request |
| IssuingRace | Does money follow the card, does every order settle, is a limit always funded, with a wallet too small? | two orders and a top-up of each card; the second order or the second top-up appears |
| IssuingLive | Do the states that wait for the ledger pass? | one card, one top-up, fairness |
| IssuingReversed | Is an active card funded if the provider changes its mind? (no) | one card |
| IssuingReads | Is a limit funded if a read is refused? (no) | one card |
| Workspace | Do the workspace's parts, the client's pages and the crypto orders act on what holds? | three persons; two withdrawals and a trade; three card operations; two users and groups; one product of one channel; three wallet orders; one page; two secret cards; two mounts of the form; two purchases and a refund; a crypto withdrawal, exchange and deposit; any screen, form and dialog with two readings, two edits, two prices; two notices on pages of one; two cards of which one is managed |
| PayoutsAmended | Do linked payouts stay within the proceeds of their trade? (no) | the finance part |
| CardBlocked | Does a freeze stop every transfer that was not sent? (no) | the card part |
| CardConfirm | Does the card's dialog send what it previewed? (no) | the dialogs |
| FundsRetried | Is a price of the funds confirmed for the inputs on the page? (no) | the dialogs |

*Bounds.* The only bound of Ledger is `MaxLate`, the number of requests that may
be late at once. One suffices to separate an attempt from its effect, and the
proofs put no bound on it. Two workers suffice for a race: the customer's lock
admits one process at a time, and the other takes over when it ends or dies; three contenders for one
wallet and two for one transit account are the least for which a wrong
overdraft flag or a wrong source account shows. In Issuing an order has at most
one process (its session lock), two top-ups are the least that can add up, and
two orders the least that compete. No run submits a `card_refund`: it is a
single move as a credit is, between other accounts, and the proofs include it. `MCLedger`'s runs do not check deadlock
because everything there may be over; Issuing's switches can always be turned.

The workspace's runs bound what people repeat. Finance: one withdrawal that the
channel pays in parts, with two amounts on either side of the limit for one
review and a second revision; one whose payout breaks off halfway; a trade, and
two versions of the price. Of the 4 USDT at the start not all of these can be
paid, and a sale of USDT competes with the holds. Cards: three operations, the
least for a transfer, a freeze and a later result to interleave, and two
revisions beyond the freeze. Management: two groups to move between, and two
users with two links and passwords each, so that old and new ones coexist.
Catalogue: two prefixes and limits, one revision after the first, so that every
list can be old. Wallet: three identifiers, a quote, its exchange and a
withdrawal. Page: two revisions besides the first and a poll under way while an
action, its recovery and the dialog are. Secret view: two sessions of two cards,
a sequence of three. Checkout: two products, amounts, versions of the terms,
keys, mounts and quotes under way. Fx: two purchases and a refund, two reads of it that can be answered in either
order, and an event between them; two kinds and two stored relations, so that a
pair is related twice, a purchase is made a child, or one record is claimed for
two purchases. Screens: two readings under way besides those that ended, and two
versions of the data, the least for an older answer to come last. Forms: two
revisions and two inputs, so that one is changed here and the other elsewhere.
Dialogs: two prices and two clicks, the least for one of them to be repeated or
overtaken. Inbox: a second notice comes while the first
is shown, and a page holds one, so that the last page can vanish. Card list: two
cards, one with a revision in the administration. Crypto: a withdrawal and an exchange that the wallet cannot both
pay until the deposit is credited; the channel makes the payout that was asked
for, or drops it, at any time after. `OneNewsAtATime` bounds two parts further:
new terms of the checkout or another mount of the form, and a new price or an
amended withdrawal, but not both, since no action reads both. The whole is about
570,000 states. These runs state no liveness and check no
deadlock: a part whose orders are used up is over. The proofs put none of these
bounds on the parts they are about, except that the bounding constants remain
parameters.

*Environment.* Crypto assumes that what the custody channel said of a payout
that is over it says for ever, that one request makes one payout, and that the
ledger keeps its promise. IssuingRace and IssuingLive assume that the provider
never accepts a limit it refused for the same order (`Steadfast`) and that
reading a card is never answered 400 or 422 (`ReadsRefused = FALSE`). The runs
IssuingReversed and IssuingReads drop one assumption each and show what the
code then does; they are the second and third finding.

*Fairness.* Ledger: a process that holds an operation goes on or dies (weak
fairness). That one begins again is assumed of the keys in `Driven` only: the
operations of orders that the workers of issuing, crypto funds and manual funds
take up at each tick, and for which they call `Process` as long as the order
waits. Nothing drives the commit or the release of a `wallet_to_card` transfer but
`cmd/ledger`, called by hand (`docs/integrations/blnk.md:68` and `:74`), so
`DrivenAssumption` keeps these out of `Driven`, and nothing is claimed of them but
that they are safe at any point. Attempts of driven operations that get through
do so infinitely often: strong fairness, since a fault may strike any attempt but
not all of them. Issuing: `Tick` starts due orders every three
seconds, calls end with their context (`GiveUp` is weakly fair) and transfers
that are started for ever are not always interrupted. The provider, the
operators and the customer owe nothing, so nothing is claimed about states that
wait for them. In the workspace every step is a person's, a channel's or a
browser's, none of which the code obliges to act; no fairness is assumed there.
Nor is it for crypto orders: a payout request that never reached the channel
stays `unknown`, so no liveness holds of withdrawals.

## What the runs show

For the ledger: rows claim only what Blnk executed (`ClaimsAreBacked`); a
reservation is spent once (`OneOutcome`, `DecisionIsFinal`); a transit account
holds exactly its open reservations (`TransitHoldsOpenReservations`); no wallet,
transit or escrow account is overdrawn (`NeverOverdrawn`); without late requests
a rejected operation moved nothing and any difference between Blnk and the
journal belongs to an operation that is still due (`OverIsSettled`), the
operations implement the promise (`KeepsPromise`), and one that a worker drives
reaches a state that waits for nobody (`DueWorkCompletes`). **Finding 1**: with a
late request a *rejected* operation may move money (LedgerLate), against
`docs/integrations/blnk.md:34`.

For issuing: finished orders settled by the terms, the prepayment goes back only
if there is no card and none can come and a card is asked for once
(`FollowsTheCard`), orders that are over are settled (`SettledByTheTerms`), what a
card may spend is always funded, and after the reservation no move lacks money
(`SpendingIsFunded`). **Finding 2**: the
return of the first funding is applied before anything durable says that the
order failed, and a restart may raise the limit after it (IssuingReversed).
**Finding 3**: a refused *read* counts as a refused limit (IssuingReads).

For the workspace's finance: an order holds what it may still cost through
amendments, returns and partial deliveries (`HoldsFit`), what is executed was
reviewed at this amount and revision by different persons of whom none asked
(`ExecutedAsReviewed`), and holds are covered against trades and each other while
reports in any order post what the channel paid, once (`DeliveredFromHolds`,
`DecidedStays`). **Finding 4**: amending a linked payout
passes the proceeds of its trade (PayoutsAmended), against
`docs/business/funds-and-operations.md:85`.

For card administration: money moves once per operation and is covered
(`CardMoneyFits`); a freeze stops queued transfers (`FreezeStopsQueued`); a
running unfreeze is of the freeze in force, so its late result lifts no other
(`UnfreezeIsCurrent`); the provider's status follows the restrictions in whatever
order results come (`PausedAsRestricted`; both are `RestrictedAsReviewed`). **Finding 5**: a transfer whose first
attempt was rolled back is posted on refresh though a freeze came in between
(CardBlocked), against `card-administration.test.mjs:395`.

For the rest: sessions are of users who may enter, with the password in use
(`SessionsCurrent`), and a password is set with the latest link, once
(`LatestLinkOnce`); cards, products and directories agree (`CardsAsListed`) and a
card is opened as shown (`OpenedAsShown`); the wallet is what its orders say
(`WalletMatchesOrders`); a request is applied once and a page never goes back
(`AppliedOnce`, `ShownForward`); the page shows no details but those of the card
in view, and not for ever (`SecretIsKept`); what is ordered was
priced and agreed to (`OrderedAsShown`), and a mount of the form has one order of
unknown outcome (`OneOrderUnknown`). Across mounts that last property is not
claimed: another mount's answer empties the storage whatever it holds
(`CardIssuing.tsx:270`).

For the cross-currency projection: a record that says it is current shows the
newest answer, in whatever order answers came (`CurrentIsNewest`), and a report
that is not out of date agrees day by day with the detail pages less their
strays, so that it counts each record once (`ReportAgrees`; both are
`ReportsAreCurrent`). Strays are where report and pages part: of a refund related
to one purchase under two kinds, the report says that it belongs to none
(`fx/store.mjs:245`) while the page of the purchase still counts it
(`fx/query.mjs:213`); a purchase that is made a child is counted on its own day
and again on the page of its parent. `docs/frontend/cross-currency-delivery.md:109`
lets only a single confirmed relation into the net amount of an order.

For the pages: every screen shows the answer to its query, unless it says that it
reads or failed, and of one query nothing older than before (`ShownForTheQuery`);
a form writes over nothing that was not typed in it (`SavesOnlyWhatWasTyped`);
what a dialog confirms was shown next to the inputs it was made for, and is
executed once, however often a lost click is repeated (`ConfirmedOnceAsShown`).
Two dialogs are excepted, and only for a price that was overtaken.
**Finding 6**: in the card's dialog the inputs can be changed while the preview is
under way, and the confirmation sends them (CardConfirm), against
`docs/frontend/card-administration.md:32`. **Finding 7**: the funds of a customer
keep a request for a quote that got no answer and repeat it on whatever page of
the funds comes next; on the other tab of the card the quote for one direction is
shown under the other, and the confirmation, which names the quote alone, moves
the money in the direction the page does not show (FundsRetried), against
`docs/business/funds-center.md:21`. What the reader of the message center
has selected is on the page shown, a list that is not being read shows the page
asked for, and a mark changes no notice that came after the state the page had
(`MarksWhatWasThere`). In the card list the selection is what is exported, and a
click does what its button said unless the administration has changed the card
since (`FreezesAsSaid`): the request carries the portal's revision, which does not
count those changes, so a dialog opened before the customer's own freeze was
carried out offers to freeze and sends an unfreeze.

For crypto orders: a withdrawal is paid at most once, its hold goes back only if
the channel was never asked or says it failed, and is spent only when it was
paid (`PaidOutOnce`); and whatever stops `Process` between two moves, an order
that is over leaves nothing in escrow, only a reservation may lack money, and
bought money is there only after what was sold for it left (`NothingStranded`).
The price is that an order whose request never reached the channel stays
`unknown`: no callback can come, and no command takes it (`commands.go:123`).

## What is proved

Every safety invariant and every action property that a passing run checks is
proved, for any constants that satisfy the modules' named assumptions and hence
without the bounds of the runs. Each part has one inductive invariant, which was
model-checked on that part before it was proved; what follows says why each is
needed.

**Sums and induction** (`SumProofs`). Balances, holds, budgets and reports are
sums over sets of rows (`SumFunctionOnSet` of the community modules, a fold).
The prover cannot instantiate an induction theorem that takes an operator, but
it can use a well-founded order on a *set*: proper inclusion is one on the
subsets of a finite set, so what holds of a subset whenever it holds of it
without each one element holds of the whole (`SetInduction`; a least
counterexample would have a smaller one). From that follow that the fold is well
defined and does not depend on the order of its elements, and what happens to a
sum when one term comes, goes or changes (`SumAdd`, `SumLoses`, `SumChange`,
`SumPut`), when it is cut into parts (`SumOfParts`) and when it counts
(`SumCounts`). To be summed, the models' sets must be finite: the sums run over
what has been made so far (`Placed`, `OpsMade`, `Moved`, ...), a finite set in
every reachable state, and no constant set of identifiers needs to be finite.

**Ledger** (`LedgerProofs`), for any sets of workers, keys, accounts and commands
that satisfy `LedgerAssumption` and any number of late requests: `TypeOK`,
`ClaimsAreBacked`, `OneOutcome`, `NeverOverdrawn` and `DecisionIsFinal`. None but
the first is inductive. The strengthening `Inductive` adds what the code relies
on without saying it: rows are well formed; the process at work holds the
customer's lock and its reference is the phase the stored state asks for; a
request is only under way for a phase the decision taken permits, so that a late
commit and a late release of one operation cannot coexist; a verdict in a process
agrees with Blnk. Each action is one lemma, and `NextInductive` puts them
together. `TransitHoldsOpenReservations` follows the money: only the execution of
a reference changes a balance, and what that does to a transit account is what
it does to the sum of the reservations that are executed and not settled.
Under `MaxLate = 0` a second invariant (`NextPrompt`, `AlwaysPrompt`) relates
what Blnk has executed to the state and the place of the one process at work,
and gives `OverIsSettled` (`RejectedMovesNothing` and `MismatchIsPending`).
On both rests `PromiseIsKept`: with `MaxLate = 0` the ledger implements
`LedgerPromise` under the mapping (`Money`, `Told`). A step of the ledger touches
one operation (`OneOperation`), money that moves belongs to the phase the stored
state asks for (`RequestMoves`), and a process that ends tells its row what Blnk
did (`FinishTells`); so each step is a step of the promise of that operation, or
none.

**Issuing** (`IssuingProofs`), for any orders, top-ups, fees and fundings:
`TypeOK`, `AskedOnce` and `MoneyFollowsTheCard`, whatever the provider does.
`Inductive` has one part per thing the code takes for granted when it goes on
from a committed state: a process is only where that state lets it be
(`RunsFit`); an answer that is about to be recorded tells the truth about the
card, and an order that has been refused has no request under way
(`AnswersFit`); which states have a card, may have one or cannot (`CardsFit`); a
top-up's parent has a card whose funding failed (`TopupsFit`); a release or a fee
was submitted only in the states that mean it (`MovesFit`). Lemmas for the kinds
of steps (a process goes on, a state is committed, a move is submitted, the
provider changes a card) carry the work, and one lemma per group of actions
applies them.
`SettledByTheTerms` and `SpendingIsFunded` are proved under `Steadfast` and
`~ReadsRefused`, and must be: IssuingReversed and IssuingReads show that without
either they are false. `Funded` says where the money is: the moves of an order
are submitted in the order of its states (`MovesInOrder`), at most one order has
a claim on a card (`OneClaims`), a limit is only at the provider, or on its way
there, for the order whose funding is on the card (`LimitsFit`, `RefusalsFit`),
and what is in an order's hold and on its card is what its own moves brought and
took (`BalancesFit`, from the sum over all moves).

**Finance** (`BackOfficeProofs`), for any withdrawals, trades, persons,
permissions, amounts and channel outcomes: `HoldsFit`, `ExecutedAsReviewed`,
`DecidedStays` and `DeliveredFromHolds`. The strengthening `FInv` says of each
order what the commands take for granted (`Sound`): it has a channel job from
when it is submitted, only approved orders are submitted, nothing is delivered
before, the hold is what it may still cost, an approved order was passed at every
node of its amount. What makes the reviews count is `Reviewed`: each is of a
revision the order has had, a person has one review of a revision, and those of
the current revision saw its amount and are not its requester's. A review of an
older revision stays in the table without counting, because revisions only grow.
`BInv` adds the books: a report takes from the customer what it takes from the
order's hold, so the sum of the holds stays covered (`EverythingCovered`); a
trade sells only what no hold claims.

**Card administration** (`BackOfficeProofs`), for any operations and persons:
`UnfreezeIsCurrent`, `PausedAsRestricted`, `FreezeStopsQueued` and
`CardMoneyFits`. `CInv` relates each operation to the card by the card's revision
(`OpKept`): an operation is of a revision the card has had; a freeze is of an
earlier one than the card's, and the card is restricted while it is at work; a
transfer at work of the *current* revision means that no freeze is in force. So a
revision that is unchanged is proof enough for the worker that the restrictions
are unchanged. The accounts are sums over the operations; a result changes the
terms of one.

**Management, Catalog, Fx** (`ManagementProofs`), for any groups, users, channels,
products, records, relations and dates. `SessionsCurrent` is inductive with the types
(`Entered`). `LatestLinkOnce` needs that the links of a user have different
numbers, none above how many there are, and that one that is open has the highest
(`Numbered`), which takes facts about the cardinality of finite sets.
`CardsAsListed` and `OpenedAsShown` rest on `Stocked`: a list that has the
revision of its product shows that product, so that the comparison of revisions
when a card is opened is as good as a comparison of what was shown.
`ReportsAreCurrent` rests on `FxFits`: answers are to reads that were begun,
relations are between registered records, and a report that is not out of date is
what rebuilding would give. That the detail pages, which sum on their own, then
agree with it is a fact about sums cut into parts: a net amount is that of the
strays and of the records whose own details it is (`SumSplit`), and of the latter
each counts on one day of one root (`SumOfParts`), whatever the relations.

**Crypto orders** (`CryptoProofs`), for any orders, terms and opening balances.
The code never writes down why a payout happens once; it holds because of what the
row of the payout request, the place `Process` has reached and the channel say of
each other (`Consistent`). `Outside` is what the order's row tells of the channel:
without the row nothing was paid, and a hold goes back on a verdict or before any
request. `Inside` is where `Process` may be: only the process that wrote the row
sends the request, and it pays or releases only after it has seen why. `Steady`
is what the saved order alone says. `NothingStranded` needs two things more: the
moves of an order are made in turn, none before those it follows (`InTurn`), and
the row of the order and the step of `Process` say which of them are done
(`RowFits`, `StepFits`); then the two accounts of an order hold what its own
moves left there (`Escrowed`, from the sum over all moves).

**Pages** (`PageProofs`). The secret view's `SecretIsKept` is inductive with the
types (`Safe`): whatever makes the details on the page wrong also empties it and
voids the requests under way. The checkout form's `OrderedAsShown` follows from
`Quoted` (the quote shown, and every request that may still answer, fits the form)
and `OneOrderUnknown` from `Sent` (the form on the page waits for at most one
answer, to the request it keeps, and a key of this form without an outcome is that
one). The screens' `ShownForTheQuery` holds for any number of readings and
versions: `ScreenFits` adds what the effects' flags see to, that at most one
reading is live, is for the query, and has an answer not older than what is shown
(`Awaited`). The wallet's `WalletMatchesOrders` holds for any number of orders:
`Booked` says what the row of an entry may say by its kind, so that what an event
does to the balances is what it does to that entry's terms in the four sums.
`AppliedOnce` and `ShownForward` rest on `PortalFits`: what a call under way may
still be told, and that the readings and actions that make a page busy are one of
a kind, so that no answer that is shown is older than the page. The dialogs'
`ConfirmedOnceAsShown` rests on `ConfirmFits` (a price on the page, under way or
kept is of the inputs, or was overtaken, which only two dialogs let come back to
the page; one request has one name for all its clicks). The forms' `SavesOnlyWhatWasTyped` rests on `EditorFits`: what the page
has read of the present revision *is* the record, so a request that is accepted
differs from the record only where something was typed. The card list's
`FreezesAsSaid` rests on `DeskFits` (a card is as frozen as the page shows it
while neither revision moves). The message center's `MarksWhatWasThere` rests on
`InboxFits`; that a page which is not beyond the last one is never empty while
something matches is a fact about ranks in finite sets (`EachRank`, by
`SetInduction`).

**The composition** (`WorkspaceProofs`): a step of MCWorkspace's `Next` is a step
of one part and leaves the others alone (`PartsMove`), so the composition
implements each part's specification (`PartsRun`), and all of these properties,
with `WorkspaceTypes`, hold of it (`WorkspaceTyped`, `WorkspaceHolds`).

*Assumptions on constants.* Those of the modules' ASSUMEs, which TLC evaluates in
every run: amounts and fees are natural numbers (crypto amounts positive), bounds
are, and the values that stand for "none" (`NoCard`, `Nowhere`, "unassigned",
...) are not identifiers. The dates of a daily report are finitely many, and the queries
of the card list have the three fields the page gives them. The proofs put no
bound on identifiers, persons, orders or amounts. What is assumed of the outside
world (see *Environment*) is in the actions that model it, except `MaxLate = 0`,
`Steadfast` and `~ReadsRefused`, which the theorems that need them name.

*Only model-checked.* Liveness, `DueWorkCompletes` and `LedgerStatesPass`: the
prover has no rule for fairness and ENABLED. And the seven violated properties,
which are false.

## Not modelled

Formatting, signatures, encodings and HTTP validation; amounts in text and
arbitrary precision (Blnk and PostgreSQL compute them exactly); currencies (a
command's accounts have one); audit rows; `SnapshotTx`'s reading; provisioning;
in Issuing the legacy account path (orders without a funds namespace), deposits,
quotes, and the loss of the connection that holds a session lock.

In the workspace: texts, digests, evidence and audit rows, lists and previews,
owner scopes, the policy of approvals (its two limits are constants), accounts and
entities of a channel, tickets and onboarding in the portal's state.
Of the pages: presentation, charts, exports, and search in rows already read;
the permissions of buttons (the server checks them). Four screens poll without
putting the answers in order, so that an older one may stay until the next poll
fifteen seconds later: the operators' card list (`operations/CardsPage.tsx:36`),
the detail of a channel transaction (`ChannelTransactionsPage.tsx:58`), the card
snapshots (`portal/CardSnapshots.tsx:86`) and a card's funds
(`CardDetailWorkspace.tsx:26`). They are left out of `AllScreens`, as are the
message center of the Go service (`packages/shared/src/messages`), the address
type of `DepositAddress` that reads nothing, and `apps/admin/src/pages`, which no
route reaches. The pages leave every
decision to the server. Of the cross-currency projection, the original
currencies, time zones, import batches, balances, exports and filters.

Of crypto funds: quotes and their expiry, settings and revisions, the `recover`
command, the limits of the pilot, the simulated channel of non-production
builds, addresses, the observation of trades and chain confirmations (a deposit
is verified or it is not), and card transfers.

Of the Go service, deposit addresses, manual and test funds, Slash events,
messages, and the classification of provider facts are not modelled yet; their
hazards are listed in `PROJECT.json` with that note.

Two thirds of the repository's lines are pages, views, request validation, SQL
and formatting; a model of those would restate them and say nothing of what can
go wrong. The map names what the modules translate and nothing beside it.

## Plan

1. Ledger, its promise, its runs, its safety proofs and the refinement. *Done.*
2. Issuing on the funds ledger, its runs and its proofs. *Done; to extend*: the
   loss of the session lock during a provider call, the legacy path, deposits,
   `SyncCard` postings.
3. The local workspace: finance, card administration, management, catalogue,
   the cross-currency projection, and the client's portal, secret view and
   checkout form; the screens, forms and dialogs of both front ends, the message
   center and the card list; their run, the proofs of all of them, and of their
   composition. *Done; to extend*: the unordered polls.
4. Crypto funds: orders, worker, payout requests and callbacks, on the ledger's
   promise as Issuing is. *Done; to extend*: card transfers, revisions of the
   settings.
5. Slash events and card commands: what is observed, what is sent once.
6. Messages: campaign review and delivery.
7. Manual funds: review, evidence, capped recoveries.
8. Deposit addresses, test funds, provisioning, and the classification of
   provider facts, as operators checked against a reference definition.

Each gets its safety properties in one run and, where something must happen, one
for liveness; small components share a run by composition, as MCWorkspace does.
