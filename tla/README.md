# A TLA+ model of the FixItPH backend

FixItPH is a marketplace for home services: customers post requests for jobs,
providers quote them, an accepted quote becomes a booking, the booking is
carried out, cancelled, disputed and reviewed. The backend is a NestJS
application over PostgreSQL through Prisma, with Redis as a read cache and an
in-process change feed for open browser tabs. This directory models the parts
of it that keep state, checks the models with TLC and proves the most important
facts about them with TLAPS.

## 1. The system

### What makes it hard

The handlers of the booking side that write run in `PrismaService.withUser`
(`src/src/prisma/prisma.service.ts:132-156`): one interactive transaction, at
PostgreSQL's default isolation level, READ COMMITTED. Almost all of them have the same
shape: read a row, check what was read, later `UPDATE ... WHERE id = ...`. The
update does not repeat the check and takes no lock before it. Between the read
and the write any other transaction may commit. What still holds then is what
the database itself enforces at the moment of the write - CHECK constraints,
partial unique indexes, triggers (`migration.sql`, sections 3 to 5) - and what
follows from *combinations* of these with what the handler had read. A test
that calls one handler after the other never sees any of this.

On top of that:

- a transaction can be rolled back at any time (a constraint, Prisma's timeout,
  a lost connection, a crash);
- row level security decides which rows a statement sees, so a handler does
  different things for different callers;
- many multi-step operations (signing in, refresh-token rotation, uploads, the
  writes of profiles and listings, cache fills) run in no transaction at all;
- two stores besides the database, Redis and the object storage, take part in
  an operation without being part of its transaction, and can fail to answer;
- the change feed keeps its timers and connections in the process, and a restart
  forgets them.

### Components

| component | state | operations | correctness |
|---|---|---|---|
| Booking lifecycle (`bookings/`) | `bookings`, `booking_status_history`, `providers.completed_jobs_count` | create, confirm, start, cancel, complete, update | the lifecycle table, the trail, the release of the address, the counter, the length of an appointment |
| Disputes (`disputes/`), rulings (`admin/`) | `disputes`, `admin_actions` | create, resolveDispute | a disputed booking can be decided |
| Service requests (`requests/`) | `service_requests` | create, updateStatus | terminal states, who is told |
| Quotes (`quotes/`) | `quotes`, the booking made from one | create, update, accept, reject | no acceptance without its booking, one award per request |
| Reviews (`reviews/`, admin moderation) | `reviews` with `edit_history`, `providers.rating_avg` and `rating_count` | create, update, report, visibility | aggregate equals the visible reviews, history is append-only |
| Sessions (`auth/`) | `refresh_tokens`, `users` (status, lock) | login, refresh, logout, Google sign-in, suspend | rotation is single use, sign-out is complete |
| One-time codes (`password-reset`, `email-verification`) | code rows with attempts and expiry | request, verify, reset, send, confirm | bounded guesses, one live code |
| Providers, services, categories | profiles, listings, documents, the category tree | create, update, remove, verify, moderate | listing limits, coherent prices, acyclic tree, badges |
| Cache (`cache/`) | Redis keys and list versions | wrap, invalidate | no list is served stale, nothing stale lasts |
| Change feed (`events/`) | streams, the coalescing window | publish, ticket, stream | the last write of a burst reaches every open page |
| Uploads (`uploads/`) | objects in storage, the rows that name them | store, remove, the three upload routes | every uploaded key resolves, nothing is orphaned |
| Messages (`messages/`), with their notices | `messages`, `notifications` | send, sendImage, thread, markRead | what is newest in a thread is not marked read unseen |
| Favourites, reports, users | single tables | one-row reads and writes | uniqueness |
| Mail, HTTP plumbing, configuration | none of the domain | formatting, wiring | not modelled |

They interact through the database only: `QuotesService.accept` inserts the
booking that `BookingsService` then moves; `DisputesService` and
`AdminService` move bookings without going through `BookingsService`; each of
them writes notices into `notifications`. The two exceptions are the cache
(invalidated by the services that write what it holds) and the change feed
(published to by an HTTP interceptor after a successful write).

`PROJECT.json` lists all components with the part that is modelled, and under
`hazards` the places where each can go wrong.

## 2. The modules

| module | models | role |
|---|---|---|
| `Lifecycle` | the status enums and the two `TRANSITIONS` tables | data, extended by the others |
| `Bookings` | bookings, disputes and rulings | component |
| `Hiring` | requests, quotes, acceptance, the booking made from a quote | component |
| `Tender` | what hiring promises: offers, one award | abstract specification |
| `Reviews` | reviews, their history and moderation, the rating of a provider | component |
| `Feed` | what a request announces, the coalescing window, the streams | component |
| `Caching` | `CacheService` over Redis and the handlers that use it; extends `Feed`, which an invalidation publishes to | component |
| `Freshness` | cache, feed and the pages that refetch | composition, with fairness |
| `Sessions` | sign-in, refresh tokens, Google, suspension | component |
| `Codes` | password reset and e-mail verification; extends `Sessions`, whose rows they write | component |
| `Accounts` | both together, with restarts | composition |
| `Storage` | object storage and the requests that upload | component |
| `Catalogue` | a provider's profile, files, listings, moderation; extends `Storage` | component |
| `Taxonomy` | the category tree; extends `Catalogue`, since listings are filed in it | component |
| `Messages` | threads, notices, reports, favourites; extends `Catalogue` | component |
| `Marketplace` | the four above together, with failures and restarts | composition |
| `MCBookings`, `MCHiring`, `MCReviews`, `MCFreshness`, `MCAccounts`, `MCMarketplace` | instances for TLC | model checking |
| `BookingsProofs`, `HiringProofs`, `ReviewsProofs`, `AccountsProofs`, `FreshnessProofs` | inductive invariants and theorems of their component or composition | proofs |
| `MarketplaceProofs`, `UploadsProofs`, `TaxonomyProofs` | those of `Marketplace`: rows and threads, files, the tree | proofs |

### How a handler becomes actions

One handler is a *read* action and a *write* action, with the transaction's
memory, `tx[s]`, between them (`ConfirmRead` / `ConfirmWrite`). There are three
actions where the code has a second read whose result is used later
(`RescheduleTimes` computes the new window from the row as it is then;
`DisputeCheck` looks for an open dispute; `QuoteReread` is the `select` after
the quote's insert). `Session` is the set of transactions that can be open at
once. `Session = {s1}` gives the behaviour without overlap.

- *The guard of a read* is the handler's checks: the guard on the route
  (`OwnershipGuard`), `assertTransition`, the early returns.
- *The write action* is everything the handler does from its first write to the
  commit, the trigger's and the notification's rows included. A transaction's
  writes become visible to others together, at commit, and PostgreSQL makes a
  second writer of the same row wait for the first, so one atomic step is what
  the others see. The values written are those of the code: columns named in
  `data` are overwritten, other columns keep what the row holds *at the write*,
  and the decisions are the ones the read made (`tx[s].seen`,
  `tx[s].amount`).
- *Constraints* are enabling conditions of the write (`RowChecks`, `SlotFree`,
  `NoOtherLive`, `NoOtherAccepted`, `NoBookingYet`): a statement that violates
  one fails and the handler can only `Abort`. `Abort` is possible whenever a
  transaction is open, so every interleaving is also explored with a crash
  between any two steps.
- *Row level security* is the caller each action names, and `Sees` and
  `QuotersSeenBy` where a handler's result depends on which rows the caller can
  read.

### `Bookings`

| variable | code |
|---|---|
| `booking[b]` | row of `bookings`: status, start, end, and whether `contact_released_at`, `cancelled_at`/`_by`, `completed_at` are set |
| `trail[b]` | `booking_status_history`, written by the trigger `app.record_booking_status_change` |
| `dispute[d]` | status of a row of `disputes` (all rulings are `RESOLVED`; which one matters while it is in `tx`) |
| `jobs[p]` | `providers.completed_jobs_count` |
| `inbox` | rows of `notifications` |
| `audited` | disputes with a row in `admin_actions` |

Left out: amounts and payment columns, reasons and notes, who raised a dispute.
All instants of `Time` lie in the future, so the refusals of past schedules are
a choice of the input. `BookingsService.create` and the insert in
`QuotesService.accept` are one action, `Create`, here, since what differs is
modelled in `Hiring`. An update keeps in `tx[s]` the times it has planned and,
as `asked`, the end its caller sent. `MaxMoves` bounds the length of a trail and with it the
number of status changes; the code has no such bound.

### `Hiring`

`request[r]` is a row of `service_requests` (status, to whom it is addressed,
whether its 14 days are over), `quote[q]` one of `quotes`, `booked[q]` the
`total_amount` of the booking made from `q` (`bookings.quote_id` is unique).
`Provider` holds the providers who may work at all (verified and not
suspended). The deadlines are actions (`ExpireRequest`, `LapseQuote`) whose
guards leave out moments at which no handler looks at them.

`PATCH /service-requests/:id/status` has no ownership guard: who may move a
request is decided by row level security (`Sees`) and the transitions table.
That table lets a customer go QUOTED, ACCEPTED, BOOKED without any quote being
accepted; the model does the same.

### `Reviews`

A booking has at most one review, so reviews are named by their bookings.

| variable | code |
|---|---|
| `finished` | bookings that are COMPLETED; completion and disputes are the two actions `Finish` and `Reopen` of this module |
| `review[b]` | row of `reviews`: rating and text, `edit_history`, `is_hidden`, whether a response is there |
| `rating[p]` | `rating_avg` and `rating_count`, as count and sum |
| `report[b]` | a report about the review |
| `rulings[b]` | REVIEW_TAKEDOWN rows in `admin_actions` |
| `inbox` | reviews whose provider has its REVIEW_RECEIVED notice |

The handlers that recompute the rating are cut once more: `Store` is the write
of the row and the aggregate over what this transaction sees (commits and its
own write), `Commit` the write of the aggregate, the notice, the audit row and
the commit. Between the two the row is locked and nobody else sees it. A
transaction that waits for the lock and then writes is one that writes later.
Comment and partial ratings are one field; a review has one reporter.
`RoutesOf` says which handlers a session runs in an instance. `Busy`,
`MaxEdits` and `MaxRulings` are bounds of the instance, not of the code.

### `Feed`, `Caching`, `Freshness`

| variable | code |
|---|---|
| `window`, `trailing` | for one resource, whether `lastEmitted` is less than `COALESCE_MS` old, and the timer in the map `trailing` |
| `stream[p]`, `listeners` | a page's `EventSource` and the service's own count |
| `cache`, `late` | what Redis holds under the version counter, the list keys and the detail key; commands given up by `guard` that Redis may still carry out |
| `db` | the revision of the rows a listing is made of; a cached value is the revision it was computed from |
| `reader[c]`, `writer[w]` | the next call of a request that reads through `wrap`, or that writes and invalidates |
| `told[p]`, `shown[p]` | the page has an event to answer; the revision it shows |

Every call to Redis is an action, since every one is an `await`. `Invalidates`
says where a handler invalidates: `ProvidersService.update` after its commit,
`ReviewsService` and three handlers of `AdminService` inside the transaction that
is still open. `ResourcesFor` is `resourcesFor` with its three tables;
`Respond` is the interceptor, after the handler. One resource is watched, one
query and one row are cached: the keys of others are independent, and so are
their windows. The page is external: it fetches when its stream opens and when
an event arrives. Times are states of a timer (`WindowCloses`, `TrailingFires`,
`Expire`), so any speed of anything else is included.

### `Sessions`, `Codes`, `Accounts`

One address: `account` is its row of `users` (`failed`, `locked` are
`failed_login_count` and `locked_until`), `links` the Google subjects,
`tokens[t]` a refresh token with its family, revocation and `replaced_by`,
`codes[i]` a row of `password_reset_tokens` or `email_verification_tokens`.
These services run statement by statement outside any transaction, so an action
is one statement (or one `$transaction` batch, which is atomic), and
`handler[s]` is the statement that session `s` makes next with what it has kept
of its reads. `strikes` and `codes[i].tries` are no columns: they count what
really happened, for the columns to be compared with. A token of 30 days, a code of
minutes and the lock of a code are refusals without a write and are left out. For
the lock this assumes that it lasts at least as long as the code it locks, so that
the code has expired when the lock ends. The defaults do (15 minutes against 10 for
a reset, 15 against 15 for an address), but the values are independent in
`configuration.ts`: with a shorter lockout a code could be guessed at again. `LockPasses` and `CooldownPasses` are the two ends of a time span
that change what is accepted.

### `Storage`, `Catalogue`, `Taxonomy`, `Messages`, `Marketplace`

| variable | code |
|---|---|
| `objects`, `keys` | object storage; each upload has a new key |
| `handler[s]` | the request of session `s`: route, next statement, what it has kept |
| `provider`, `image`, `week`, `portfolio`, `documents` | one provider's `providers`, `availability` (rows told apart by the save that made them), the keys in `portfolio_items`, `provider_documents` |
| `listing[v]`, `gallery` | `services`, `service_images` |
| `category[c]` | `categories`; ids are not used again after a deletion |
| `messages`, `notices`, `request` | `messages` with attachments, MESSAGE_RECEIVED in `notifications`; to whom a request is addressed and who quoted it |
| `reports`, `favourite` | `reports`, `favorites` |

A read action holds the handler's checks, a write action writes by id what the
read decided, with the foreign keys and unique indexes that stand at that
moment. `CategoriesService.remove` is modelled although no controller calls it at
this commit. `Climb` is one turn of the loop in `assertNoCycle`, which makes one
SELECT for each ancestor. `Put` and `Discard` are the calls to storage, either of which
may fail with or without effect; `Fail` is a statement of the database that
fails, and what the route then does about the object it has stored. A piece of
work has no such route: `AddPortfolioItem` takes the key its request names, none,
that of an object which is there, or `ForeignKey`, which storage never gave out.
`ReadThread` takes the page and the limit of its caller, up to `MaxLimit` (50 in
the code). `Discoverable` is what the public list selects, `Viewable` what the
public page of one listing does. `shown` in a
message is no column: whether the recipient was ever answered with it. Slugs,
prices, texts and places are left out (slugs meet a unique index, whose failure
is in the inserts).

`Freshness`, `Accounts` and `Marketplace` are checked over *scenarios*: a set of
records of which `Init` picks one, saying what there is at the start, which
routes each session calls and how often, whether requests overlap, and which
faults may happen. `Next` is always the whole system; a scenario bounds
what is called. A property that holds only without overlap, or only of handlers that
invalidate after their commit, says so in its own text (`Alone`,
`Orderly`).

## 3. The runs

All runs say `CHECK_DEADLOCK FALSE`: the system may really stop, since no user
is obliged to call anything.

### Runs that pass

| run | instance | shows |
|---|---|---|
| `bookings_overlap` | 1 booking, 2 disputes, 2 sessions, all callers, every route but reschedule, 6 moves; 1.9 M states | what survives any overlap of two handlers on one booking |
| `bookings_serial` | 1 booking, 2 disputes, 3 instants, 1 session, every route, 7 moves; 250 k states | what the services promise when handlers do not overlap |
| `hiring_overlap` | 1 request, 3 quotes of 2 providers, 2 sessions; 970 k states | no acceptance loses its booking under overlap |
| `hiring_serial` | 1 request, 2 quotes of 2 providers, 2 amounts, 1 session, every route and caller; 250 k states | refinement of `Tender`; who hears of a cancellation |
| `reviews_overlap` | 2 reviews of one provider, one of them edited and moderated, 2 ratings, 2 texts, 2 sessions, 2 edits, 2 rulings; 290 k states | the rating, the history and the visibility under edits, rulings and reports |
| `freshness` | 1 page, 1 visitor, 2 writers, 11 scenarios, at most 3 writes, 1 restart; 127 k states | what the cache may serve, how long, and that open pages catch up |
| `accounts` | 2 sessions, 2 Google accounts, limits of 2 guesses, 8 scenarios of up to 8 requests, 1 restart in those without overlap; 692 k states | sign-in, rotation, suspension and codes, statement by statement |
| `marketplace` | 2 sessions, 1 provider with 1 listing, 4 categories, walk of 3, pages of 1 or 2, portfolio of 1, 15 scenarios of up to 6 requests, 1 failure and 1 restart in those about files and listings; 598 k states | files against rows, listings, the tree, threads |

*Why the bounds are enough to be interesting.* A booking needs five changes of
status to be created, confirmed, started, completed and disputed; the sixth is
the ruling or the late write of an overlapping handler. Two disputes are needed
for the second one to meet the first or follow it. Three
instants let an end keep its distance to a start in more than one way, and a start
move without its end. One booking is enough: what two bookings share is the index on slots,
a guard about which no property speaks, and the counter, which the theorems take for
any number of bookings. With
three quotes a provider withdraws and quotes again while a rival's quote is
accepted. Two sessions are enough for every race between two handlers; a race
of three appears in `hiring_race`. With two reviews an aggregate can
be taken over one while the other is on its way; two edits are the shortest
history that an overlap could damage. In `freshness` two writers make
two versions of a list and one reader can be as slow as it likes between them;
what needs a third write in flight (the counter moving back) is excluded by
`Orderly` and shows in the scenario without a counter. In `accounts` a limit of
two is the smallest at which a count can be lost; two sessions can hold one
token each or present the same one. In `marketplace` a walk of three and four
categories let a loop be longer than the walk; a page of two is overrun by the
third message, a page of one by the second. The theorems of section 4 hold without any
bounds.

Properties under overlap (`bookings_overlap`, `hiring_overlap`):

- `TrailIsFaithful` - the status trail is a chain without gaps, even when the
  handler that caused an entry had read an older status.
- `ContactFollowsConfirmation`, `WorkHasContact` - the customer's address is out
  if and only if somebody on the provider's side confirmed, and nobody works
  without it.
- `DisputedHasOpenDispute` - a booking is never left DISPUTED with nothing to
  decide.
- `JobsAreCounted` - the counter on the profile does not fall behind the bookings
  that stand COMPLETED, except for those that a ruling alone completed. A booking
  that is disputed while in progress and ruled COMPLETED is never counted
  (`resolveDispute` leaves the counter alone), so behind *all* finished bookings the
  counter does fall. Bookings with an open dispute are counted, and so are those the
  provider had completed before a dispute, a ruling or a late write moved them. The
  counter may also run ahead: an administrator who completes a disputed booking
  by the ordinary route counts it a second time, so the property is an inequality.
- `CounterpartyTold` - a confirmation, a cancellation by either side and a completion
  always have a notice to the other party. It says no more than that, because
  the code does no more: opening a dispute tells nobody, a ruling does not tell the
  provider, and an administrator's cancellation does not tell the customer.
- `AcceptedQuoteIsBooked` - whatever acceptances and withdrawals overlap, an
  accepted quote has its booking.

What one constraint of the database guarantees alone is not stated: one open dispute
per booking, one live booking in a slot, an end after its start, one accepted quote
per request and one live quote per provider are guards of the writes
(`DisputeWrite`, `SlotFree`, `RowChecks`, `NoOtherAccepted`, `NoOtherLive`), and a
property would repeat the guard. The properties above are what follows from them.

Properties of `reviews_overlap`:

- `HistoryKeepsEveryVersion` - an edit appends the version it replaces to the
  history as it is *then*, although the service appends to the history it read.
- `VisibilityIsRuled` - nothing but a decision on record hides or shows a review,
  in particular no edit that had read it before the decision.
- `RatingKeepsUp` - a handler that writes the rating leaves it equal to that of
  the listed reviews, and none but the resolution of a report changes the
  reviews behind a rating that was right. Handlers that count or hide run in
  one session here (`OneRecomputes`), the others overlap with them freely:
  without this restriction it is false, as `reviews_race` shows. The exception
  for reports is what the code does: `resolveReport` hides a review and
  recomputes nothing, so the rating lags until the next recomputation.

Properties without overlap (`bookings_serial`, `hiring_serial`):

- `StatusFollowsEdges` - no route leaves the lifecycle table, neither disputes nor
  rulings, which do not consult it.
- `CancellationStands` - no sequence of disputes and rulings leaves a cancellation
  stamp on a booking that is not cancelled.
- `MovingKeepsLength` - an update that asks for a start alone leaves the booking as
  long as it found it. False under overlap, see below.
- `QuotersHearOfCancellation` - everybody who quoted, also those whose quote is
  over, hears that the request was cancelled.
- `ImplementsTender` - hiring refines the abstract award: offers stand while a
  quote is pending, a request is awarded once and at the price that stood.

Properties of `freshness`:

- `ReachableListsAreCurrent` - the list under the current version is current, or
  absent, whenever no invalidation is under way: a reader that missed the cache
  before a write stores what it read under a version nobody asks for. Stated for
  `Orderly` scenarios, since it is false when the counter is lost, when Redis drops
  a bump, when the invalidation precedes the commit, and when three writes
  collide: the slowest then sets the counter back to a version under which
  old lists are still stored.
- `StaleEntriesExpire` - in all of these, and for details (where a fill that
  races the delete stays behind), what is stale goes in the end.
- `PagesCatchUp` - a page whose stream is open ends up showing the last write,
  whatever bursts, fetches under way and restarts there were: the trailing
  emission is not lost, and a new stream begins with a fetch.
- `ListenersAreStreams` - the count of connections does not drift.

Properties of `accounts`:

- `DeadFamilyStaysDead` - once a family of refresh tokens has no live token and no
  refresh of it is under way, it never has one again, whatever overlaps.
- `OneChainPerFamily` - a family has one live token, one more for each crash
  between issue and retirement and for each refresh under way - while one session
  refreshes; two refreshes of one token can both pass.
- `SuspendedHasNoSession` - none of the ways to a session gives one to a
  suspended account (without overlap: a login that looked before the suspension
  issues its token after).
- `AddressIsProved` - verified if and only if a code was spent or a Google account
  linked, through every overlap and restart.
- `OneUsableCode`, `GuessesAreCounted` - while the requests they name do not overlap
  with themselves; counts are absolute and written from an earlier read, so two
  wrong guesses at once count as one.

Properties of `marketplace`:

- `PointersResolve` - no row that an upload writes (pictures, documents, service
  images, attachments) names an object that is gone, under any overlap, crash and
  failure; `NothingIsOrphaned` - and nothing is left over when there was none and no
  two uploads replaced the same pictures. The portfolio is not covered: its keys come
  from the request and need not resolve.
- `ReturnsUnlisted` - no single step brings a removed listing into the public list:
  moderation brings it back as a draft or paused, and the provider's update that was
  read before a takedown cannot clear `deleted_at`. It is about the list only. The
  public page of a listing, `GET /services/:id`, shows whatever is not deleted, so a
  reinstated draft is on it at once. Nor does it take the provider to publish a
  reinstated listing knowingly: an update that was read before the takedown and is
  written after the reinstatement does it. The model has both.
- `LoopsAreLong` - moves, with creations and removals between the turns of the
  walk, close no loop that the walk could have seen. (The code walks 20
  ancestors: a tree deeper than that can be tied into a loop, and so can two
  moves that overlap.)
- `NewestIsSeen` - the newest message of a thread is not marked read before its
  recipient was answered with it, however few messages a page holds - while requests
  do not overlap and readers ask for the first page. The code stamps the thread and
  not the page, so nothing more can be said: older messages than a page holds are
  marked read unseen, a reader who asks for page 2 of a short thread is answered with
  nothing and has read everything, and a message that comes between the page and the
  stamp is marked too. A scenario with page 2 and the scenarios with overlap do all this.

### Runs that find the code at odds with its own text

| run | text | what the code does |
|---|---|---|
| `hiring_race` | a request "can only ever produce one booking" (`migration.sql:292`) | a withdrawal that read PENDING overwrites ACCEPTED; the partial index no longer holds the request, and a quote inserted meanwhile is accepted for a second booking |
| `reviews_race` | "Runs inside the same transaction as the review write, so the two can never disagree." (`reviews.service.ts:331`) | two reviews of one provider are aggregated side by side, each without the other; the later commit stands |
| `freshness_requests` | "A successful non-GET request to /bookings is, by definition, a change to bookings" (`change-publish.interceptor.ts:16`) | the table lists `requests`, the controller is `service-requests`: posting, moving or cancelling a request announces nothing |
| `marketplace_takedown` | a takedown "archives and soft-deletes, which is what drops it out of every public read path" (`admin.service.ts:901-902`) | a PAUSE that read the listing before the takedown is written after it and clears `deleted_at`: the listing is on its public page again, and nobody reinstated it |

Five more disagreements are part of the models without a run of their own. The
lifecycle table ("Nothing moves except along these edges.",
`bookings.service.ts:21`) does not survive two handlers that overlap: each checks
what it read and writes by id, and a booking cancelled meanwhile is confirmed;
`StatusFollowsEdges` is therefore stated in `bookings_serial`, and fails with a second
session. "Moving a booking keeps its length." (`bookings.service.ts:282`) has the same
fate: an update plans a new start for a booking without an end, another one adds an
end, and the first is then written without naming one, so that (2,3) becomes (1,3);
`MovingKeepsLength` fails with a second session too. `QuotesService.accept` never looks at the request's status, so "CANCELLED
and EXPIRED as terminal exits" (`schema.prisma:100`) is not so; `Tender` promises
only one award. "A badge cannot outlive the evidence" (`verification.ts:15`)
leaves out the detail of a listing, whose badges are computed inside the cached
value (`ServicesService.findOne`): since `reviewDocument` invalidates nothing, a
badge stays there for up to five minutes after its document is rejected. The key
of a piece of work is "Set by the upload route, not by the client."
(`provider-profile.dto.ts:83`), but there is no such route: `POST portfolio` stores
the key its request names without asking storage, and so does `InsertPortfolioItem`.

### Mutants

Definitions named `Faulty...` stand next to the definition they alter. Each is a
plausible mistake (a stamp forgotten, an index narrowed, a read trusted instead
of a constraint), and the property it is paired with in `PROJECT.json` fails
when it is put in place: it shows that the run really exercises the property.

## 4. The proofs

The theorems hold for any sets of bookings, disputes, requests, quotes,
providers, sessions, instants, listings, categories and scenarios, and for any
value of the bounds. They assume only what the modules assume of their constants:

- `ConstantsAssumption`, `HiringAssumption`, `ReviewsAssumption`,
  `NothingAssumption`: the foreign keys are functions into the right tables,
  instants are integers, NULL is not one of them, the names of callers do not
  collide; the bookings of `Reviews` are finitely many;
- `AccountsAssumption`, `MarketplaceAssumption`: the limits are positive, there
  are finitely many sessions and categories, and a scenario starts from rows the
  program could have written (`WellFormed`: no loop in the tree, listings filed
  in categories that are there and belong to a profile);
- `FreshnessAssumption`: finitely many pages and writers, and a scenario has
  fewer writes than the bound on revisions.

None of the safety invariants is inductive alone, because a write acts on an old
read. What makes them so is always the same kind of statement: what an open
transaction or a request under way may still rely on. The proofs first show that
every step of `Next` has one of a few effects on the tables, and then look at
effects instead of handlers.

Some theorems have a hypothesis, the one under which the property is checked:
`OneSession` (at most one transaction at a time), `OneCounts` (at most one
session counts ratings), or no administrator among the editors. The runs
`hiring_race` and `reviews_race`, and section 3, show the code without it. The
properties over scenarios carry their condition in their own text.

### `BookingsProofs`

`Base` adds to the types what an open transaction may still rely on (`TxOK`): its
row exists; a pending start, completion or dispute is of a booking whose address was
released, and releases are never undone; and a pending ruling on a dispute that
is *still open*, of a booking that is *now* DISPUTED, has read it as DISPUTED.
The last is what makes `DisputedHasOpenDispute` true: an open dispute keeps a
second one from being opened, so the booking cannot have become DISPUTED
between the ruling's read and its write without the ruling's own dispute having
been decided. `JobsAreCounted` follows, through each write, the set of a provider's
bookings that count: it grows by one booking at most, and then the counter does; that
a ruling adds none rests on the trail, which says who had completed the booking
before. With `OneSession`, `ReadsStand` says that what a transaction has read is still
so, which turns its checks into facts at the write; `MovingKeepsLength` also needs
that the end it has planned is as far from the start as the one it found.

| theorem | |
|---|---|
| `TypeCorrect` | `Spec => []TypeOK` |
| `WorkOnlyWithContact` | `Spec => []WorkHasContact` |
| `DisputedIsDecidable` | `Spec => []DisputedHasOpenDispute` |
| `TrailStaysFaithful` | `Spec => []TrailIsFaithful` |
| `ContactIsReleasedByConfirming` | `Spec => []ContactFollowsConfirmation` |
| `CounterpartyIsTold` | `Spec => []CounterpartyTold` |
| `JobsNeverFallBehind` | `Spec => []JobsAreCounted` |
| `StatusFollowsTheTable` | `OneSession`: `Spec => StatusFollowsEdges` |
| `MovingKeepsTheLength` | `OneSession`: `Spec => MovingKeepsLength` |
| `CancelledIsCancelled` | `OneSession`: `Spec => []CancellationStands` |

### `HiringProofs`

`Base` is types, "a quote that was made states an amount" and "a session that
has read a quote knows that it was made". `IInv` adds
`AcceptedQuoteIsBooked` and, as facts the refinement uses, that a request has one
accepted quote and a provider one live quote on it. Every step lets quotes fall out of the live statuses, or raises exactly
one of them past the unique indexes as they stand at the write
(`StatusEffect`); each conjunct follows from that and from itself.

With `OneSession` more holds: what was read stands (`ReadsStand`) and a request
with an accepted quote has none pending and is booked or closed (`AwardIsFinal`).
From these come `CancellationIsHeard` and the refinement. The mapping of
`ImplementsTender` takes the pending quotes of a request as its offers and the
accepted one, which is unique, as its award; each handler's
write is then an `Offer`, a `Drop`, an `Award` or a stutter, and everything else
leaves the mapped variables alone (`EveryStepIsTenders`).

| theorem | |
|---|---|
| `HiringTypeCorrect` | `Spec => []HiringTypeOK` |
| `AcceptanceIsBooked` | `Spec => []AcceptedQuoteIsBooked` |
| `CancellationIsHeard` | `OneSession`: `Spec => []QuotersHearOfCancellation` |
| `HiringIsATender` | `OneSession`: `Spec => ImplementsTender` |

### `ReviewsProofs`

*The history.* `IInv` says that what an author
has read, history and version, is a start of the versions the review has now;
that a row waiting to be committed still keeps the versions of the row it will
replace; and that a review is locked by one transaction. An edit whose read is
outdated then has a history that is too short, or one that ends before the
version it replaces, and the comparison of lengths in `reviews_guard_update`
rejects it (`GuardKeeps`). Administrators pass the trigger unchecked, and for
them the property is false; hence the hypothesis.

*Visibility and rating.* `RowsInv` does not care who edits. It says how a row that
waits to be committed differs from the one it replaces: without a ruling it has
the same flag, without counting it has the same rating. That gives
`DecisionsAreOnRecord`. `TallyOK` says that the tally a session is going to write
counts the reviews as they will be; with `OneCounts` every other commit is of a
row that counts as before (`SameFor`), so it stays true.

*Sums.* That a tally is a pair of numbers is a fact about the recursive function
behind `SumFunction`. The induction theorems of the library take an operator and
cannot be used; instead each of existence, uniqueness and type of the recursion is
proved by the smallest subset on which it would fail (`SmallestSubset`, from the
well-foundedness of inclusion among finite sets, which is first-order).

| theorem | |
|---|---|
| `EditsKeepHistory` | no administrator edits: `Spec => HistoryKeepsEveryVersion` |
| `DecisionsAreOnRecord` | `Spec => VisibilityIsRuled` |
| `RatingsKeepUp` | `OneCounts`: `Spec => RatingKeepsUp` |
| `ReviewsTypeCorrect` | `Spec => []ReviewsTypeOK` |

### `AccountsProofs`

`Base` gives rows and requests their types and says what a request relies on
(`RequestOK`): the account it found is there, the token or code it names is a row,
the token it has issued is of the family of the one it will retire; and a token
that was replaced points at a later one of its family. What no step undoes
(rows, revocations, spent codes, links) carries this over other requests' steps.

| theorem | what is added to `Base` |
|---|---|
| `AccountsTypeCorrect` | nothing |
| `VerifiedMeansProved` (`AddressIsProved`) | nothing: the mark and its proof are written by one statement |
| `SuspensionSignsOut` (`SuspendedHasNoSession`) | when the account is suspended no request is about to welcome, issue or link |
| `DeadFamiliesStayDead` (`DeadFamilyStaysDead`) | nothing: a token is issued only by a refresh that is under way |
| `RotationLeavesOne` (`OneChainPerFamily`) | the one refresh under way holds the live token of its family or has issued it; each crash leaves one more |
| `OneCodeIsOpen` (`OneUsableCode`) | the one request for a code has seen every code that is open |
| `NoGuessIsLost` (`GuessesAreCounted`) | a count that is going to be written is at least what has really happened; the lock of a code is taken to last as long as the code |

### `MarketplaceProofs`, `UploadsProofs`, `TaxonomyProofs`

They extend each other in this order. `Base` types all tables and all that a
request has kept, and says what its statements may rely on: profiles and listings
are not removed once there, foreign keys are looked at again by the statement that
writes.

`UploadsProofs` divides the keys among their holders: a row; a request that has
stored the object and not yet written its row (`Fresh`); a request about to remove
it (`Removing`). No two share a key (`KeysOK`), though a request that replaces a
picture may remember a key that somebody else has replaced meanwhile; such a key has
not come back anywhere. `NothingIsOrphaned` adds that every object has a holder
while nothing fails (`HeldOK`).

`TaxonomyProofs` rests on three facts: a parent changes in a move only, a new row is
nobody's parent, and ids are not used again. For each walk there is the set of rows
it has passed; any set of rows that would become a loop with the move contains
all of them and the cursor (`PassedIn`). A walk of `Depth` turns that
lets the move through has therefore left only loops longer than `Depth`.

| theorem | |
|---|---|
| `MarketplaceTypeCorrect` | `Spec => []MarketplaceTypeOK`; the portfolio's bound counts the additions under way |
| `TakenDownStaysUnlisted` | `Spec => ReturnsUnlisted`, about the public list |
| `NewestWasSeen` | `Spec => []NewestIsSeen` |
| `UploadedRowsPointAtObjects` | `Spec => []PointersResolve`, about the rows that uploads write |
| `StorageIsTidy` | `Spec => []NothingIsOrphaned` |
| `NoLoopIsShort` | `Spec => []LoopsAreLong` |

### `FreshnessProofs`

Revisions and versions are bounded in the model; `Base` shows that the bound is
never in the way, since each write and each bump is one of the calls that the
scenario still has to make (`Left`). For `ReachableListsAreCurrent` the invariant
(`Current`) says, for orderly scenarios, that a reader which has missed the current
version is about to store what it will have read from the rows as they are, or
somebody is about to move the version; and that a writer between its read of the
counter and its write will not move it back.

| theorem | |
|---|---|
| `FreshnessTypeCorrect` | `Spec => []FreshnessTypeOK` |
| `CountIsTheStreams` | `Spec => []ListenersAreStreams` |
| `ListsStayCurrent` | `Spec => []ReachableListsAreCurrent` |

### What the proofs changed in the models

Four places did not survive the attempt to prove something about them. `Orderly`
allowed any number of writers with one write each; with three the counter can
move back and the property is false, so it now allows two. `InsertCategory`
could use the id of a deleted row, which a uuid never is. `OpenStream` could open
more streams than its scenario has. The table of `Invalidates` put some of the
administrators' routes on the wrong side of their commit.

### Only model-checked

The two liveness properties, `StaleEntriesExpire` and `PagesCatchUp`: fairness is
beyond the prover. The four runs that expect a violation are counterexamples and
have nothing to prove. Every other property of a run is stated by a theorem.

### Fairness

Fairness is assumed in `Freshness` only, and there only weak fairness of what the
runtime schedules itself: a request that has begun takes its next step
(`ReadStep`, `WriteStep`), a page that was told fetches, the two timers fire,
an entry's time to live ends and a command that Redis has queued is carried
out. No writer has to begin, no visitor to come, no page to connect
and nothing has to restart. Elsewhere nothing is promised for the future: nobody has to call, and
a handler can always fail.

## 5. Plan

What is left, in this order.

| module | handlers | properties | proofs |
|---|---|---|---|
| a composition of `Hiring`, `Bookings` and `Catalogue` | accept, the calendar, closing a profile | the booking that an acceptance inserts takes part in the calendar; a closed profile has no active booking unless an acceptance overlapped it | - |
| `Settings` | `AdminService.updateSettings` | a batch is applied as one | - |

### Not modelled, and why

Mail, HTTP plumbing and configuration keep no state of the domain. List and
detail endpoints only read; the four that read through the cache are the reads of
`Caching`. Byte sniffing and input validation of DTOs are
checks of one input without state; the models take their inputs from what passes
them. Edits of a user's own profile and of a piece of work overwrite one row and
check nothing but who owns it. Signed URLs and the route for local files hand out
what storage holds. Badges are computed at each read. The statistics of the
administrators' pages are counts. Platform settings are planned. A commit whose
acknowledgement is lost is not modelled: `MessagesController.sendAttachment`
would remove the object of a message that is there.
