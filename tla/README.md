# Formal models of the pre-owned book marketplace

TLA+ specifications of the back end under `src/app` (FastAPI handlers,
SQLAlchemy async sessions over PostgreSQL, session tokens in Redis), TLC
configurations that check small instances of them, and proofs that the TLA+ proof
system checks for every size of instance.

## 1. The system

Every mutating HTTP request runs one coroutine in one database transaction:
`get_db` (`app/utility/postgres.py:86`) opens a session, the handler runs its
service, and the session is committed when the handler returns or rolled back
when it raises. PostgreSQL runs at READ COMMITTED, no statement uses
`FOR UPDATE`, and no row has a version column. Whatever a service decides from a
`SELECT` may be out of date when it writes. That is where this code is hard, and
what the models keep: every SQL statement of a handler is a step of its own, and
the steps of different requests interleave. Only four things hold a race back:
the row lock an `UPDATE` takes until commit, the condition in its `WHERE` clause,
a partial unique index, and a `CHECK` constraint. Redis and e-mail are outside the
transaction: what is written or sent stays when the transaction rolls back.

### Inventory

| Component | State | Operations that change it | Hard behaviour | What makes it correct |
|---|---|---|---|---|
| sessions and transactions (`utility/postgres.py`) | committed rows; a transaction's writes and row locks | commit, rollback | stale reads, lost updates, lock waits | all or nothing; one writer per row |
| orders (`order`) | status, fulfilment type, total, reference | checkout, customer cancel, seller status change; lists and details for customer and seller | guards evaluated statements before the write; loops over lines; pages made of several statements; retried checkouts | the status machine of `order/model.py`; an order is whole; it settles once; one order per reference; pages say what is there and miss nothing |
| order items (`order_item`) | quantity per variant, soft deletion | created by checkout, delete | deletion leaves order and stock alone | items agree with the total |
| variants (`variant`) | stock ≥ 0, soft deletion, price, options | create, PATCH, delete; deduct, restore, cascade | absolute PATCH over a concurrent sale; duplicate options by check-then-insert | units conserved and never negative; one variant per combination of options |
| listings (`business_book`) | status, soft deletion | create, status change, delete with variants; catalogue, offers, storefront, inventory | cascade against running checkouts and creations; pages of several statements with joins of their own | a deleted listing sells nothing and leaves nothing behind; numbers, rows and cards of a page fit together |
| customer addresses, store locations (`user_address`, `business_address`) | rows with default/primary and pickup flags | create, update, delete, set default/primary | "clear the others, then set one" in several statements; limits by count | one default, one primary, one pickup location; 1 to `MaxAddresses` rows |
| platform users (`platform_user`) | account per user, privilege set | create, update, delete, transfer of the super admin | the caller is checked in another session; two UPDATEs | exactly one super admin; one account per user |
| platform invites (`platform_invite`) | status, token hash, expiry | create, resend, revoke, validate, accept, reject; expiry sweep | mail before commit; time runs out between steps; accept against revoke | acceptance whole and once; pending means mailed; expired means late |
| businesses and members (`business`, `business_user`) | owner; membership with role | create, change of owner, delete; add, PATCH of role, status, user or business, remove | several rows in one request; unique indexes as last resort | one business per owner, one membership per user and business, a business has its owner enrolled |
| role privileges (`role_privilege`) | grants per role | grant, drop | revocation of everybody with the role | sessions follow grants |
| sessions (`user` logins and switches, `utility/token.py`, `utility/revocation.py`, Redis) | token stored under the e-mail address; block list of token ids | login, switch, revoke | Redis is written before the transaction commits; a switch reads three tables in turn | the stored token says no more than the rows |
| passwords (`password_reset_token`, `user`, `middleware/auth.py`) | hash, user status, reset tokens | request, complete, change, PUT, delete | concurrent completions; verification on a stale row | a token resets once; the password is changed before anything else is done |
| books, authors, genres and their links (`book`, `book_author`, `book_genre`, `author`, `genre`, `utility/aws/s3.py`) | rows, links, a cover in S3 | create, update, delete; link sync; single links | S3 is not transactional; link sync by read and diff | a committed cover exists, a cover has its book, links are those asked for |
| ratings | one row per user and book or business | create, update, delete | unique index | one live rating each |
| roles, privileges, modules, platform privileges and sets, the seed (`role`, `privilege`, `module`, `platform_privilege*`, `scripts/seed_defaults.py`) | rows named by code | CRUD, module create/renew/delete loops, seeding in three transactions | loops over services with revocations inside; look-up then insert; crash and re-run | no half module; an installation keeps its promise; no token keeps a lost privilege |
| variant types, options, configurations | rows | create, rename, delete, attach, detach | a deleted type leaves its options live | as for variants |
| pagination, effective price, cart-line merge (`utility/pagination.py`, `variant/repository.py`, `order/service.py`) | none | pure functions | rounding and boundaries; a variant twice in a cart | announced pages exist; a quote computed as the server charges holds |
| address validation (`utility/address.py`) | none | pure checks of texts | tables | |

Interaction: handlers call other packages' repositories in their own transaction
(checkout writes `orders`, `variants` and `order_items`; deletion of a business
writes `businesses` and `business_users`, then Redis; acceptance of an invite
writes `users`, `platform_users` and `platform_invites`, then sends mail). A page of
orders is one request of three or four statements, and a client's reading of the whole list
is as many requests. There are no background jobs, queues or callbacks; requests meet only
in rows, in Redis and in the bucket.

## 2. The modules

| Module | Models | State ↔ code |
|---|---|---|
| `ReadCommitted` | a request's transaction | `db`: committed rows; `pend[r]`: rows written by r and not committed, each of which r holds the lock of; `View(r, k)`: what a SELECT of r returns |
| `OrderStock` | `order`, `order_item`, stock of `variant`, status and deletion of `business_book` | `pc`: next SQL statement; `job`: endpoint and arguments; `todo`, `at`: the loop over lines; `seen`: the status or stock the handler read; `put`: items given back |
| `StockAccount` | the abstract promise: units move by whole sales, returns, recounts and retirement | refined by `OrderStock` through `Account == INSTANCE StockAccount WITH ...` |
| `OrderStockProofs` | theorems about `OrderStock`: its rows, locks and transactions; then sums over finite sets, and what commits mean for orders, listings and the account | |
| `PlatformProofs` | theorems about `PlatformInvites`, `SuperAdmin` and `Passwords` | the three share `Handlers`; definitions that two of them would have are named for the account (`AccountSpec`, `AccountTypeOK`) or for the password (`PasswordSpec`, `CommitPasswords`) |
| `AddressesProofs`, `MembershipProofs`, `PrivilegesProofs`, `BookCatalogProofs`, `ListingsProofs`, `OrderHistoryProofs` | theorems about the module each is named after | |
| `Handlers` | the life of a request whose handler runs straight through | `pc`, `job`, `seen` as above; EXTENDed by the modules below |
| `SuperAdmin` | `platform_user` and its guards | rows are accounts; `overtaken`: a request committed on a role that had changed since it read it |
| `PlatformInvites` | `platform_invite` with the users and accounts it creates, signup, user deletion | rows are invites and users (keyed by e-mail); `late`: tokens past their hour; `mailed`: tokens that were sent |
| `Addresses` | `user_address` (`kind = "user"`) and `business_address` (`kind = "business"`) | rows are addresses; a plan (`seen`) is which columns the request sets |
| `Membership` | `business`, `business_user`, `role_privilege`, logins and switches, revocation | rows are businesses, memberships and roles; `token`, `stored`, `revoked` are Redis and what it names; `left`: sessions whose membership a PATCH gave to another user or business |
| `Passwords` | `password_reset_token`, platform login, the gate of the middleware, PUT and DELETE of users | rows are users and reset tokens; `session`: tokens issued; `changed`, `overridden`: users with a committed change, and those whose status an administrator set |
| `BookCatalog` | `book`, `book_author`, `book_genre`, `author`, `genre`, creation of ratings, the cover in S3 | rows are books, parts (authors, genres) and pairs; `bucket`: objects in S3; `given`: addresses of covers (or none) that clients put on books as they are; `alone`: nobody disturbed the request; `damaged`: books whose cover was lost where the code loses it |
| `Listings` | `business_book`, `variant`, `variant_config`, `variant_option`, `variant_type` | rows are listings, variants, options, types, and pairs of variant and option; books and businesses only live or not; `odd`: variants that were created in a race, with options of a deleted type, or edited by an administrator |
| `ShopPages` | the GETs of `business_book` and `variant`; EXTENDS `Listings` | `page[c]`: what a reader has asked for (`get`), the statement it is at, and what the statements so far returned; `moved[c]`: rows that were committed anew since it asked |
| `Privileges` | `role`, `privilege`, `module`, `role_privilege`, `platform_privilege`, the sets and their links, `seed_defaults.py`, sessions of a role | rows are catalogue entries (by kind and code) and grants or links (pairs); a request's handler is a worklist (`seen[r].todo`) of single look-ups, insertions, removals and revocations; `token`: privileges a live session of a role carries |
| `OrderHistory` | price, quote, total and reference of a checkout, the reads of `order`, `order_item`, `utility/pagination.py` | rows are variants (price, discount), orders (total, reference, creation time) and lines; `clock`: `now()`; `since`: rows that were written since a page or a checkout began; `start`: the orders that were there when a walk began; `lost`: orders that lost their last line while it went on |

Every module states its types as `TypeOK` (`AccountTypeOK` in `SuperAdmin`, `PasswordTypeOK` in `Passwords`). That of
`OrderStock` is checked by a run and proved; those of `SuperAdmin`, `PlatformInvites`, `Addresses`, `Membership` and
`Passwords` are conjuncts of the invariants proved about them, those of `Privileges`, `BookCatalog`, `Listings` and
`OrderHistory` are theorems of their own. Each `MC...` module gives the constants of an instance and a symmetry set. An action
is one SQL statement (or one Redis or mail call) with the conditions and early
returns that follow it; the last action of a request is get_db's commit. Every
request may also fail between any two statements (`ConnectionLost`), which rolls it
back. Operators named "Mutant" are wrong variants of the one defined after them;
nothing uses them but the tests of the properties.

### Abstractions

- A row is the columns that decide something; texts, currencies, addresses and, but for
  `OrderHistory`, prices are left out. An INSERT picks a row that was never used.
- SQLAlchemy's identity map is modelled where it shows: an attribute equal to the
  one loaded is not flushed (`LoadVariant`, `ReloadListing`, `Flushed`, `Changed`,
  `Reload`, `AfterLoad`), and a flush writes the changed columns over the newest
  committed version.
- A statement that must wait for a row lock is disabled; one whose WHERE clause
  matches no row does not wait and is rejected.
- `OrderStock`: a line's variant and listing are read in one step; the deduction
  and the insertion of the item are one step (the item row is new); the order of
  the lines is open; currency, seller, total and address checks are
  `RejectCheckout`; the total is the units it was computed from (prices, references and the
  reads are `OrderHistory`'s); the ORM default status "ACTIVE" of old orders is not modelled
  and variants are created in `Listings`.
- `SuperAdmin`: registration and login are omitted. A request that read a role
  which changed and changed back counts as overtaken.
- `PlatformInvites`: a token is named after the request that generated it; the two
  reads of the access check are one; writes that a failing call makes before its
  error are rolled back with it, as get_db does.
- `Addresses`: one owner; the "oldest" row is any row.
- `Membership`: one privilege stands for all; users are not deleted; a PATCH of a
  membership names any of user, business, role and status (of a status only that it is named; a null ends
  like a lost connection); role administrators are not checked; tokens and Redis
  keys do not expire; the token in the answer to a creation is not stored by the code
  and not issued here; the checks of middleware and dependencies are made when the
  request arrives.
- `Passwords`: a password is one of a few secrets, so that a new one may be the one in
  force or an earlier one; reset tokens and sessions are named after the request that
  made them; a password given by PUT, which the code stores unhashed, verifies with nothing.
- `BookCatalog`: an image given by a client is a staged upload (jpg or png), one address
  outside the bucket, the address of any book's cover, there or not, or none; the uploads are there at the start, and their expiry is a head or copy
  that fails; every call to S3 may fail. A creation that ends in an IntegrityError leaves its
  cover, since the clean-up raises too. The text of a search is left out.
- `Listings`: price and discount are left out (see `OrderHistory`), sales and returns of stock are
  `OrderStock`'s; a request's checks on one row are one read.
- `ShopPages`: the first page of each list, which rows are the newest being left open; the
  search text, authors and prices are left out. The 100 variants that a detail loads
  and the size that a client asks for are both `Limit`, so that a small instance reaches it.
- `Privileges`: names, descriptions and statuses are left out; module names and codes are
  words and `Upper` is the upper-casing the code applies; Redis is not rolled back. Unique
  indexes are those of the migrations (`alembic/versions/20260705_0002`): partial, on live
  rows, where the ORM says full.
- `OrderHistory`: a line may be found sold out at any moment (`SoldOut`); the stock itself,
  the status and the row locks are `OrderStock`'s. `created_at` is the start of the
  transaction and taken to be distinct: `ORDER BY created_at DESC` has no tiebreaker, and two
  equal times could make pages skip. A search is the set of references it matches. A client
  walks on until a page is not full. Titles, authors and images of lines are left out.

## 3. What is checked

All requests of an instance are one-shot, so a state in which all have ended is a
proper end: the configurations say `CHECK_DEADLOCK FALSE`. That requests do not block
each other is `EveryRequestEnds`.

| Run | Instance | Shows |
|---|---|---|
| `orders` | 3 requests (checkout, cancel, seller status, recount, deletion of a variant or an item), 2 orders, 2 variants with 1 unit, quantities to 2, both fulfilment types | types (`TypeOK`); an order that no stale write hit settles once (`UnracedOrdersSettle`) and moves one stage at a time (`UnracedStatusMoves`); `StockConserved`, `StockNeverNegative`, `OrdersAreWhole`, and the refinement `ImplementsAccount` |
| `listing` | 3 requests (checkout, listing status, deletions), 2 variants with 1 unit, fair | `EveryRequestEnds`, `NoSaleFromDeletedListing` |
| `superadmin` | 3 requests, 4 accounts of 3 users | one super admin unless a request was overtaken, the role moves by transfers only |
| `invites` | 3 requests, 2 invites, 1 address, 2 privilege sets | acceptance is whole; pending invites were mailed; expired ones are late |
| `addresses` | 3 requests, 4 address rows, limit 3, customer and business | one default or primary always; pickup, limit and replacement as long as no requests overlap |
| `members` | 3 requests, 2 businesses, 3 memberships, 2 users, 2 roles | one business per owner and one membership always (`NobodyTwice`); a business appears with its owner; sessions are current as long as no requests overlap, but for those of memberships that a PATCH moved (`StoredSessionIsCurrent`) |
| `passwords` | 4 requests, 2 platform users | a reset token is spent once, together with its reset (`ResetSpendsToken`); nobody works before a change of the password was committed (`ChangeComesFirst`) |
| `books` | 3 requests over a book with cover and links and one to come, 2 authors, 2 genres, a jpg and a png upload, addresses of covers, an outside link and no image, S3 calls that fail | a committed cover is in the bucket and a cover has its book but for the named cases; undisturbed requests commit exactly the links they were asked for |
| `listings` | 3 requests of two sellers and an administrator over 2 listings (a third to come), 4 variants, 3 options of 2 types (and a new option of a type that does not exist), and a reader of one page of at most 2 rows (`Limit`) of each kind beside two of the requests (`Beside`) | live variants of a listing differ in their options and nothing survives its listing, but for races and administrators; the number a page announces is that of its rows, to within what was committed while it was read and what is beyond its limit (`CountsMatchLists`); what did not change meanwhile is shown as it is (`ShownAsItIs`) |
| `privileges` | 2 requests of every kind, seeding included, on an empty, a half filled and a full catalogue, and a switch or the removal of a grant | `InstalledAsPromised`, `NoHalfModule`, `ModuleGone`, `TokensAreBacked` |
| `history` | a reader (pages of 1 or 2, with and without a search, or a detail) and two writers among checkouts (one sent twice), deletions of lines, price changes and deletions of variants, over 3 orders and 2 to come | totals add up; one order per reference; a fair quote holds; pages add up, exist as announced and miss nothing; when a seller's page fails |
| `double_cancel` | 3 requests on one order and one variant | the disagreement of section 5: violates `CancelledOnlyOnce` |

Why these bounds: a race in this code needs two requests on one row, and what they
race about is set up or exploited by at most one more (a checkout before two
cancellations; a reset token before two completions); the deadlock of two checkouts
needs two variants; a loop of two lines has a first and a last. Scarce stock (1 unit)
makes every second sale fail half-way; a recount to 2 or a cancellation lets both succeed. `MaxStock` and
`MaxQuantity` (2) bound what clients send; nothing else is cut: requests are finite
by themselves. `Limit` (2) is below the number of variants of a listing, so that full pages
and offers with more variants than they list occur; `Beside` names two of the three requests
of `listings`, since a reader beside all three multiplies the states: a page whose statements fall
between two commits needs no more. `Body`, `Wanted` and `Asked` list what clients of an instance send.

History variables (`returned`, `supply`, `raced`, `overtaken`, `mailed`, `overlapped`,
`left`, `changed`, `overridden`, `given`, `alone`, `damaged`, `odd`, `moved`, `beside`, `tidy`, `since`, `start`, `lost`) record what has
happened and guard no action. `raced`, `overtaken` and `overlapped` delimit
claims that the code does not keep under every interleaving: a property conditional
on them is the strongest form that holds, and what happens otherwise is told in
section 5.

Fairness is assumed in `FairSpec` of `OrderStock` only: weak fairness of every
request's next statement, since the event loop and the database run every handler on
(a handler has no other wait than a row lock), and of the abort of a member of a
cycle of waits, which PostgreSQL's deadlock detector makes after `deadlock_timeout`. Strong
fairness is not needed: once begun, no request can be overtaken for ever by finitely
many others. Nothing is assumed of clients, of lost connections or of expiry.

## 4. What is proved

All eleven system modules are proved about: every safety property that a run checks of
`OrderStock`, `OrderHistory`, `SuperAdmin`, `PlatformInvites`, `Addresses`, `Membership`, `Passwords`, `BookCatalog`
and `Listings` is a theorem, for any number of requests, rows and users, and so are both invariants of
`Privileges`, `TokensAreBacked` and `NoHalfModule`. Of `ShopPages`, `CountsMatchLists` is a theorem. The runs show the same formulas on small instances.

### Assumptions

Only the constants are assumed about, and TLC evaluates every assumption on each run of the module:

| Module | Assumption | Says |
|---|---|---|
| `OrderStock` | `KeysDisjoint`, `NoneIsNoRow` | rows of different tables differ, absence is no row |
| | `CatalogAssumption` | a variant belongs to a listing and starts with stock ≥ 0 (`ck_variants_stock_non_negative`); bounds are naturals |
| | `OrdersAreFinite` | finitely many references; only sums over all orders need it |
| `PlatformInvites` | `InviteAssumption` | invites and addresses differ, the token of the first invite is no request's, absence is no row |
| `Passwords` | `PasswordAssumption` | users and requests differ, no secret is the hash that verifies with nothing, absence is no row |
| `Addresses` | `AddressAssumption` | finitely many rows, a start within the limit |
| `SuperAdmin` | `AccountAssumption` | every account has a user, those at the start have different ones, absence is no row |
| `Membership` | `MembershipAssumption`, `NoneIsNoToken` | rows of different tables differ, the staff at the start have rows of their own, absence is neither row nor token |
| `BookCatalog` | `CatalogAssumption` | rows of different tables differ, an author is no genre; a start has books with or without a cover and links of authors and genres that are known; the markers for "as it is", "an address elsewhere" and absence are none of the values they are used beside |
| `Listings` | `ListingsAssumption`, `StartAssumption` | rows of different tables differ; finitely many variants; a start fits the foreign keys, has no options of deleted variants, no live variant of a deleted listing and no two live variants of one listing with the same options |
| `ShopPages` | `PagesAssumption` | pages are asked for of rows of their tables, with a limit of at least 1; finitely many listings; absence is neither a book nor a listing |
| `Privileges` | `PrivilegesAssumption` | finitely many entries, none of which is a pair; lists of codes, of sets and of their links, as in the catalogue and the seed; a start has rows of its own; absence is neither a row nor a name |
| | `CatalogueAssumption` | a resource is in the catalogue once, and without DELETE if `create_module` gives it none (AUTHOR, `module/service.py:41`), so that both install the same codes; every role can have each of them; a start fits the unique indexes |
| `OrderHistory` | `OrderHistoryAssumption` | rows of different tables differ; finitely many orders; customers, sellers, variants and references exist; a cart has at most `MaxLines` different variants; the markers for "as it is" and for absence are none of the values they are used beside |
| | `StartAssumption` | the orders at the start were placed one after the other, each under a reference of its own and with lines of one seller that add up to its total |

Nothing is assumed about schedules: the theorems hold for `Spec`, without fairness, with every
interleaving of statements and a lost connection between any two.

### How the invariants are built

A property of committed rows is hardly ever inductive: a commit writes what a transaction has
pending, so that the invariant must say of every request, at each of its statements, what it has
read, what it holds and what it has written. Each such invariant was first checked by TLC as an
invariant on the instance of the run (with two or three requests), and where a check or a proof step failed it was the
invariant, or in one case the module, that was wrong (two guards of a CASE in `Addresses!ReadAddress` that
overlapped, so that CHOOSE decided).

The proofs then have one shape. `Working` says at which statement of which endpoint a request is and
what it has read; `Written` (or `TransactionOK`, `Founding`, `SeesOne`) what it has pending. A lemma
`OthersKeep` shows once and for all that a step of one request preserves what is said of the others:
their rows are locked, and what they have read is of a kind that stays true. A lemma for reads,
one for writes and one for each end of a request (`ReadStep`, `WriteStep`, `FinishStep`, `RejectStep`)
reduce each action to what it says of its own request; then there is one lemma per action, and
the theorem puts them together.

- **`OrderStock`** (`OrderStockProofs`). `TypeCorrect`: types, with `RequestOK`, by which a request is at a
  statement of its own handler with loop variables of its own cart. `StockIsNeverNegative`: a
  deduction writes `stock - quantity` under the condition `stock >= quantity` evaluated on the very
  version it replaces, which is what the single conditional UPDATE buys. `LocksAreExclusive`:
  every UPDATE checks the lock, but the INSERT of an order item checks nothing; `LockInv` adds that items
  of an order that is not committed are written only by the checkout that holds the order's row.
  `TransactionsWriteWhatTheyRead` is `SystemInv`: types, locks, and `TransactionOK`, which says for each
  endpoint what its transaction has written so far, relative to the committed rows, at every point of
  its loops. `OrdersStayWhole` follows.
- **Commits** (the second half of `OrderStockProofs`). From `SystemInv` one lemma per endpoint gives the effect of its commit on
  committed orders, items and stock, and from those effects: no sale from a deleted listing
  (`NoSaleFromDeleted`), the status machine and the single settlement of orders no stale write
  hit (`UnracedStatusesAdvance`, `UnracedOrdersSettleOnce`), the refinement
  (`StatementsImplementAccount`: each statement is a stutter, each commit one step of `StockAccount`
  or a stutter), and the ledger (`StockIsConserved`).
- **Sums** (in the middle of `OrderStockProofs`, and at the head of `OrderHistoryProofs`). `SumFunction` of the community modules is recursive over a set; the
  provers cannot instantiate the induction theorems, so its laws (an empty sum, a point changed, two
  functions added, an order that shifts units) are proved by taking a smallest counterexample from the well-foundedness of the naturals, which
  needs no operator parameter.
- **`PlatformInvites`**. `HandlersKeepTheirGround` is `InviteInv`. A pending invite that is not committed carries the token its
  own request generated, and no statement but the mail leads from there to a commit
  (`InvitesCanBeAnswered`); a row that became EXPIRED was overdue when it was written and time does not
  run back (`OnlyOverdueInvitesExpire`); an acceptance that reaches its commit holds the new
  user, the account and the invite, and nobody else can have signed the address up (`AcceptancesAreWhole`).
- **`Passwords`**. `PasswordsStayInOrder` is `PasswordInv`. A status other than NEW, committed or pending, and a session without
  restriction are owed to a committed change, to the one that holds the row, or to an administrator, whatever
  was verified on an older row (`NobodySkipsTheChange`). That the password then is another one is not claimed: the code compares nothing (section 5); a completion writes password and token under two locks, and marks
  the token by a conditional UPDATE (`TokensAreSpentOnce`).
- **`SuperAdmin`**. `EndpointsWriteWhatTheyMay` is `AccountInv`: which row each endpoint has written, with which role, given
  what it read. `overtaken` is exactly the case in which that reading no longer holds at the commit,
  so that otherwise the role moves from one account to one other (`OneSuperAdmin`, `TheRoleMoves`).
- **`Addresses`**. `AddressesStayInOrder` is `AddressInv`. `NeverTwoChosen` holds for every interleaving: a
  transaction that has a chosen row pending sees no other (`SeesOne`) and no second
  transaction has one (`OneTransactionChooses`), because the unique index makes the second wait.
  `BooksAreInOrder` and `ChosenStays` are about requests that do not overlap: `Alone` says at each statement of
  the one that runs how its plan will leave the book, so that a failure anywhere leaves the old
  book and success the new.
- **`Membership`**. `MembersStayInOrder` is `MembershipInv`. `NobodyIsTwice` holds for every interleaving: `Exclusive` says that
  committed rows and what any two transactions have pending fit the unique indexes together; a write preserves it when its row
  `Fits`, which is what waiting for conflicting rows and failing on those that remain amounts to.
  `BusinessesHaveOwners`: a creation at its commit holds one business and its owner's membership, and nothing else brings a
  business to life (`Founding`). `StoredSessionsAreCurrent` is about requests that do not overlap: a session
  of somebody who is not yet revoked is covered by the rows as the request will commit them, and
  by the committed rows as well, so that it does not matter that Redis keeps a revocation of a request that fails.
  A PATCH that moves a membership revokes its old holder at most by chance; `Leavers` are the sessions that lose their ground by it
  and go to `left` at its commit.

- **`Privileges`**. `AgendasHold` is `PrivilegesInv`. A handler is a worklist that grows while it is worked off, so
  that the invariant is about what is left of it (`OnAgenda`): it has only steps its endpoint may take
  (`StepsOf`), it ends with the commit, and the sessions of a role are revoked directly after each
  deletion of a grant (`Paired`), whatever a step puts in front of the rest. Hence a deleted and uncommitted grant is in no
  session, unless its revocation is the very next step (`Revoking`), and no commit comes in between.
  The other half is about switches: the codes one has read are still granted when it stores them,
  if nobody who removes grants runs beside it (`Backing`); codes it stores otherwise are those the code lets through
  (section 5) and are not counted. `TypeCorrect` and `TokensAreCovered` follow. That `Crud` and the installation
  are lists of codes rests on a lemma about `FlattenSeq`, proved like those about sums.
  `WholeHolds` (the invariant is `WholeInv`) is about what an agenda still brings, and holds as long as nothing but
  whole modules is changed (`tidy`). For each resource of the catalogue, a request that installs either has nothing to do with it, in what it has
  written and in what is left (`Apart`), or each of its codes is there, is still ahead together with its grant, or has
  its privilege and the grant comes next (`Coming`); likewise a deletion (`Going`). At the commit nothing is left, and the
  module is whole. That two requests agree rests on the unique index: no two transactions have named the same
  privilege, and the rows they hold differ (`Separate`). An update of a module installs what it lists, which is all of a resource's codes or none only because
  they are filed under one module (`Filed`, `First`); that no deletion runs beside an installation is part of `tidy`.
  `ModulesStayWhole` follows.
  `ModulesGo` needs what holds without `tidy`: rows of one name hold each other off in
  whatever is written (`Indexed`), so that a deletion finds by name the very rows it listed. `Alone` follows one beside which only
  switches run: every row of the module, as it sees it, is gone or its deletion is still ahead, and so are the grants of each (`Disposal`).
  A switch writes nothing, so that no other commit changes the rows meanwhile, and at its own commit nothing is ahead.

- **`BookCatalog`**. The invariant is `BookInv`. Which request may touch which object of the bucket decides about the
  covers: a creation holds the row of its book, whose committed state is still "none", so that nobody else finds the book;
  an update touches only covers of its own book, and what it has removed is in nobody's committed row but that book's
  (`Covers`, `Removing`, `Promised`). Two updates of one cover, and one that is lost after it removed the old cover, are the damage
  that `CommittedImageExists` excepts, because the code makes it; likewise an address that a client put on the book
  as it was (`given`). Hence `ImagesExist` and `NoStrayCovers`.
  `LinksCommitted` is about requests that nobody disturbs (`Lone`): `PlanOK` says at each statement that what is left of the
  plan leads from the links the request sees to those it was asked for (`LeadsTo`), and nothing is left at the commit.
- **`Listings`**. The invariant is `ListingsInv`. `WritesOK` says table by table what each endpoint may have
  written over which committed row, which is enough to say what a commit changes for everybody else. A deletion has in its
  list every variant of its listing but those that were created beside it, and holds each (`Deleting`): `NothingLeft`.
  A creation compares its options with what four statements have read; for one that nobody disturbs, `Knowing` says at each of
  them how what it has read describes the committed rows. At the end no variant has its options, unless one of them has no
  type (`Distinct`), and this stays so until it commits (`SetsDistinct`). Foreign keys (`RowsOK`) are part of the invariant: an option
  that was found keeps its type's row, deleted or not.
- **`ShopPages`** (the end of `ListingsProofs`). The readers take no part in `Listings` (`PagesAreListings`), so that its invariant
  is at hand. `PageInv` says of a page at each statement that what it has counted, and what it has listed, agrees with
  what matches now on every row whose surroundings did not change since it was asked for (`Agrees`); a commit adds to
  `moved` every row for which this ceases to hold (`Follows`: a variant keeps its listing). At the end two sets that
  agree up to the changed rows have sizes that differ by no more (`CountsMatch`).
- **`OrderHistory`**. The invariant is `HistoryInv`. Committed orders add up (`Committed`), whatever is
  deleted, because a deletion leaves the line's row and neither writes the order. `Buyer` says of a checkout at each statement
  what its cart has come to: the lines priced so far are of one seller and cost what their variants cost now, or
  a variant has changed (`QuotesHold`); after the INSERT the order's row is held and its total is the cost of the lines to come
  (`TotalsStand`). Two transactions never hold orders of one reference (`Apart`), since the second
  waits for the first (`RetriesPlaceNoSecondOrder`). `Reader` says of a page what its statements so far have returned, relative to
  the rows as they are now and to what was deleted since (`Told`, `Previewed`): a commit of another request moves both
  by the same lines (`PagesFit`, `SellersAreServed`). Of a walk it says that the orders of the start that have not been shown
  have at least as many newer orders as the pages so far have passed (`ToCome`): new orders only push them down, and
  the next page begins right after (`WalksMissNothing`); only a seller's order that lost its last line can pull
  the others up, which is what `lost` remembers. `AnnouncedPagesAreThere` is the arithmetic of the page
  count. Totals are sums, so that the laws of `SumFunction` are needed again: here a sum split into the
  lines left and the lines gone, and the cart's sum rearranged from lines to variants (`OverPairs`).

### What is only model-checked

Liveness (`EveryRequestEnds`) and anything with ENABLED: no installed prover handles them. Of
`Privileges`, the action property `InstalledAsPromised`: it says of a single commit what its agenda came to, beside requests that
change single rows as well, for which `WholeInv` says nothing. Of `ShopPages`, the invariant `ShownAsItIs`. No module has a RECURSIVE operator, so that all stay open to proof.

## 5. Disagreements with the documents

- `double_cancel`: two cancellations that read the order before either commits both
  succeed and both restore the stock; `order/model.py:93` refuses a cancelled order.

The following have no run of their own; each was found with the module named, as a
counterexample to the unconditional form of the property named.

- `SuperAdmin` (`OneSuperAdminUnlessOvertaken`): two overlapping transfers leave two super
  admins; `platform_user/guards.py:1` calls the role a singleton. A concurrent deletion can
  remove the account a transfer promotes.
- `PlatformInvites` (`AcceptanceIsWhole`): an acceptance validated before a revocation commits
  after it; `platform_invite/controller.py:60` says a revocation invalidates the token. The
  resend of an invite can be overtaken likewise, and two creations for one address leave two
  pending invites.
- `Addresses` (`BookInOrder`): two overlapping requests enable two pickup
  locations; `.cursor/rules/address.mdc:110` allows one. Two creations exceed the limit by one,
  and two deletions can leave no address.
- `OrderStock` (`UnracedStatusMoves`): a stale seller write can move an order out of CANCELLED.
- `Passwords`: the current password is verified on a row read before the write, so of two
  overlapping changes the second overwrites the first (`password_reset_token/service.py:149`).
- `Passwords` (`ChangeComesFirst`): `scripts/seed_super_admin.py:7` says of the status NEW that it "forces
  password change on first login". A change is forced, but nothing compares the new password with the
  current one (`password_reset_token/service.py:154`): a user who names the first password again is ACTIVE with it.
- `Membership` (`StoredSessionIsCurrent`): a PATCH that gives a membership to another user or business revokes no session
  (`business_user/service.py:62`), and one that also names a role revokes the new user's (line 71), so that the old member's session
  keeps its privileges; the property exempts these sessions.
- `Membership`: only the token stored last is revoked, and a token that a later login replaced
  stays good until it expires (`utility/revocation.py:44`); a change of owner does not revoke the
  old owner's token (`business/service.py:117`).
- `Listings` (`OptionSetsDistinct`): two overlapping creations give a listing two variants with
  the same options; `docs/POSTGRES_SCHEMA_PHASE_2.md:471` wants one option per type, which POST
  `/variant-configs` and PATCH `/variant-options` do not check; deleting a type leaves its
  options live and unusable for the comparison. The page of variants without a book counts
  those of listings that are not ACTIVE, while its rows leave them out. A detail lists at most 100 variants
  and announces the number of all (`business_book/service.py:287`, `181`).
- `BookCatalog` (`CommittedImageExists`): an update that fails after it removed the old cover,
  or two that change one cover, leave a book whose cover is gone; so does a form that sends back the address of
  a cover that was replaced meanwhile, which is stored as it is (`utility/aws/s3.py:104`).
- `Privileges`: `DELETE /privileges/{id}` leaves the grants of its code, so that creating the code
  again revives them, while deleting a module removes them; a role's deletion leaves its
  grants; a change of a platform set revokes no token; a switch to a business that read
  the role's codes before a removal commits can store them after it has revoked (`user/service.py:245`, the
  unconditional form of `TokensAreBacked`); creating the module ROLE_PRIVILEGE
  brings back UPDATE_ROLE_PRIVILEGE, a code the catalogue has retired.
- `OrderHistory`: a seller's list answers 500 (KeyError, `order/service.py:432`) when the last
  line of a listed order is deleted between its list and its sums, while the detail is served
  with zeros; the customer's total stays after a line is deleted and the seller's shrinks; a
  seller's walk misses an order when another lost its last line, also one that was placed after the walk
  began; the page count is taken
  before the list, so that a client which stops at the announced last page can miss the oldest
  order; a checkout sent again is answered by an unhandled IntegrityError rather than by its
  order; the catalogue shows the unrounded price (`variant/repository.py:18`), so that a client
  which sums it is told its cart is out of date for some quantities.

By reading: `utility/token.py:22` lives 24 hours where `.cursor/rules/auth.mdc:152` says 60
minutes; a variant without a currency gets "USD" (`variant/service.py:100`), which no
order accepts (`order/service.py:220`); the reset endpoints are documented as public
(`password_reset_token/controller.py:25`) but are not on the middleware's lists;
`PUT /users/{id}` stores a password unhashed, so that the next login fails.

## 6. Not modelled, and what is left

Left out: the reading and single-row changes of ratings and users' profiles, which decide
nothing about another row; the registration of platform users (the same transaction as the
acceptance of an invite); searches by text; presigned uploads and mail delivery themselves; the
tables of the address validation; application assembly; the upgrade and downgrade of the schema
(the tables and indexes the migrations create are in the models); scripts that one operator runs
by hand once (`seed_super_admin`, `upload_seeds`, `update_repository_callers`).

Left to prove: `ShownAsItIs` of `ShopPages`, for which `PageInv` would have to say of books, businesses and options what it says
of counts and lists; and `InstalledAsPromised` of `Privileges`, which needs an invariant like
`WholeInv` that does not presuppose `tidy`, but that nobody removed or renamed anything beside the request.
