# Verification of the financial wallet

The repository is an HTTP service in Go (Gin) that keeps accounts and a ledger of
statements for its users, in PostgreSQL (a writer and, optionally, a streaming
replica for reads) and Redis (cache, idempotency keys, rate limits). Every request
is served by a goroutine of its own, there may be several instances of the service,
and nothing in it is shared but the two databases. This directory holds TLA+ models
of its parts, the TLC configurations that check them and proofs checked by TLAPS.

    tlc -workers 2 -config MCLedger.cfg MCLedger        # one run
    tlapm LedgerProofs.tla                              # the proofs of one module

`PROJECT.json` lists the components, the runs, the mutants that show each property
can fail, the theorems, the hazards and, for every definition, the source lines it
models. Paths below are relative to `src/`.

## Inventory

### Parts, state, operations

| Part | State | Operations that change it | Module |
|---|---|---|---|
| Statement ledger (`usecases/statement`, `repository/statement.go`) | `statements`, `accounts.balance`, `accounts.active` | create, reverse, import (OFX); update and delete of the account | `Ledger`, `AtomicLedger`, `Money` |
| Accounts (`usecases/account`, `repository/account.go`) | `accounts` | create, update, delete (soft) | `Accounts`; update and delete also in `Ledger`, for `active` |
| Idempotency (`middleware/idempotency.go`, `pkg/idempotency`) | Redis entry per key: PROCESSING or COMPLETED | Lock, Complete, Unlock, expiry | `Idempotency` |
| Roles and permissions (`usecases/role`, `repository/role.go`, `middleware/permission_loader.go`, `authorization.go`) | `roles`, `role_permissions`, `user_roles`; cached permissions and roles per user | role create, delete, assign, revoke; cache fill, invalidation, expiry | `Permissions` |
| Categories, tags and statement metadata (`usecases/category`, `tag`, `statement/metadata.go`) | `categories`, `tags`, `statement_tags`, `statements.category_id` | create, update, delete; UpdateCategory, ReplaceTags | `Metadata` |
| Users, passwords, login (`usecases/user`, `auth`) | `users`, cached users, the singleflight group, tokens in the hands of clients | create, update, delete, set and change password, login, refresh | `Users` |
| Rate limit (`middleware/ratelimit.go`, `pkg/ratelimit`) | a counter with a TTL per client, method and route | INCR + PEXPIRE, expiry | `RateLimit`, composed with `Idempotency` |
| Authentication of requests (`middleware/service_key.go`, `jwt.go`) | none | none | the chain of `Idempotency` |
| OFX parser (`pkg/ofx`) | the decoder's stack while it runs | none | `Ofx`; its output is input of `Ledger` |
| Lists (`usecases/*/list.go`, the `List` of each repository) | none; the client's cursor or page number | none (reads) | `Lists` |
| Database cluster, cache client (`pkg/database`, `pkg/cache`) | connections | reader/writer choice; Get, Set, Delete | inside the modules that use them |
| Router, configuration, startup; logging, telemetry, health; migration command; generated API docs | configuration | none at run time | not modelled |

### How the parts interact

A request passes the middleware chain of `router.go`: idempotency, rate limit,
service key or JWT, permission check, handler, use case, repositories. The use cases
share nothing in memory (the exception is the singleflight group of the user reads);
they meet in the tables and in Redis:

* use cases look at an account, a role or an original statement through the
  **reader** and then write through the **writer**: every such check may be stale;
* statements and balances are written in one transaction that holds the lock of the
  account row; accounts, roles and users are written by single statements without a
  version, some of them from a copy read earlier;
* the unique indexes, foreign keys and CHECK constraints decide what the earlier
  checks could not;
* cached permissions and roles are filled after a read and deleted after a write,
  by different requests, and every Redis call may fail, which the code tolerates.

### What is hard

Interleavings of requests between check, lock, insert and commit; replica lag;
answers lost after a commit; errors and crashes in the middle; locks and entries that
expire under a request that still runs; cache fills that overtake invalidations;
int64 at its limits; pages cut from a table that changes; text that is repaired before it
is parsed. The full list, each item at its line with the properties that
cover it, is `hazards` in `PROJECT.json`.

### What makes each part correct

* **Ledger**: every statement carries the balance it left, and the balance is the sum of the
  statements whenever that fits an int64; a statement is reversed at most once and by its
  exact opposite; a FITID is imported at most once per account; a request posts all or nothing
  and its answer says which; the past never changes; an account that is gone takes no more
  postings; everybody is answered.
* **Accounts**: the limit fits the type; only postings change the balance, and it counts
  all that were committed; what is deleted stays so unless an update had read it before.
* **Idempotency**: one request of a key commits; a replay is the answer of the same
  key and body; a key is never blocked for good.
* **Permissions**: nobody is allowed what was never granted; grants refer to roles that exist;
  the assigns and revokes that changed a role add up, and who is told so did; stale entries
  disappear.
* **Categories, tags, metadata**: the category and the tags of a statement exist, are its
  owner's or defaults, and the category has its type; a tag set changes as a whole and
  stays within the cap; nobody changes the rows of another or the defaults.
* **Users**: answers tell what was written; a password is replaced only for a request made for
  it, and one that the request has not seen only in a race or behind a lagging replica (the
  code promises more: see below); only an update that raced the delete brings a user back; a
  get answers with a user that was committed; every token goes back to a login; the cache ends
  true; nobody waits for ever for another's read.
* **Rate limit**: a window never costs more than its limit; no login is tried uncounted.
* **OFX**: a file is read as the bank wrote it or refused; no field takes the value of
  another; amounts keep their cents and their sign, dates their instant.
* **Lists**: by cursor a client gets every row that was there throughout, once and in
  order; by number it misses none of a list that only grows; it sees nobody else's rows;
  a list by type has that type (which it has not: see below).

## Modules

### Money, Ledger, AtomicLedger

`Money` has the amounts: `Wrap` is two's complement arithmetic of width given by
`Half` (2^63 in Go, 4 in the runs so that overflow happens), `Apply` the new balance
of `statement.go:188-195`, `AbsCents` and `TypeOf` the mapping of an OFX amount, which
leaves the least integer negative, as Go does.

`Ledger` serves a set of `Requests`, each with an input drawn initially from `Inputs`
and a program counter. Its steps are the database calls of the code and what is done
between two of them, since only at those calls can other requests interfere:

| Step (`pc`) | Action | Code |
|---|---|---|
| `idle` | `Start` | binding in the handler |
| `account` | `FindAccount` | `FindByID` on the reader, ownership |
| `create` | `PrepareCreate` | the rest of `CreateUseCase` before the transaction |
| `original`, `hasReversal` | `FindOriginal`, `CheckReversal` | `ReverseUseCase`: reader, then writer |
| `parse`, `map` | `FindExternalIDs`, `MapTransaction`, `EndMapping` | `ImportUseCase` |
| `lock` | `LockAccount` | BEGIN, SELECT ... FOR UPDATE |
| `build` | `BuildRow`, `InsertRows` | `balance_after` of each row; INSERT under the unique indexes |
| `commit` | `Commit` | UPDATE of the balance and COMMIT, whose answer may be lost |
| `update` | `UpdateAccount` | `AccountRepository.Update`, which writes `active` of the copy |
| `delete` | `SoftDelete` | `AccountRepository.Delete` |
| any | `Fail` | a call fails, the client leaves or the process dies: ROLLBACK |

`ledger[a]` is the table of account `a` in commit order. The replica is the pair
`repLen`, `repActive` with the stream `wal` in front of it; `Replicate` applies one
commit. With `HasReplica = FALSE` reads go to the writer, as in `database.go:93-105`.
Ids are UUIDs drawn by the request, so `<<p, i>>` stands for the i-th id of request `p`.
Category and tags are left to the module `Metadata`: in `PrepareCreate` their checks may
refuse any request. Descriptions are left out, dates to `Ofx` and `Lists`.

`AtomicLedger` says what the ledger promises its readers: in one step a posting appends
rows to one account and moves its balance by them, in one step an account is closed, or
opened again by an update that had read it before (`Reopen`).
`Ledger` implements it under the identity mapping of the committed tables.

### Accounts

The accounts table itself: creates, updates that read the row on the reader, change the
copy and write `name`, `description`, `active` and `credit_limit` back, deletes, and
postings that lock the row and write the balance (one cent each; which amounts they
post is the business of `Ledger`). `name` stands for name and description. `statements`
are the postings that were committed: the answer to a COMMIT, as to any write, may be lost
(`Executed`), and then the request fails although its row is there.

### RateLimit, Idempotency

`RateLimit` has one counter per client and route: `window` is the set of what was counted in
it since its first request set the TTL, each INCR a ticket of the request and of the limiter
that counts it, `Allowed` the comparison with the request itself counted, `CloseWindow` the
end of the TTL. `admitted` is a history variable: the requests let through by a limiter that
counted them.

`Idempotency` extends it with the rest of the chain, in the order of `router.go:62-176`,
which the steps of a request follow:

| Step (`pc`) | Action | Code |
|---|---|---|
| `lock` | `Bypass`, `Lock`, `LockFails` | no key, SET NX EX, Redis fails |
| `get` | `Get`, `GetFails` | the entry of another request: 409, 422 or a replay |
| `limit` | `GlobalLimit`, `LimitFails` | the limiter of all routes, fail-open |
| `authLimit` | `AuthRouteLimit`, `LimitFails` | the limiter of `/auth`, fail-closed, same counter |
| `chain` | `Chain`, `AuthChain` | service key, token, `RequireIdempotencyKey`, handler |
| `finish` | `Finish`, `FinishFails` | Complete or Unlock |
| any | `Crash`, `Expire`, `WindowEnds` | the process dies; a TTL ends |

The handler is what it may answer: success with an effect, refusal, failure, and failure
after its commit. What goes wrong is enabled by the constant `Faults`. A key is the
sequence of the parts that the service name and the client's key are joined from, so that
two pairs may spell the same Redis key, as in `buildIdempotencyKey`. `lapsed` is a history
variable: the keys whose protection a fault has ended. The rate limiter is always on.

### Permissions

`log` is the history of committed states of the role tables, of which the replica has
applied the first `applied`; `cache` holds the two entries of each user. A check reads
each entry, on a miss loads it from the reader and stores it later; a revoke or assign
looks the role up on the reader, writes, and deletes the two entries one after the
other; a delete of a role does not. The INSERT or DELETE of a role may commit and its answer be
lost (`Executed`): the role is given or taken, the request fails, and the cache keeps what it
has. `changed` are the requests whose write took effect, answered or not.

### Metadata

`categories`, `tags`, `statements` (owner, type, category and the statement a reversal
refers to) and `links` (`statement_tags`) on the writer, the first three again on the
replica. Requests on categories and tags check, find on the reader and write
(`CheckCategory`, `FindCategory`, `CountStatements`, `InsertCategory`, `RenameCategory`,
`DeleteCategory`, and the same for tags). Requests on statements find the statement,
resolve category and tags on the reader (`ResolveCategory`, `ResolveTags`) and write in
one statement or transaction (`InsertStatement`, `UpdateCategory`), except `ReplaceTags`,
whose transaction takes four steps: the DELETE takes its snapshot (`BeginReplace`),
waits for the rows others are deleting and deletes what is left (`RemoveLinks`), the
INSERT waits for equal keys and meets the constraints (`InsertLinks`), COMMIT. A link
carries the request that inserted it, since a row that was deleted and inserted again is
a new row, which an earlier snapshot does not contain. The foreign keys make
`DeleteCategory` refuse and `DeleteTag` wait and cascade. Deadlocks that PostgreSQL
breaks are among the reasons of `Fail`, as is an account that `Ledger` would refuse. Names
are equal up to case, `Blank` is one that trims to nothing.

### Users

`log` is the history of the table `users`, of which the replica has applied the first
`applied` versions; `cache` the entry of each user, `tokens` what clients hold. A get
(`GetCached`, `JoinFlight`, `ReadUser`, `Deliver`, `StoreUser`) goes through the cache and
the singleflight group: the request that found no flight leads one, `awaits` names the
leader of the others, and a leader that fails takes them with it, since the read uses its
context. Update, delete and the two password operations find on the reader and write on
the writer by id; `WriteUser` writes name, email and active of its copy, `WritePassword`
the password of an active row. A write may commit and its answer be lost, and the cache
entry then stays. Login and refresh read or do not read the table and issue tokens that
carry the request behind them. A hash stands for the password it was made from.

### Lists

One client walks one of the six lists, page after page, while others commit up to
`MaxChanges` versions. `Matches` are the WHERE clauses, `KeysetOrders` and `LooseOrders`
the two kinds of ORDER BY, `AfterCursor` and `Offset` the two ways to go on. `Count` and
`Select...` are separate steps since they are separate statements of a READ COMMITTED
transaction, each with its own snapshot of the reader. What a client does with an answer
is external: it goes on until there is no cursor or no page left, and repeats a request
that failed.

### Ofx

`Parse` on one file: `Read` (size, header, `sgmlToXML`), the decoder token by token
(`StartElement`, `CharData`, `EndElement`, `EndOfInput`), then `MapTransaction` for each
transaction and `Return`. A file is a sequence of lines of tokens. `Lines` is what the
decoder is given of it, `line` and `col` where it is. With a file comes what the bank meant
by it, which no step reads: the transactions it `says`, and before each line the elements
that are open (`path`) and how many transactions have begun (`begun`). `Rendered` says how
the lines follow from that: an aggregate opens or closes on a line of its own; a leaf is a
tag, a value and an end tag on one line, in a transaction with or without the end tag, with
or without a value, or with the value on the next line; a leaf is named neither like an
aggregate it is in nor like one on the way to a transaction; there are no aggregates in a
transaction. All of these restrict the model to files with one element per line, as the
inline file of `pkg/ofx/parser_test.go` is written, and the version 1 layout it uses: a
file on a single line, which version 2 permits, or one with an aggregate in a transaction
(`CCACCTTO`) is not modelled. TLC evaluates `RenderedAssumption` on every file of the run.
`EndElement` is Go's decoder (external): strict for version 2, and for
version 1 lenient, where an end tag closes everything up to its match, or everything if it
has none. Amounts are sign, whole part and up to three decimals in units of the smaller
integers of the run. An amount with a third decimal goes through a float64, which is a
choice (`Rounded`) among the cents within `Loss` of it: half a cent, and one tenth more for
every `Precision` thousandths (2^51 in Go), as the float grows coarser. Dates are in half
hours.

## Runs

Properties marked (V) are violated, and the run shows how the code contradicts what
the repository says of it; the other runs pass.

| Run | Instance | Shows |
|---|---|---|
| `ledger` | 3 requests on 2 accounts of 2 owners, in the combinations of `Workloads`, replica, 3-bit integers, rejected inputs, files with repeated FITIDs | `TypeOK`, `BalanceChained`, `BalanceIsSum`, `ReversedOnce`, `ReversalMirrorsOriginal`, `ImportedOnce`, `AllOrNothing`, `NoPostingAfterDelete`, the refinement `ImplementsAtomicLedger`, `EveryRequestAnswered` |
| `accounts` | 3 requests out of 24 inputs, 2 seeded accounts and those created, replica | `TypeOK`, `LimitFitsType`, `BalanceIsPosted`, `DeleteIsFinal` |
| `idempotency` | up to 3 requests: a request, its retry and another body under the same Redis key; requests without key or token; logins with and without a key; limits of 2 and 3; all faults | `TypeOK`, `AtMostOnce`, `ReplayFaithful`, `WindowSpent`, `AuthCounted`, `KeyFreed` |
| `idempotency_limited` (V) | a request and its retry after another of the client, limit 1, no faults | `LimitedOnlyIfRefused`: a stored 429 is replayed |
| `permissions` | 3 requests out of 9 inputs, 2 users, 2 roles and those created, replica, failing cache | `TypeOK`, `AllowedWasGranted`, `AnswersAddUp`, `CacheConverges` |
| `users` | 3 requests around the cache, the passwords, the sessions or the emails of 2 users and those created, replica | `TypeOK`, `PasswordLostOnlyByRace`, `RevivedOnlyByRace`, `GetWasCommitted`, `SessionRooted`, `CacheConverges`, `FlightEnds` |
| `metadata` | 3 requests out of 31 inputs on a category, a tag and a statement of one user, defaults, a stranger, an admin, replica | `MetadataFits`, `OwnerOnly`, `TagsChangeWhole` |
| `metadata_cap` (V) | 2 replacements of the tags of one statement, `MaxTags = 1` | `TagCap`: both sets remain |
| `lists` | one reader, 26 queries on 6 lists, 2 commits in between, replica | `CursorWalkExact`, `QuietWalkExact`, `PageWalkKeeps`, `Scoped` |
| `lists_typed` (V) | the same | `TypeFilter`: a list by type has categories of another type |
| `ofx` | files of 2 transactions in both versions, cut after each line, with a line too long, one odd leaf in each place, 60 amounts, 16 dates | `ReadAsWritten`, `ValuesTrue` |
| `ofx_closed` (V) | version 1 files with one odd leaf | `LeavesClosed`: a closed or empty leaf loses what follows |

What the runs do not flag, but a reader of the code should know, since a property states
it as its exception:

* **two reversals** of one statement may both pass `HasReversal`; the unique index refuses
  the second, which is answered 500 and not 409 (`reverse.go:91`);
* an **update of an account or a user** that read its copy before a delete writes
  `active = true` back (`DeleteIsFinal`, `NoPostingAfterDelete`, `RevivedOnlyByRace`),
  although `docs/modules/account-credit-limit.md:310` says that the UPDATE touches the limit
  only; until a deletion is `Gone` (known to the reader and the stream, with no update that
  holds an older copy), requests may still post to the account;
* a **posting that overflows** int64 is answered 2xx and the balance wraps
  (`statement.go:190`); it is the sum again once the sum fits (`BalanceIsSum`);
* **setting a password** is for users who have none (`set_password.go:37`,
  `handler/password.go:34`), but two requests that race, or one behind a lagging replica,
  overwrite a password that is there; so do two changes that both knew the old one
  (`PasswordLostOnlyByRace`);
* **deleting a role** leaves the cached permissions of its users until the TTL
  (`AllowedWasGranted` asks for some committed state, of permissions and of roles each,
  `CacheConverges` for the end); so does a revoke whose answer is lost;
* a **commit whose answer is lost** skips the invalidation of the user cache (`Users`);
* each request to **`/auth` counts twice** in one counter, since both limiters build the
  same key: half of `RATE_LIMIT_AUTH_REQUESTS` get through, and a limit of 1 admits none;
* **COUNT and SELECT** of a page may see different states: READ COMMITTED gives each
  statement its own snapshot, which the comment at `repository/user.go:172-174` does not
  expect (`PageWalkKeeps`);
* a request that **outlives its lock**, or that Redis leaves unprotected, may commit a second
  time under one key (`AtMostOnce` ends there);
* a **refresh** does not look at the user: one that was deleted keeps the session
  (`SessionRooted` says only where a session comes from);
* an **OFX amount** at the greatest whole part may wrap (`AmountTrue`).

**Bounds.** Three requests are enough for a pair that races and a third that observes or
retries: an original and two reversals of it, a posting and two imports, a lock holder whose
lock expires and two retries. Two accounts and two users are needed only for requests that
name the wrong one or meet in one email. A file of two transactions is the least in which a
batch can be split, repeated or reordered. Three-bit integers (`Half = 4`) make balances
overflow after two postings. `Ofx` takes `Half = 1024`, so that amounts have cents and the
limit is near, and a `Precision` of 8 units, so that amounts lie on both sides of it. Requests
are finitely many, so streams and logs need no bound of their own. Symmetry over requests is
used in the runs without liveness properties only; elsewhere a workload stands for its
permutations. A reader of lists needs three rows of its own, two of one time, to have a tie on
the edge of a page, and two commits to have a change before and after it. A window may close
as often as it likes while a request may still be counted in it.

**Fairness.** In `Ledger` each started request is weakly fair: the Go scheduler runs every
goroutine and PostgreSQL grants a row lock that stays free; database calls return, or fail by
their context. Clients, failures and the replica are not fair. In `Idempotency`, `Permissions`
and `Users` requests that have come are weakly fair, and so is the expiry of a Redis TTL; in
`Permissions` and `Users` also the replica, without which stale reads never end. No arrival of
a request is ever assumed.

**Mutants.** Operators whose comment starts with "Faulty" are plausible bugs of the
definition that follows them; each is used, by `PROJECT.json`, to show that a property
fails when the code is wrong in that way, and by nothing else.

## Proofs

Each component has its theorems in a module of its own, which extends it: `LedgerProofs`,
`AccountsProofs`, `IdempotencyProofs` (with the rate limiter), `PermissionsProofs`,
`UsersProofs`, `MetadataProofs`, `ListsProofs`, `OfxProofs`. They hold for
every set of requests, users, rows, queries, files and inputs, for every width of integers,
with and without a replica, and assume only the named assumptions of the modules: what the
constants are, that ids and names do not coincide with `None`, that the seeds satisfy the
constraints of the schema, that files are `Rendered`. Every safety and action property that a
passing run checks is the statement of a theorem, but for `BalanceIsSum`.

| Module | Theorem | Statement |
|---|---|---|
| `LedgerProofs` | `TypeCorrect` | `[]TypeOK` |
| | `LedgerAppendOnly` | `AppendOnly`, which no run checks by itself: the refinement implies it |
| | `BalanceCorrect` | `[]BalanceChained` |
| | `ReversalsMirror` | `[]ReversalMirrorsOriginal` |
| | `ReversedAtMostOnce` | `[]ReversedOnce` |
| | `ImportedAtMostOnce` | `[]ImportedOnce` |
| | `LedgerRefines` | `ImplementsAtomicLedger` |
| | `PostingsWhole` | `[]AllOrNothing` |
| | `GoneTakesNothing` | `NoPostingAfterDelete` |
| `AccountsProofs` | `TypeCorrect`, `LimitsFit` | `[]TypeOK`, `[]LimitFitsType` |
| | `BalancesPosted` | `[]BalanceIsPosted` |
| | `DeletesFinal` | `DeleteIsFinal` |
| `IdempotencyProofs` | `TypeCorrect` | `[]TypeOK` |
| | `CommitsOnce`, `ReplaysFaithful` | `[]AtMostOnce`, `[]ReplayFaithful` |
| | `WindowsSpent`, `PasswordsCounted` | `[]WindowSpent`, `[]AuthCounted` |
| `PermissionsProofs` | `TypeCorrect`, `AllowedGranted`, `AnswersCounted` | `[]TypeOK`, `[]AllowedWasGranted`, `[]AnswersAddUp` |
| `UsersProofs` | `TypeCorrect` | `[]TypeOK` |
| | `PasswordsLostByRaces`, `RevivedByRaces` | `[]PasswordLostOnlyByRace`, `[]RevivedOnlyByRace` |
| | `GetsCommitted`, `SessionsRooted` | `[]GetWasCommitted`, `SessionRooted` |
| `MetadataProofs` | `StatementsFit` | `[]MetadataFits` |
| | `OwnersOnly`, `TagsWhole` | `OwnerOnly`, `TagsChangeWhole` |
| `ListsProofs` | `CursorWalkKept`, `PageWalkKept` | `[]CursorWalkExact`, `[]PageWalkKeeps` |
| | `QuietWalkKept`, `ScopeKept` | `[]QuietWalkExact`, `[]Scoped` |
| `OfxProofs` | `EveryFileReadAsWritten`, `ValuesKept` | `[]ReadAsWritten`, `[]ValuesTrue` |

None of these properties is inductive. What has to be added, and why:

* **Ledger**, in four layers, each inductive given the ones before it.
  1. `TypeInv`: types; a request is only at steps of its own operation (`StepsOfOp`,
     without which the fields of its input are unknown); the replica and its stream never
     run ahead of the writer (`ReplicaBehind`, without which a read of the replica may not
     be a row of the ledger).
  2. `BalanceInv`: an open transaction holds its row lock (`LockHeld`), so two open
     transactions are on different accounts; its rows continue the committed balance
     (`TxChained`), which therefore is still the balance when it commits.
  3. `OnceInv`: the rows of a transaction are the drafts of its use case
     (`RowsAreDrafts`); a drafted reversal mirrors a committed statement of its own
     account (`DraftsMirror`), and goes on doing so since the ledger only grows; an id
     tells the account it belongs to (`IdsOwned`), so reversals on different accounts
     refer to different statements. Therefore what the unique indexes accepted at the
     INSERT they still accept at the COMMIT (`UniqueAtCommit`): whatever committed in
     between was on another account.
  4. `WholeInv`: a use case drafts only after its checks, and an INSERT takes every draft
     (`DraftsInTime`), so that a COMMIT has a row for each; a request that was not
     answered has posted nothing (`NothingBeforeAnswer`), so that its rows are those of one
     COMMIT, and later ones only append.

  Once an account is `Gone` it stays so (`GoneStays`): to reopen it an update would have to
  hold a copy, and nobody finds an active row to copy any more. A request that starts then is
  **shut out** (`ShutOut`): it has no row in the account and cannot pass `FindByID` to it.
  The **refinement** then is a step simulation. A `Commit` with rows is a `Post` of the
  abstract ledger, whose guards (chained balances, mirrored and single reversals, fresh
  FITIDs) are `BalanceInv` and `OnceInv` in the next state; a commit without rows and
  every other step stutter, except `SoftDelete` of an open account, which is `Close`, and
  `UpdateAccount` of a closed one, which is `Reopen`.
* **Accounts**: whatever version of a row is on the writer, in the stream or on the replica
  has the owner and the type of the account (`Versions`), since no statement writes them;
  hence a limit that fitted the type of a stale copy fits the row. A posting under way holds
  the row lock (`Stages`), which keeps the count of `statements` and the balance together,
  whether or not the answer to the COMMIT arrives. A deletion is final by the same invariant:
  an update that could write `active = true` would have to hold a copy, and finds no active
  row to copy.
* **Idempotency**: while an entry is PROCESSING and no fault has ended its protection,
  exactly its owner is past the lock (`Exclusive`, `Held`); a COMPLETED entry holds the
  answer and the fingerprint of a request of that key that answered so (`Faithful`);
  whoever is past the limiter of `/auth` has been counted (`AuthAdmitted`).
  For the **window**, a ticket belongs to a request that is past its limiter and to the
  window of its route (`TicketsInTime`), and who is admitted has passed the last of its
  limiters (`AdmittedLast`). So the tickets of the admitted (`NotOverspent`) grow by an
  admission only, and then all of the window, the new ticket included, is within the limit:
  that the first limiter of `/auth` counts what the second may still refuse does no harm.
* **Permissions**: the tables keep their foreign key and their names in every version of
  the history; every list a request carries and every cache entry was the list of its user
  in some version (`CacheWas`, `Stages`). The cache needs no more than that: it may be
  arbitrarily stale, but nothing can be put into it that never was.
* **Users**: a copy is the row of the version it was read from (`CopyOf`), also for those
  who wait for another's read; whoever wrote a version does not touch its copy any more
  (`WritersDone`), so that the reason for a change can still be read off when the history
  has grown (`Changes`). A password that is not the one a version shows has been written
  since (`LastWritten`), so that who overwrites one it has not seen was raced.
* **Metadata**: every state the reader can show agrees with the writer on owners and types
  of the rows that still exist, and shows no row whose request is not done (`Past`).
  Therefore what was resolved on the reader is right on the writer or gone there
  (`CategoryResolved`, `TagsResolved`, `OwnCategory`, `OwnTag`), and a foreign key refuses
  what is gone. Defaults are nobody's and stay (`Defaults`), which the category of a
  reversal relies on. A row of `statement_tags` is inserted by a request that is done then
  (`Done`), so that no row a replacement has seen comes back while it runs (`Replaces`).
* **Lists**, on what a page is (`IsCut`: the rows of an order of the list after the offset)
  and that the table keeps the rows of statements and accounts and their times (`LogInv`).
  1. `WalkInv`: a page lists rows of the version it was selected in and has the total of the
     version it was counted in; the versions of the pages never go back (`PageOK`,
     `CountOK`). `Scoped` follows from it.
  2. `CursorInv`, by cursor: no row the client has comes after the cursor, and every row
     that stayed in the list and that it does not have comes after it. This survives a
     change of the table because rows keep their times, and a next page because everything
     of the list between the cursor and the next cursor is on it.
  3. `KeepInv`, by number: a row the client does not have yet has at least as many rows
     before it as there are on the pages so far. An insert can only increase that number
     (`AheadGrows`), and the row on position k of the order has k - 1 before it (`AheadOf`),
     so that the next page has the row or leaves it even further behind. The last page is
     the last by its total (`LastNumber`), which is where the COUNT and the SELECT have to
     see one version.
  4. `QuietInv`, by number in one version: the rows the client has are those with fewer rows
     before them than there are on the pages so far. So the next page comes after them
     (`AheadOrders`), and at the end there is nothing left.
* **Ofx**, `ReadAsWritten`, by following the decoder with what the bank meant, line by line
  (`Ready`). The difficulty is that a file of version 1 may leave leaves open, so that what
  the decoder has open is not what the bank means.
  1. `StackInv`: the decoder has open what the bank means to be open, and below it only
     leaves, of other names (`Nested`); outside a transaction there are none. So the end tag
     of an aggregate, which in lenient mode closes all up to its match, brings both together
     again (`NestedCloses`), and the surplus end tag of a closed leaf closes a namesake left
     open or everything (`NestedPopsAgain`). That there is a last match is the one place
     that needs an induction: over naturals, by the least counterexample (`Least`,
     `Greatest`).
  2. `RawInv`: as many transactions are read as the bank has begun, and a field has the
     bank's value or none. `FreshInv` is what makes it inductive: where a value may come, it
     is of the leaf that has just opened, and what was read for it has been dropped.
  3. `PlainInv`, for plain files: no leaf is left open, and every leaf before the decoder,
     and that of its own line once the value is read, has its value (`KeptInv`). So when
     the root closes everything has been read (`AllRead`), and the end of the input comes
     only if the file was cut (`StepEndOfInput`).
  4. `AnswerInv` carries it from there to the answer.

  `ValuesTrue`: a mapped transaction is what `mapTransaction` makes of the decoded one, which
  does not change after the decoder is done (`MapInv`); the rest is arithmetic, for any
  `Half` and `Precision`: what `Wrap`, the padding of the cents, the two signs and the
  rounding within `Loss` do to an amount within the guard (`ParsedAmountTrue`), and the
  truncation of a zone to hours to a date (`ParsedDateTrue`).

Only model-checked: `BalanceIsSum`, since it sums a ledger by recursion, of which nothing can
be proved without an induction over data; and everything under fairness
(`EveryRequestAnswered`, `KeyFreed`, `CacheConverges`, `FlightEnds`), which the prover does
not reach. The runs that are violated state what does not hold.

## Not modelled

* **JSON, and text below tokens.** Binding of bodies and queries is modelled by what it
  accepts. `Ofx` starts from tokens: it has the order and nesting of tags, the end of a line
  and of the file, but no spelling of entities or attributes.
* **Cryptography**: password hashes, token signatures and their expiry beyond live or not.
* **PostgreSQL's limit of 65535 parameters** per statement: a large import fails as any
  statement may (`Fail`).
* **Configurations that switch a part off**: the rate limiter is always on, Redis is always
  configured (its calls may fail).
* **Pools, startup and shutdown; logs, metrics, traces, health checks; the migration
  command; the generated API documentation.** They keep no state the rest depends on.

Isolation is READ COMMITTED as the code uses it: single statements are atomic and row
locks last until the end of the transaction.

## What is left

1. A composition of `Idempotency` with the postings of `Ledger`: a posting retried under one
   key moves the balance once. Each half is proved by itself (`CommitsOnce`,
   `LedgerRefines`).
2. The liveness properties have no proof: see above why.
3. Aggregates in a transaction of an OFX file.
4. The configurations listed under "Not modelled": no Redis, no rate limiter.
