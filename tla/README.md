# A TLA+ model of isolatedenv

isolatedenv is a web application template: a FastAPI backend over PostgreSQL and
Redis, the external identity provider Authentik (OIDC), a Next.js frontend that
keeps the session in cookies, Celery for background work. Most of its requests
are short; what is hard in them is that several requests, each in its own
database transaction, share rows, cached pages, Authentik groups and refresh
tokens, and that three of the four stores are not covered by the transaction.

This directory holds TLA+ modules translated from that code, TLC configurations
that check them on small instances, and proofs for any number of requests,
users and keys. Paths below are relative to `src/`.

    tlc -config ItemCache.cfg MCItemCache.tla
    tlapm ItemCacheProofs.tla

## The system

| Component | State it keeps | Operations | Talks to |
|---|---|---|---|
| Item cache, `backend/app/core/cache.py`, `core/redis.py` | Redis keys: pages with a TTL, locks with a TTL of 10 s | `cached`, `invalidate` | Redis; called by the items service |
| Items feature, `backend/app/feature_example/` | table `items` | list (cached), get, create, update, delete | cache, PostgreSQL |
| Request transaction and user resolution, `core/dependencies.py`, `core/auth.py`, `core/database.py` | one session per request | `get_db`, `get_current_db_user` (claims, userinfo, link, upsert, role sync, blocked check), `require_role` | PostgreSQL, Authentik userinfo |
| User administration, `users/admin_router.py`, `service.py`, `repository.py`, `router.py` | table `users` | change role, block, unblock, delete, reset password, delete self, list | PostgreSQL, Authentik's admin API, audit |
| Audit trail, `audit/` | table `audit_log` | record, list | the session of the operation it records |
| Frontend session, `frontend/src/lib/auth-server.ts`, `proxy.ts` | cookies; one refresh promise per process; discovered server metadata | `getSession`, refresh, set and clear cookies | Authentik's token endpoint |
| Login and logout, `frontend/src/app/api/auth/` | state and verifier cookies | authorize, callback, logout | Authentik |
| Admin panel, `frontend/src/hooks/use-admin-users.ts`, `components/admin/` | the query cache of a tab; page, search box and dialogs | list in pages; optimistic role change, block, delete; password reset; rollback; refetch | backend, through server actions |
| Audit log page, `components/admin/audit-log-*.tsx`, `hooks/use-audit-log.ts` | text, debounce timer, filter, offset; queries | filter, search, page | backend, through server actions |
| Dashboard, `components/dashboard/`, `app-*.tsx`, `app/**/page.tsx`, `hooks/use-smoke-test.ts` | queries of the overview, results of the smoke test | page gates, menu, overview, logout, smoke test | proxy, backend |
| Server actions, `frontend/src/app/actions/`, `lib/api-client.ts` | none | call with the session's token, 10 s time-out, clear cookies on 401 | backend |
| Listings, `users/service.py`, `audit/service.py` and their repositories | none; offset or cursor is in the client | offset and keyset pages with their counts | PostgreSQL |
| Background tasks, `core/celery_app.py`, `tasks/` | Redis broker | stub tasks, retries, daily beat | Redis |
| Seed, `scripts/seed.py`, `backend/entrypoint.sh` | Authentik and PostgreSQL contents | create groups, users, provider; migrate | both |
| Filters, `core/middleware.py`, `csrf.py`, `rate_limit.py` | rate-limit counters (library) | per-request checks | - |

What makes each correct, and what is hard about it:

- **Item cache.** A page is computed for the cache by one request as long as no lock
  is lost under one; what is stored was committed and current when it was read; a
  request is answered whatever Redis does; staleness ends. Hard: the writer invalidates
  *before* its transaction commits, Redis calls fail half-way and their failures are
  swallowed, a command may be executed although its reply was lost, or later still,
  locks expire under their holders, processes die between SET NX and DEL.
- **User resolution and administration.** An effect on a row and its audit entry
  are committed together; a role sync based on a row read earlier overwrites
  nothing else; the database does not show a role Authentik has not granted; lock
  waits end. Hard: read-modify-write over READ COMMITTED, the exception of a
  refusal rolling back the sync of the same request, Authentik calls that no
  rollback undoes, an exception swallowed after a failed flush, tokens that are
  still valid after the account was changed or deleted.
- **Frontend session.** A refresh token is used once; the cookies end up those of
  the latest refresh; one user's session is never answered to another. Hard: the
  promise that deduplicates refreshes is one per process, not per session, and any
  failure clears the cookies.
- **Login.** A callback is accepted only with the state its browser holds. Hard:
  one pair of cookies for all tabs.
- **Admin panel.** Once all changes are settled, the list shows what the server
  has. Hard: overlapping optimistic updates whose snapshots hold each other's
  values, refetches cancelled and restarted, answers lost after 10 s, and a backend
  that commits after it has answered.
- **Audit log page.** What is typed is searched for, and the user is never shown a
  page past the end. Hard: a delayed search that arrives after the user has turned
  the page, cached pages of a log that grows, a page and its count read by two
  SELECTs.
- **Dashboard.** The smoke test removes what it made and says the truth; the
  overview does not stay a skeleton. Hard: answers before commits, a session that
  expires or is revoked half-way, pages left while calls are under way.
- **Keyset listings.** A scan returns each row that stays exactly once. Hard: inserts
  and deletes between pages, ties in the ordering.
- **Seed, tasks.** A second run of a step that was done changes nothing. Hard:
  partial runs, redelivery.

`PROJECT.json` lists the hazards of this code line by line (`hazards`), with the
properties that watch over each, or the planned module.

## Modules

| Module | Models |
|---|---|
| `PageRegister` | the abstract cache: each page is empty or holds a committed version, may be emptied at any time, and is filled only with versions that were current when they were fetched and are still on their way |
| `ItemCache` | `cached` and `invalidate` over Redis, with the list request and the three writers of the items feature around them |
| `MCItemCache` | `ItemCache` with the symmetry sets for TLC |
| `ItemCacheProofs` | theorems about `ItemCache` |
| `AccountRegister` | the abstract accounts: rows that change only by commits, each a sign-in of one account and one operation on one account, with its audit entry |
| `UserAdmin` | authenticated requests over accounts: resolution, role sync, gates, admin operations, audit, over PostgreSQL and Authentik |
| `MCUserAdmin` | `UserAdmin` with the symmetry sets for TLC |
| `UserAdminProofs` | theorems about `UserAdmin` |
| `UserAdminRefinement` | that `UserAdmin` implements `AccountRegister` |
| `Session` | the frontend's login session: cookies of several browsers, `getSession` and its shared refresh, discovery, login, logout, server actions, Authentik's token endpoint |
| `MCSession` | `Session` with the symmetry sets for TLC |
| `SessionProofs` | theorems about `Session` |
| `AdminPanel` | the user administration page of one tab: pages of the list, search, dialogs, optimistic changes, the query cache, and a backend that commits late |
| `MCAdminPanel` | `AdminPanel` with the symmetry of its roles |
| `AdminPanelProofs` | theorems about `AdminPanel` |
| `AuditLog` | the audit log page of one tab: delayed search, filter, pager, its queries and the two SELECTs behind each |
| `MCAuditLog` | `AuditLog` with a set of entries |
| `AuditLogProofs` | theorems about `AuditLog` |
| `Dashboard` | one tab of the dashboard: page gates, menu, the overview's queries, logout, the smoke test and its items |
| `DashboardProofs` | theorems about `Dashboard` |

Definitions whose names end in `_Something` (`TryLock_NoNX`) are plausible bugs:
each replaces the definition before the underscore, or, for `NoExpiry`, an expiry
action, and makes one property fail. They are not part of any specification.

### ItemCache

A *reader* is a call of `list_items`. Its place `rpc` is the await it is at: `get`
(cache.py:25), `setnx` (35), `fetch` (41, the SELECT of the repository), `store`
(43), `unlock` (49), `wait` (54-61), `direct` (66). A *writer* is a create, update
or delete: `Flush` is the service call up to `invalidate`, then the keys are
scanned one at a time, unlinked in batches, and the transaction of `get_db` is
committed last, because the exit code of a `yield` dependency runs after the
handler has returned (FastAPI runs it after the response is sent).

A page's contents are abstracted to the number of commits it reflects, `version`.
`cache[k]` is the version stored under a page or `Empty`; `lock[k]` says whether
`lock:k` is set; the code stores the constant `"1"` in it, so a lock has no owner.
One owner's pages are modelled: `items:{owner}:*` matches no other owner's keys and no
lock.

Every Redis call has a variant that raises. If the command may have run and its
reply been lost, that is an outcome too: `TryLockFails` may leave a lock set that
nobody holds. redis.py:13 sends a command that timed out once more, and of the two
copies one may be executed much later: `late` is the set of such copies (SET NX and DEL
of a lock, SET of a page), which any of these calls may leave behind, and which
`LateRuns` executes or `LateLost` drops at any time. A late UNLINK is an expiry.
`ReaderCrash` is the death of a worker, which leaves the lock behind; `Rollback` is the
death of a writer or a failed COMMIT. `ExpireKey` and `ExpireLock` are the TTLs. No time
is modelled: a lock (10 s) may expire while its winner still fetches, for which the
database gives it 30.

`outlived[k]` is a history variable: a lock of the page was lost, by its TTL or
somebody's DEL, while a request that had won it went on. It is `FALSE` again when no
winner of the page is left. `Observe`, a conjunct of `Next`, keeps it.

### UserAdmin

A *request* goes from `Begin` (token accepted, claims known) through `Lookup`
(SELECT by provider_id), `SyncRole` or `Upsert` (flushed at once), `Gate`, `Refuse`
or `Target` (403s, the guards and the read of the target), the steps of its operation, and
`Commit`. Its record in `req` holds what it has read: `me` is its own row, `tgt`
the target's row as it was read, `groups` the claims.

PostgreSQL is `row` (committed versions), `own` (row locks) and `draft` (the
version the lock's holder has written). A write takes the lock, works on the
*latest committed* version and changes the columns SQLAlchemy saw change:
`sync_from_jwt` changes `role` only. A row that is gone raises StaleDataError on
UPDATE and a warning on DELETE. Every exception (`Abort`) rolls back; a lock wait
ends with the statement timeout or the deadlock detector (`AbortWait`).

Authentik is `akExists` and `akGroups`, with the claims in the account's current
token in `tok`; `AkRemove`, `AkAdd`, `AkDelete` take effect at once and survive a
rollback, and may take effect although their reply is lost. With `BareTokens`
the access token has no claims and `/userinfo` is asked, which may not answer.
`logged` is the audit entry the latest step committed: who did what to which row. `granted`, the groups an
account was ever in, is a history variable. Role and group names are
one-to-one (`ROLE_TO_GROUP`) and are not told apart.

The order of the steps is the code's: `change_role` changes the groups before it
checks for self-change; delete removes the row, records, and then deletes the
account in Authentik; delete-self deletes the account before recording.

`AccountRegister` is what remains when locks, reads, refusals and Authentik are
hidden: `row` and `logged`, and a `Commit` that knows neither how old the token was
nor what the request has read. An operation may find nothing to do, and an entry may
be about a row that is gone, since a DELETE that finds no row is only a warning.

Left out: names and e-mails (with the linking by e-mail), `role_changed_*`
columns, listings, expired tokens (401, no effect), the connection pool.

### Session

A *request* is sent with the cookies the browser has then (`sent`, restricted to
those its handler reads) and ends when the response is applied to the cookies the
browser has by then (`Receive`), or is not taken (`LoseReply`): responses arrive
in any order. In between its place `pc` is the await it is at: `server`,
`discovering` and `joined` are `getAuthServer` (auth-server.ts:35-65), `token` is the
call of the token endpoint (135-149, 164-172), `await` is the wait for another
request's refresh (298), `settle` the code after the call. Node runs the code
between two awaits in one piece, so it is one step.

`known`, `discovery` and `refreshing` are the module variables `_as` (with its age),
`_asRefreshPromise` and `_refreshSessionPromise` of each server process; a promise
is named by the request whose call it is. `Restart` loses them.

A *grant* is one answer of the token endpoint: an access token that ages from
fresh over late (less than the 30 s of getSession left) to expired, and perhaps a
refresh token. Authentik is external: a refresh token is used up when its
successor is issued, a code is good for one exchange, either call may fail, and its
answer may be lost after it took effect. An *attempt* is a state with its
verifier; `asked` is the browser it was redirected from, `signer` the user who
signed in there. The link back may be opened in any browser.

`AskAction` is a server action that passes the proxy; `HandleAction` clears the
cookies on a 401 and for a blocked account, as `withAuth` does. The redirect of the
proxy, the login button and the refresh page all end in `AskAuthorize`.

`Readable` says whether access tokens carry `sub`, `email` and `exp`: if not,
`decodeJwtPayload` throws and a successful refresh ends by clearing the cookies.
A refresh token is issued or not, since the scope requested by authorize/route.ts
(`openid email profile groups`) does not ask for one. Left out: the id_token, which
goes with the session cookie; an `error` parameter of the callback, which
changes nothing; Authentik's own session.

### AdminPanel

A user is the number of his place in the listing. `db` is the users table; `late`
holds the changes that the backend has answered, or whose answer was lost, and
that are not committed: `get_db` leaves its transaction after the response. An
answered one still holds its row's lock (`Locked`).

The tab: `offset` is the state of `AdminUsersClient`, `search` that of `UsersTable`,
`dialog` and `secret` those of `UserRowActions` and `ResetPasswordDialog`. A row's
state goes when the row leaves the screen, and the callbacks of its mutations are
not called any more (`heard`); `Render` does both after every change of what is
shown.

`entry[o]` is the query of one page: its data, whether it is out of date, whether
its last fetch failed, and the state a cancelled fetch goes back to. `Fetch`,
`Cancelled`, `SetData` and `Invalidate` are the operations of TanStack Query 5 that
use-admin-users.ts calls; the library is external. `OnMutate`, `Succeed` and `Restore` are
`onMutate`, `onSuccess` and `onError`, the last two with the `onSettled` that follows.
`queue` holds the server actions of the tab: Next.js sends them one at a time and in order, so
`Answer` takes the oldest. Cancelling a fetch does not take its call back: it keeps its turn,
nobody waits for its answer (`Unheard`), and the answer is thrown away (`Discarded`). A change is `Accepted`, or `Refused`, which includes a
call that is broken off after 10 s (api-client.ts:47) although it is carried out,
then or later. `PageAt` is the service's listing; its two SELECTs are one step
here and two in `AuditLog`. `seen` and `landed` record which late commits a page
has in it and serve the properties only.

Left out: sorting and check boxes, which change neither rows nor calls; other tabs'
changes; authentication, which is in `Dashboard` and `UserAdmin`.

### AuditLog

`typed`, `timer` and `shown` are the states of `AuditLogClient`: the text, the 300 ms
timer of its effect, and filter, debounced search and offset, which are the key
of the query on screen. Entries are never changed or removed, so a page is the
number of its rows and its total, and the log is the sequence of its entries, of
each of which only what it matches is known.
`Select` and `Count` are the two SELECTs of `list_entries`, each of which sees what
is committed when it runs; `Record` may come in between. `Show` is `useQuery` with
another key: data that is there may be fresh or out of date. `Collect` is the
garbage collection of queries off screen, `Fail` a failed call and its one retry.

### Dashboard

`token` is the session cookie as proxy and backend see it, `standing` the account
as the backend holds it; both may change at any time (`LoseToken`,
`ChangeStanding`). `Served` is where a request for a page ends: the proxy's check,
then the gate of the page. `Push` is a link of the menu, which keeps what the tab
remembers, `Visit` and `Revalidate` load the page anew, which forgets it (`Load`).
`query` and `queue` are the overview's queries and the server actions of the tab;
`Enabled` are those for administrators only. `withAuth` clears the cookies on a 401 and for a
blocked account.

A *run* is one click on the smoke test. `Goes` is the order of the steps of
`runTests`, `created` its `createdId`, `tally` what the summary will say. Its item is
`pending` from the answer of the creation to its commit, `deleting` from the answer
of the deletion to its commit, `back` if that commit fails. `left`, a history
variable, is what has kept a run from deleting its item. A step that is answered
before the previous one is committed may find no item. Error messages of
server actions reach the browser in development builds only, which
`Readable` says; in production (`FALSE`) every error is worth one retry.

`Dashboard` takes from `Session` that a session request either renews the token
or clears it (`CheckAuth`), and from `UserAdmin` what the gates answer (`Verdict`).

## Runs

| Run | Instance | Shows |
|---|---|---|
| `cache` | 2 readers, 2 writers, 1 page, 2 commits, 2 polls, 1 late command at a time | `TypeOK`, `OneWinnerUnlessOutlived`, `VersionsOrdered`, `EveryReadAnswered`, `EventuallyFresh`, and that the cache implements `PageRegister` (`ImplementsRegister`) |
| `cache_stampede` | 2 readers, 1 writer, 1 page, no late command | a violation of `OneWinner`: see the findings |
| `admin_activity` | 2 admins, 2 requests; me, block, delete, delete self | `TypeOK`, `DraftsAreCurrent`, `EffectsAudited`, `ImplementsAccounts` |
| `admin_roles` | 1 admin, 1 free user, 2 requests; role change, delete | `RoleGranted`, `ImplementsAccounts` |
| `admin_progress` | 1 admin by group and 1 by e-mail, 2 requests; me, reset, block, unblock; tokens without claims | `EveryRequestEnds`, `EffectsAudited` |
| `admin_audit_failure` | 1 admin, 1 request | a violation of `AuditNeverBlocks`: see the findings |
| `session_own` | 2 browsers, 2 users, 1 process, 2 requests, 2 attempts, 3 grants; nothing fails but the token endpoint | `JarIsOwn` |
| `session_progress` | 1 browser, 1 process, 2 requests, 1 attempt, 2 grants; every request and every fault | `TypeOK`, `SingleFlight`, `EveryRequestAnswered` |
| `session_shared_refresh` | as `session_own`, 2 grants | a violation of `WaitersShareUser`: see the findings |
| `panel` | 2 users on 2 pages of 1, 2 roles, a search that hides all and one that hides none, 2 changes | `TypeOK`, `SettledIsDatabase`, `NeverLeftStale` |
| `audit_log` | 1 action to filter by, 1 text, pages of 1, at most 2 entries, 3 queries in the cache | `TypeOK`, `NeverPastTheEnd`, `TotalCoversRows`, `SearchApplied`, `FirstPageSettles` |
| `dashboard` | a free, an admin and a blocked account, 1 query for admins, 1 smoke test, 1 fault, masked errors | `TypeOK`, `NoOrphan`, `PassedMeansDone`, `EveryRunEnds`, `CardsAppear` |

The properties:

- `OneWinnerUnlessOutlived`: two requests compute the same page for the cache only in a
  chain of overlapping ones that began when one of them lost its lock, by the TTL or
  by a DEL of somebody else.
- `VersionsOrdered`: a page never holds a version that is not committed, and what
  a winner is about to store is no older than what its page holds, unless a lock of
  the page was lost under somebody.
- `ImplementsRegister`: the refinement; all locks, scans and failures hidden. The
  versions `carried` to a page are those its winners have fetched and those in late SETs.
- `EveryReadAnswered`: a request that loses the lock polls a bounded number of
  times and answers from the database.
- `EventuallyFresh`: when the writes have stopped, each page is for ever either
  empty or current. (A page *is* stale for a while: it can be refilled with the
  old version between UNLINK and COMMIT, and only the TTL repairs that: the property
  says that nothing outlasts the TTL, and would hold without `invalidate`.)
- `DraftsAreCurrent`: an uncommitted version of a row differs from the committed
  one only in what its own transaction means to change: the activity by a block or
  unblock of that id, the row by a delete of that id, the role to the one assigned or,
  on the request's own row, to the one it was admitted with. (That one may be old: the
  token of a request outlives a change of its role.)
- `EffectsAudited`: a commit that changes a row's activity or removes a row
  carries the audit entry for exactly that row.
- `ImplementsAccounts`: the refinement. A commit changes the row of the account that
  made the request, by a sign-in, and the row its entry names, by what the entry
  says; nobody has an entry for blocking, deleting or giving a role to himself.
  The guards for this compare ids that were read at different times, one of them
  after Authentik has been called.
- `RoleGranted`: a stored role above free was once granted by Authentik, or comes
  from `ADMIN_EMAIL`.
- `EveryRequestEnds`: deadlocks on row locks are broken.
- `SingleFlight`: each process has at most one refresh and one discovery under
  way, its promises are set exactly while they are, and whoever waits has
  something to wait for.
- `JarIsOwn`: however logins, refreshes and their responses overlap, a browser's
  tokens are of a user who signed in in that browser. (The shared promise gives
  its *answer* to others, see the findings, but its cookies only to the browser
  whose request started it. The run leaves out logout and restarts, which the theorem
  `CookiesAreOwn` covers.)
- `EveryRequestAnswered`: no promise is awaited that nobody resolves.
- `SettledIsDatabase`: when no change is pending, a page that counts as up to date
  is the database's, whatever overlapped, failed or was broken off. (Excepted are
  pages read before a change that was committed after its answer: those
  stay wrong until the next refetch, and the code can do nothing about it.)
- `NeverLeftStale`: nor does the page on screen stay out of date with nobody
  fetching it, unless the fetch has failed.
- `NeverPastTheEnd`: a delayed search, a filter or the pager never leave the user on
  an empty page without a pager.
- `TotalCoversRows`: entries added between the two SELECTs do not make a page come
  with a total that is too small for it.
- `SearchApplied`, `FirstPageSettles`: the delayed search is applied in the end; a
  fetch does not stay under way for ever, whatever is asked for meanwhile.
- `NoOrphan`: a run that ended leaves its item behind for a named cause only, and the
  summary then says that something failed. The causes: the creation was carried out
  but not answered, so that `createdId` is not known; the cleanup was not answered, was
  refused with the token (401), or came before the creation was committed (404). A
  deletion whose commit fails after its answer is the one that nobody is told of.
- `PassedMeansDone`: a summary of "passed" is about an item that was stored, found
  and deleted.
- `EveryRunEnds`: a run ends unless the page is loaded anew under it.
- `CardsAppear`: the overview's cards do not stay skeletons.

**Why the bounds are enough.** Two readers are a winner and a loser, and with
crashes and restarts each plays both parts again and again. Two writers overlap
their scans and commits. One page is enough, since pages share no key and no lock:
another page is another instance, and a batch that is not unlinked is the page that
stays (the theorems have any number of pages). No write starts at version `MaxVersion`,
but two that have started before both commit: a stale, a newer and a newest version.
Polls only delay; two show that the loop repeats. `MaxLate` is the number of
commands on their way at a time, of which there may be one after the other. In `UserAdmin` two
requests and two users are enough for a stale read, a lock wait and a deadlock;
`MaxId` bounds how often a row is deleted and recreated, and two incarnations of
a row are what an operation aimed at an old id needs. In `Session` two requests
are a refresh and one that awaits it, or whose cookies it outruns; three grants
are a login in each browser and one refresh, two are a login and its refresh; the
processes share nothing but the tokens, of which a second process's refresh looks
like one whose answer was lost. `Ops` and `Faults` name what an instance
exercises, so that the large dimensions are explored one at a time.
In `AdminPanel` two changes are two that overlap, of one row or of two, with the
snapshot of each in the other's time; two pages are one on screen and one off it, and
deleting a user moves another from the second page to the first. In `AuditLog` an entry
that everything matches and one that nothing but the empty query matches give full,
partial and empty pages for every filter; two entries are two pages; `MaxQueries` is
more than the query on screen and the one before it. In `Dashboard` one fault is a
lost answer, an expiry, a refusal, a block, a promotion or a failed commit at any
place, and the runs of the smoke test share nothing but the token. No constraint and no
view is used, and deadlock is checked in every run.

**Symmetry** is used in safety runs only, and only over values the constants
treat alike: users are symmetric in `admin_activity` and the session runs, where
all of them have the same role, and not in the others. The roles of `AdminPanel` are
interchangeable, since nothing in the page depends on which it is.

**Fairness.** `ItemCache!Fairness` is weak fairness of each reader's and writer's
steps (the event loop resumes every awaiting coroutine; every Redis call has a
timeout of 5 s and every statement one of 30 s) and of the expiry of each key
(Redis); no lock need ever expire, since nobody waits for it. `UserAdmin!Fairness` is weak fairness of each request's steps, a lock
wait being ended by `AbortWait` if nothing else does. `Session!FairSpec` is weak
fairness of each request's steps: Node resumes every handler, and `fetch` has
timeouts of its own. `AuditLog!FairSpec` is weak fairness of the debounce timer and
of the answers, `Dashboard!FairSpec` of the answers and of the two fetches a run makes
itself: every call of the API client is answered or broken off after 10 s
(api-client.ts:47), and a browser ends every fetch. Nothing the user does is
fair; in `CardsAppear` he is assumed to stop reloading, which is in the formula. None assumes that
a request arrives, that Redis or Authentik recovers, or that a call
succeeds: the failing variants satisfy the fairness too.

## Findings

1. `admin_audit_failure`: a failing audit INSERT is swallowed
   (audit/service.py:41), but its flush has rolled back the shared transaction: the
   operation is answered with success and lost. "Never blocks the main operation."
2. `session_shared_refresh`: the refresh promise belongs to the process, not to a
   refresh token (auth-server.ts:298). A request with one user's cookies that
   arrives during another user's refresh is answered with that one's session; the
   comment speaks of "parallel SSR renders sharing the same refresh token".

3. `cache_stampede`: the lock of a page lives 10 s (cache.py:35) and the fetch it
   protects may take 30 (database.py:22). When it expires a second request computes the
   page too, and the unconditional DEL (cache.py:49) of the first removes the second's
   lock. cache.py:1 and :22 speak of "stampede protection". What does hold is
   `OneWinnerUnlessOutlived`.

Each is a run that checks the sentence of the documentation and finds it violated.

### Observed

What the models also show, or what came up while they were written; no run
claims it.

- A SET of a page that timed out may be executed after a later UNLINK, and puts the old
  version back until its TTL (redis.py:13).
- An item whose creation is committed after the smoke test's cleanup has been answered
  404 stays for good (use-smoke-test.ts:126-135); the summary says that steps failed.
- An unexpired token writes the role it carries back over the one an administrator has
  just set (dependencies.py:106).
- An admin who changes his own role is refused after his Authentik groups have
  been changed (admin_router.py:284 comes before users/service.py:42).
- The 403 of `require_role` rolls back the role synced in the same request, so an
  account that only calls endpoints it may not call keeps its old role in the database.
- The token of an account that was deleted is good until it expires, and a request
  with it creates the row again.
- Deleting the last user of the last page leaves the panel on that page, without a
  pager to leave it by (users-table.tsx:217, admin-users-client.tsx:22).
- A list that could not be fetched is shown as "No users found."
- The temporary password of a reset is lost if its row leaves the screen before the
  answer.
- "Refresh session & retry" only calls `reset()` (error.tsx:20-29): no session is
  refreshed and the server's answer is not asked for again.

## Proofs

Every theorem holds for all values of the constants that satisfy the module's
named assumption: any number of requests, browsers, users, pages, queries and
runs, finite or not unless they are numbered, and any bounds. `CountsAssumption`,
`UsersAssumption`, `SessionAssumption`, `PanelAssumption`, `AuditLogAssumption` and
`DashboardAssumption` say only that counts are naturals and flags Booleans, and what
the names of users, roles and operations are, and that `None` is neither of these nor a
page. Nothing else is assumed.

| Module | Theorem | States |
|---|---|---|
| `ItemCacheProofs` | `TypeCorrect` | `Spec => []TypeOK` |
| | `StampedeProtection` | `Spec => []OneWinnerUnlessOutlived` |
| | `OnlyNewerVersionsStored` | `Spec => []VersionsOrdered` |
| | `CacheRefinesRegister` | `Spec => ImplementsRegister` |
| `SessionProofs` | `SessionTypeCorrect` | `Spec => []TypeOK` |
| | `OneRefreshAtATime` | `Spec => []SingleFlight` |
| | `CookiesAreOwn` | `Spec => []JarIsOwn` |
| `UserAdminProofs` | `UserAdminTypeCorrect` | `Spec => []TypeOK` |
| | `TransactionsWriteTheirOwn` | `Spec => []DraftsAreCurrent` |
| | `EffectsAreAudited` | `Spec => EffectsAudited`, an action property |
| | `RolesAreGranted` | `Spec => []RoleGranted` |
| `UserAdminRefinement` | `AccountsRefineRegister` | `Spec => ImplementsAccounts` |
| `AdminPanelProofs` | `PanelTypeCorrect` | `Spec => []TypeOK` |
| | `PanelIsRefreshed` | `Spec => []NeverLeftStale` |
| | `PanelShowsDatabase` | `Spec => []SettledIsDatabase` |
| `AuditLogProofs` | `AuditLogTypeCorrect` | `Spec => []TypeOK` |
| | `TotalsCoverRows` | `Spec => []TotalCoversRows` |
| | `NoPagePastTheEnd` | `Spec => []NeverPastTheEnd` |
| `DashboardProofs` | `DashboardTypeCorrect` | `Spec => []TypeOK` |
| | `RunsLeaveNoItem` | `Spec => []NoOrphan` |
| | `SummaryIsTrue` | `Spec => []PassedMeansDone` |

In each module a lemma for each helper says what it does to a record or to the
queue, field by field; the actions are then opened only as far as these lemmas,
and there is one step for each action.

**ItemCache.** `OneWinnerUnlessOutlived` is not inductive, because nothing in it prevents
a second request from winning a lock that somebody else has deleted. `LockHeld` adds that
the lock of a winner is set or has been outlived; `LockInv`, these two and `TypeOK`, is
inductive: only `TryLock` makes a winner and it needs a free lock, and whatever frees a
lock under a winner is noticed by `Observe` (`ObserveWatches` says what it keeps).
`VersionsOrdered` needs one more: a late SET may fill a page as well, and `LateOrdered`
says that its version is committed. What a winner has fetched is
no older than the page as long as it is the only winner: a fetch reads the newest
version, and later only it stores, or a late SET whose version is no newer than the
fetch unless the lock was lost. The refinement follows step by step: `Fetch` and a late
SET's copy put a version on its way, `Store` and `LateRuns` fill, `UnlinkBatch` and
`ExpireKey` evict, `Commit` commits, losing a copy or a failed store drops, everything
else stutters.

**Session.** `TypeOK` needs `Placed`: a request under way has a browser and a process,
and one that calls the token endpoint has something to present there.
`SingleFlight` is inductive with these: a promise is set in the step in which its
request starts to call, and cleared in the one in which it stops. `JarIsOwn` is
not, since cookies come out of responses, and responses out of cookies that were sent
earlier. `OwnInv` follows them all the way: what a jar, a request's cookies or a
grant on its way to a jar holds is of a user who signed in at an attempt that was
redirected from that browser (`JarsOwn`, `RequestsOwn`), and until its response is
taken an attempt belongs to the one request that asked for it (`AttemptsFresh`). Who
signed in where is never forgotten (`Learns`), and what a request loses, be it by
a restart or a failure, it only loses (`Fewer`).

**UserAdmin.** `DraftsAreCurrent` speaks of a row and its draft; that nobody else has
changed either since is due to the lock. `TransactionInv` says that a lock belongs to
a request in a transaction that stands, that a draft without a lock is the row,
and that one with a lock differs from it in what the holder `Means` to do and still
has to log (`Drafts`); and that a request about to answer has its entry, or its
transaction is lost (`EntryAt`). `EffectsAudited` then follows from the only step that
changes rows, the commit. For `RoleGranted`, `RolesInv` says of every place a role
can be in, rows, drafts, what a request has read or is about to write, groups,
tokens and claims, that it is `Deserved`; `granted` only grows.

**UserAdmin implements AccountRegister.** Only a commit is a step of the register, and
the register sees it as one sign-in followed by one operation. `RegisterInv` says why
that is so long before. Each draft is already a row after the sign-in of the
request's account and, past the write, after its operation (`Written`). No request
holds an id that is newer than that of the row it would find now, and a request about its
own account has read its row after its client named it (`AgesAt`): so if the id it
names is still that of a row when the guards compare it, it is the one in `me`, and the
comparison of ids cannot miss that target and administrator are the same account.
Past the guards an administrator is therefore about somebody else, resets his password,
or is on his way to the guard of `change_role` (`AimAt`). The proof has one lemma
for each kind of step (`StepKinds`), and one that the other requests do not notice
it (`OthersMine`).

**AdminPanel.** Two clauses of `TypeOK` are not about types at all, and carry the
proof. `OneFetch` (in `CacheOK`): at most one call for a page is waited for, and
one is exactly while the page's query says that it is being fetched; a fetch that
replaces another, or a change that cancels all, has to take the old call out of it.
`Numbered`: every change submitted is pending, late, or one of those that landed, and
only one of the three, so that no more changes land than were submitted. The operators of the query cache
map a pair of queries and calls to another; for each a lemma says that
`CacheOK` is preserved, and each action is a chain of them ended by `Render`. A
total may even fall below zero, but not by more than was submitted, which
is why pages are typed by the number of changes (`PageUpTo`).
`NeverLeftStale` and `SettledIsDatabase` only speak of quiet states, and rest on what
a step can do about them (`StepKinds`): it leaves a change pending; or the last
pending change has just been answered, and the page on screen is being fetched
and no page counts as up to date (`Renewed`); or there was none before, and the step
takes a fresh page from the database or touches no data at all (`Onward`); or a
late change lands (`Lands`). `SettledIsDatabase` is not inductive, since it says nothing
of a page that has seen less than what landed: `SettledInv` adds that no page has seen more.

**AuditLog.** Both properties speak of pages a query holds; they hold because of the
calls on their way and because the log only grows (`MatchingGrows`). `LogInv`: a query
that is shown, kept or asked for with an offset above 0 lies within the log
(`WithinLog`); the rows read by the first SELECT are there when the second counts
(`Holds`); a page's total counts its rows and is not more than what there is
(`Counted`). The pager may then go on only to an offset below a total, which is
within the log.

**Dashboard.** The type invariant holds that each query is answered by at most one call
that is listened to (`Listened`), and that a run has exactly one call under way while
it waits, the one of its step (`Stepping`): an answer moves a run once. Then
`Cleaned` and `Truthful` are inductive: a run has no item before it creates one; it goes
to the cleanup only while it knows of its item, and with a failure in its tally; an item
that it does not know of, or that is there when it has ended, is `Accounted` for by a
cause; and the tally stays "passed" past the deletion only if the item was deleted.

Model-checked only are the liveness properties `EveryReadAnswered`,
`EventuallyFresh`, `EveryRequestEnds`, `EveryRequestAnswered`, `SearchApplied`,
`FirstPageSettles`, `EveryRunEnds` and `CardsAppear`: the prover handles neither
fairness nor ENABLED. Every safety property a passing run checks is a theorem.

Nothing is proved by induction over data, which the prover cannot do, and no model
needs it: a queue loses calls only at its head and gains them only at its end, and
counts are cardinalities, of which the proofs need that a subset has no more members,
that one more member is one more, and that a set of at most one has at most one.

## Not modelled, and why

- JWT signature and claim validation, CSRF, security headers, rate limits: checks
  of one request without shared state (the limits' counters are a library's).
- Migrations: linear, run by one process; their constraints are in the models.
- The content endpoints: they read nothing and are called by no page.
- The keyset listings (`/admin/users/v2`): no client uses them; planned.
- The settings pages (profile, password, connection test), the landing page and the
  theme: forms of one request, without state that outlives it.
- Linking of accounts by e-mail, the connection pool, seed and tasks: see the plan.
- More than one smoke test at a time (`Runs = {1}`): a second one may run when the
  user leaves the overview and comes back. `Dashboard` has them; the instance does not.
- Two tabs of the admin panel: the second one's changes are other administrators'
  to the first, and its list is refetched only when it is out of date.

## Plan

In this order, most important first:

1. **AdminPanel over AccountRegister**: the panel's backend (`db`, `late`) shown to be
   an account register whose commits come after the answers.
2. **KeysetPagination**: cursor scans under concurrent inserts and deletes; every
   row that stays is returned once. The boundary of `limit + 1`.
3. **AccountLinking**: linking by e-mail, empty e-mails and the unique index,
   accounts deleted in one store and not in the other.
4. **Seed**: re-runs after partial failures. **TaskQueue** and the connection pool.
