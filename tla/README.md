# A verification of the manga server

TLA+ models of the Go server in `src/`, checked with TLC on small instances, and
theorems about them proved with TLAPS for every value of the constants. Paths below
are relative to `src/`. `PROJECT.json` is the index: components, runs, mutants,
findings, hazards, theorems, and for each modelled definition the lines it stands for.

Contents: 1 the system, 2 plan, 3 conventions of the models, 4 the modules, 5 the
runs, 6 the proofs, 7 where code and comments disagree, 8 what is not modelled.

## 1. The system

A Go process behind a Cloudflare Worker serves a catalog of media (sources, media
entries, chapters, pages) and is its own OpenID provider. It keeps nothing in memory
across requests but its configuration and signing key. All state is in four services it reaches over
HTTP: **D1** (SQL), **KV** (values with a lifetime), **R2** (objects) and
**queues** (at-least-once, with leases). No code path opens a SQL transaction: a
handler is a series of single statements. Several instances may run, and an
instance may be stopped between any two calls. So every hard behaviour here is of
one kind: what happens between a read and the write that relied on it.

| Component | State | Operations | Talks to | Must hold |
|---|---|---|---|---|
| Refresh tokens (`internal/oidc/storage.go`) | `oidc_refresh_token`; access tokens in KV | grant, redeem (claim, grace window, reuse), revoke, log out | D1, KV | one live end per login; duplicates get one answer; a logout sticks; what is superseded stays so |
| Accounts, invites (`oidc/user_admin.go`, `register.go`, `user.go`) | `admin_user`, `user_invite` | register, create, update, delete, seed at boot; mint, revoke, expire invites | D1 | unique addresses; nobody approves himself; an invite admits one; the directory is not emptied |
| Pages and cleanup (`service/media_service.go`, `repository/d1`, `internal/cleanup`) | `chapter`, `page`, R2 objects, a queue | register pages; delete a page, chapters, a media entry; delete objects in the background | D1, queue, R2 | no live page loses its object; no object outlives its row for ever; nothing is acknowledged before it is done |
| Pull loop (`repository/queue/client.go`, loops of `cleanup`, `covermirror`) | messages and leases | send, pull, ack / retry | queue | redelivery is harmless |
| Authorization requests, login, consent, passkeys (`oidc/login.go`, `consent.go`, `webauthn*.go`) | requests, codes, ceremonies in KV; `oidc_user_consent`, `webauthn_credential` | authorize, log in, approve, exchange the code | KV, D1 | tokens that name a user are for somebody who logged in on that request, with approved scopes and the right method; one code, one grant |
| Connections (`service/connection_*.go`) | `connection`, OAuth states in KV | create, authorize, callback, refresh, search, update, delete | D1, KV, other providers | a connection's tokens were granted for it; its refresh token is one the provider accepts; deleted stays deleted |
| Cover mirror (`internal/covermirror`) | covers of media entries, their copies, a queue | set a cover, mirror it, delete with the entry | queue, R2, D1 | a cover that names its copy finds it; the cover set last wins; nothing is left behind |
| Catalog (`service/media_service.go`, `taxonomy_service.go`, `source_service.go`, `subtype_service.go`) | media, join tables, tags, sources, sub-types | create, update with re-linking, rename, delete | D1 | an entry shows the names it was given; its source exists; its sub-type is of its type |
| Signing key, clients, tokens, middleware (`oidc/storage.go`, `seed.go`, `dcr.go`, `middleware.go`, `server/router.go`) | `oidc_signing_key`, `oidc_client`, registration tokens in KV | boot, seed; register, read, update, delete a client; mint and check an access token | D1, KV | every instance verifies what another signed; a write needs a write scope; a client is stored once |
| Browsing (`handler/media_handler.go`, `repository/d1/media_repo.go`) | none of its own | popular, latest, search, recommendations, delta sync | D1 | a walk over rows at rest is exact; a sync loses nothing it cannot ask for again |
| Pure functions (`handler/video_handler.go`, `service/*.go`) | - | byte ranges, neighbours, pages, registrations, prefixes to sweep, headers, lifetimes | - | results in bounds, and what was asked for |
| Ads, wiring, documentation, migrations | one row each, or none | CRUD | D1 | - |

How they meet. The login and consent part produces a code; its exchange calls
`CreateAccessAndRefreshTokens`, where the rotation part begins. Deleting an account
does not touch the tokens of its user. Deleting a chapter hands keys to the cleanup
queue, and only that message remembers them: if `Send` fails, `enqueueCleanup`
ignores it. Creating or editing a media entry hands its cover to the mirror, which
writes the entry later. The two queue consumers are the same loop. A boot loads or creates
the key and seeds the clients before it serves; what the middleware then believes is the token alone.

Hard to test, and therefore what the properties are about (`hazards` in
`PROJECT.json` lists each at its line): two requests between the same read and
write; a crash or failed call between two statements; an answer lost after its
write; a message delivered again while its first holder still works on it; a
snapshot written back over somebody's change; a deletion that has read and not yet
deleted while pages are being registered; rows that move while a client pages through them.

## 2. Plan

Done, in the order of importance:

1. `RefreshRotation` with its abstract specification `SessionLedger` - the one
   part of the code with a concurrency protocol of its own. Runs for safety,
   liveness and a comment's claim; proof of every property and of the refinement.
2. `Accounts` - check-then-act over two tables. One safety run, proof.
3. `PullConsumer` and `PageCleanup`, which extends it - deletions, the queue and
   the worker together. A safety and a liveness run, proof of the safety properties and of
   the end of a scheduled job.

4. `AuthFlow` - request and code records in KV as read-modify-write values, from
   `/authorize` to the tokens. One safety run, proof.

5. `Connections` - authorize, callback, refresh, search, edit and delete against a provider
   that rotates refresh tokens (external). A safety run, proof.
6. `CoverMirror`, extending `PullConsumer` - jobs racing edits and deletions of their entry.
   A safety run, proof.
7. `Catalog` - entries, links, tags, sources and sub-types. A safety run, proof.
8. `Access` - boots, clients and the scopes of routes. A safety run, proof.
9. `Answers` and `Browse`, which extends it - the pure functions, and readers that page
   through feeds while entries are written. A safety run with comparisons, proof of the
   readers' properties and of what the functions return.

Next: `Identity`, composing `Accounts`, `AuthFlow` and `RefreshRotation` - what is left of a
login, and what a passkey still opens, when its account is deleted or loses its
verification (the code looks at the account only when somebody logs in).

## 3. Conventions of the models

**Grain.** One action is one call to D1, KV, R2 or the queue together with the
in-memory code up to the next call. A request, or an instance that boots, is a
process with a program counter `pc[p]` named after the call it is about to make, and
its local variables. Between any two actions every other process may run. Reads that
decide a branch (`Lookup`, `Read`, `CheckEmail`, `Count`, `ReadPages`) are actions
of their own, so what they saw may be stale when the write happens.

**Statements.** A D1 statement is atomic, with its `WHERE`, its `UNIQUE` or primary
key and its `RETURNING`. A guard in the statement is a guard in the action; a guard in
Go code in front of it is one in an earlier action. A read of KV is taken to answer with the last write; Cloudflare's KV
promises that only after a while, so a stale answer of KV itself is not in the models (a stale snapshot in a handler is).

**Faults.** `Fail(p)` is a call that fails or a process that dies there: the
request ends, or, where the code ignores the error, goes on. `InsertLost` (Accounts) is an
INSERT that applies and whose answer is lost; in RefreshRotation `Return` may lose the response to
the client, and an INSERT whose answer is lost behaves for the client like one that
succeeded and whose response was lost. In AuthFlow a write whose answer is lost is that
write followed by `Fail`; only a code exchange ends with its write, hence `LoseAnswer`. `Crash(w)` is an instance that stops in
the middle of a batch, or whose `Ack` call fails. `MaxFaults` bounds them all.

**Uuids** are drawn by `\E` over those not seen yet.

**History variables** are written and never read by a guard. They let a property
speak about the past or delimit what the code does not protect: `answers`, `gone`,
`dead`, `sess` (RefreshRotation; `sess` is read only to give each grant a login of its own); `born`,
`via`, `approved`, `minted`, `contested`, `raced` (Accounts; `born` and `minted` also keep an id
from being drawn twice); `created`, `doubled`, `unseen`, `dropped` (PageCleanup); `drawn`, `proved`,
`agreed`, `early`, `grants`, `twice`, `contested` (AuthFlow; `drawn` keeps codes apart, and `grants` also
says which users hold tokens); `made`, `revoked`, `wasted` (Connections); `made`, `wanted`, `shown`, `mixed`, `late`,
`unnamed` (CoverMirror; `shown` also says which entries a client can send back a presigned URL for);
`want`, `blurred`, `touched`, `stray`, `known` (Catalog); `overlapped`, `known` (Access); `missed`,
`excused` and the fields `got`, `total`, `changed` of a walk (Browse). `made` and the `used` and
`drawn` sets also keep ids from being drawn twice.

**Bounds.** `MaxTime`, `MaxFaults`, `MaxRequests`, `MaxBoots`, `MaxClock`, `MaxWrites`, `MaxWalks` are
conjuncts of guards (`MaxBefore` keeps readers other than the synchronising app from opening a feed after
that many walks and writes have begun, since they are independent), and the sets of
tokens, ids and messages bound what can be created. The proofs hold for every value.

**Mutants.** A definition next to another one and named after it (`ClaimUnguarded`,
`FailGoesOn`, `MiddlewareUnlisted`...) is that definition with a plausible bug. It is
used nowhere in a specification: `PROJECT.json` pairs each property with the mutant
that TLC finds it violated under, which shows that the property depends on the code.

## 4. The modules

**`RefreshRotation`** (`internal/oidc/storage.go`, migration 0008). The rows of one
user at one client, since no statement touches those of two. `BeginGrant`, `Mint`,
`Insert` are `CreateAccessAndRefreshTokens` without a current token; `Lookup` is
`TokenRequestByRefreshToken`; `Read`, `Expire`, `Claim`, `Reread`,
`MintForSuccessor`, `Mint`, `Insert`, `BurnSuccessor`, `BurnSelf` are
`rotateRefreshToken` with `claimRotation`, `mintForSuccessor` and
`revokeRefreshChain` (`Insert` is the end of `createRefreshToken` and of the won rotation alike); `Return` is the response; `RevokeToken` and `TerminateSession`
are the handlers of those names. `rows`, `sup`, `supAt`, `exp` are the table. The
uuid of line 565 is drawn in `Begin` rather than in `Claim`: nothing reads it before. The clock `now` counts ticks;
`Grace` and `TTL` are the two constants of the code.

**`SessionLedger`** is what that protocol promises: a login has one current token;
`Exchange` replaces a live one by one nobody has seen; `Persist` makes only the current token
redeemable, once; `Drop` is final. `RefreshRotation` implements it with `current` the
unique unsuperseded token of a login, `spent` the issued tokens, `live` the rows.

**`Accounts`** (`register.go`, `user_admin.go`, `user.go`, `login.go`, migration 0002).
`BeginX` is the handler up to its first decisive query, then one action per
statement. `BeginUpdate` draws the requested fields, an omitted `email_verified`
taking the value loaded, which is what makes a stale write-back possible.
`InviteExpires` is the clock.

**`PullConsumer`** (`repository/queue/client.go`, loops of `cleanup.go` and `covermirror.go`). Messages,
leases, and a loop that pulls a batch, processes each message and settles all of
them in one call. `Settle` lets the queue honour or ignore an acknowledgement under an
expired lease, as the service does not say. Backoff delays only postpone a delivery
and are left out.

**`PageCleanup`** extends it. Requests register pages (`Clear`, one `Insert` per
page), delete chapters (`ReadPages`, `DropPages`, `DropChapter`, per chapter), one page
(`BeginDeletePage`, `DropPage`) or a media entry (`Collect`, `DropMediaPages`,
`DropMediaChapters`, `DropMedia`), then `SendPlain` and `SendPrefix`. A worker's `Begin`, `List`,
`DeleteObjects`, `ProcessFails` are `process` of `cleanup.go`. A key in `Bundle` stands for a
video bundle: `splitHLSPrefixes` sends its prefix, and the worker lists before it
deletes. `ForeignKeys` is a parameter: the schema declares `ON DELETE CASCADE`,
`migrations/0006` and the comment at `media_repo.go:405` say D1 does not enforce it, and
the code deletes children explicitly; both worlds are checked and proved about.

**`AuthFlow`** (`login.go`, `consent.go`, `webauthn*.go`, the first third of `storage.go`). A
request is a record that every handler reads whole and writes whole (`kv`, `stored`), so an
old field comes back with any late write. `SetRead`, `SetWrite` are `setAuthRequestUser`,
`FinRead`, `FinWrite` `finishAuthRequestAMR`, `MergeRead`, `MergeWrite` `saveConsent`, `ExRead`
`AuthRequestByID` inside `AuthRequestByCode`. `BeginPassword` and `BeginPasskey` start the two
logins, which share the calls `SetRead` to `CheckScopes`; `BeginConsent` to `FinWrite` is the approved card. Nothing
in the code ties the posting of a card to a login or to a card that was shown, so `BeginConsent` is enabled for every request
that was made, and one whose record names nobody is finished without a subject; `early` records such requests. Showing the
login page or a card changes nothing and is no action. `RefuseNobody` is an exchange that needs an id token and is refused because
no user has the subject (`setUserinfo`); an exchange that needs none delivers tokens that name nobody.
`BeginCallback`, `Exchange` and `Deliver` are steps of zitadel/oidc, modelled from what `storage.go`
offers it: a code only for a request that is `Done`, then read, make tokens,
`DeleteAuthRequest`, answer. `proved` records who showed what for which request, `agreed` who may have
approved a card: the consent form does not name a user, so it counts for all who had logged in on that
request (`Posted`). Accounts start with or without a passkey. `Authorize` takes the subject of an
`id_token_hint`, which only a user who once got tokens has. Each request has a non-empty set
of scopes, as `missingScopes` of none is empty and no card would ever be shown.

**`Connections`** (`connection_service.go`, `connection_search.go`, `state_store.go`, `connection_repo.go`). `Authorize`
builds the URL and stores the state; `BeginCallback` reads it, `DropState` deletes it, then `Load`,
`Exchange` and `Save` follow `HandleCallback`. `Load`, `Refresh`, `Save` are `Refresh`, and the retry of a search
whose `Get` was answered 401. `Load` and `Write` are `Update`, which writes back all it loaded. `Create`, `Delete`,
`StateExpires` are single calls. The provider (`Approve`, `Issue`, `AccessExpires`, `Withdraw`) is external:
codes and refresh tokens work once; an answer to a refresh may hold no new refresh token. Secrets are stored encrypted, which
the model leaves out, as decrypting gives back what was encrypted.

**`CoverMirror`** extends `PullConsumer` (`media_service.go` as far as covers go, `covermirror.go`). Requests: `Create` or
`BeginUpdate`, `Write`, `Enqueue`; `BeginDelete`, `DeleteRow`, `EnqueueCleanup`; `Sweep` is the cleanup of a copy. A worker:
`Begin`, `Fetch` (or it finds no picture and acknowledges), `Put`, `SetMediaCover`. `Kept` is `UpdateMedia`'s
comparison of the cover submitted with the presigned URL of the cover stored.

**`Catalog`** (`media_service.go`, `taxonomy_service.go`, `source_service.go`, `subtype_service.go` over their
repositories). One action per statement: `Validate`, `InsertRow` or `UpdateRow`, and then for each taxonomy `ClearLinks` and for
each name `AddTag` (INSERT OR IGNORE), `ReadTag`, `Link`. `Unlink`, `Drop` delete an entry; `Rename`, `DropTagLinks`, `DropTag`
are an admin's; `Count`, `DropSource` delete a source; `PutSub`, `Retype`, `DropSub` the vocabulary. Both enforced and
unenforced foreign keys are in the model, as in `PageCleanup`.

**`Access`** (`storage.go`, `seed.go`, `dcr.go`, `router.go`, `middleware.go`). `Boot`, `LoadKey` or `GenerateKey`, `SaveKey`, then
for each seeded client `SeedLookup`, `SeedInsert`, then `Serve` and at any time `Crash`. `Register`, `RegistrationToken`;
`BeginManage` authorizes and reads the row, `Update` and `Delete` write. `BeginCode`, `Exchange` stand for a login of `AuthFlow`;
`ClientCredentials` is the grant without a user. `GroupScope` is the router's table and `MiddlewareTaxonomyWrite` the
middleware that finds the scope in the path.

**`Answers`** has the functions of a request that keep no state: ranges and streams, uploads of a bundle, pages and
neighbours, what a registration refuses or stores, `SplitHLSPrefixes` with `ListKeys` and `Swept` (what a deletion takes),
pagination headers, a provider's search results, ads, lifetimes in KV.

**`Browse`** extends it. Writers take the second and then send their statement (`Send`, `Commit`), so that stamps may land late. A
walk repeats one request page by page: `FetchPopular`, `FetchLatest`, `FetchSearch`, `FetchRecommended` answer any page SQL may
answer (`Paged`), and `Receive` goes on while the header says so. `Synchronise` is the app's delta sync, which asks for what is newer than
the newest `updatedAt` it has seen (`mark`). `PassedOver` is what a statement that lands late puts behind a synchronisation: the
rows between the old and the new place of its row move up, perhaps into a page already read.

**`MC*`** add only the symmetry sets and, for `Browse`, the sample requests and the references that the functions of
`Answers` are compared with (named ASSUMEs). **`*Proofs`** hold the theorems.

## 5. The runs

| Run | Instance | Shows |
|---|---|---|
| `rotation_safety` | 4 tokens, 2 logins, 2 requests, grace 0, TTL 1, 3 instants, 1 fault | logins never fork (`OneTip`); every redemption of a token gets the same successor (`SameAnswer`); a logout with no insert pending is final; without a fault a redemption that loses a race is not refused; refinement of the ledger |
| `rotation_liveness` | 3 tokens, 1 login, 2 requests, 1 fault, fair | every begun request is answered; a token handed to the loser of a race gets its row unless a call failed |
| `accounts` | 2 ids, 2 addresses, 1 invite, 2 processes, 1 fault | who can log in was approved; an invite makes one account unless two requests redeemed it at once or its `UPDATE` was lost; only overlapping deletions empty the directory |
| `page_cleanup` | 2 chapters, an object and a bundle, pages of index 0, 2 requests at a time and 3 in all, 2 loops, 2 messages, batches of 2, 1 fault, no foreign keys | pages of existing chapters keep their objects; what a deletion removed is scheduled or gone; an acknowledged message is done |
| `page_cleanup_live` | 1 chapter with two indices, foreign keys enforced, batches of 1, 2 requests, 1 fault, fair | with the cascade and chapters of several pages, what is scheduled is deleted in the end |
| `authflow` | 2 authorization requests, 2 users, 1 scope, 1 code, 2 handlers at a time and 5 HTTP requests in all, 1 fault, expiry at any time | a finished request and its tokens name somebody who logged in on it, or nobody, and that only after a card was posted while it named nobody; scopes were approved; "webauthn" is said only where a passkey was shown; a second exchange needs an overlap |
| `connections` | 2 connections, 2 applications at the provider, 2 authorizations, 3 token pairs, 2 requests at a time and 3 in all, 1 fault | a connection's tokens were granted for it (the verifier kept with the state tells codes apart); its refresh token is live, on its way out, withdrawn, or lost by a fault |
| `covers` | 1 entry, 3 external covers of which 2 are pictures, 2 messages, 2 loops, batches of 2, 2 requests at a time and 3 in all, 1 fault | a cover that names the copy finds it; the copy shows what was last asked for unless edits or jobs overlap; an entry deleted in peace leaves nothing |
| `catalog` | 2 entries, 2 names, 2 tags of a taxonomy with slugs, a source, a sub-type, 2 types, 2 requests at a time and 3 in all, 1 fault, no foreign keys | entries show the names they were given; sources and sub-types stand, but for the overlaps of each |
| `access` | 2 instances, 3 keys, a seeded client and another, 3 boots, 2 requests at a time and 3 in all, 1 fault | tokens verify on every instance unless boots crossed or a call failed; writes need a write scope, a taxonomy's its own; a client is stored once |
| `browse` | 3 entries, 2 writers, 3 seconds, 2 writes, 2 walks, pages of 1 to 3; every kind of feed over rows at rest | a walk is exact; what a synchronisation misses it can still ask for, and it misses nothing newer than its mark over rows at rest, but for five cases (below); ASSUMEs compare ranges, playlists, uploads, credits, registrations and sweeps with references |
| `rotation_reuse_chain` | 4 tokens, 1 login | a claim of a comment that the code does not meet (section 7) |

**Why the bounds are enough for the interesting cases.** Two requests meet at every pair
of calls. Four tokens make a chain of two rotations with a rival uuid, or two logins.
Grace 0 with three instants has redemptions inside and after the window, and rows that
expire in between. One fault at any call separates every pair of writes; the
effect of two failures is that of one later than the other, and the proofs have no bound. Two loops and two messages
give overlapping leases, redelivery and batches that are half done. Three requests allow
a registration, a deletion and a second registration or deletion, which is what re-uses a key.
`AuthFlow` needs five HTTP requests to log in, approve and exchange, or to remember a consent for one
request and use it on the next; several scopes and codes add nothing to who overlaps whom, as
all scopes of a request are asked, approved and merged together, and one code redeemed twice is the
interesting case. `Connections` needs three requests for a callback and two refreshes, or an edit, that cross it. `CoverMirror`
needs a creation and two edits, or an edit and a deletion, with a job of each cover. A page size of 2 with three entries
has a full page, a last page of one, and a row that moves over the edge between them; a second
walk continues from the mark of the first. A taxonomy behaves the same whichever of the three it is, except for the slug, so one with slugs is taken.
Deadlock is checked in the runs of `RefreshRotation`, `Accounts`, `PageCleanup` and `CoverMirror`: some request can always begin or
some clock tick, until the bounds are used up; there the loops keep polling (PageCleanup, CoverMirror), and the other two
always admit another request. In the other modules the supply of requests, boots, writes or walks is bounded, after which
nothing is left to do, so their runs do not check it; no handler waits for another.

**What the qualifications mean.** Several properties exclude exactly the situation the code does
not protect, recorded by a history variable: `QuietLogoutIsFinal` a login whose insert is pending
when the logout runs; `OneAccountPerInvite` a contested code; `EmptiedOnlyByARace` overlapping
deletions; `LivePagesKeepObjects` a client that registers a key while it is in use or on its
way out, and `NothingLeaks` rows inserted while a deletion was running; `SubjectProved` lets only requests
in `early` name nobody; `ScopesAgreed` and `PasskeyShown` leave out users who share one authorization request with another
(`Alone`), since the card and the record are of the request and not of a user, and `ScopesAgreed` also those on whose
request a card was posted before anybody was named (`Undisturbed`), since that finishes it for whoever logs in later; `GrantedOnce` requests exchanged by two at once, or deleted while
a login page was about to write them back; `RenewableUnlessLost` pairs the provider withdrew (`revoked`) or rotated into an
answer that a fault lost (`wasted`); `ShowsWanted` entries edited while an edit or a job was under way (`mixed`), and
`DeletedLeavesNothing` those deleted then (`late`) or while their cover did not name the copy (`unnamed`);
`NamesAsAsked` entries whose edits overlapped or failed (`blurred`) and keys an admin renamed or deleted (`touched`);
`OrphanOnlyByRace` entries inserted for no source or one on its way out (`stray`); `SubTypesKnown` sub-types changed after
the check (no longer `known`); `TokensOutliveRestarts` boots that crossed between lookup and INSERT (`overlapped`);
`NothingOlderIsMissed` entries (`excused`) that landed under an earlier second, landed in the second of the mark, tied with
another, were passed over when a deletion shifted the pages, or were passed over when a late statement moved a row back and the
rows behind it up. Without any one of the first four the run finds a counterexample. The fifth came out of the proof, which could not
do without it; sample rows in which titles differ less (`Clip` with the title of another) let TLC confirm it, and the run has them.
Each exclusion is a real weakness of the code; the properties say that there is no other.

**Fairness.** `RefreshRotation`: weak fairness of `Step(p)` (`Scheduled`) - a request that has begun keeps being
scheduled, as a goroutine is; nobody has to begin one, revoke or log out, and failing is never
forced. `PageCleanup`: weak fairness of each pull loop (`Running`: it runs as long as the process, and a
crash is a fault that `MaxFaults` bounds), of the expiry of each lease (the clock), and
strong fairness of `Deliver(m)` (`Served`): the queue does not pass over an available message for ever in favour of
others. The last is an assumption about the service; without it no consumer could promise anything.
The dead-letter limit of the queue's configuration is outside the code and left out: with one fault it is not reached.

## 6. The proofs

Eight modules of theorems, from the named `ASSUME`s of the models (the null
values are outside their sets, bounds are naturals, `Bundle \subseteq Key`, `ForeignKeys`
is Boolean, `Image \subseteq Url`, the sets of seeds and scopes are such, the three kinds of taxonomy differ, titles are
numbers, a page size is at least 1 and at most its maximum, and `Browse` has finitely many ids and starts in second 2 with rows of
seconds 1 and 2, which only fixes where its clock begins). No assumption on sizes, but for the one that `ScheduledComesToItsEnd` states: the results hold for any number of requests,
tokens, accounts, chapters, messages, loops, users, scopes, connections, covers, instances, clients, entries, tags, rows, writers, pages and walks.
Each has the same shape: a strengthened invariant (`IInv`) is shown to hold initially and to be preserved, with one step per action and
under it one per conjunct, and each property follows from it (or, for action properties, from `IInv /\ [Next]_vars`).

* **`RefreshRotationProofs`**: `TypeCorrect`, `NeverForks`, `OneAnswer`, `LogoutIsFinal`,
  `SupersededOnce`, `RaceLosersNotRefused`, `Refinement`. `OneTip` is not inductive by itself: a second
  winner could appear if a drawn uuid were already somebody's (`ReservedIsFresh`, `UnissuedIsBlank`),
  a claim could be repeated, or two requests insert one token (`WonIsPending`). A loser
  finds its token claimed (`LoserIsSettled`) and returns the successor in the row
  (`ReturnsSuccessor`), hence one answer. `DeadIsOver` carries the logout. The refinement maps `BeginGrant` to
  `Open`, a won `Claim` to `Exchange`, `Insert` to `Persist`, each delete to `Drop`, and the rest to stutters.
* **`RefreshRotationProofs`**, in the end: `RequestsAdvance`, `AllAreAnswered` (`EveryRequestAnswered`), `NoneIsForgotten`,
  `HandedAreStored` (`HandedGetsARow`). A redemption has at most six calls to make (`CallsLeft`) and every one it makes leaves fewer,
  whatever the others do: losing a race costs a second read, never a second claim. So the fairness of a request's own steps answers it,
  and a token that was handed out (`AllAccounted`: stored, once stored, or in the hands of a request that is about to insert it)
  gets its row unless a call fails.
* **`AccountsProofs`**: `TypeCorrect`, `AddressesDiffer`, `LoginNeedsApproval`, `InviteAdmitsOne`,
  `LastAccountStays`, `RedeemerStays`. What is needed is what a request carries between its
  statements: a request that will insert a verified row has a minted code or an admin behind it,
  and one that will write back a verified flag took it from an approval or an account made
  with a code (`RequestsCarry`); an uncontested code is in the hands of one request, or used
  (`InvitesAccountedFor`); one deletion past its count leaves somebody (`CountStillHolds`).
* **`PageCleanupProofs`**: `TypeCorrect`, `LivePagesStay`, `DeletionsForgetNothing`, `NeverAckedEarly`. The
  invariant follows a key on its way out: in one place of the tables (`OnePlace`); read, and then only
  where its reader is about to delete (`ReadIsLeaving`); what is about to be deleted was read, or
  came too late (`LeavingWasRead`); scheduled or gone, and then no longer in an existing chapter
  (`ScheduledLeft`); and a loop acknowledges only what it has deleted (`LoopShape`).
* **`PageCleanupProofs`**, in the end: `JobsAreKept`, `ScheduledComesToItsEnd`. A scheduled key stays in its message while its object
  exists. A loop comes to the end of its batch, one message less at a time (`OneLess`), so it polls again and again (`LoopReturns`) and
  has by then turned to every message it was given (`HeldIsDone`). A message that nobody is given keeps no lease, and a loop polls
  infinitely often, so it is given to one; then its objects go, or a call fails or a process dies, after which it is scheduled as before.
  The theorem is for batches of at most ten (the constant of the code), finitely many messages and at least one loop. `ScheduledIsDeleted`
  itself follows for each number of faults by repeating it; for all numbers at once that would be an induction (below).

* **`AuthFlowProofs`**: `TypeCorrect`, `NobodyUnproved`, `NoScopeUnapproved`, `NoPasskeyUnshown`, `ExchangedOnce`.
  Proofs and approvals only accumulate (`Grows`), so that most of the invariant is carried by a
  step that writes nothing new (`Carry`). Everybody a record, a handler or tokens name has logged in
  (`NamedLoggedIn`), whichever old record is written back; a record on which somebody relies does
  not lose its subject (`SubjectKept`), and whatever is past the consent check was settled by
  somebody on that request (`ClearedSettled`), both but for requests in `early`; what is remembered, or about to be merged, was approved
  (`ConsentFounded`); a mark "webauthn", in a record or a buffer, stands for a passkey (`MarkFounded`); an
  uncontested request is in the hands of one exchange, and gone after it (`Spent`).

* **`ConnectionsProofs`**: `TypeCorrect`, `TokensAreOwn`, `NoneLostByOverlap`, `NoRevival`. A pair on its way to a row was granted for the
  connection of its request (`RequestOwn`), because a code answers only the verifier of its own flow (`FlowOwn`); a row
  refers to what was inserted (`Inserted`, `RowOwn`). The refresh token of a row can die only by the refresh whose answer is still
  to be saved (`Unsaved`).
* **`CoverMirrorProofs`**: `TypeCorrect`, `NamedCopyExists`, `NewestShown`, `PeacefulDeleteIsClean`. `Stored`: whoever is about to name a
  copy has one, as a worker stores before it names and only the copy of a deleted row is swept. `Fresh`: on an entry that is not `mixed`, cover, jobs and loops carry the
  picture last asked for. `Left`: nothing is under way for an entry deleted in peace; `JobShape` and `Known` type what jobs
  and requests carry.
* **`AccessProofs`**: `TypeCorrect`, `KeyIsShared`, `WritesAreScoped`, `ClientsAreStoredOnce`. `OneKey`: without crossed boots and faults the
  table has one newest key, which every instance that found or stored a key holds and every token names, and an instance about to store one is alone with an empty table; `Held` and `Managed` say
  what a boot and a request know of a client. That the two lists of taxonomy kinds agree is what `WritesAreScoped` rests on.
* **`CatalogProofs`**, of entries: `TypeCorrect`, `SourcesStand`, `SubTypesStand`, `EditsShow`. `Carried` says what a request
  holds at each place: an edit has a taxonomy and a name it is at, and ids only once they are found. A tag's id is drawn
  (`Drawn`), so a new tag has no old links. A source about to be dropped was counted, and whatever refers to it came in
  later (`Counted`); a sub-type that was checked and not touched since is still of its type (`Standing`). `EditsShow`
  (`NamesAsAsked`) needs how far each edit has come (`Tracked`): on an entry with one edit at a time and no failure, a taxonomy the edit has
  passed shows exactly the names it asked for, the one it is at shows some of them and the edit still holds the others, and of one
  it has not come to it still holds all; the tag about to be linked has the name in hand. Keys an admin touched meanwhile are excused.
* **`CatalogProofs`**, of readers: `ReadersTypeCorrect`, `FeedsAreExact` (`WalkIsExact`), `NothingOlderIsLost`
  (`NothingOlderIsMissed`), `QuietSyncIsComplete`.
  The lemmas on pages come first: an order of n rows that agrees with ORDER BY puts a row after all that precede it and before all
  it precedes (`PlacesOfRows`), and a page is a stretch of it (`PageHolds`). `Exact`: each row received so far is at a place
  its order allows, so the pages join to a whole. `Sought`: of the rows the copy lacks during a synchronisation, each was written since it
  began and is as new as all it received, or has at least as many rows in front as were read, and there is more to read; so one that
  ends with nobody writing has brought everything. Writes keep that, because a statement that
  lands in time moves its row to the front, and only rows behind it move; this is where the proof failed until late statements were
  told apart. `Past`: nothing is stamped in the future, or a mark could overtake the rows.
* **`CatalogProofs`**, of functions: `RangeIsInside` (the slice `data[start:end+1]` is in bounds, for every object and header),
  `RangeIsAsAsked`, `NeighborsAreClosest` (of a chapter at a place in the order of numbers, `previous` and `next` are the ones at the places
  before and after, none at the two ends, and each is the other's), `SweepStaysInside` (a deletion sweeps only
  below the directories of the keys it was given), `KeptAsAsked` (a lifetime of a minute or more is kept to the second, a shorter
  one is for ever).

Proved and in no run: `AddressesDiffer` (`EmailUnique`), `RedeemerStays` (`RedeemerIsFinal`), `SupersededOnce` (`SupersededForGood`),
`NoRevival` (`StaysDeleted`), `RequestsAdvance`, `NoneIsForgotten`, `JobsAreKept`, `QuietSyncIsComplete`.

**What the theorems about the end assume.** The prover reads the fairness formulas as they are, but knows nothing of `ENABLED`. What
these theorems need of it is therefore a hypothesis: `CanGoOn` (the next call of a request can always be made) and `NothingBlocks` (so can
the next call of a loop with a batch, the delivery of a message without a lease to a loop that polls, and the end of a lease). Both are
state predicates of the models, true by the shape of the actions, as no call waits for another actor. TLC finds each true in every
reachable state when it is checked as an INVARIANT with the constants of `RefreshRotation_live.cfg` and `PageCleanup_live.cfg`, and
the two liveness runs check the properties without them.

Each `IInv` conjunct was checked with TLC before it was proved. Only model-checked: those two enabledness conditions,
`ScheduledIsDeleted` in its full form (any number of faults needs an induction over them, and batches without a bound one over their size;
the prover has no induction over temporal formulas), and the counterexample of section 7. The comparisons of `Answers` with references (ASSUMEs of `MCBrowse`) are
over the inputs named there, except for those in the last bullet about `CatalogProofs`.

## 7. Where code and comments disagree

One disagreement is a run, which TLC ends with a counterexample without any fault:

* `ReuseRevokesTheChain`: `storage.go:539` says reuse "revokes the chain". `revokeRefreshChain` deletes the token and its
  immediate successor: after two rotations the live end survives reuse of the first token.

The others were met while modelling. Where a property is named, it says what does hold.

* Rotation. `storage.go:538` says the loser of a race is handed the winner's "already-minted successor". The successor is visible in
  `superseded_by` from the `UPDATE` on and its row is inserted two calls later; if the winner fails there it never
  is (`HandedGetsARow`). `storage.go:578` says to "retire the old" access token, but `refreshTokenByValue` loads no access
  token id, so the old one lives out its time.
* Accounts. `user_admin.go:210`: the count before a deletion includes accounts that may not log in
  (`EmptiedOnlyByARace`). `register.go:16` calls an invite "single-use": two requests for different addresses can both
  validate it before either consumes it (`OneAccountPerInvite`).
* Login. `login.go:221` says that the login "records the verified subject on the pending auth request", and 222
  "(before consent)"; `login.go:232` that finishing "marks the auth request authenticated (via password)". The consent handler (`login.go:180-205`) asks for neither:
  posted for a request that names nobody it skips `saveConsent` (line 194) and finishes the request (line 199). The request then has no subject;
  the library issues a code for it, and its exchange fails where an id token has to be made. A card posted so also finishes the request
  for whoever logs in on it later without having seen the card, and its late write can leave "webauthn" with no user
  (`SubjectProved`, `ScopesAgreed` and `PasskeyShown` say that these cases, all with a card posted too early, are the only ones).
  `storage.go:226` says that deleting the request prevents replay of its code. It is deleted after it was
  read and tokens were made, so exchanges that overlap both succeed, and a login that read it before can write it back (`GrantedOnce`).
  `models.go:44` says tokens "reflect how the user actually authenticated"; the consent handler always records "pwd"
  (`PasskeyShown` is the direction that holds). `consent.go:90` labels a scope for "categories" that no route asks for.
* Connections. `kv/state_store.go:37` says a state is read "and deletes it (single-use)"; the deletion's error is ignored and two callbacks may read
  before either deletes (`OwnTokens` holds regardless). No code path sets a status to "error", or back to "disconnected".
  Editing the label writes back the client credentials that were loaded. A refresh answer without a refresh token empties the stored one,
  though RFC 6749 lets a provider answer so to keep it in use.
* Covers. The copy of an entry whose cover became an external URL stays until the new one is mirrored over it. A presigned URL
  that is sent back after the cover has stopped being the copy is stored and expires. A client that submits the text of a copy's key
  has it stored as though the copy were there (no picture of the model is such a text). A cover with no scheme counts as a key when its entry is deleted.
* Catalog. `source_service.go:88` says "reassign or delete them first", but `UpdateMedia` requires a `sourceId` and its statement does not write it. Links are
  replaced one statement at a time (`NamesAsAsked` says until when a mixture shows).
* Clients. `seed.go:48` speaks of a "read-only scope set", but `IsScopeAllowed` does not look at a client's stored scopes. An update (`dcr.go`) replaces redirect URIs, name and
  application type when they are omitted and keeps the rest from the row it read; from "none" to a method with a
  secret it issues none; it answers 200 for a client deleted meanwhile. A revoked access token is still
  accepted by the middleware, which checks signature and expiry only.
* Browsing. The stamp of an update is written before the genre and author links, so that a synchronisation in between takes the old
  links for the new state; and stamps of two instances are of two clocks. `media_repo.go:261` says "Ties break by title for stable pagination"; titles are not unique, and a sort by title has no tie-break
  (`WalkIsExact` excludes ties). The "resumable delta sync" of `domain/manga.go:78` misses what changes in the second of its mark, what
  lands late, and rows shifted by deletions or by a row that a late statement moves back (`NothingOlderIsMissed`), and never learns
  of deletions. The header `perPage` is always the
  default, and `total` never sent, whatever the body says.
* Objects. Pages that a registration overwrites (`ReplacePages`) leave their objects to nobody: only deletions schedule any
  (`NothingLeaks` is about what deletions removed). A stream whose object is missing answers 500. An ad's image stays in R2 when the ad is deleted or given another. A range end beyond
  `int` is answered with the whole object. `kv/client.go:80` promises a minimum of a minute, but a shorter lifetime is not sent, and
  the value stays. Two bundles in one directory of `hls/` are deleted together, and a bundle outside it leaves its segments (`SweepStaysInside` says what cannot happen).

## 8. Not modelled

Planned: `Identity` (section 2). Left out for good: SQL text, JSON, rendering and the documentation
handlers (no state); PDF / EPUB / AVIF conversion and the cryptography of passkeys, tokens and
connections (libraries); the table of ads (single statements on one table, nothing to interleave;
what is stored and shown is in `Answers`); configuration and wiring; the Worker in front;
migrations (run once by hand; the keys they declare are in the models). Within the
modelled parts: access tokens in `RefreshRotation` (nothing in rotation reads one back), names and passwords of accounts, covers and links in
`PageCleanup`, which credentials are right, ceremony sessions, counters, PKCE and redirect URIs in `AuthFlow`, denied consent (it changes
nothing), reads of KV that lag behind a write, redirect URIs and names of clients in `Access`, descriptions and statuses of entries in `Catalog`, retries of a download, image sizes and covers submitted as the key of a copy in `CoverMirror`,
clocks that differ between instances and the links of an entry in `Browse`, the delay of a retried message in `PullConsumer`,
and HTTP status codes except where a property tells them apart.
