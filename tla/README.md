# Weepost: specifications of its core

Weepost lets the teams of a workspace write posts for their brands, have them approved, schedule them and publish
them on connected social channels. It is a Go backend in hexagonal layers: aggregates (`src/internal/domain`), use
cases (`src/internal/usecases`), repositories (`src/internal/infrastructure/postgres`), HTTP handlers and middleware.
There is no lock and no transaction around a use case. Fiber serves requests concurrently; every repository call is
one autocommit SQL statement (`WorkspaceRepo.Create` alone is a transaction); between two calls a goroutine holds
copies of rows and writes them back. Nearly everything that is hard about this code comes from that, and the
modules here are built around it: **one repository or platform call is one step**, a request is a record with a
program counter and the rows it has read, and the steps of different requests interleave freely.

## 1. The system and what must be right about it

| Component | State | Operations | Interacts with | What is hard, and the properties |
|---|---|---|---|---|
| Post aggregate (`domain/post.go`) | status (SM-01), date, version | the transition methods | all post use cases | stale copies must not leave SM-01: `Lifecycle` |
| Scheduling and publication (`usecases/post/publish.go`, `cancel.go`) | `posts`, `post_variants` | SchedulePost, CancelScheduledPost, PublishPost | channels, media, the platforms | several writes without a transaction, workers racing: `ScheduledPostHasItsVariants`, `NothingSentBeforeASchedule`, `PublishedVariantWasPosted`, `EveryVariantIsAttempted` |
| Channels (`domain/channel.go`, `usecases/channel/connect.go`) | `channels`, `channel_credentials` | ConnectChannel, DisconnectChannel, failure counter | posts of the brand, workers, the plan | whole rows written back: `ErrorThreshold`, `ThreeFailuresStopTheChannel`, `DisconnectionIsStored`; a connection that checks, then writes twice: `AnsweredIsComplete`, `HalfWrittenMeansHarm`, `LimitOverrun`, `ConnectedOnceUnlessRaced`, `CheckedIsConnected` |
| Approval (`usecases/post/approve.go`) | `approval_requests` | RequestApproval, ApprovePost, RejectPost | posts, members | check then insert, decisions by id: `OnePendingRequest`, `ReasonMeansRejected`, `UncontestedAnswerIsStored` |
| Media (`usecases/media/upload.go`) | `media_assets` | Upload, Quarantine | schedules and workers ask for the assets of a post | the scan is asynchronous |
| Authentication (`usecases/security`, `domain/user.go`) | `users`, `user_sessions` | ValidateCredentials, RecordFailedLogin, Lock, Validate2FA, RevokeJWT | workspace deletion revokes sessions | counters and sessions written back blindly: `Lifecycle` (SM-17), `ExchangedIsRevoked` |
| Members and invitations (`usecases/workspace/members.go`) | `workspace_members`, `workspace_invitations` | InviteMember, AcceptInvitation | accounts, plan limits | two writes per acceptance, chains of roles: `ImplementsDelegation` (and with it `OneOwner`), `AcceptedGaveItsRole`, `RoleWithinInviters` |
| Workspace (`usecases/workspace`) | `workspaces` | Create, Update, UpdateSettings, Delete | brands, sessions | a cascade of writes: `DeletionArchives`, `DeletionIsStored` |
| Brands (`usecases/brand`) | `brands`, `brand_assignments` | CreateBrand, UpdateBrand, AssignMember, RevokeBrandAccess | workspace, members | permission read before the write: `AssignedByAnOwner` |
| Permission checker and middleware (`application/permission.go`, `http/middleware/permission.go`) | none; reads members and assignments | CheckPermission, and the decision each use case takes again | every route | two levels that look at different things, at different moments and perhaps in different workspaces: `InactiveActsNotWhereAsked`, `BrandNamedNeedsAdmin`, `PromotionLosesNothing` |
| Rate limiter (`http/middleware/rate_limit.go`) | buckets in memory | Allow | routes | one bucket shared by routes with limits and windows of their own: `EveryRouteBounded`, `BucketBounded`, `ImplementsWindow` |
| JWT middleware (`http/middleware/auth_jwt.go`) | none; reads the session a token names | AuthJWTMiddleware | sessions, every protected route | a session is written back while requests are served: `RevokedServesNothing`, `SecondFactorBeforeService` |
| Events, handlers, configuration, stubs | none | | | no state of their own |

`PROJECT.json` lists the components with what is left out of each, and the hazards of the code at the line where they
bite, each with the properties that would notice.

Not everything is wired. `cmd/api/main.go` (84-177) passes stubs for the post use cases, DisconnectChannel,
AcceptInvitation, RevokeBrandAccess and the administration of second factors; `post_variants` has no Postgres
repository, and the credential repository and the plan checkers are the no-ops of `stub/notimpl.go`. Nothing in the
repository starts PublishPost either: `ListScheduledBefore` has no caller. The use cases are modelled as they are
written, over the ports they name: they are the code the unit tests of the repository exercise. Where the only
implementation, or the schema, does something else than the port says, a constant of the module gives both readings
(section 2).

## 2. The modules

| Module | Models | Main variables and their code |
|---|---|---|
| `PostDomain` | the Post aggregate: SM-01 and its transition methods, each of which increments the version in memory | pure operators |
| `ChannelDomain` | the Channel aggregate: `CanPublish`, the failure counter, `SetStatus` | pure operators |
| `PostLifecycle` | abstract: stored statuses move along SM-01, one post at a time | `status` |
| `PostPublishing` | SchedulePost, CancelScheduledPost, DisconnectChannel, PublishPost, QuarantineMedia | `posts`, `variants`, `channels` are tables, `quarantined` the posts with a quarantined asset; `schedule`, `cancel`, `disconnect`, `worker` are the running requests |
| `Approvals` | RequestApproval, ApprovePost, RejectPost | `approvals` is the table, `validated` what other use cases do to the posts |
| `SessionLifecycle` | abstract: SM-17 | `status` |
| `AuthSessions` | ValidateCredentials, RecordFailedLogin, GenerateJWT, Validate2FA, RevokeJWT | `users`, `sessions`, `now`; `login`, `validate`, `revoke` |
| `SessionGate` | AuthJWTMiddleware over `AuthSessions`: whom a stored session lets in while the use cases go on | `gate`, the requests being served |
| `Delegation` | abstract: who may join a workspace under which role (WS-06, W-1) | `members` |
| `Memberships` | InviteMember, AcceptInvitation | `members`, `invitations`, `accounts`, `late` |
| `WorkspaceBrands` | the use cases on a workspace, its brands and their assignments | `ws`, `brands`, `assigned`; one record per request |
| `ChannelConnection` | ConnectChannel, and what DisconnectChannel stores | `channels`, `credentials` are tables, `archived` the archived brands; `connect`, `disconnect` |
| `SlidingWindow` | abstract: what a limiter that keeps the whole log promises an address | `now`, `admitted`, `verdict` |
| `RateLimiter` | InMemoryRateLimiter and its middleware | `now`, `buckets`, `verdict` |
| `Permissions` | CheckPermission, the middleware, the decisions of the use cases, AssignMember and RevokeBrandAccess, over several workspaces | `workspace`, `members`, `assigned`, `request` (`asked` and `named`: what the middleware is asked about; `brand`: what the use case works on) |
| `MC*` | the symmetry sets of the instances, and the routes of `RL_window` | |
| `*Proofs` | theorems and proofs, see section 5 | |

An action is named after the use case and the step of the code it stands for; its comment says which. A check that
only ends the request (a permission, a missing row) is a guard, or an action `...Refuse`, `...Dies`. History variables
(`posted`, `targets`, `reported`, `streak`; `answered`, `contested`; `wrong`, `exchanged`; `owned`, `touched`; `harmed`, `raced`;
`admitted`) record what happened for the properties; no guard reads them, but for the bound on the calls `admitted`.
Definitions named `Mutant...`, and `RecordWithoutSetStatus`, `RecordBeyondThreshold`, are plausible bugs of the definition they stand next to: nothing uses them, and they document
which mistake each property notices.

### Two readings of the store

The use cases are written against ports, and the Postgres adapters do not always keep what the ports say. Where they
differ a constant says which one a run is about, so that one disagreement does not hide everything behind it.

* `VersionRule` (`PostPublishing`). `"postgres"` is `UPDATE ... WHERE version = $10` of
  `postgres_post_repo.go`. The version passed is the aggregate's, which the transition has already incremented: the
  write is refused when nobody else wrote, and accepted when exactly one other write happened. Theorem
  `NoScheduleIsStored` says what follows: no schedule is ever stored. `"unchecked"` is the port taken at its word, as
  the mocks of the tests take it: a store that keeps what it is given. Most runs use it, for with the other nothing
  beyond scheduling would be reached.
* `VariantStorable` (`PostPublishing`). FALSE is `chk_post_variants_status` of `0011_create_post_variants`, which refuses
  the status `pending` every variant is created with; SchedulePost drops the error (`publish.go:227`). Theorem
  `NoVariantNothingSentHolds` says what follows: no variant is stored and nothing is ever sent. TRUE is the port taken at its
  word (`repositories.go` says that the two disagree), as the mocks of the tests take it; all runs use it.
* `CredentialStore` and `PlanChecker` (`ChannelConnection`). `"stub"` is `NoOpChannelCredentialRepo`, which answers nil and
  stores nothing, and `NoOpChannelPlanChecker`, which accepts everything: the only implementations there are, and those
  `main.go` passes. Theorem `NoCredentialsKeptHolds` says what follows: no channel answered as connected has credentials.
  `"port"` is a repository that keeps them and a checker that counts, for which the order of the calls in ConnectChannel was
  written. `CC_connect` uses it; what it shows about credentials and about the quota is a promise of ConnectChannel over
  such a repository, not of the program as it is wired.
* `Absent` (`Memberships`) and `Store` (`WorkspaceBrands`). The use cases expect `ErrNotFound` for an absent row, and
  aggregates with their children; `domain/errors.go` says so too. The Postgres adapters answer an absent row with
  nil and no error, and `Rehydrate...` leaves the children out. (The foreign key and the check of `brand_assignments`
  would refuse the rows of AssignMember as well: neither reading models those columns.)
* `PendingStorable` (`AuthSessions`). FALSE is the check on `user_sessions.status`, which does not have
  `pending_2fa`; TRUE lets the second factor be studied.
* `Faults`. With TRUE, a repository call may fail and a process may die between two calls. An error the code drops
  lets the request go on; any other ends it. `PostPublishing` keeps the two apart: `Crashes` ends requests, by a death or by
  a call whose error the code looks at, and `Faults` fails the calls whose errors it passes over. An answer of a platform
  without a post id is neither: `PublishSend` always allows it, and it leaves the variant pending (`publish.go:407` has no
  else). A write whose result is lost is among the faults of `Approvals`: the row is stored and the reviewer gets an error.

### What is abstracted

Contents, names, dates, tokens and codes appear as far as a decision depends on them: a password is right or wrong, a
date is accepted or not, the validity of a channel token is chosen afresh whenever a row is loaded, as it is
recomputed from the clock. All posts of `PostPublishing` belong to one brand, whose lists they are. Logging, events and
the formatting of answers are left out: every event is published after the last write and its error is dropped.

How the modules fit together. `PostPublishing` takes the two aggregates from `PostDomain` and `ChannelDomain`;
`ChannelConnection` shares `ChannelDomain` with it and adds the life of a channel before it publishes, so the posts a
disconnection cancels are in the one and its effect on connections in the other. `SessionGate` extends
`AuthSessions` with the reader of its table, and every property of a run of `AS_sessions` is about the two together.
`Permissions` is what the guards "the caller may" of the other modules stand for. In `WorkspaceBrands` a member is
one value, his id and the id of his account; the code keeps two and mixes them up (section 4), which
`Permissions` models: there an assignment is stored under one and looked up under the other, as each line does.

## 3. The runs

Passing runs:

| Run | Instance | Shows |
|---|---|---|
| `PP_port` | one post, two channels, one request of every kind, the store of the port, requests cut short | `TypeOK`; `ErrorThreshold`: whichever stale channel row is written back, a stored count at the threshold goes with a channel out of service; `ThreeFailuresStopTheChannel`: so do the failures in a row a single worker meets; `ScheduledPostHasItsVariants`: the order of the writes of SchedulePost leaves no schedule without its variants |
| `PP_faults` | one post, two channels, a scheduler, a canceller, a worker, failing calls and dying processes | `NothingSentBeforeASchedule`: the variants unfinished schedules leave behind send nothing until some schedule of the post is stored (then the worker takes them all: `SentToTargetsOnly` in section 4); `PublishedVariantWasPosted`: a variant is published only after the platform was called |
| `PP_store` | one post, two channels, the Postgres version rule, fair | `Lifecycle`: PostPublishing implements PostLifecycle, so no stale copy takes a stored status along an arrow SM-01 lacks; `EveryVariantIsAttempted`: an execution past its check of the media settles every variant it finds waiting or calls the platform for it; `DisconnectionIsStored`: refused cancellations do not keep a disconnection from the store |
| `AP_table` | two posts, three requests, two requesters, two reviewers, faults | `TypeOK`, `OnePendingRequest`, `ReasonMeansRejected`; `UncontestedAnswerIsStored`: an answer is the stored verdict, whatever is lost between write and answer, unless two reviewers held the request at once |
| `AS_sessions` | two users, one with the second factor, one request at the gate, faults | `GateTypeOK`; `Lifecycle` (SM-17); `ExchangedIsRevoked`; `RevokedServesNothing`: a session whose revocation was answered opens nothing, whoever writes an old copy back; `SecondFactorBeforeService`: nobody with the second factor is served by the temporary session |
| `MB_join` | three users, two invitations, two acceptances, faults | `TypeOK`; `ImplementsDelegation`: whoever joins takes a role below owner that some member may hand out at that moment, although the inviter was checked when the invitation was made; `AcceptedGaveItsRole`; `RoleWithinInviters` |
| `WB_rows` | two requests that assign or revoke, a creation, an edition, two members, faults | `TypeOK`; `AssignedByAnOwner`: whoever is assigned or revoked between a check and its insertion |
| `WB_delete` | two deletions against a creation, an edition and an update, fair | `DeletionArchives`, `DeletionIsStored` |
| `CC_connect` | two connections of one account over two brands and two platforms, a disconnection, faults, fair, a repository that keeps credentials and a checker that counts | `AnsweredIsComplete`, `HalfWrittenMeansHarm`, `ConnectedOnceUnlessRaced`: what the order of the reads and of the two writes keeps of the promises of the comments; `LimitOverrun`: by how much the quota is missed; `CheckedIsConnected`: when connections race, one of them wins |
| `RL_window` | two addresses, three routes, two windows | `EveryRouteBounded`: whatever its own window, no route admits beyond its limit within the shortest one; `BucketBounded`; `ImplementsWindow`: the bucket stands for the whole log, and a route with a longer window can only lose calls from it |
| `PM_check` | two workspaces of any status, two users, one brand, one request after another | `TypeOK`; `InactiveActsNotWhereAsked`: the two levels leave no gap where they are about one workspace; `BrandNamedNeedsAdmin`: whom the mixed-up ids let through; `PromotionLosesNothing` |

One more run checks a sentence of the schema that the code does not keep; `findings` in `PROJECT.json` quotes it and says
what the trace does. Section 4 lists the others.

| Run | Property | What happens |
|---|---|---|
| `PPV_double` | `NoDoublePublication` | the post stays scheduled after an execution of PublishPost, and the next one publishes it again |

### Bounds, and why they are enough

* The properties speak of one post, one channel and two actors at most; one or two of each, and two goroutines of the
  kind that races with itself, reach every pair of steps. Three requests in `AP_table` give a post a decided request, a
  pending one and a third that is refused.
* `MaxVersion`: no request loads a post beyond it. A post needs three versions from draft to scheduled; 4 and 5 leave
  room for a cancellation and a second turn, and `PP_store`, whose posts start validated or scheduled, needs 3.
  It guards the loads only, so a request that has started is never cut.
* `MaxPosted`: publications are counted up to it; 1 where only "was it sent" matters, 2 for a double publication.
* `MaxTime`: one unit is the half hour of a lock; 1 lets a lock begin and end.
* `Threshold` is 5 in the code and 2 or 3 in the runs; the theorems hold for any.
* `MemberLimit`: as small as the run needs for the limit to be met.
* `CC_connect`: a limit of 2 and four identifiers, the limit and one for each connection running at once, so that
  identifiers never run out before the limit refuses; one account, for requests of different accounts meet at the limit
  only, where the account does not matter; only `b2` is ever archived, so that the other brand keeps the races alive.
* `RL_window`: `MaxTime` is twice the short window and `MaxCalls` the sum of two limits, so that a bucket fills, empties
  and fills again, and routes of both windows meet in it.
* `PM_check`: the decisions look at one actor, one brand, one target and two workspaces, that of the query and that of
  the brand. One request at a time, over every assignment earlier ones have left; the initial states range over the roles and
  statuses of the users in both workspaces and the statuses of both. Two requests at once, where an assignment comes and
  goes between the two levels of the other, are too many states for TLC: the theorems are about any number. A `manager` and
  a `viewer` are granted: one passes, one does not.
* `WB_rows`: two granters, so that a revocation or another assignment comes between a check and its insertion. Updates
  and deletions of the workspace do not touch assignments; they are in `WB_delete`.
* `PP_faults`: two channels, so that an unfinished schedule and a stored one may be about different ones. No disconnection,
  which writes neither variants nor what is sent; it is in `PP_port` and `PP_store`.
* Identifiers (`Requests`, `Sessions`, `Invitations`, `Brands`) are drawn once, as UUIDs are.
* Symmetry sets are used for safety only. Deadlock is not checked where requests may stop for good: identifiers are used
  up, the clock or the version bound is reached, or (`PM_check`) a suspended workspace admits nothing.

### Fairness

`PostPublishing!Fairness`: a request that has started runs to its end (weak fairness of each goroutine's steps; the Go
scheduler runs every goroutine, and calls to the database and to a platform are assumed to return). Nothing has to
start a request: users, reviewers and faults are under no fairness, nor are executions of PublishPost. The comments
of `publish.go` speak of a CRON, but the repository has none, so `EveryVariantIsAttempted` is about an execution that
has started, not about a schedule that has become due. In
`WorkspaceBrands` only a deletion that has started is fair, in `ChannelConnection` every connection that has, unless
it dies. `PP_store` and `WB_delete` exclude deaths and failing calls: a process that
dies leaves its work undone, and nothing in the code takes it up again. `CC_connect` does not, for its
property says whom a fault hit.

## 4. Known disagreements, and what is not covered

The modules also state, after their last rule, sentences of comments, messages and the schema that the code does not
keep and that are not among the runs. TLC refutes each on the instance named here (one element of each set, no faults and no
crashes, the reading of the ports, unless said otherwise); the definition's comment names the sentence.

| Property | Code | Instance and trace |
|---|---|---|
| `ConflictMeansConcurrentWrite` | `postgres_post_repo.go:91` | Postgres rule, a scheduler alone: its only write is refused as a concurrent modification (theorem `NoScheduleIsStored`) |
| `DisconnectedStaysDisconnected` | `publish.go:400` | a disconnection and a worker, a scheduled post: the worker writes the channel it read before over it |
| `ReportedStatusIsStored` | `publish.go:422` | a worker: the result says failed or published, the stored post is still scheduled |
| `VirusFailsThePost` | `publish.go:337` | a worker and a quarantine: the post is written back as it was read |
| `StaleWriteIsRefused` | `postgres_post_repo.go:91` | Postgres rule, a canceller and a worker: a write between read and write makes the version fit |
| `DisconnectCancelsSchedules` | `connect.go:394` | a scheduler and a disconnection: the schedule is stored after the list |
| `SentToTargetsOnly` | `publish.go:349` | two channels, a schedule that is cancelled and then one on the other channel: the old variant is sent too; so is one left by a schedule that died before its last write (`Crashes`) |
| `MissingVariantIsRecreated` | `publish.go:227` | two channels, faults, `FairSpec`: a lost insertion is never repeated |
| `ThreeFailuresStopTheChannel` | `publish.go:400` | two posts, two workers: two failures at once count as one |
| `OneVerdict` | `approve.go:345` | two reviewers that both read pending |
| `DecisionIsStored` | `0016_create_approval_requests.up.sql:33` | two requests of one post: a second rejection violates the unique constraint |
| `OnlyValidatedPostsAsked` | `approve.go:158` | the post leaves validated between check and insertion |
| `ThresholdLocks` | `security/shared.go:67` | one user, one login, threshold 3: an account whose lock is over is never locked again, for its status is still `locked` |
| `OneSessionPerExchange` | `auth.go:409` | a user with the second factor, two validators, three sessions, `SessionGate`: one exchange gives two active sessions |
| `ExchangeFindsPending` | `auth.go:409` | two validators, three sessions: both exchange one temporary session |
| `RightPasswordGivesSession` | `0017_create_user_sessions.up.sql:8` | `PendingStorable = FALSE`, the second factor: no temporary session can be stored |
| `OnePendingInvitation` | `members.go:113` | two inviters, two invitations |
| `TerminalIsFinal` | `members.go:296` | two acceptances: accepted and expired overwrite each other |
| `MemberLimitKept` | `members.go:274` | three users, two invitations, two acceptances, `MemberLimit = 2` |
| `AlreadyMemberMeansMember` | `postgres_workspace_repo.go:195` | `Absent = "nil"`: everybody is told to be a member |
| `BrandNamesUnique` | `brand/brand.go:117` | two brands created one after the other |
| `UpdateKeepsStatus` | `workspace/update.go:133` | an update and a deletion: a rename writes the old status back |
| `ArchivedBlocksAssignment` | `brand/members.go:73` | two members: the brand is archived between check and insertion |
| `NoBrandOnceDeleting` | `brand/brand.go:80` | a creator and a deletion |
| `NotOwnerMeansNotOwner` | `rehydrate.go:70` | `Store = "postgres"`: the aggregate comes without its members |
| `ExistsMeansAssigned` | `brand/members.go:110` | `Store = "postgres"`, two members |
| `ConnectedOnce` | `connect.go:168` | bounds of `CC_connect`: two connections look before either inserts; the index covers one brand and platform only |
| `FailureCanBeRetried` | `connect.go:229` | as above: the credentials are lost, and the retry the answer asks for finds the account connected |
| `AnsweredIsActive` | `connect.go:264` | as above: the answer says active, the row `pending_review` |
| `DisconnectedCanReconnect` | `connect.go:168` | as above: the lookup counts disconnected channels too |
| `ArchivedBlocksConnection` | `connect.go:229` | as above: the brand is archived between its check and the insertion |
| `EveryWindowKept` | `rate_limit.go:34` | `RL_window`: a call of a route with a short window throws away what a long one counts |
| `InactiveActsNot` | `middleware/permission.go:29`, `connect.go:132` | `PM_check`: the middleware is asked about the workspace of the query and the use case works in that of the brand, of which it reads no status; kept where the two agree |
| `BrandOwnerMayGrant` | `application/permission.go:92`, `brand/members.go:90` | `PM_check`, `GrantedRoles = {"owner"}`: the assignment is stored under the id of the user and looked up under the id of the member |
| `BrandManagerMayConnect` | `application/permission.go:92` | `PM_check`: the same lookup, in the middleware |

The disagreements are of three kinds: a check on a row that was read, then a write by identifier; a whole row written back over a
newer one; code that does not fit the schema, an adapter or the line that wrote the row.

Several of these sentences are kept under a condition, and then the condition and the sentence together are a theorem.
The conditions say that two requests do not overlap where the code lets them, that no schedule or brand changes under a
request, or that nothing fails. One goroutine of the kind satisfies each of the first sort, and without the condition
the traces above violate the sentence: so the theorem says that the named overlap or failure is the whole of what is
wrong, and what a lock or a conditional write would repair.

| Property | Kept when | Theorem |
|---|---|---|
| `OneVerdict` | no two reviewers hold one request (`DecidedApart`) | `OneVerdictUnlessRaced` |
| `OneSessionPerExchange` | no two requests exchange one session (`ExchangedApart`) | `OneSessionUnlessRaced` |
| `OnePendingInvitation` | no two requests invite one address (`InvitedApart`) | `OnePendingUnlessRaced` |
| `TerminalIsFinal` | no two requests answer one invitation (`AcceptedApart`) | `TerminalUnlessRaced` |
| `MemberLimitKept` | one acceptance at a time; otherwise it is overrun by fewer than run at once (`MemberOverrun`) | `MemberLimitKeptAlone`, `MemberOverrunHolds` |
| `AlreadyMemberMeansMember` | `Absent = "ErrNotFound"` | `AlreadyMemberMeansMemberHolds` |
| `ArchivedBlocksAssignment` | no status of a brand changes while a request about its assignments runs (`GrantedApart`) | `ArchivedBlocksApart` |
| `ConnectedOnce` | `~Faults`, and no two connections of one account past the lookup (`ConnectedApart`) | `ConnectedOnceHolds` |
| `FailureCanBeRetried` | `~Faults`, `CredentialStore = "port"` | `FailureCanBeRetriedHolds` |
| `InactiveActsNot` | the request asks about the workspace it works in (`InactiveActsNotWhereAsked`) | `InactiveActsNotWhereAskedHolds` |
| `EveryWindowKept` | all routes have the same window | `EveryWindowKeptAlike` |

For others a theorem gives the reason they fail: no outcome of a publication is ever stored
(`NothingStoredBeyondHolds`; `ReportedStatusIsStored`, `VirusFailsThePost`), no schedule is stored under the Postgres rule
(`NoScheduleIsStored`; `ConflictMeansConcurrentWrite`), no deletion passes its guards with the Postgres repositories
(`NothingIsDeletedByPostgres`; `NotOwnerMeansNotOwner`), no variant is stored under the check of the schema
(`NoVariantNothingSentHolds`; `MissingVariantIsRecreated`), and no role in a brand lets anybody through a request that names
the brand (`BrandNamedNeedsAdminHolds`; `BrandOwnerMayGrant`, `BrandManagerMayConnect`). The last is about requests that name
one: where the brand is not in the path and the query names none, or where the use case looks the row up under the id of the
user, a brand manager does get through (`channel.disconnect`, the routes of media and posts).

Two more facts about the program as it is wired are theorems and not runs, for they leave nothing to check beyond
themselves: `NoCredentialsKeptHolds` (no channel has credentials; the comment of ConnectChannel promises two atomic writes)
and `NoVariantNothingSentHolds`.

`ThreeFailuresStopTheChannel` is a run, a theorem and in the first table on purpose: it is proved for one worker and no fault,
and fails as soon as two workers share a channel.

Not modelled, and why:

* Media upload and the answer of the scan. The scanner is a consumer outside of the repository, and nothing here
  reads a stored scan.
* The expiry of sessions, the archive and the retry counter of a post, suspension and restoration of a workspace: no
  use case performs them. `Permissions` starts in workspaces and with members of any status instead.
* The buckets of the limiter live in one process: several instances, and the restart that empties them, are not in the
  model, nor are keys that are never dropped.
* Plan limits are decided by ports whose only implementations accept everything. `ChannelConnection` has both readings
  (`PlanChecker`), and `LimitOverrunHolds` assumes the checker that counts; `Memberships` takes its port at its word.
* A CRON, or anything else that starts PublishPost: the repository has none (section 3, fairness).
* Commands of AssignMember and RevokeBrandAccess that name another workspace than the brand's; they are refused.
* A second disconnection of a channel reads a time the repository does not rehydrate (`connect.go:386`), an error of
  the adapter and not a step.
* Routes whose use cases are stubs (`post.create`, `post.publish`, `security.manage`) are left out of `Permissions`.
* Events, handlers, configuration, value objects and cryptography keep no state that a property tells apart.
* The antivirus status of an asset is not stored by its adapter, and nothing inserts into `post_media_assets`; a
  quarantined post is therefore an input of the model.
* `publish_jobs`, `audit_logs` and `channel_permissions` are tables no use case uses.

## 5. What is proved

All theorems are checked by TLAPS and hold for every value of the constants the named assumptions allow: any number of
posts, channels, goroutines, users; with or without faults, unless a hypothesis says otherwise.

`PostPublishingProofs`
* `TypeCorrect`. The type invariant is inductive because a busy request knows the post and channel it works on, which
  the sets `ScheduleState` to `WorkerState` say.
* `ErrorThresholdHolds`. The stored row alone is not inductive: workers and disconnections write copies back.
  `ThresholdInv` adds that a copy held by a disconnection is itself out of service at the threshold, and that a worker
  that is publishing holds a count below it, for it has seen `CanPublish` accept the same copy.
* `ThreeFailuresStopTheChannelHolds`, which assumes `~Faults` and one worker. `StreakInv`: a channel in service, and the
  row a publishing worker holds, count the whole streak; a disconnection may write an older count back, with a status
  that takes the channel out of service.
* `PublishedWasPosted`. `PostedInv` adds that a worker about to mark a variant has called the platform for it.
* `SentWasScheduled`. `SentInv`: a stored schedule has targets, a running request has channels, and a worker is on a
  post with targets. It says that some schedule was stored, and not that the channel was among its targets.
* `ScheduledHasVariants`, which assumes `VariantStorable` and `~Faults`, but not `~Crashes`. `VariantInv` adds what a request
  about to store its post has already inserted; variants are never removed (`VariantsStay`).
* `NoVariantNothingSentHolds`, which assumes `~VariantStorable`, for the schema as it is. `NoVariantInv`: no variant is
  stored, so no loop of a worker has one on its list.
* `LifecycleImplemented`, under `VersionRule = "postgres"`. `PgInv` relates the copy a request holds to the stored row:
  the same row, or an older version, or one from which the stored status can still be followed; a write that the version
  accepts is then an arrow of SM-01. The step simulation goes action by action.
* `NoScheduleIsStored`, under the same rule: a post being scheduled stays as it was read, so its version is never the
  incremented one.
* `NothingStoredBeyondHolds`, for either rule. `StoredInv`: a worker holds a scheduled row, and every other write leaves
  one of the statuses of `Written`.
* `ReportedPublishedWasSentHolds`. `ReportInv`: the channels a worker counts as done have been sent to.
* `TargetsAreAttemptedApart`, which assumes `VariantStorable`, `~Faults` and `ScheduledApart`: no schedule of a post is stored
  while a worker is at it. `AttemptedInv`: a channel of the schedule is on the list of the loop, or its variant is failed or
  published, or the platform was called for it, and that lasts. The last case is an answer without a post id, which leaves
  the variant pending. `TargetsAreAttemptedHolds` is its corollary under `VersionRule = "postgres"`, where no
  schedule is stored at all; with the unchecked store the condition is needed, as TLC shows.
* `DisconnectionEndsStoredHolds`, which assumes `~Crashes`: of the steps of a disconnection only the last ends it.

`ApprovalsProofs`
* `TypeCorrect`; `OnePendingRequestHolds` (an insertion passes the unique constraint, a decision leaves `pending`);
  `ReasonMeansRejectedHolds`, with `ReadsHaveNoReason`: what a reviewer read had no reason yet, so that an approval
  clears the reason a rejection has stored meanwhile.
* `UncontestedAnswerIsStoredHolds`. `AnswerInv`: of a request no two reviewers have held at once, a reviewer about to write
  still finds the pending row it read (`HeldIsPending`), one about to answer finds its verdict (`AnsweringIsStored`), and so
  does everybody who was answered. It needs no hypothesis about crashes: a verdict stored and never answered leaves the row
  decided, and the next reviewer is refused or answered with it.
* `OneVerdictUnlessRaced`, under `[]DecidedApart`, where no request is ever contested: a request in a reviewer's hands is
  still stored as pending, and an answer is the stored verdict, so nobody answers a decided request again.

`AuthSessionsProofs`
* `TypeCorrect`, with `HeldIsStored`: the session a request holds is a stored one, so blind updates create none.
* `LifecycleImplemented`: every write to the table is an insertion or sets `revoked`, so AuthSessions implements
  SessionLifecycle.
* `ExchangedIsRevokedHolds`, with `IssuesAfterRevoking`: who is about to issue has revoked, and nothing revives.
* `GateImplements`, `GateTypeCorrect`: SessionGate only reads what AuthSessions writes.
* `RevokedServesNothingHolds`, with `AnsweredIsRevoked`: a session whose revocation was answered is stored as revoked.
* `SecondFactorBeforeServiceHolds`. `KnowsOwner` and `Vouched`: an active session of a user with the second factor was
  issued against one that is exchanged, and a request about to issue has it in hand.
* `OneSessionUnlessRaced`, under `[]ExchangedApart` and a finite set of sessions. `HoldsUnspent` and `Balanced`: the session
  of a request that will issue is not exchanged yet, so each active session is paid for by an exchange of its own.

`ChannelConnectionProofs`
* `TypeCorrect`; `AnsweredIsCompleteHolds` and `HalfWrittenMeansHarmHolds`, which assume `CredentialStore = "port"`, with
  `HeldIsStored`: a connection about to
  store credentials has a stored channel of its account, and only a failure or a death parts them.
* `LimitOverrunHolds`, which assumes `PlanChecker = "port"`. Counting, with the theorems on finite sets: the stored channels and the connections between the
  check of the quota and the insertion stay together below the limit plus the number of goroutines.
* `ConnectedOnceUnlessRacedHolds`. `Alone`: an account neither raced nor harmed has at most one channel, at most one
  connection past the lookup, and no channel until that connection inserts one.
* `ConnectedOnceHolds`, under `~Faults` and `[]ConnectedApart`: nothing is then raced or harmed (`NobodyHarmed`).
* `FailureCanBeRetriedHolds`, under `~Faults`, and `CheckedEndsWrittenHolds` without it, both with `CredentialStore =
  "port"`: action by action, where a connection that has passed its checks may end.
* `NoCredentialsKeptHolds`, which assumes `CredentialStore = "stub"`, the program as it is wired.

`RateLimiterProofs`
* `TypeCorrect`, with `Counted`: calls are numbered from one, so equal instants of a bucket stay apart.
* `EveryRouteBoundedHolds` and `WindowImplemented`. `RecentAreKept`: an instant the shortest window has not left is in the
  bucket, for a bucket only loses what the window of some route has left; so a route that finds room in the bucket has
  room in the log of the shortest window (`LogWithinBucket`), whatever its own window is. `ShortestWindowKeptHolds` is the
  case of a route with the shortest window, `EveryWindowKeptAlike` the case where all are the shortest.
* `BucketBoundedHolds` follows from the test before each append.

`MembershipsProofs`
* `TypeCorrect`; `OneOwnerHolds`: no row but the founder's is ever written with the role of owner;
  `AcceptedGaveItsRoleHolds`, with `AcceptsItsOwn`: an acceptance stores the member before the invitation, and works
  for the user the invitation names.
* `RoleWithinInvitersHolds`. `InvitersMay`, `InvitationsAreAllowed`: what a running invitation carries, and what a stored
  one offers, is no higher than the inviter, who is a manager at least and stays what he is.
* `DelegationImplemented`, from the same invariant: the member who witnesses that the role may be handed out is the
  inviter, so a check that is days old is as good as one at the insertion. This is what would break first if a use case
  removed members or changed their roles.
* `OnePendingUnlessRaced`, under `[]InvitedApart`, with `FoundNone`: while a request is past its look, no invitation of the
  address is pending. `TerminalUnlessRaced`, under `[]AcceptedApart`, with `AnswersPending`: the row an acceptance writes
  over is the pending one it read. `AlreadyMemberMeansMemberHolds`, under `Absent = "ErrNotFound"`.
* `MemberOverrunHolds`, for finitely many acceptances at once. `OverrunInv` counts the members and the requests about to
  insert one together; `MemberLimitKeptAlone` is the case of one.

`WorkspaceBrandsProofs`
* `TypeCorrect`, in both readings of the store; `AssignedByAnOwnerHolds`, with `GrantersMay` and `OwnersAreRecorded`: a
  running assignment was allowed when it was checked, and who was assigned as owner is on record for good.
* `DeletionArchivesHolds`, which assumes `~Faults`. `StillListed`: a brand that is active while a deletion works through
  its list, and that nobody else has written since, is still on the list, read as active.
* `DeletionEndsStoredHolds`, which assumes `~Faults`: what leaves the list or the loop is the last write
  (`DeletionIsLeftByItsSave`).
* `NothingIsDeletedByPostgres`, under `Store = "postgres"`. `ActiveRows`: the rows the updates will write back are active too.
* `ArchivedBlocksApart`, under `GrantedApart`. `GrantedWhileActive`: the brand a request was let through for is active;
  only such a request inserts (`AppearsByInsertion`).

`PermissionsProofs`
* `TypeCorrect`; `InactiveActsNotWhereAskedHolds`, with `AdmittedIsActive`: what the middleware has seen of workspace and
  member is still so when the use case decides, since no use case of the code changes it.
* `PromotionLosesNothingHolds`, from
  `HigherRoles`: both levels of decision grow with the role, although one lists roles and the other compares levels.
* `BrandNamedNeedsAdminHolds`. `MemberIdInv`: nothing is ever stored under the id of a member, for rows are stored under ids
  of users, which differ; so a lookup by the id of a member finds no role, in the middleware and in the use cases that use it.

Model-checked only: the liveness properties (`EveryVariantIsAttempted`, `DisconnectionIsStored`, `DeletionIsStored`,
`CheckedIsConnected`), for leads-to under fairness is out of the prover's reach. The safety half of each is proved: the
only way a request can end is the one the property promises (`TargetsAreAttemptedApart`, `DisconnectionEndsStoredHolds`,
`DeletionEndsStoredHolds`, `CheckedEndsWrittenHolds`); that it does end is what fairness adds and TLC checks. Every other
property of a passing run is a theorem; those that hold under a hypothesis (`~Faults`, one worker,
`VersionRule = "postgres"`, `CredentialStore = "port"`) name it, and are checked by a run that satisfies it.

The hypotheses of the theorems are of four kinds: the named assumptions of the modules; values of a constant that a run
also uses (`Faults`, `Crashes`, `VersionRule`, `Absent`, `Store`, `CredentialStore`, one worker or acceptance), or the reading
of the schema or of `notimpl.go` no run uses (`~VariantStorable`, `CredentialStore = "stub"`); finiteness of a set that is counted; and the
conditions `...Apart` of section 4 on how requests overlap, which stand in the theorem as a formula beside the
specification: they restrict its behaviours, and leave its constants and actions as they are.

## 6. Plan

Done: the modules of section 2, in the order publication, approval, sessions, memberships, brands, connections,
middleware, limiter, permissions; the theorems of section 5, every safety property of the runs among them.

Next, proofs: the composition of `SessionGate` with the bound on active sessions (a request of a user with the second
factor is served by one session per exchange, under `ExchangedApart`); an abstract specification of `ChannelConnection`
(an account is free, being written, connected) for the behaviours `ConnectedApart` describes, with the refinement; an
abstract table of assignments for `WorkspaceBrands`, in the manner of `Delegation`.

What could follow, as the code grows: a `MediaPipeline` (upload, scan, quarantine, attachment to posts) once the scan
has a consumer in the repository; suspension and restoration of a workspace, with `Permissions` over them, once a
use case performs them; the cascade of a deletion over the sessions of its members, composed with `SessionGate`.
