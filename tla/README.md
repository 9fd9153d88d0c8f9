# NDY HUB in TLA+

Specifications, model-checking configurations and machine-checked proofs about
the Core API (`src/apps/api`) and the browser application in front of it
(`src/apps/web`).

The API is a NestJS process over PostgreSQL. Its handlers are `async`: between
two `await`s nothing else runs in the process, but any other request may run at
each of them, other replicas may run at any time, and a query may throw or the
process restart anywhere. The modules of the API therefore share one reading of
the code: **one database statement (or one `$transaction`) is one atomic step; a
value read in one step may be stale in the next; a handler may end at any step
(`Abort`, `Cut`).** What a handler has read so far is a record `job[h]` whose
`pc` is the statement it will run next.

The browser is one thread of callbacks. A click starts a call and disables what
the page disables; the API serves calls in any order; answers come back in any
order, or never. The modules of the pages share the second reading: **a click,
the serving of a call and the handling of its answer are each one atomic step;
an answer was true when it was served; a call that fails may have been
served.** What was asked, and answered, is a record `call[c]`.

## 1. Inventory

| Part | State it keeps | Operations | What makes it correct |
|---|---|---|---|
| Sessions, OAuth refresh tokens | `Session`, `OAuthRefreshToken` rows | issue, rotate, reuse kill, logout, revoke | a sign-in has one live token; what is over stays over |
| Device registry | `Device` rows | resolve, un-revoke, revoke one / all | revoking a device revokes what is tagged with it |
| Suspension, deletion | `User.suspended`, `deletedAt` | set, clear, delete | the account is out, and stays out |
| Role changes | `User.role`, `RoleChangeRequest`, `AuditLogEntry` | propose, approve, reject | two different people behind each grant; one outcome per request |
| QR login, new-device approval | `LoginRequest`, `DeviceApprovalRequest`, a socket room, the hook's phase | create, approve, deny, expire, exchange, poll | one decision, one session per approval; nobody waits for ever |
| Document signing | `SignatureRequest`, `SignatureRequestSigner`, `Signature` | create, sign, decline, revoke, re-attest | SIGNED means every signer signed; outcomes and proofs are final |
| Two-factor authentication | `User` columns, `TotpBackupCode`, the challenge | set up, confirm, disable, challenge | codes and challenges work once; what is on was proven |
| Sign-in methods | passwords, `AuthIdentity`, `Passkey`, one-time rows of redirects | link, unlink, register, remove | rows work once; an account keeps a way in |
| OAuth provider | `OAuthClient`, `OAuthGrant`, `OAuthAuthorizationCode` | consent, exchange, disconnect | a code works once, for its client and verifier, with the scopes consented to |
| Assurance | `User.verificationLevel`, `IdentityVerificationRequest`, `TrustProfile` | verify e-mail, phone, identity; recompute | a level is earned and never drops; the profile catches up |
| Action engine, context broker | `ActionApproval`, `ActionLogEntry`, `AiAgentConsent` | submit, approve, deny, execute | nothing runs unauthorised; a key runs once; the log tells the outcome |
| Memberships, purchases | `Membership`, `ProcessedStripeEvent`, `CryndyPurchase` | subscribe, cancel, webhooks | one active membership; a row says what was reported |
| Rewards, bridge | `NdybitsLedgerEntry`, `NdyEconomyEventLog`, `BridgeRequest` | report, credit, request | daily limits; ledger and log agree |
| Workspaces | `Workspace`, `WorkspaceMembership`, `WorkspaceInvite`, `BusinessWorkspaceRequest` | invite, accept, revoke, approve | members were invited; one personal workspace |
| Events, notifications | `EcosystemEvent`, `Notification` | report, forward, follow, notify | nothing twice, nothing lost |
| NDY Space | `Email`, `EmailRecipient`, `DriveFile`, tasks, notes, contacts, events | send, save, move, delete, upload | what was delivered stays; a draft is sent once; the quota |
| QR codes, photos | `NdyQrCode`, `NdyQrScan`, files in the photo store | create, change, visit; upload, replace, erase | a printed code keeps its owner; the photo is there |
| Browser session | cookies, `refreshInFlight`, `AuthContext` | fetch with one retry, refresh, login, logout | signed out stays out; one refresh at a time |
| Pages and forms | component state | load, act, reload; open, fill in, submit, close | the screen is what the API has; saving changes what was typed |

How they interact. Every way of signing in ends in `SessionService.issueSession`
or `OAuthTokenService.issueTokenSet`, and both first call
`DeviceService.resolveDevice`. The security page, admin suspension, password
reset and account deletion reach into the token tables from the other side. QR
login and OAuth consent are approved by the bearer of an access token, a
stateless JWT that no revocation reaches. Roles are read from the database at
each request by `PermissionGuard`. The verification level is written by three
services and read by the trust score. Reported events are logged, then forwarded
to the reward engine, which writes ledger and log of its own. Stripe, the presale
site and the backup job call in from outside and repeat what was not answered.
The pages know the API by its answers only; several pages use both copies of the
fetch code, which share the cookies and nothing else.

What is hard: check-then-write without a condition in the write (rotation, role
approval, expiry, signing, reviews, invites), limits that are counted and then
used, parallel branches (`Promise.all` in `revokeAllSessions`), lists read before
the transaction that uses them, rows inserted after a sweep by a handler that was
past its check, file and row changed one after the other, lost or late socket
events racing a poll, answers that overtake each other, forms closed while their
call goes on, and crashes between statements that belong together.
`PROJECT.json` lists each at its line under `hazards`.

## 2. Modules

| Module | Models |
|---|---|
| `Credentials`, `CredentialsProofs` | both token tables, devices, suspension, deletion, passes that are redeemed for a session, sign-out of all devices |
| `RoleChange`, `RoleChangeProofs` | dual approval of role changes behind the permission guard |
| `LoginTicket` | the abstract one-time ticket a login request promises to be |
| `QrLogin`, `QrLoginProofs` | the login request, NDYAPPS, the socket, the poll and the browser hook; implements `LoginTicket` |
| `DeviceApproval` | the approval of a new device; implements `LoginTicket` |
| `Signature` | document signing |
| `ActionEngine` | requests, approvals and execution of actions; consents for AI agents |
| `TwoFactor`, `OAuthProvider`, each with its `...Proofs`, and `Accounts` | second factors; consent, grants and codes; the ways into an account |
| `Assurance`, `TrustScore` | the verification level, its reviews and the trust tier; the score as a function of the facts |
| `Workspaces` | personal and business workspaces, invites |
| `Membership`, `Purchases`, `Rewards`, `Bridge` | subscriptions with Stripe's webhooks; presale purchases; NDYBITS; bridge requests |
| `EventLog`, `Notifications` | the ecosystem event log with its consumer; notify and its e-mail |
| `Mail`, `Drive` | NDY Space mail and files at the API |
| `NdyQr`, `Photo` | QR codes with their visits; profile photos |
| `BrowserSession` | cookies, retries, the shared refresh, login and logout in the browser |
| `MailPage`, `Compose` | the mailbox; the form a message is written in |
| `Lists` | two dozen pages that list rows and act on them |
| `Editors`, `EventTimes` | the dialogs that create and change rows; the times of a calendar event |
| `SettingsPage`, `SignInForm` | the settings; sign-in, registration and password reset with their codes |
| `MCCredentials`, `MCRoleChange`, `MCQrLogin` | symmetry for TLC |
| `MCHoldings`, `MCAccounts`, `MCPages` | several components, explored one at a time |
| `MCAccountsProofs` | proofs about `MCAccounts` and the parts of it that have no module of proofs: `ActionEngine`, `DeviceApproval`, `Accounts`, `Workspaces`, `Assurance`, `TrustScore`, `BrowserSession` |
| `MCHoldingsProofs` | proofs about `MCHoldings` and all its parts: `Signature`, `Membership`, `Purchases`, `Rewards`, `Bridge`, `EventLog`, `Notifications`, `Mail`, `Drive` |
| `MCPagesProofs` | proofs about `MCPages` and all its parts: `Compose`, `MailPage`, `Lists`, `Editors`, `SettingsPage`, `Photo`, `EventTimes`, `SignInForm`, `NdyQr` |

Definitions used only to state a property that the code could break (the
"mutants", each marked as such in a comment) stand directly before the
definition they deviate from; no action uses them. Variables marked *history*
are read by no guard of the code's: they remember what a property needs.

The three composed modules hold components that share no table. They EXTEND one
and INSTANCE the others (where there are proofs, their module of proofs) over
variables `x1, x2, ...`; `part` says which one moves, and is chosen in the
initial state. A behaviour of `MCHoldings` is a behaviour of one of its parts,
and each of its properties says of each part what the part's module states. What
components do *to each other* is inside one module: the sweeps of sessions in `Credentials`, the socket and the browser in
`QrLogin`, consents in `ActionEngine`, the forward of an event in `EventLog`.

### Credentials

`row` is the union of the two token tables (`kind` says which), `device` the
`Device` rows per user and client id, `access` the accounts with an unexpired
JWT, `pass` anything that is redeemed once for a session or a token set
(two-factor challenge, social exchange code, approved QR request, authorization
code, e-mailed verification code), `job` the handlers, `sweep` a "sign out of
all devices" call with its two parallel branches. `forked` and `straggler` are
histories: families in which two refreshes overlapped, and rows inserted under
a device that was revoked by then.

| Action | Code |
|---|---|
| `SignIn`, `GainPass`, `ApprovePass`, `SendVerification`, `RedeemPass` | `AuthService.login`, the password grant, passkeys, social login, 2FA, QR exchange, authorization-code grant, e-mail confirmation |
| `RefreshCheck`, `RefreshRevoke` | `rotateSession`, `rotateRefreshToken`: read and check, then revoke by id |
| `ReuseDetected` | a revoked OAuth token presented again |
| `ResolveDevice`, `UnrevokeDevice`, `CreateRow` | `resolveDevice` and the insert, common to all |
| `Logout`, `RevokeSession`, `RevokeConnection`, `RevokeDevice`/`DropDevice` | logout and the security page |
| `SignOutAll`, `SweepSessions`, `ListDevices`, `SweepDevices`, `SignOutAllReturns` | `revokeAllSessions` and `revokeAllDevices` |
| `Suspend`, `ResetPassword`, `KillSessions`, `Unsuspend`, `DeleteAccount` | admin, password reset, deletion |
| `RowExpires`, `AccessExpires`, `PassLapses` | time |

Abstracted: token strings and hashes (a row is its token), JWT contents,
expiry times (any live row may expire at any time), meta data of the request,
the password itself. A reset e-mail is always available to its owner.

### RoleChange

`role`, `request` and `audit` are the tables. `job` holds the actor, who was
admitted by the guard with the role held *then*, and the target's role as read
by `create`. `seeded`, `approvers`, `drifted` and `contested` are histories. The
nine roles are reduced to three, since the code only tells FOUNDER,
SUPER_ADMIN and "does not hold MANAGE_ROLES" apart.

### QrLogin, DeviceApproval and LoginTicket

`status`, `overdue`, `owner` and `issued` are the row; `wire` what was published
to the room; `phase` and `conn` the hook. `Publish` lets any status be lost and
`SocketEvent` delivers what was not lost in any order. `ticketOf` maps the row
to the ticket: `issued` is redeemed, `DENIED`/`EXPIRED` are closed. The
refinement shows the conditional `updateMany`s do their work in spite of the
unconditional expiry, of the deny whose count is not checked, and of handlers
that end half-way. `DeviceApproval` implements the same ticket without a
redemption; its `decided` remembers whether the code that was compared matched.

### Signature

`slot` and `sig` are the signer and signature tables; `lapsed` the requests whose
deadline has passed. A signer's link expires with its request, so the check that
marks a request EXPIRED is only reached when the deadline passes between two
reads of the clock (`LoadAtDeadline`). `contested`, `interrupted` and `retried`
are histories of overlapping and aborted calls.

### Assurance and TrustScore

`level`, `code`, `email`, `sms`, `identity` are columns of `User`; `review` the
identity requests; `profile` the trust tier. Every handler is a read
(`StartConfirm`, `StartSms`, `StartApprove`, ...) and a later write (`Confirm`,
`EnableSms`, `CommitApproval`, ...) with what was read in `job[h].seen`; the
recomputation (`ReadUser`, `UpsertProfile`) follows the two writes that ask for
it. `vouched` stands for a `business_verified` claim, which the code reads and
never writes. The score is `TrustScore`: a function of the facts, whose steps are
the ways in which the facts change. A fact in its favour never lowers it, time
alone forgives every penalty, and the sum stays between 0 and 100.

### ActionEngine

`log` and `approval` are the two tables by idempotency key (the key and the
log id are unique, so one key has one of each); `overdue` the approvals whose
48 hours are over; `consent` one user's grants. What the domain service is made
to do is outside the engine's transaction and appears as the history `ran`.

| Action | Code |
|---|---|
| `Submit`, `Authorize`, `Refuse` | `submit`: look the key up, authorise and validate, or `reject` |
| `WritePending`, `AskApproval` | the log entry and the approval, two statements |
| `Run`/`RunThrows`, `Note`/`NoteThrows` | `execute`: the work, then the log entry, both in one `try` |
| `Resolve`, then `Approve`, `Deny` or `Expire` | `resolveApproval` |
| `Grant`, `Revoke` | `ContextBrokerService` |
| `Lapse`, `Abort` | time; a throw or a restart |

Everything a request can be turned away for is `Refuse`. Consent scopes are
modelled by the actions they cover. `ForAgents` is a constant because the four
actions registered today need scopes no consent maps to, so that no agent may
ask for any of them. Anybody signed in may resolve an approval, as in the
controller.

### TwoFactor, Accounts, OAuthProvider

One account (`TwoFactor`) or one user (`OAuthProvider`), since rows of different
users never meet. A call reads the user once and commits without looking again,
except where it redeems a backup code or a challenge. Codes are right or wrong;
secrets, challenges, codes and provider states are values of a supply. `Accounts`
names an account by its address and has the three kinds of one-time row in `row`.
`OAuthProvider` abstracts PKCE to a verifier that matches or does not, and leaves
token families to `Credentials`.

### Memberships, purchases, rewards, bridge, workspaces, events, notifications

`Membership` has Stripe as an external that changes a subscription and delivers
its event until it is answered; `FirstDelivery` is the `ProcessedStripeEvent`
insert, and a restart after it loses the event. `Purchases` inserts and then walks
the stages by one conditional update each. `Rewards` and `Bridge` count and then
use; `shared`, `torn` and the handlers in flight are what the limits may be
exceeded by. `EventLog` gives each row a stamp before it is visible, and a
consumer that keeps a cursor. `Workspaces` reads, checks and commits each
resolution in separate steps. `Notifications` creates the row and then mails.

### Mail, Drive, Photo, NdyQr

`email` and `folder` are the two mail tables: a message is an `Email` row and one
`EmailRecipient` per mailbox. `kept` and `from` remember what was delivered to
whom and the draft it came from. `Drive` and `Photo` have the database and the
store side by side (`size`/`blob`, `photo`/`files`), changed one after the other.
`NdyQr` has codes by id with their slug, owner and destination; a visit reads the
code, answers, and records the scan in a step of its own.

### The pages

`Lists` says of a page which buttons an action disables, whether its answer is
patched in or the list read again, which list that is, and what hides the rows:
24 pages are 24 such records, translated from each page's component, and explored
one at a time over two rows and two calls. `Editors` does the same for ten
dialogs and the kinds of field they have: one sent as it stands, one left out when
it is empty, a date without its time of day. `MailPage`, `Compose`, `SettingsPage` and `SignInForm` are
pages with a protocol of their own. `EventTimes` is the conversion between wall
time and instants in zones with a change of the clocks, as the dialog does it.
`BrowserSession` lies beneath them all and is checked by itself: in the pages, a
call is answered, refused or fails.

## 3. Runs

| Run | Instance | Shows |
|---|---|---|
| `rotation` | 1 account, 3 rows, 2 handlers, no device | `OneLiveRowUnlessOverlap`, `OverStaysOver`, `LockedOutStaysOut` |
| `sign_out` | 1 account, 1 device, 2 rows, 1 handler, 1 sweeper | `SignOutAllSweeps`, `OnlyStragglersOutliveTheirDevice` |
| `role_change` | 2 admins, 2 requests, 2 handlers | `TwoFoundersBehindEachGrant`, `UncontestedOutcome`, `AuditShowsTheRoleReplaced` |
| `qr_waiting` | 2 requests, 1 user, 1 poll, 1 exchange, 1 NDYAPPS call | `WaitingEnds` (liveness) |
| `holdings` | nine parts; 2 users, 2 slots or subscriptions, 3 ids, 2 handlers | `SignedIsBacked`, `SlotsAreSignedOnce`, `SigningIsFinal`, `ContentStays`, `OneActiveUnlessCrossed`, `RowsMirrorReports`, `LimitsHoldButForTheRace`, `EventsAreAccountedFor`, `TypesOK` |
| `accounts` | eleven parts; 2 users, 2 ids of a kind, 2 handlers | `RunsAreAuthorised`, `WorkIsDoneOnceAndLogged`, `ActionsAreFinal`, `TicketsAreImplemented` (refinement), `UsedOnce`, `SomeWayIn`, `TokensWereConsented`, `AccessFollowsGrant`, `MembersWereInvited`, `OutcomesAreTold`, `LevelsAreEarnedAndKept`, `ProfileCatchesUp`, `ScoreIsCurrentConfidence`, `BrowserKeepsInStep`, `TypesOK` |
| `pages` | nine parts; 2 rows, files or messages, 2 calls | `DialogsAreTheirOwn`, `WhatIsWrittenStays`, `PagesTellTheTruth`, `ButtonsDoWhatTheySay`, `PhotosAndLinksLast`, `TypesOK` |
| `refresh_once` | as `rotation` | **violated**: a refresh token can work twice |
| `suspend` | as `rotation` | **violated**: a suspended account can get a live session |
| `downgrade` | 1 account, 2 requests, 2 codes, 2 handlers | **violated**: SMS set-up can take an account from level 3 back to 2 |
| `repeated_key` | 1 key, 3 actions, 1 agent, 2 handlers | **violated**: two submissions of one key can both do the work |
| `countdown_resend` | 1 account, 1 call, codes that last one second | **violated**: a code sent again does not restart its countdown |

Why the bounds are enough. All races are between two calls on one record, so
two handlers (or two calls of a page) and one record reach them; a third row lets
a family grow past a fork, and a second role request lets one approval change the
role another depends on. The second slot and third signature let two signers
finish at once and one sign again; three ids let a draft be sent while another
message exists and let a limit of one be passed by two; three events over two ticks of the
clock with pages of two let a late commit fall behind a cursor. Keys of the action
engine share nothing but the consents, so one is enough; its three actions are
low risk without a consent, low risk with one, and risky with one. Workspaces have
a third user who reviews and may be neither owner nor invited; invites offer the
role OWNER, which may do whatever another may. Second factors run
twice: two backup codes with one challenge, one code with two. A page of two rows
has one to act on and one to act on meanwhile; zones change their clocks by an
hour, forward or back, within the two days that are typed. The supplies and the
handlers are bounds, named as such where they are declared; when a supply is used
up the model stops, the system does not, so the runs say `CHECK_DEADLOCK FALSE`.
Interchangeable values are permuted (`SYMMETRY`) where a module does so and there
is no liveness; `qr_waiting`, `countdown_resend`, `downgrade` and `repeated_key`
run without, the last two on `Assurance` and `ActionEngine` as they stand.

How to read a property with an "unless". The code has races its authors accept or
have not met; a property that forbade them would be false, and one that ignored
them would show nothing. Histories therefore name the overlap, the cut or the
lost answer that excuses a deviation, for the record concerned and no other; the
property says nothing else can cause one. `contested`, `torn`, `crossed`,
`astray` and their like are set by the actions that bring the overlap about, and
each is small: where no two calls overlap and none is cut, nothing is excused.

Fairness (`QrLogin!FairSpec`). Node runs every continuation whose promise has
settled: weak fairness for the steps of an exchange, of the reply to it, and of
the interval timer, which `setInterval` keeps firing until `cleanup`. Time
passes (`TimePasses`) and the first `createLoginRequest` resolves or fails. A
poll may fail and is retried every three seconds by the interval; strong
fairness of its steps says that not every one of infinitely many polls fails.
Nothing is assumed of NDYAPPS, the socket or the user. Without the expiry the
property fails, which is what its mutant shows. No other module states
fairness: what it models is retried by nobody but the user, or by an outside
service it is not entitled to rely on.

### Where code and text differ

The violated runs are under `findings` in `PROJECT.json`, with the sentence of the
repository each disagrees with. The properties that *hold* around them say how
far each goes: rotation is single-use for every sign-in no two refreshes of which
overlapped; a suspended account with nothing live, pending or in flight stays
out; a key's work is done once unless two calls were past their check together
or one stopped between two writes; a countdown ends early only if the last answer
left its seed as it was, was lost or told of no code.

Met while modelling, stated where the module says so, and not run for their own
sake:

- The audit log's "before" value (`README.md:248`) is the role the target had when
  the change was proposed: `AuditShowsTheRoleReplaced` says when that differs.
- A deny that overlaps an approve answers 200 and publishes DENIED
  (`NDYAPPS-INTEGRATION.md:104` promises a 409); the row is not affected.
- A recipient may move a delivered message to DRAFTS, after which draft operations
  rewrite or delete the `Email` others hold
  (`schema.prisma:1075` says a draft has no other recipients):
  `Mail!DraftsHaveOneRow` does not hold.
- A draft that is opened again has lost its attachments in the form, and sending it
  drops them: `Compose!DraftsComeBackWhole` does not hold.
- The form that shows one-time signing links is closed by the very answer that
  brings them: `Lists!OnceShownIsSeen` does not hold.
- `zonedWallTimeToUtcIso` says "one pass is enough"; within hours of a change of
  the clocks it is not: `EventTimes!OnePassIsEnough` does not hold.
- `listSince` promises a consumer no gaps; an event that commits after a later
  stamped one was read is a gap: `EventLog!GapsComeOfOverlap` says that this is the
  only kind: the missed event was being inserted when one that was read became
  visible.
- The settings say of deletion that profile, e-mail and password are wiped; the
  erasure leaves the photo's file in the store and the account's bio, country,
  phone, links and QR codes in the database. `Photo` shows the file.

## 4. Proofs

For every number of accounts, devices, rows, requests, keys, codes, calls and
handlers, and every limit. The second column names theorems of the form
`Spec => []P`, for an action property `Spec => [][A]_vars`; the third says what
`P` is. Every safety property that a run checks is proved, in every run; what a
theorem states of a composed module (`PartSpec`) it states of whichever part moves.

| Module | Theorem | States |
|---|---|---|
| `CredentialsProofs` | `SingleLiveRow` | `OneLiveRowUnlessOverlap` |
| | `OverIsOver`, `OutIsOut` | `OverStaysOver`, `LockedOutStaysOut` (actions) |
| | `RevokedDevicesAreSwept` | `OnlyStragglersOutliveTheirDevice` |
| | `SignOutSweeps` | `SignOutAllSweeps` |
| `RoleChangeProofs` | `TwoFounders` | `TwoFoundersBehindEachGrant` |
| | `LoneFounderStaysAlone` | `LoneFounderCannotPromote` |
| | `OneOutcome`, `AuditIsTrue` | `UncontestedOutcome`, `AuditShowsTheRoleReplaced` |
| `QrLoginProofs` | `TicketIsImplemented` | `Ticket!Spec`: the refinement of `LoginTicket` |
| `TwoFactorProofs` | `FactorProven`, `OneSession` | `FactorWasProven`, `FactorsBuyOneSession` |
| `OAuthProviderProofs` | `ConsentBehindTokens`, `DisconnectingCuts`, `ConsentsAreKept` | `TokensWereConsented`, `AccessFollowsGrant`, `NoConsentIsLost` |
| `MCAccountsProofs` | `AuthorisedRuns`, `OnceAndLogged`, `FinalActions` | `RunsAreAuthorised`, `WorkIsDoneOnceAndLogged`, `ActionsAreFinal` (action) of `ActionEngine` |
| | `RowsOnce`, `WaysIn` | `RowsWorkOnce`, `SomeWayIn` of `Accounts` |
| | `DeviceTicketIsImplemented` | `D!Ticket!Spec`: `DeviceApproval` implements `LoginTicket` |
| | `TicketsImplemented` | `PartSpec => TicketsAreImplemented` |
| | `OneUse`, `WayIntoEveryAccount`, `ConsentBehindTokens`, `DisconnectingCuts` | `UsedOnce`, `SomeWayIn`, `TokensWereConsented`, `AccessFollowsGrant` of `PartSpec` |
| | `InvitesAreBehindMembers`, `RowsTellOutcomes` | `MembersWereInvited`, `OutcomesAreTold` of `PartSpec` |
| | `LevelsEarnedAndKept`, `ProfilesCatchUp` | `LevelsAreEarnedAndKept` (action), `ProfileCatchesUp` of `PartSpec` |
| | `ScoresAreConfidence` | `ScoreIsCurrentConfidence` of `PartSpec` |
| | `BrowserInStep` | `BrowserKeepsInStep` of `PartSpec` |
| | `EngineRuns`, `TypesCorrect` | `PartSpec => Spec`; `TypesOK` of `PartSpec` |
| `MCHoldingsProofs` | `SignedRequestsAreBacked`, `SlotsOnce`, `FinalSignings` | `SignedIsBacked`, `SlotsAreSignedOnce`, `SigningIsFinal` (action) of `Signature` |
| | `ContentIsKept` | `ContentStays` of `PartSpec`: mail and files |
| | `OneActive`, `ReportsAreMirrored` | `OneActiveUnlessCrossed`, `RowsMirrorReports` of `PartSpec`: memberships, purchases |
| | `LimitsHold` | `LimitsHoldButForTheRace` of `PartSpec`: rewards, bridge, quota |
| | `EventsAccounted` | `EventsAreAccountedFor` of `PartSpec`: rewards, events, notifications |
| | `SigningRuns`, `TypesCorrect` | `PartSpec => Spec`; `TypesOK` of `PartSpec` |
| `MCPagesProofs` | `ScreensAreTrue` | `PagesTellTheTruth` of `PartSpec`: lists, mailbox, settings, countdown |
| | `ButtonsActOnce` | `ButtonsDoWhatTheySay` of `PartSpec`: lists, mailbox, sign-in |
| | `FormsAnswerForThemselves` | `DialogsAreTheirOwn` of `PartSpec`: messages, dialogs |
| | `SavingKeeps` | `WhatIsWrittenStays` of `PartSpec`: attachments, fields, times of events |
| | `PhotosAndCodesLast` | `PhotosAndLinksLast` of `PartSpec`: photos, printed codes |
| | `TypesCorrect` | `TypesOK` of `PartSpec` |

The modules of proofs of one component also have `TypeCorrect`, `Spec => []TypeOK`,
and those of the composed modules `PartsInvariance`: the inductive invariant of
the part that moves.

*Assumptions.* That `None` is none of the values it stands in for, that the sets
of calls of different kinds are disjoint, that the subsets of the constants are
subsets (`Reviewers`, `Offered`, `LowRisk`, `ForAgents`, `Public`, `Mailed`), that
the mailbox has the tabs INBOX and TRASH, that a zone is less than half a day from
UTC and what is typed of an event a date and a time of day, that bounds, amounts and limits are numbers, that there is room for the one device an
account may begin with (`BoundsAreNumbers`), and, where something is counted or
summed, that there are finitely many of it (`HandlersAreFinite`, `FilesAreFinite`,
`BoundsAreFinite`). They are named where the constants are declared; `MCAccounts`,
`MCHoldings`, `MCPages` and `MCQrLogin` assume them of their instances (`ConstantsAreSound`),
so that TLC evaluates them, and a theorem about a module that is instanced has
them as hypotheses.

*Parts.* `MCAccounts`, `MCHoldings` and `MCPages` INSTANCE their components over `x1, x2, ...`,
and a proof is about the names it is written with. A component with a module of
proofs is instanced with it, and `PartsInvariance` cites its lemmas (`Q!StepInv`,
`O!NextInv`). The others are proved under the names they have in the composed
module (`W!Inv`, `x7` for the calls of `Workspaces`). `Parts` says that the part
that moves keeps its invariant; every property of the run follows from it. Where
a component's own limits matter (`Quota`, `DailyCap`, `Take`, `Ttl`, `Zones`) they are constants
of the composed module, so the theorems fix none of them. The invariants of the
parts stand at the end of their modules, as `Inv`.

*Rotation.* `OneLiveRowUnlessOverlap` is not inductive: between the revocation
of the old row and the insert of the new one nothing in the tables says that
the family is being refreshed. `Lineage` strengthens it: in a family no two
refreshes of which have overlapped, at most one handler is refreshing, and
once that handler is past the revocation no row of the family is live.
`WellFormed` says which rows a handler in progress refers to. Most actions only
shrink the set of live rows (`ShrinkKeepsInv`); the four that do not are treated
one by one.

*Sign-out of all devices.* Three writes in two parallel branches, with any number
of calls in between. `Sweeping` says of each row that was there when the sweep
began which of the branches has still to end it (`SweptSoFar`): none once both
are through, which is `SignOutAllSweeps`.

*Signing.* `SignedIsBacked` needs to know that a handler about to mark a slot has
created the signature and one about to flip a request has seen every slot
marked (`Working`), and that no slot is added to a request that exists
(`SlotsBelong`). Every action leaves the tables in the relation `Kept`, from
which all else follows. The rest is `InOrder`: of a request that no conflicting
calls met on, how far the call at work on it has come (`Tidy`, `Peaceful`,
`Single`), and that as long as all its slots are signed and it is pending somebody
is about to count or flip (`Awaited`) - which is why of two signers who finish at
once, each of whom may count the other's slot, one flips the request, contested
or not.

*Roles.* Roles change between the check and the commit, so the invariant speaks
of who has *ever* been a Founder, a set that only grows: the proposer of every
restricted request and every handler past its Founder check are in it
(`Entries`, `Working`). A database that started with one Founder has one for
ever, since the second signature is somebody else's (`Origin`,
`NothingGranted`). Each step leaves old requests as they are (`Kept`) and
justifies what it adds (`Justified`); the invariant follows from these two.
`Reviews` says how far status, role and log of a request agree at each step of
its review. `LoneFounderCannotPromote` is proved and not run: no instance says
more than the proof.

*Tickets.* A login request is redeemed by a call that read it some awaits ago. The
invariant says that an approver read together with APPROVED stays its owner
(`Reader`), and that of a redeemed request one call at most still owes the
session (`Redeemed`). Each step then moves one request at most, in one of the five
ways the ticket knows (`Moves`). For `DeviceApproval` it is enough that an approved
request was approved by its owner with the code shown (`Genuine`).

*Second factors.* A set-up confirms the secret it read: `Orderly` says that it is
the one stored as long as no two set-ups overlap. `Pays` counts who owes a session
for a challenge, `Held` who holds a backup code that has bought nothing yet.

*Ways in.* `unlinkAccount` counts the other ways in and deletes later. `Knows` says
the count stays right: only calls that unlink take a way in away, and of two of one
user the property knows (`OverlapIsKnown`).

*Consent.* Behind a token stands what the call knew when it exchanged the code
(`Calls`), behind a code what was approved (`CodesStand`); `Cut` says which of the
things that may still become a token have their grant.

*Actions.* The check, the approval and the work are statements of different
calls. The invariant follows the authorisation: through the handler
(`Working`), into the log entry, whose request never changes (`Entries`,
`EntryKept`), and out of it again into the handler that resolves the approval.
`InOrder` says of a key no two calls of which overlapped what each stage of the
one call may rely on, and of a key nobody is at that the log tells what was done.

*Workspaces.* A resolution commits without looking again. `Working` says what it
found and what of it still holds unless the row is contested; `Apart` that of two
calls past the check of one row the row is contested; `Entries` and `Joined` keep
the tables closed (a workspace not made has nobody in it; who joined by an invite
is a member). `OutcomesAreTold` then is inductive with them.

*Levels.* The writers of `verificationLevel` write one more than what they read.
`Working` says that what they read is still the level, `Apart` that two of them are
on different accounts - or that the account is one that was raced on (`raced`),
or recomputed meanwhile (`torn`).

*The browser.* A copy of the fetch code refreshes for all its calls (`Refreshing`),
with a row nobody has been told of once the answer is on its way (`Fresh`,
`Brought`); if the token in the jar was rotated by a copy, that copy waits for the
answer (`Rotated`), so that nothing sends the dead token again from there. Beside
an undisturbed logout, and after it, no cookie is on its way (`Leaving`), and once
a login found its session no older question is unanswered (`Entering`).

*Trust score.* Each part of the score lies within bounds of its own, which with the
baseline of 50 come to 100 at most and, less the penalties, to 11 at least; so the
scale never cuts anything off (`TrustWithinTheScale`). No fact in favour lowers a
part, and no two parts move against each other; so comparing two scores is
comparing them part by part.

*Sums.* The quota and the bridge's daily limit add up sizes and amounts over finite
sets. The library folds with a CHOOSE of the next element; that the order does
not matter is an induction over the set, made without an induction theorem: of
the subsets for which the claim fails take a least one (`LeastSubset`, from the
well-founded ordering of finite sets), take an element out, and it holds again.
`SumTake`, `SumChange` and `SumBound` are all the parts need.

*Limits.* One call at a time fits below the limit; each of the others that passed the
check too adds one amount at most. So of what stands and what is about to be
added together the limit can be exceeded by one amount for each further handler:
`LimitHoldsButForTheRace` is inductive as it stands, `CapHoldsButForTheRace` with the
finiteness of what is counted. An upload that was alone past the check still fits
(`UploadFits`), which makes `QuotaHoldsButForTheRace` inductive.

*Memberships.* Who is about to insert a row has cancelled what was active, and
nobody else is about to for the same user, or the two crossed (`Apart`). An event
is recorded before it is handled, by one handler (`Reported`, `HandledOnce`), so the
rows of a subscription tell which of its events are done with (`RowsTell`).

*Purchases, rewards, notifications.* Whoever inserted the row is the one who goes on
with it (`Walks`, `Reporting`, `Delivering`): the unique key admits one, and the
others stop.

*The event log.* A consumer has been given its cursor's event and nothing beyond it
(`Consuming`). That a gap comes of an overlap alone was not inductive: a missed
event must have been stamped before, and seen while, one that was given became
visible (`GapsComeOfOverlap` says so now, and is stronger than it was).

*Mail and files.* `Placed` says in whose mailboxes a message is as long as it was
neither altered nor deleted, `Sent` that a draft has one message, or one call at
work that will deliver it, or was cut. A row that is being inserted has its blob,
and nobody else has it (`Handling`); so a listed file opens.

*Lists.* The invariant is about any page record, and the two dozen pages are checked
against what it asks of one (`PageIsSound`, a fact about each). Answers are pairs:
`<<c, k>>` when `c` was served no later than `k`, which is all that is ever asked of
the order and can be reasoned about where a sequence could not. Where a page reads
its list again, a list that is not up to date is followed by a load the page will
use, or by an action that leads to one (`ReadAgainInTime`). Where it patches the
answer in, the last word on a row is the API's: what an answer says of it is true or
a later answer is still to come (`PatchesAreFresh`), and what was done to a row finds
it in the list (`RowsAreThere`, `RowsAreShown`). A row is disabled or was released
early, and only while an answer that enables it is awaited (`RowsAreHeld`).

*Forms and dialogs.* The open one has one call at most and is busy during it; a call
without its dialog means that one was closed meanwhile; and one that was taken
without doubt is about to be closed by the answer (`OneCallEach`, `TakenIsAnswered`,
`CallsAreItsOwn`, `TakenOnce`). What no one typed in goes through `Filled` and `Sent`
and comes out as it was (`FieldsHold`).

*The mailbox.* What was once seen in the trash is there, deleted or restored
(`TrashIsKnown`), so deleting it for good is what the page said. A load nothing
crossed brings what its folder holds (`LoadsAreFresh`), and the list differs from
that only by what is still to leave it (`ListIsCurrent`).

*Settings and sign-in.* The profile differs from the account by what a served call
has yet to say, or by codes still to be noted down (`FactorIsKnown`). A disabled
button waits for a call or for the page to be left (`ButtonsWait`), and a countdown
covers its code unless the answer that tells of it is on its way (`CodeIsCovered`).

*Times.* A dialog no one touched shows its event (`ShowsTheEvent`); away from the
change of the clocks the one correction `ToInstant` makes undoes `Wall`.

*Photos and codes.* An upload has a photo of its own in the store, which no account
had and no other upload will remove (`NewPhotosAreFresh`), and the photo of the
account is the one it began with unless another overlapped (`OverlapsAreLate`).
`NothingIsLeftOver` came out stronger: it used to leave out the photos that uploads
underway are to replace. Calls write to codes of their owner (`WritersAreOwners`), a
slug leads to the owner of its code unless one was removed (`LedToTheOwner`), and
visits are recorded, failed or under way (`VisitsAddUp`).

What stays with TLC, and why.

- Liveness (`WaitingEnds`) and the five violations: ENABLED and fairness are out of
  the prover's reach, and a counterexample needs no proof.
- Whether the parts are alive at all: that every action of every part is taken is
  what the runs show, and that the invariants are not vacuous their mutants.

## 5. Not modelled

- Reads and listings beyond the list a page shows; searches within it; analytics
  series; the founder dashboard, documents, transactions, the activity feed.
- E-mail, SMS, push and geo-IP I/O; OIDC key material, discovery and userinfo; the
  rendering and caching of QR images; the passport's PDF; backfill scripts.
- Pages that only show something: the landing and documentation pages, the
  dashboard's widgets. Of modelled pages: the passkey button of the sign-in form
  (its ceremony is in `Accounts`); the detail pane of the user management, in which
  a late answer may show one user's details under another
  (`user-management-panel.tsx:75-84`).
- Fields no property tells apart: stars, read marks, colours, labels; that an
  `expiresAt` once set cannot be cleared; a calendar update of one end only, which
  the API accepts and no page sends; the QR codes of OAuth clients, which nothing
  changes or deactivates once made.
- New-device approval is modelled in full, though no sign-in asks for one today:
  the flag that would is never set.

Each component is listed in `PROJECT.json` with its status.

## 6. Plan

Every safety property of a run is proved. Where code remains: the detail pane and
searches of the admin pages, the dashboard's widgets as lists without actions, and
a sign-in composed end to end, from `SignInForm` through `TwoFactor` to
`Credentials`.
