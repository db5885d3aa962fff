# A formal model of the IS Fleet backend

IS Fleet is a NestJS service over Postgres (through Prisma) for road-haulage
companies. Managers assign trips to trucks and their drivers; the driver and
the manager of a trip share a chat; drivers are reminded to set off. Around
that core it keeps accounts and sessions, direct and group chats with
attachments, alarms, push tokens and pictures. Source paths below are relative
to the repository's root.

This directory holds TLA+ modules that model it, TLC configurations that
check them on small instances, and, for the core, proofs that the TLA+ proof system (tlapm)
checks for every value of the constants.

## 1. The system

### How it runs, and what makes it hard

- One Node.js process, or two during a deployment. A handler is an async
  function: it issues one database statement at a time and other handlers run
  at every `await`.
- Postgres runs at its default READ COMMITTED isolation. No query takes
  `FOR UPDATE`, and a transaction is used in eight places only (`accept` of a
  driver transfer, `deleteOwnAccount`, `deactivate`, `register`,
  `resetPassword`, `syncTruckOwnership`, `reactions.toggle`,
  `closeAndOpenNew`). Check-then-write is the common form, and the check may be
  stale when the write happens.
- The unique indexes that matter: `Truck.currentDriverId`, the user's e-mail
  and phone, push tokens, one reaction per user and target. There is none on the
  active chat session of a trip, nor on a manager's membership in a group.
- Three jobs run on a timer (departure prompts and alarms each minute,
  retention and image urls at night) and may overlap with themselves.
- Sockets are told of a change after it is committed, and a room is joined
  after the right to join it was checked.

### Components

| Component | State | Operations | Status |
|---|---|---|---|
| Trip chat sessions (`trip-chat-sessions.service.ts`, callers in `trips.service.ts`, `trucks.service.ts`) | `TripChatSession` rows, participants in `Trip` | `openInitial`, `closeAndOpenNew`, `closeActive`; `create`, `assignDriver`, `assignManager`, `assignTruck`, trucks' `update` | modelled |
| Trip messages (`messages.service.ts`) | `Message` rows | `create`, broadcast, `markTripRead`, edit, delete | partly |
| Departure prompts (`trips.service.ts` 1117-1316) | `departPromptCount`, `departPromptAt` | `afterStatusChange`, `sendDepartPrompt`, `answerDepart`, `checkDepartPrompts` | modelled |
| Trucks and who drives them (`trucks.service.ts`, `users.service.ts` 300-480, `trips.service.ts` 536-772) | `currentDriverId`, `managerId`; `Trip.truckId` | `update`, users' `updateDriver`, `assignTruck`, `syncTruckOwnership` | partly |
| Accounts (`users.service.ts`) | `User` | hire, activate, deactivate, erase, `updateDriver` | partly |
| Driver transfers (`driver-transfers.service.ts`) | `DriverTransfer` | `request`, `accept`, `decline` | modelled |
| Authentication and sessions (`auth.service.ts`) | `RefreshToken`, `PasswordResetToken`, invitations, `OtpCode` | `refresh`, logins, `revokeRefresh`, `resetPassword`, `register`; the codes | modelled |
| Live rooms (`messages.gateway.ts`, `direct-messages.gateway.ts`) | the sockets' rooms and data | handshakes, `joinTrip`, `join_group`, `leave_group`, presence, `disconnectSockets`, `socketsLeave` | partly |
| Alarms (`alarms.service.ts`) | `Alarm` | create, update, remove, `checkAlarms` | modelled |
| Push (`push.service.ts`, token endpoints of `users.service.ts`) | `PushToken` | register, delete, chunks, tickets, pruning | partly |
| Direct messages, groups (`direct-messages`, `group-messages`, `groups`) | messages, `GroupMessageRead`, `GroupManager`, hidden chats | post, edit, delete, `markAsRead`, unread counts, membership | modelled / partly |
| Documents (three services), `batch-rollback.ts`, storage | rows and objects in the bucket | `uploadMany`, lists that heal, `remove` | modelled |
| Pictures (avatars, logos, group pictures), `image-url-refresh.service.ts` | path and signed link in the row | upload, delete, erasing with the account, the nightly signing | modelled |
| Retention, signup, companies | tokens, links, logos | as far as other components depend on them | partly |
| Reactions, support contact, announcements, bug reports, admin, mail, SMS, texts, configuration | rows | single statements or I/O | not modelled |

`PROJECT.json` lists all of them with their sources, and under `hazards` the
places in this code that a test would hardly reach, each at its line.

### What makes each component correct

- **Chat sessions.** A trip has at most one conversation that goes on; it is
  the conversation of the driver and the manager in the trip's row; an ended
  one stays ended; nobody loses a conversation they took part in.
- **Messages.** Only a current participant writes; a quote never carries a line
  of one pair's conversation into another pair's; only a participant ticks a
  message as read.
- **Departure prompts.** Each question is sent once, at most three times; an overdue one
  is dealt with; a trip that becomes current or is assigned anew is asked about from
  scratch.
- **Trucks.** A driver has at most one truck and a truck that is about to be
  given is given; a driver who left holds none; whoever holds a truck was told of
  it; a truck's new manager leads all its trips; an exchange ends with each trip
  on a truck of its own driver and manager.
- **Accounts.** An erased account is never active again; a company keeps an
  administrator; a driver changes company only with consent and takes neither truck nor
  manager along; the caps on requests to transfer hold.
- **Sessions and links.** A token whose session was ended is dead, and no other dies
  by itself; a company's link makes one team lead.
- **Sign-in codes.** Wrong guesses and codes read out are counted, however
  requests overlap; after a sign-in no earlier code signs in.
- **Live rooms.** Whoever loses the right to a room is put out of it, whoever has
  it hears; the list of who is online and the news after it add up.
- **Alarms.** A due alarm is dealt with, and put off only after it has rung.
- **Push.** A device in use keeps its token.
- **Files and pictures.** A failed upload leaves nothing, a live row has its file,
  a picture's link is to the picture, lives, and is not one for years; the picture of
  an erased account is gone.
- **Chats.** What was deleted stays blank; the unread count is right; the notices
  in a group tell who belongs to it.

## 2. The modules

| Module | What it is |
|---|---|
| `PairChat` | Abstract specification of a trip's chat |
| `ChatSessions` | Detailed model of the chat sessions, a step per database statement |
| `TripMessages` | Messages over the abstract chat, against a changing trip row |
| `DepartPrompt` | The departure question and its three kinds of actor |
| `Fleet` | Trucks, their drivers and managers, and the trips on them, statement by statement |
| `Accounts` | User rows and driver transfers, statement by statement |
| `SignIn` | Refresh tokens, and the links that begin or end a session |
| `DriverLogin` | The one-time codes of one driver |
| `LiveRooms` | Sockets, rooms and presence |
| `Alarms` | Alarm clocks, and the job that rings them |
| `Pushes` | Push tokens, and the pushes that weed them out |
| `Files` | A batch of attachments, the bucket, removal and repair |
| `Pictures` | Pictures and the nightly signing of their links |
| `Chats` | Direct and group messages, read marks, membership of a group |
| `MCChatSessions`, `MCTripMessages`, `MCDepartPrompt`, `MCFleet` | Instances of the core for TLC |
| `MCAccounts` | `Accounts`, `SignIn`, `DriverLogin`, `LiveRooms` and `TripMessages` in scenes |
| `MCServices` | `Alarms`, `Pushes`, `Files`, `Pictures` and `Chats` in scenes |
| `ChatSessions_proofs`, `TripMessages_proofs`, `DepartPrompt_proofs`, `Fleet_proofs`, `Accounts_proofs`, `SignIn_proofs` | Theorems about each of them, and proofs |
| `MCAccounts_proofs` | Theorems about the scenes of `MCAccounts`, and the proofs about `DriverLogin` and `LiveRooms` |
| `MCServices_proofs` | Theorems about the scenes of `MCServices`, and the proofs about its five modules |

A definition marked "Mutant" is a faulty form of the next one. No behaviour
uses it; it serves to show that a property notices that fault.

### ChatSessions and PairChat

`trip` and `session` are the rows. A handler is a worker: `job[w]` holds the
program counter and what the handler has read, `rest[w]` the further trips it
has still to change (`assignTruck` with SWAP or COMPLETE_OTHER; the open trips
of a truck that gets a new manager). One step is one statement. A transaction
has two: what it reads (`TxRead`) and what it commits (`TxCommit`), because READ
COMMITTED lets another handler commit in between. `Die` is a crash or a failed
statement between any two steps: what is committed stays and the rest of the
handler is lost. `torn` remembers the trips left half changed.

- `AssignDriver`, `AssignManager` read the row and keep the *other* participant
  for the chat to come, as the code does; `SetTruck` takes the manager from the
  row the update returns (`moveTripToTruck`).
- `SetDriver` and the like update by id, so they change a deleted row too.
- Trucks are left out: `AssignTruck` lets any driver drive the target and any
  open trip stand in the way, and `ChangeTruckManager` lets any set of open
  trips share the truck. Both are more than the code allows, never less.
- The three REASSIGNED reasons are one, as no code tells them apart.
- LEGACY_RESET sessions come from a migration and no code creates them.
- ADMIN and TEAMLEAD see every session and are left out of `VisibleSessions`.

`PairChat` says what this amounts to: at most one conversation goes on per trip,
each is of one pair for good, the next begins in the step that ends the one
before. `ImplementsPairChat` is that specification under the mapping
`going[t] = Active(t)`, `pair[s]` = the session's columns.

### TripMessages

It reuses `PairChat` through INSTANCE for the conversations and adds the trip
row (which changes *before* the chat is handed over), the message rows, the
drivers who left the company, and requests that keep in `call[c]` what they have
read. `create` is three steps: the check against the row, the read of the
active session, the quote check with the insert. The second query of the check
(is the driver still of the company) is folded into the first: a driver who has
not left at the second has not left at the first, and a refusal changes nothing.
`broadcastToMyTrucks` and `announceTruckManager` have the steps without the check.
The announcement that `closeAndOpenNew` writes belongs to `TakeOver`.

### DepartPrompt

`trip[t]` has the driver, whether its truck is the one that driver drives
(`aboard`), the status, the counter and `at`, which is null, in the future or
due. What an actor has read is a `Look`. A request goes "after" (look up the
current trip), "claim" (the conditional update in `sendDepartPrompt`) or "no"
(the answer's write). A run of the job reads all due trips once, takes them in
any order (the query has no ORDER BY), reads the driver's current trip for
each, and then claims, gives up or stands down.

- The answer "Yes" is `driverUpdateStatus` with ON_WAY, hence `UpdateStatus`.
- The check before a status update is merged with the update; ON_WAY stands for
  ON_WAY, ON_SITE and LOADED. Neither changes what the question depends on.
- `asked` and `stood` are history variables: the questions sent in the present
  round, and the trips the job stood down.
- A crash of the job needs no action: the next run reads everything anew, and a
  run that stops half way is one whose remaining steps do not come, which the
  safety properties allow at any time.

### Fleet

`truck[k]` has `currentDriverId` and `managerId`, `trip[t]` the columns that
matter here. A handler is a worker again: `task[w]` holds what it has read, and
a step is one statement. `told[d]` is the truck of which driver `d` was last
told that it is theirs, and `gone` the drivers who moved to another company.

| In the code | In the model |
|---|---|
| `TrucksService.update` | `UpdateTruck`, `FindPrevious`, `Detach`, `WriteTruck`, `Announce`, `FindTrips`, `ChangeLeader` |
| `UsersService.updateDriver` with a `truckId` | `UpdateDriver`, `Release` (both `updateMany`), `Take`, `AnnounceCard` |
| a transfer that is accepted | `Leave`, one transaction |
| `TripsService.assignTruck`, `moveTripToTruck`, `syncTruckOwnership` | `AssignTruck`, `MoveTrip`, `MoveBlocking`, `CompleteOther`, `SyncOwners` |
| the end of a handler; an error or a crash | `Finish`; `Die`, and `BreakOff` where the unique index rejects the write |
| `create`, `assignDriver`, `assignManager`, `updateStatus`, `remove` | `Create`, `AssignDriver`, `AssignManager`, `Reopen`, `Close` |

- `moveTripToTruck` and `syncTruckOwnership` use what was read before the first
  statement; the fields of a task are just those values. The chats are handed over
  in between; that is in `ChatSessions`.
- The trip in the way is "the newest" open trip of the target truck. Age is left
  out and it may be any of them.
- A handler that breaks off after it wrote a driver and before its pushes leaves
  `Unsaid`; the properties about pushes allow that and nothing else.
- A trip can be delivered or deleted at any time (`Close`), between any two steps
  of the others. The other handlers of one statement need a free worker: in the
  middle of an `assignTruck` they would overlap with it, which is left to a second
  worker.
- Trucks exist from the start without a driver. `create` of a truck may name
  one, which the unique index then checks, and pushes nothing about it; that,
  plates, notes and the activation of trucks are left out.

### Accounts

`user[u]` is the row, `transfer[x]` a `DriverTransfer`; a handler is a worker, as
in `ChatSessions`, and a step is a statement or a transaction.

| In the code | In the model |
|---|---|
| `createManager`; `createDriver` | `CreateManager`; `CreateDriver`, `Insert` |
| `DriverTransfersService.request` | `Check` (the three reads), `Supersede`, `CreateTransfer`, `Send` |
| `accept`, `decline` | `OpenLink` (`findOpen`), `ReadRequester`, `Accept`, `Decline` |
| `activate`, `deactivate` | `Activate`, `Deactivate`, `SetActive` |
| `deleteOwnAccount` | `DeleteOwnAccount`, `CountAdmins`, `Erase` |
| `updateDriver` | `UpdateDriver`, `SetSeat` (truck), `SetBoss` (manager) |

- The checks of `updateDriver` do not look at `deletedAt`, so a teamlead may put an
  erased driver on a truck. That is why `Fleet` does not count the erased among
  those who are gone; erasure is here, and releases the truck here.
- Several requests about one account do interfere: `activate`, `accept` and
  `updateDriver` write by id what they checked before. The properties are about
  accounts whose row did not change under another request; `caught` has the
  others, and no handler reads it.

### SignIn

`token[t]` is a refresh token's row, `link[l]` a reset token, an invitation or a
company's sign-up link; the clock is `now`. `refresh` reads (`Refresh`), rotates
(`Rotate`, with the time it read), and issues (`Issue`); a token already rotated
goes straight to `Issue` while its grace lasts. `Logout`, `Deactivate` and
`ResetPassword` end sessions by moving `expiresAt`, `Erase` deletes them, `Purge` is
the nightly deletion. `barred[t]` is a history variable: when the session of `t`
was last ended. `EndedStaysEnded` compares it with the clock strictly: in the
millisecond of a logout itself a token may still be honoured. It is about the tokens
there were when the session ended: a `refresh` that read one of them before goes on to
`Issue` a new one, which nothing bars and which lives as long as any. With it the
session outlives a logout or a reset, although the comments want that "every existing
session ends" (`auth.service.ts` l.996-997) and that "no leftover token outlives the
account" (l.356-357; an account that is inactive is at least refused the next refresh).
`Issue` allows it; no property denies it, and it is listed as a hazard at l.349.

An account's state is reduced to none, active, inactive or erased; what an
access token allows until it runs out is `Acts` in `Accounts`, as the guard reads
the user row each time.

### DriverLogin

One driver's codes in the order of `createdAt`. `RequestCode` and `Store` are
`requestDriverOtp` and `requestViaManager`; `IssueLoginCode`, `Mint` and `CloseRequest`
are `issueDriverLoginCode`; `Verify` (the read), `LockExhausted`, `Compare`, `Miss`
and `Burn` are `verifyDriverOtp`. `judged`, `dead`, `asks` and `minted` count what
the properties compare: no code reads them.

### LiveRooms

A socket has two handshakes, one for each gateway: `Enter`, `Snapshot`; `ReadGroups`,
`JoinGroups`. Whatever happens to sockets without an `await` between is one step, as
the process runs nothing else meanwhile. `AskRoom` and `EnterRoom` are `joinTrip`
and `join_group`. `EndAccess` with `DisconnectSockets` is the end of `deactivate`,
`deleteOwnAccount`, a transfer or a reset; `Reassign`, `WriteDriver`, `PutDriverOut`
that of `assignDriver` and `moveTripToTruck`; `RemoveMember`, `PutMemberOut` that of
`removeManager`. `Fail` is an error between the row and the sockets. `leave_group` is
two steps, as it awaits the look at the membership (l.257) before it leaves
(l.258): `AskLeave` and `LeaveGroup`.

A socket may close at any time, also while `authenticateSocket` is awaited.
`handleDisconnect` does nothing of it then, as `userId` is not set yet (l.174), and
`handleConnection` goes on: `late` has such handshakes, `LateEnter` fetches the list,
and `LateNews` announces, if nobody else of the user was there, that they are online.

`tangled` in the runs (`caught` here) has sockets that entered a room after the
right to it was gone, or whose putting-out failed, and those that asked to leave the
group before their user was a member and are put out after; `blurred` has users and
sockets whose news was overtaken by an older list, or sent for a socket that had
closed. All of it happens, as the hazards list at their lines; the properties say
that nothing else goes wrong.

### Alarms

`run[r]` is one run of `checkAlarms`: the rows it has read, and the one it has rung
and not yet written. The job may start while earlier runs push (`CheckAlarms` for
another `r`), a row may be removed under a run (`Abort`: the update throws and the
run ends), and the server may restart (`Crash`). `NextFireTime` is the loop over whole
days. `heard[a]` is when the alarm last rang since its time was set.

### Pushes

`Prepare` reads the tokens and deletes malformed ones; `SendChunk` sends a chunk and
collects tickets, or nothing if it fails; `Prune` deletes the tokens that tickets
call unregistered, by position. The positions are right only if no chunk failed:
`unsettled` remembers tokens deleted after one did, and those deleted by a sign-out
that arrives after the user signed in again.

### Files

The three documents services and `finishBatch` have one form. `AskSlot` and `FreeSlot`
are `withOptimiseSlot`, `Put` is `uploadAttachment`, then `CreateRow` and `SignNew`;
`Settle` is `Promise.allSettled`, `RollBackRows` and `RollBackFiles` are `finishBatch`.
`List`, `SignOrHeal` and `MarkDeleted` are the lists, `Remove`, `RemoveFile` and
`MarkDeleted` the removal. Rows of a batch that is under way can be listed and
removed. `lost` has files deleted by hand, `stuck` those of which a deletion was tried
and failed, which the code logs and forgets.

### Pictures

`ReadOld`, `DropOld`, `PutNew`, `SignNew`, `WriteRow` are an upload (a deletion skips
two of them); `deleteOwnAccount` reads the row, writes it (`users.service.ts` l.679) and
then deletes the file (l.695), hence `ReadOld`, `WriteRow`, `DropOld`. `StartRun`,
`SignLink`, `SaveLink`, `EndRun`, `AbortRun` are `refreshAll`, which takes one row after
another and awaits the signing (`image-url-refresh.service.ts` l.118) before it saves
(l.123). Time is counted in nights: `left` of a link, `missed` since a run ended well.
`blurred` has owners whom two changes were about at once, `failed` those of whom a
change failed half way (the old file is deleted before the new one is stored), and
`astray` those whose row a run gave the link to a file that it named no more; the
next link that is saved ends that.

### Chats

One array `rows` of direct, group and trip messages and of the group's notices, in
the order they were written; `seats` are the `GroupManager` rows ever made. Edit
and delete read first and write by id (`ReadForEdit`, `WriteEdit`, `ReadForDelete`,
`WriteDelete`); a group's `markAsRead` finds and then inserts (`FindUnread`,
`CreateReads`); `addManager` and `removeManager` have three steps each. `UnreadDirect`
and `UnreadGroup` are the counters as `getConversations` and `getUnreadSummary` compute
them. `caught` has rows deleted under an edit, `broken` users of whom a request died
half way. `opened` is what a user was shown.

`GroupManager` has no unique index, although a comment in `addManager` counts on one.
Two calls that overlap make two memberships (run `second_seat`), and `removeManager`
then deletes one of them: the removed manager is still a member. `NoticesMatchSeats`
counts memberships because of it.

Things one can see in these modules, and that no document or comment denies, so
that no run is about them:

- The unread count includes groups that were softly deleted. Nobody can open them
  any more, so a bell that was on stays on.
- `adminLogin` answers a suspended administrator with a refresh token; every request
  with the access token is refused.

## 3. The runs

| Run | Instance | Shows |
|---|---|---|
| `chat_sessions` | 2 trips, 2 drivers, 2 managers, 3 sessions, 1 worker | six properties hold |
| `overlapping_handovers` | 1 trip that is open, 3 sessions, 2 workers | two active sessions (a finding) |
| `post_during_handover` | 1 trip, 2 drivers, 1 manager, 2 sessions, 3 messages, 1 client | a message in the successor's chat (a finding) |
| `depart_prompt` | 2 trips, 1 driver, 1 request, 1 run of the job, 2 questions | three properties hold |
| `truck_move_keeps_prompt` | the same with 2 drivers | a stale question on an ASSIGNED trip (a finding) |
| `stood_down_for_good` | as `depart_prompt`, full fairness | a question that never comes (a finding) |
| `fleet` | 2 trucks, 2 trips, 2 drivers, 2 managers, 1 worker | seven properties hold |
| `displaced_by_card` | the same | a driver is not told that their truck is gone (a finding) |
| `queued_trip_left_behind` | the same | a truck is given away with a trip on it (a finding) |
| `accounts` | 2 workers; 6 people, 3 companies, 3 transfers; 2 tokens, 2 links, 3 ticks; 4 codes; 3 sockets; 1 trip, 2 sessions, 3 messages | fifteen properties of five modules hold |
| `services` | 2 alarms, 3 tokens, 2 files, 2 pictures, 2 requests; see below | seven properties of five modules hold |
| `second_seat` | 2 users, 2 requests | a manager with two memberships (a finding) |

Deadlock checking is off throughout: an instance runs out of ids, and a trip
may simply be left as it is.

**Bounds.** One trip shows every interleaving within a trip; the second is there
for handlers that change two (SWAP, COMPLETE_OTHER, a truck's manager) and for
"which trip is current". Two drivers and two managers are the old and the new
one. Three sessions are the first one, a hand-over and a further one. Three
messages are a quoted one, the one that quotes it and an announcement. Two
questions instead of three: the second already is "ask again", and reaching the
bound is "give up"; the proofs are for any bound. Ids are interchangeable, so
the safety runs use symmetry; `MCDepartPrompt` does not, as trips are ordered by
age and two of its runs check liveness.

**Why one worker in `chat_sessions`.** With two on the same trip the properties
fail (run `overlapping_handovers`). The run with one worker shows that this
is the only reason: crashes, several trips per handler and stale fields of the
handler itself do no harm. The theorems below make the assumption exact.

**Why one worker in `fleet`.** Every statement is a step, and a request may break
off after any of them, but two requests about trucks do not overlap. With two
workers at least `GoneHoldsNoTruck` and `AttachIsFree` fail, in the way the code lets
one expect: between
`assertRefs` and the write of the truck the driver moves to another company and is
put on the truck all the same (`UpdateTruck`, `FindPrevious`, `Leave`, `WriteTruck`);
between the look for the driver's other truck and the write another card gives them a
truck, and the unique index fails the request. Two trucks and two trips are the
two of an exchange; two managers tell their owners apart; a driver who gets a
truck and one who loses it are the two drivers. The proofs are for any number of
them.

**Scenes.** `accounts` and `services` check several modules that share no variable.
In each behaviour one module moves and the others stay in an initial state, so the
numbers of states add up instead of being multiplied; nothing is lost, as a
property of one module depends on its own variables only. A module with many kinds
of requests has several scenes, and a scene names the steps of handlers that may
be under way in it and how many rows there may be. The scenes of a module
together pair up all of its requests that touch the same rows:

- `Accounts`: `admins` (suspend, activate, erase among three administrators of two
  companies), `leaves` (the same of an administrator and a driver), `texts` (three
  requests for one driver by two companies, against the caps), `moves` (two requests
  against their answers), `cards` (a request and its answer against `updateDriver`),
  `hires` (a driver hired, moved and erased).
- `SignIn`: `sessions` (rotation, logout, suspension, erasure and purge while time
  passes; grace one tick, life two, so that a token can be in its grace, past it,
  and past its life) and `links` (two links and two requests that use them).
- `DriverLogin`: `guesses` (two codes, two guesses at once, a bound of one
  attempt) and `requests` (four codes, two requests to mint, a manager who is replaced).
- `LiveRooms`: `presence` (three sockets of two users, no other handler), `lists`
  (a list on request), `trip` and `group` (joins, and leaving the group's room, against
  replacement and removal), `access` (suspension against handshakes).
- `TripMessages`: `quotes` (a quote and the hand-over between choosing it and
  inserting), `ticks` (two requests that read and tick), `posts` (every way to write,
  while the trip is reassigned, delivered, deleted, or its driver leaves).
- `Chats`: `words` (edit, delete), `bells` (reading, hiding), `seats` (joining,
  leaving).
- `Alarms`: two ticks make a day and time runs two ticks: a daily alarm can be late
  by one, and be rung by two runs at once. One change, removal or restart may
  happen. The second alarm is one that rings once, so that a run holds two rows.
- `Pushes`: chunks of one message, so that a failed chunk shifts the tickets; one
  token is malformed.
- `Files`: one slot for two files, so that one waits; any deletion may fail.
- `Pictures`: one owner's picture changes, or is erased with the account, while the run
  signs both; a week of three nights with two to spare.

**Exemptions.** Most properties of these modules are about rows, sockets or accounts
outside a set such as `caught` or `stuck`. A set gets a member only in a step that names
an overlap or a failure the code does not guard against; each is a hazard in
`PROJECT.json` with its line, and its note names the set: such a property does not catch
that hazard, it takes it for granted. What the run shows is that these are the *only*
ways to violate the property: one that nobody thought of would be reported. The sets are
`torn` (`ChatSessions`), `Unsaid` (`Fleet`), `caught` (`Accounts`, `LiveRooms`,
`Alarms`, `Chats`), `blurred` (`LiveRooms`, `Pictures`), `unsettled` (`Pushes`), `stuck`
and `lost` (`Files`), `astray` and `failed` (`Pictures`), and `broken` (`Chats`). In
`chat_sessions` and `fleet`, one worker does the same for requests that overlap.
`CapsHold`, `CodesCounted` and `LinksAreSingleUse` have no such set but a bound, by the
requests that overlap; `OneSignInPerRound` is about codes read after the sign-in, and
`EndedStaysEnded` about tokens made before the end.

**Fairness.** `OverdueHandled` needs weak fairness of the job's steps: the timer
starts it each minute, and a run catches errors per trip and goes on. `AlarmsRing`
needs the same of `checkAlarms`: that it starts while alarms are due, and that a push
that was sent comes to an end. Nothing is assumed of users, of the clock, or of the
order of rows.
`AskedWhenUp` is refuted even under `FullyFairSpec`, where time passes and every
request that was taken up is carried through.

### Findings

1. *Two active sessions.* `closeAndOpenNew` runs "in a transaction so we never
   end up with two active sessions", but READ COMMITTED lets two of them read
   the same active session. Both close it and each opens its own. The run starts
   with a trip that is open, so that the two are hand-overs (`OpenedSpec`).
2. *Posting into the successor's chat.* `create` checks the participant, then
   reads the active session. A hand-over in between delivers an old
   participant's message to the new pair, which the comment says the check
   prevents. (In the same window a new driver may post into the old session.)
3. *A truck move keeps the question.* `moveTripToTruck` goes back to ASSIGNED
   without `departResetFor`. With a counter that is not 0, or a due time that is
   not null, `afterStatusChange` does not ask the new driver; a counter at the
   bound makes the job give up on a driver who was never asked.
4. *Stood down for good.* The job clears the question of a load that is not the
   current one, to ask again "when it's up". Only a change to ACCEPTED or
   DELIVERED asks; when the other load is removed, or given to another driver or
   truck, nobody does.
5. *Not told of the loss.* The driver's card and the truck's card are said to
   "feel identical". From the truck's card the driver who loses the truck gets a push;
   `updateDriver` overwrites the driver of the truck it gives away and tells
   only the one it edits.
6. *A queued trip left behind.* When a trip moves without an exchange, the truck it
   has left is "simply free" and goes to the manager who had the target. If another
   trip is queued on it, that trip's manager does not have its truck any more,
   and the new one has no trip on it.
7. *A second seat.* `addManager` says that adding is idempotent and speaks of the
   unique constraint that a second click would crash on. There is none: two clicks
   that overlap both find no membership and both create one.

## 4. The proofs

All proofs are checked by tlapm with its SMT, Zenon and LS4 backends and hold
for any finite or infinite sets of trips, users, sessions, messages, sockets,
tokens, links and so on. Where something is counted, the workers are finitely
many. The assumptions on the constants are

- `NoneIsNoId` (`ChatSessions`) and `MessagesAssumption` (`TripMessages`): NULL is no id;
- `NoIds` (`Fleet`): NULL, a field that is left out and "not told" are no ids and
  not each other's stand-in;
- `PromptAssumption`: the bound on prompts is positive;
- `AccountsAssumption`: `Keep` (a field left out of the request) and NULL are no
  ids, everyone has a role and a first company, finitely many
  workers, positive caps;
- `SignInAssumption`: NULL is no id, finitely many workers, the times are numbers,
  and the grace of a rotated token (60 s, `auth.service.ts` l.43) is not longer than
  the time the retention keeps it (a day, `retention.service.ts` l.10);
- `LoginAssumption`: finitely many workers, codes numbered by creation, a positive
  limit of attempts, and NULL no id;
- `LiveRoomsAssumption`: drivers are users, sockets are not, and NULL is neither;
- `AlarmsAssumption`: a day has a length, and the bounds on time and on events are
  numbers;
- `PushesAssumption`: finitely many tokens, chunks of at least one message, and
  NULL no user;
- `FilesAssumption`: a batch of finitely many files, at least one, and at least one
  slot;
- `PicturesAssumption`: there is an owner, "no picture" is no path, and a link that is
  kept has a night left at least, but not more than a new one;
- `ChatsAssumption`: the group's creator is a user, "nobody" is none, finitely many
  requests, and room for one row and one membership.

`MCAccounts` assumes the ones of its instances (`AccountsConstants`, `SessionConstants`,
`LoginConstants`, `RoomConstants`, `MessageConstants`), `MCServices` those of its own
(`AlarmConstants`, `PushConstants`, `FileConstants`, `PictureConstants`,
`ChatConstants`), and TLC evaluates all of them.

**ChatSessions_proofs.** `TypeCorrect` rests on `TypeInv`: `TypeOK` and "the trip a task
is about exists, the session it has read exists". It holds for any number of workers.
The other theorems assume `[]NoOverlap`: never are two busy handlers at the same trip.
Finding 1 shows that the assumption cannot be dropped. The inductive invariant is
`Exclusive`: at most one active session per trip, none before `openInitial`, and
whatever session a handler has read is active until it commits. `AtMostOneActive` alone
is not inductive: the close in `TxCommit` is by id, so it needs the last part. From it
follow `OneActiveChat`, `EndedStaysEnded` (what is closed by id is still active) and
`RefinesPairChat` (`TxCommit` and `OpenInitial` map to `BeginChat`, `CloseWrite` to
`EndChat`, all else stutters).

In its last part, `ChatFollowsTrip` and `HistoryKept` assume
`[]NoConflict`, which is stronger: the trips two handlers have at hand, those
still waiting in `rest` included, are disjoint, because `ManagerTask` keeps a
driver that was read when the handler began. The invariant is `Matching`:
a trip nobody has at hand and that is not torn has the chat of its pair or was
completed, and a handler that has a trip at hand knows the pair its row had.

**TripMessages_proofs.** No assumption on concurrency: `QuotesAreInside` and
`RecipientsTick` hold whatever requests overlap with each other and with the end
of a chat. `TypeOK` is not inductive, as a message is stored with the session
and the sender that the request has kept (`Ready`). `RecipientsTick` (a tick is set
by a recipient, and is never taken back) needs to know whose the sessions are
that a reader has read and is about to tick (`OwnSessions`); as a session never
changes its pair, they stay so. That `ChatSessions` implements `PairChat`
(`RefinesPairChat`) carries what is proved here over the abstract chat to the rows.

**DepartPrompt_proofs.** No assumption on concurrency: `TypeCorrect` and
`AskedOnceHolds` hold for any number of requests and job runs, because the
conditional update repeats the counter. The
invariant adds to them that an actor about to ask has read a counter below the
bound (so the increment cannot pass it), which for a status change
needs that a driver has one current trip (`OneCurrent`).

**Fleet_proofs.** `TypeCorrect` holds for any number of workers, by `TypeInv`:
`TypeOK` with, for each stage of a handler, which of the fields are set (`Stage`)
and that the trips it names have a row (`Rows`). The other theorems hold for any
number of workers too. The code has no lock that would keep requests about the same
driver, trip or truck apart, and then the properties fail; each theorem therefore
says what the requests that overlap must leave to each other, and as little of it as
the proof needs. One worker leaves everything to itself, so the run `fleet` is a case of
each of them.

- `AttachNeverFails` relies on `GivesApart`: no two requests give a truck to the same
  driver at once. They may be about the same trucks. The invariant is `UniqueHolder`
  (the index) and `AllReady`: a handler about to take a driver's truck away names the
  only other one, and one about to give a truck will not be rejected.
- `GoneDriversHoldNothing` relies on `NoneLeavesMidway` alone: no driver leaves between
  the check of a request that gives them a truck and its last write. Any other
  overlap is allowed.
- `HoldersAreTold` relies on `DriversApart`: no driver is in the hands of two requests, be
  it the one they name or the one they found on the truck. The invariant is `Heard`: a
  holder was told, or a worker is about to tell (`News`), and what the pushes go
  by is still so (`Telling`).
- `LeadersFollow`, `SwapsEndApart` and `TrucksFollowTrips` rely on `RowsLeftAlone`, about
  steps: a step of another keeps the truck, driver and manager of the trips that a
  handler is moving and the trucks it moves them to, and moves no trip onto a truck whose
  trips are being given a new manager. The invariant is `Paired`: what the statements
  of `assignTruck` have written so far (`Moves`, `MovesBack`), and that the open
  trips not yet visited by the loop are the new manager's (`Led`).

**Accounts_proofs.** Six theorems, for any number of workers, without an
assumption on what overlaps: the model keeps in `caught` the users for whom a
handler lost a race, and the properties except them, so that the theorems say of
everybody else that staleness was not the cause. The invariant adds to `TypeOK`

- `Rows`: a named manager exists and is no driver; a transfer names a manager of the
  company that asks, and a driver;
- what each handler knows while it is between two statements (`Knows`), by stages:
  the managers it names are still there (`Asked`), the transfer it answers
  is the one in the link (`Linked`), an account about to become active was not
  erased (`Spared`), an administrator who leaves has counted another one (`Counted`),
  the truck and the manager about to be given are of the user's company (`Given`),
  a request about to be accepted still stands (`Agreed`);
- `Caps`: today's transfers and the requests that have counted and not yet created
  theirs stay together below the cap plus the number of workers. The overrun
  of the cap is thus that of one check-then-insert race per worker and no more.

`AdminRemains` needs `Counted`, `CompanyGoesTogether` needs `Asked` and `Given`,
`ErasedStaysOut` needs `Spared`; none of them is inductive. `AdminRemains` is about
steps and about each company by itself: no step takes the last active administrator
from a company, unless requests about administrators of *that* company overlapped or
an administrator of another company suspends them, which `canManageUser` does not
forbid.

**SignIn_proofs.** The invariant adds `Named` (a link is somebody's), `Ended` (a
session that was ended has no token of that time that lives longer than it did when
it ended; a token that a rotation under way issues afterwards is a new one, and is
not barred) and `Uses` (the uses
of a link and the requests that have opened it and not yet used it are together at most
one per worker). `Ended` is why `EndedStaysEnded` holds even though `Rotate`
and `Issue` are two statements. `SessionsLastTheirTime` is an action property:
nothing but an end, the time, or a rotation slower than the grace makes a token
lose its honour. It needs `Grace <= Kept`: otherwise the nightly purge could
delete a token that a client may still present.

**MCAccounts_proofs.** Its first part shows that every behaviour of the scenes is,
scene by scene, a behaviour of `Accounts`, of `SignIn`, of `TripMessages`, of
`DriverLogin` and of `LiveRooms` (`ScenesOfAccounts` and so on), so that the theorems of
the modules above are ones about the run `accounts`. The proofs about the two last
follow.

`DriverLogin`, for any number of managers, codes and overlapping requests. None of
`CodesCounted`, `OneSignInPerRound` and the types is inductive, because what a
request has read may be stale when it writes. The invariant `LoginInv` adds three
parts to the types:

- `Guesses`: the attempts at a code and the workers now comparing with it together
  stay below the limit plus the number of workers. A worker joins only where the
  attempts it reads are below the limit, and its miss moves one from the second
  term to the first.
- `Rounds`: a code from before a sign-in is used, and no worker that read it later
  has it among the live ones.
- `Mints`: the codes read out to a manager and those about to be are covered by that
  manager's requests, one per worker; while a request is open there is room
  for another one by every worker.

`LiveRooms`, for any users, drivers, sockets and workers. `RoomsInv` adds to `L!TypeOK`

- `SocketsLive`: a socket is in its company's room exactly from its handshake on,
  is somebody's, and is counted as a member only if its user is one;
- `TasksLive`: what was asked on a socket is answered while the socket is open;
- `LateEnterSettled` and the lemmas beside it: a handshake that goes on without its
  socket either fetches while its user is online elsewhere, and says nothing, or is
  among the news still to come;
- `Settled`: once all news about a user is out, every list that says whether the user is
  online says so, *those fetched and not yet sent included*. `PresenceSettles`
  speaks only of what a client shows, and is not inductive: a list that
  was read before a change of presence would be shown after it.

`RoomsMatchRights` is inductive given the first two: a socket in a room has the right to
it, or a handler that is about to put it out still runs.

**MCServices_proofs.** In the same way, every behaviour of the scenes is one of each
of the five modules (`ScenesOfAlarms` and so on); the proofs about the modules hold for
any sets of alarms, tokens, files, pictures and requests, with no assumption on what
overlaps. None of the properties is inductive alone, as each
handler writes what it has read some statements earlier:

- `Alarms` (`AlarmsInv`): the rows a run holds were due when it started (`RunOnDue`);
  unless the user has changed the alarm since, the row and what the run holds of it
  agree on when it comes again, and if the run has rung it, it was heard after the
  start (`TrueToRow`). So the clock the run goes by, older than that of its
  writing, never skips a time nobody heard (`NextTime`).
- `Pushes` (`PushesInv`): as long as no chunk has failed there is one ticket per message,
  and one that calls a device gone stands at the place of a token that was
  uninstalled (`Matched`); nobody uses a device whose app is gone.
- `Files` (`FilesInv`): how far a file has got fixes whether it has a row and objects
  (`Progress`); what a batch took back is gone (`RolledBack`); a row is live with its
  file or is about to be a tombstone (`Faithful`); what a reader knows about a file
  is still true of what is left of it (`Knowing`); and a file waits in the queue once,
  and only while all slots are taken (`Waiting`). `FilesAgree` says nothing of the
  handlers under way, and would not survive their next write.
- `Pictures` (`PicturesInv`): the picture of a row is stored, unless a change has
  dropped it and not yet written the row (`Late`), and its link outlives the nights until
  the run after next; it is to that picture unless the row is `astray` (`Shown`). A row
  that changed since a run read it has a link as good as new (`Lasting`). A change
  knows the row's path and has a file to name (`Holding`), is alone (`ChangedAlone`), and
  its new file is named nowhere else (`NewsOnly`); owners share no file (`OwnFiles`), as
  dropping one owner's old file would otherwise take another's.
- `Chats` (`ChatsInv`): a request's row is there, and not blank unless it was deleted
  under it (`ReadStands`); read marks are of rows that were opened (`OpenedRows`), and
  what was opened is marked or about to be (`ReadWhenOpened`); memberships, and the
  notices written and still to be written, add up (`Counted`). `Counted` is a sum over
  finite sets: a lemma for each statement says by how much it changes which term.

**Only model-checked.** Liveness (`OverdueHandled`, `AlarmsRing`) is out of the
prover's reach: every other property of the passing runs is a theorem. The
refutations of the seven runs that expect one are for TLC by their nature.

## 5. What is not modelled, and the plan

Left out for good: formatting, translation and push texts, aggregated read-only
queries, mail, SMS and storage as external services (what they answer, or that
they fail, is a choice in the models), validation of input, routing, metrics,
texts, configuration.

Left out for their lack of state that anything depends on:

- reactions, each a toggle of one row under a unique key;
- the support contact and the drivers' group, rows that are found or created on
  first use; two first uses at once may create two (hazard at
  `groups.service.ts` l.511), and nothing that is modelled depends on which;
- stops, notes and lists of trips; profiles, ratings, timezones; the directory;
- announcements, bug reports, demo requests, the administrators' statistics;
- the steps of retention that delete rows no statement looks at any more;
- typing and away marks of sockets, the administrators' rooms, a teamlead who
  watches a group.

Every property of the passing runs but the two liveness properties is a theorem. What
is left concerns what the theorems assume:

1. `Fleet`: what the theorems rely on is stated over states and steps of the model;
   that one worker, or one request per company at a time, provides it is not proved.
2. `ChatSessions`: `NoConflict` is there because `ManagerTask` keeps a driver that was
   read when the handler began; a condition on those trips alone may do.
3. The premises of liveness: that a job's step is possible whenever a prompt or an
   alarm is overdue, as far as it can be stated without ENABLED.
4. An abstract specification of `Files`, for which a batch is one step.
