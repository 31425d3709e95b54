# A TLA+ verification of IronPigeon

IronPigeon passes signed and encrypted messages between parties through a
*relay server*. This directory holds TLA+ models of the program in `src/` (paths
below are relative to the repository's `src/` directory), the TLC runs that
check them on small instances, and TLAPS proofs of the properties that matter
most. They cover the relay server, its inboxes and its blobs, the sending and
receiving of messages by its clients, the download of payloads, the purge of expired
blobs and the verification of identifiers; section 5 says what is not modelled, and why.

## 1. The system

A sender encrypts a payload, uploads it to a blob store, and posts a small
notification (an *inbox item*) to the inbox of each recipient at the relay. A
recipient polls its inbox, possibly with a *long poll* that waits for an item,
downloads the payload each item refers to, and deletes the item.

| component | code | state | operations | interacts with |
|---|---|---|---|---|
| Inbox controller | `IronPigeon.Relay/Controllers/InboxController.cs`, `OperationCanceledExceptionFilter.cs` | locals of each running handler | create, delete inbox; post, get, delete item; poll | table, blob store, long-poll dictionary |
| Mailbox table | `IronPigeon.Relay/AzureStorage.cs`, `Models/Mailbox.cs` | one entity per inbox: owner code, `Inactive`, `Deleted`, ETag | lookup, insert, merge | storage service |
| Long-poll dictionary | `InboxController.LongPollWaiters` | one event per mailbox, in memory | wait, alert | - |
| Database initialization | `IronPigeon.Relay/Startup.cs` | existence of table and containers | `InitializeDatabasesAsync` | storage service |
| Blob storage provider | `IronPigeon/Providers/AzureBlobStorage.cs` | blobs with expiry; queues of the purge | upload, create container, purge | storage service |
| Blob controller | `IronPigeon.Relay/Controllers/BlobController.cs`, `IronPigeon/StreamWithProgress.cs` | bytes read so far | upload of a payload or address book entry under a size and lifetime policy | blob storage provider |
| Message channel | `IronPigeon/Channel.cs`, `PayloadReference.cs`, `Utilities.cs` | - | post to several recipients, receive, upload and download payloads | relay client, blob storage |
| Relay client | `IronPigeon/Relay/*.cs` | - | HTTP client of the inbox controller | inbox controller |
| Endpoints | `IronPigeon/OwnEndpoint.cs`, `RelayCloudBlobStorageProvider.cs` | keys, inbox address | create, publish | relay client, blob controller |
| Address books | `IronPigeon/*AddressBook*.cs`, `Providers/*AddressBook.cs` | cache of verified identifiers | look an endpoint up, verify identifiers | HTTP, each other |
| Postal service | `IronPigeon.Dart/PostalService.cs` | - | post, receive, delete darts | message channel |
| Chat clients | `ConsoleChat`, `WpfChatroom` | conversation | sample programs | postal service, channel |
| Cryptography, URL shorteners, web pages | see `PROJECT.json` | none | - | - |

What must be right about each:

* **Inbox controller.** No wake-up of a long poll is lost; a poll delivers what
  is there; the answer to a post agrees with what is stored; deletion is final;
  only the owner reads and deletes; every request is eventually answered.
* **Mailbox table.** Handlers merge whole entities they read earlier; a merge
  must not undo what was written in between.
* **Database initialization.** The first creation of an inbox brings the service
  into existence, concurrently with anything else, and succeeds.
* **Blob controller.** The two ways of declaring a length enforce one policy; a
  stream never passes its limit.
* **Message channel, postal service.** A message is posted to every recipient or
  the failure is known for each; an unreadable item does not block the others;
  a copy through a pipe ends even when one side fails.
* **Address books.** The first qualifying answer wins whatever the others do.
* **Purge.** What has expired is removed, nothing else, and the two-stage
  pipeline ends.

What makes the relay hard: handlers run concurrently and interleave at every
`await`; the long-poll dictionary is used under a lock but its events outside
it; a client may disconnect, or storage fail, at any await, while the storage
operation in flight may still take effect; storage is initialized while it is
in use; the process may restart, losing the dictionary and keeping the storage.
On the client side a request that failed may have been carried out, and several
loops may receive for one endpoint. `PROJECT.json` lists these places under "hazards", with line and properties.

## 2. The modules

| module | content |
|---|---|
| `RelayRequests` | what a client may ask: operation, mailbox, bearer token, item, form of a post or poll |
| `InboxTable` | the mailbox entities and the handlers' copies; the table operations; `StaleCopiesUndoNothing` |
| `LongPollWaiters` | the dictionary and its events; the four half-operations on them |
| `InboxController` | the handlers, composed of the two above: one action per piece of code between two awaits; the properties |
| `InboxInvariants` | the inductive invariant, in named parts |
| `InboxControllerProofs` | the theorems about all of these: types, the table, the wake-ups, the whole invariant |
| `RelayService` | what the relay promises its clients: accounts, mail, requests that are admitted, refused or given up; no table, merges, container, events or loops |
| `RelayServiceProofs` | that its promises follow from it |
| `InboxRefinement` | the mapping under which `InboxController` implements `RelayService` |
| `InboxRefinementProofs` | the proof of that, and what follows for the controller |
| `MCInboxController` | the sets of inputs that the `MCInbox*.cfg` files choose from |
| `StreamWithProgress` | the counting stream with its limit, used alone (`StreamSpec`) and by the blob controller |
| `BlobController` | the handler for uploads of payloads and address book entries, the policy, the properties and the inductive invariant |
| `BlobControllerProofs` | the theorems of both |
| `MCBlobController` | a small policy, and uploads around its limits |
| `ChannelPosts` | `Channel.PostAsync`: upload, one post to each recipient, the end of the call; the relay's inboxes as sets of items |
| `PostalService` | the loops that receive: `PostalService` on top of `Channel` and `RelayServer`, composed with `ChannelPosts`; the properties and the inductive invariant |
| `DeliveryService` | what both promise the applications that send and receive: messages that are delivered, shown and taken, calls that return or fail; no payloads, requests, polls or loops |
| `PostalRefinement` | the mapping under which `PostalService` implements `DeliveryService` |
| `PostalServiceProofs` | its theorems, and the proof of the refinement |
| `MCPostalService` | two windows of one endpoint, and what is sent |
| `PayloadDownload` | `DownloadPayloadAsync`: the request, the two ends of the pipe of `ConcurrentCopyToAsync`, the hash; the properties and the inductive invariant |
| `PayloadDownloadProofs` | its theorems |
| `BlobPurge` | `PurgeBlobsExpiringBeforeAsync`: the enumeration and its two bounded blocks; the properties and the inductive invariant |
| `BlobPurgeProofs` | its theorems |
| `AddressBooks` | `AggregatingAddressBook`: concurrent checks, their cache, the race of the books; the properties and the inductive invariant |
| `AddressBooksProofs` | its theorems |
| `MCAddressBooks` | three books, two spellings of a URL and an email address |

The two halves of the relay share no state but the storage account: the inbox
controller has a container of its own, and so has the blob controller. They are
therefore not composed. `PayloadDownload` is one step (`Download`) of a `PostalService`
loop in detail, and `BlobPurge` works on what `BlobController` stores; each is kept
apart, since what the larger model tells of it is its outcome (a payload that is there,
gone, or of the wrong hash), and neither has a place where the other's intermediate
states could be seen.

### The inboxes

**State.** A *request* is one activation of a handler; `req[r]` is what it asks,
fixed from the start, `pc[r]` the place of its handler, `status[r]` its answer.
Inbox items are named by the request that posted them, so `blob[i]` is the blob
of the item of post `i`. Each handler has its local copy of the entity
(`snap[r]`), its event and task (`evt[r]`, `task[r]`), and, for a poll, what it has
listed and not yet downloaded (`todo[r]`) and what it has sent (`sent[r]`).
`afterDeletion` and `waiting` are history: they record, at the arrival of a
request, whether some deletion of its inbox had been confirmed and which items
were there.

**Actions.** Each handler starts with `Arrive` (what is decided before the first
await) and continues:

* create: `Insert`, and if the table is missing `InitTable`, `InitContainers`,
  `InsertAgain`;
* delete inbox: `CheckLookup`, `Touch`, `MarkDeleted`;
* delete item: `CheckLookup`, `Touch`, `DeleteBlob`;
* get item: `CheckLookup`, `Touch`, `OpenBlob`;
* post: `PostLookup`, `Upload`, then `Alert` and `Pulse`, or `CreateContainer`;
* poll: `CheckLookup`, `Touch`, then `Register`, `StartWait`, `List`, `Download` for
  each item, `FinishListing`, and for a long poll without items `Awaken`, which goes
  back to `Register`.

`CheckLookup` and `Touch` are `CheckInboxAuthenticationAsync`. Around the handlers,
`Interrupt` ends one at an await with 499 (client gone) or 500 (storage failure),
with or without the effect of the operation in flight; `Restart` ends all
handlers and empties the dictionary; `Maintenance` deactivates a mailbox or drops
the table. The constant `Fault` says which of these can happen in a run.

**The abstract relay and the mapping.** In `RelayService` a request is `unsent`, `sent`,
`admitted` or `over`; a mailbox is `none`, `open`, `suspended`, `closed` or `lost`; the item of
a post is `none`, `stored` or `deleted`; `got` is what a response carries. A request is
admitted or refused by what the mailbox is at that instant, and its operation is one step
later on, whatever has happened since. It may fail at any time, its operation done or
not. Under the mapping, `asked`, `answer`, `mail`, `got` and `tooLate` are `req`, `status`, `blob`,
`sent` and `afterDeletion`; `phaseMap` and `accountMap` are:

| `RelayService` | `InboxController` |
|---|---|
| `unsent`, `over` | `pc` is `idle`, `done` |
| `admitted` | past `CheckInboxAuthenticationAsync` or `PostLookup` with a positive verdict |
| `sent` | the remaining places, among them all of a creation |
| `none`, `lost` | no entity: it has never had an ETag, or it had |
| `closed`, `suspended`, `open` | by the flags `Deleted` and `Inactive` of the entity |

The merges of timestamps, the registration, waiting, listing and alerting of polls, the
creation of table and container are stutters. What is lost on the way is what a client
cannot see: *when* a long poll is woken, and that is what `StrandedOnlyByDeletion` and
the liveness run are for. `ImplementsRelayService` states it, `inbox_faults` checks it,
and `RelayServiceIsImplemented` proves it.

**Assumed of what is outside the repository.**

* The table service refuses a merge whose ETag is not the stored one (412) and
  gives the merged entity a new ETag: the default of `TableOperation.Merge` on an
  entity that was read. ETags are modelled by counters.
* A query or insert on a missing table, and an upload, download or deletion on a
  missing container, fail with 404. Only the insert of an inbox, the upload of a
  post, the deletion of an item and the listing handle it.
* A listing is one atomic snapshot (one page).
* `AsyncManualResetEvent.PulseAll` completes the tasks handed out so far and none
  later.
* The relay runs as one process: the dictionary is static. With several server
  processes a post at one would not wake a poll at another.
* `Inactive` is set and the table removed by someone outside: no code of the
  repository does either. The purge of deleted mailboxes, which a comment in
  `DeleteInboxAsync` announces, does not exist in the repository.

**Left out of the inbox modules.** The owner code is right, wrong or absent; sizes and
lifetimes are reduced to how they compare with the limits; timestamps, MIME
types, response bodies and logging do not appear; a blob's name and expiry are
not told apart from its identity, as nothing in the relay purges inbox items.

### The blobs

**State.** An *upload* is one activation of `BlobController.PostAsync` and is
identified with the `StreamWithProgress` its body comes through. `upload[u]` is what
it asks: lifetime, declared length (`Chunked` for none), real size, content type,
and whether the body is a valid address book entry; `at[u]` and `reply[u]` are the
place and the answer of its handler, `stored[u]` says whether its blob is in the
container. Of the stream, `readMode`, `lengthLimit` and `bytesTransferred` are the
fields; `moved` and `handed` are history, the bytes that the inner stream moved
and those of calls that did not throw.

**Actions.** `Refuse` and `Begin` are the code up to the first await: the verdict on
lifetime and length, and the stream with its limit. `ReadBody` takes the next piece
of the body, of any size, through the stream, and answers 413 when that throws.
`Validate` is the end of `IsValidAddressBookEntryAsync`, after which the handler goes
on with the copy. `Commit` is the upload; `MissContainer` its 404, at which the
body may have been read in part; `CreateContainer` the mitigation and 503.
`Interrupt` is a client that goes or a storage that fails, with or without the effect
of the operation in flight.

**Assumed.** `BlobAssumption`: the maximum lifetime of address book entries exceeds
that of every rule for other blobs, as in the code (20 years, 30 days and 7
days). It is needed: a declared entry with a longer lifetime falls through to
these rules, which would allow it a larger size than its copy may have. A server
that enforces a declared length ends the body there, so a body longer than its
declared length reaches the handler only where the server does not; it is
included because the stream's limit is set for that case.

**Left out.** Numbers are scaled down by `MCBlobController`; expiry directories belong
to the purge, and the names and metadata of blobs have no effect on the upload. That
the maximum `TimeSpan` and the last date are exceeded by extreme lifetimes is kept
(`MaxTimeSpan`, `MaxDate`), as the handler then fails with 500 at different places.

### Sending and receiving

**State.** A *call* `p` of `PostAsync` sends `message[p]`: its kind (a dart, one whose
payload fails the check of its hash, other content, or an item that its recipient
cannot open) and its recipients. `stage[p]` is the place of the call, `outcome[p][e]`
the end of the task that posts to `e`, `payload[p]` the uploaded blob. Items carry the
name of their call; calls are numbers, in the order in which the relay lists
their items, which has nothing to do with time. Of the relay there is `inbox[e]`, a
set, `alerted[e]`, the items whose post has alerted the waiting polls, and as history
`arrived[e]`, what has ever been in it. A *window* `w` is a loop
`ReceiveMessageLoopAsync` of the endpoint `Owner[w]`: `pc[w]` is its place, `failed[w]` its
`delay > 0`, `alarm[w]` what the relay has of its poll (`none`; `set`, registered for the next
alert; `rung`, alerted; `lost`, it missed the alert), `todo[w]` the rest of the response it
reads, `item[w]` the item of the enumeration and `shown[w]` its `History`.

**Actions.** `Upload` or `UploadFails`; for each recipient `Store` (the relay has the
item), `Alert` (its handler wakes the polls registered for the inbox; `Announce` is the part of
it that belongs to the sender), `GetReceipt` or `GetError`; `Return` when all tasks have ended,
with the receipts or an exception. A loop goes through `Ask` (the relay registers its poll),
`List` (it lists the inbox, and answers) or, for a long poll without items, `Sleep` and on an
alert `Awaken`, which goes back to the listing; `Answer` (the client has the response), and for
each item `Open`, which leads to `Discard`, to
`Download` and `Delete`, or on to the next item; `Finish` ends the enumeration.
`Download` ends it when the payload is gone (a 404, which the loop catches) or its
hash is wrong (an `InvalidMessageException`, which it does not). `Disconnect` is a request
that fails, with or without effect; `TimeOut` is `HttpTimeout`; `Close` a window that is
closed; `Expire` a payload that is purged while its item stays. `Fault` and `MaxFaults`
bound how often these happen.

**The abstract delivery and the mapping.** In `DeliveryService` a message is, at each of its
recipients, not there yet (`none`), `waiting` or `gone`; a caller of `PostAsync` is told that it
`returned` or `threw`; windows show messages, and `trouble` says that something has gone wrong.
`Deliver` happens once for a recipient, and never after the call has returned; `Show` needs a
message that has come; `Take` needs a reason (`Dispensable`); `Confirm` needs every recipient to
have had the message, `Fail` needs trouble. Under the mapping of `PostalRefinement` a message is
`waiting` when it is in `inbox[e]` and `gone` when it is only in `arrived[e]`; `toldMap` is `stage` with
all that precedes the end taken together; `trouble` is `faults # 0`. Uploads, answers, polls
with their registration, waiting and alerts, downloads that fail, and deletions of what is gone
already are stutters.
`ImplementsDelivery` states it.

**Assumed.** `GetAsync` returns when the whole response is there (the default of
`HttpClient`), so reading the items of a response does not depend on the connection. That a
response carries only what is there, and that a deleted item never comes back, are promises
of `RelayService`, with accounts that stay open (`Deposit`, `Read`, `Withdraw`), which
`InboxController` is shown to keep. `RelayService` says nothing of *when* a long poll is
answered; that part of the relay is modelled here once more, as `InboxController` has it:
a poll is registered before it lists, an alert pulses the event of all polls registered so far,
and one that has not yet called `WaitAsync` on it misses the pulse and waits for good if it
then finds nothing. An item deleted between listing and download ends the response early. A
registration and an alert are one step each; their halves, and the restart of the relay, are
`InboxController`'s. Purging payloads is the business of whoever operates the
storage.

**Left out.** Cryptography is reduced to its outcome. The recipients of one call are
distinct. The push notifications and progress reports do not appear; the inside of
`DownloadPayloadAsync` is `PayloadDownload`. A loop of a client that purges what it
does not support (`purgeUnsupportedMessages`) is a window in `PurgeUnsupported`;
`ChatroomWindow` never asks for that.

### The download of a payload

**State.** `pc` is the await of `DownloadPayloadAsync`, `outcome` what the caller gets,
`content` what is at the payload's location: `intact`, `changed` (its hash differs) or
`garbled` (it does not decrypt). `writer` and `reader` are the two tasks of
`ConcurrentCopyToAsync`; `pipe` says how the writer has completed it. Pieces are counted:
`fetched` into the pipe, `written` to the receiver's stream, `consumed` and so released by
the reader; `batch` and `last` are the reader's last result.

**Actions.** `Get` is the request. `Fetch` puts a piece into the pipe and pauses when it is
full; `EndFetch` ends the copy of the source and `CompletePipe` is its `ContinueWith`. `Read`,
`WritePiece` and `EndBatch` are the loop at the other end; `AdvanceTo`, part of `EndBatch`, lets a
paused writer go on. `Join` is `Task.WhenAll` and what follows it: the two `catch` clauses and
the comparison of the hashes. `Cancel` may come at any time before the end.

**Assumed.** The loops and the pipe are those of `System.IO.Pipelines`: a writer's exception
overtakes the data before it, a waiting reader that is completed and cancelled at once sees
either, and the reader's loop always releases what it has written. One read of the source
is one piece; the thresholds of the pipe, 64 and 32 KB there, are constants. Whether a
cancelled transfer of the response is noticed at the next piece or later is left open.

### The purge

**State.** Of a blob, `expires` and whether it is in the `store`; of the call, the place `pc`,
the time `before`, its `outcome` and `token`, and the directories that its listing has yet to
yield (`listed`). `directory[d]` and `item[b]` are the places of directories and blobs in the two
blocks, `rest[d]` what the handler of a directory has yet to send, `failed` the blocks that
have failed. Time is a number; a directory is named after the day that follows the one on
which its blobs expire (`DayAfter`).

**Actions.** `SendDirectory`, `EndListing`, `Drain` and `Await` are the method; a directory's
handler is `StartDirectory`, `SendBlob` for each blob and `EndDirectory`, a blob's is `StartDelete`
and `EndDelete`. `SendAsync` is taken by a block with room, waits for room, or is declined by
a block that has failed, and neither caller looks at the result. `CancelListing`,
`FailListing`, `FailDirectory` and a part of `EndDelete` are cancellation and failure at each
await. `DeleteElsewhere` is someone else who deletes a blob.

**Assumed.** A dataflow block counts what is queued and what is in hand against its
capacity; one that failed or was cancelled drops its queue and completes when its handlers
have returned; a handler that ends with `OperationCanceledException` does not fail it.
The listing of a directory is a snapshot. Nothing in the repository calls the purge; the
model takes the time, the expirations and the cancellation from small sets.

### Address books

**State.** A *check* `c` is one call of `IsVerifiableIdentifierAsync`, of which
`GetVerifiableIdentifiersAsync` makes several at once: it has a `claim` (an endpoint) and a `name`.
`lookup[c][b]` is its task for book `b`, `tasks[c]` those it still waits for, `cts[c]` whether its
linked token source is cancelled. `cache` is shared, by the case-insensitive form of a name
(`Fold`). `held` is what each book has for each name: an endpoint's valid entry, a bad entry or
none; `ever` is history.

**Actions.** A check starts with `Hit`, when the cache decides, or `Ask`, which starts all
lookups. These end by
`Respond`, `FailLookup`, `TimeOut` or `AbortLookup`, with the exceptions that the class of the
book catches: bad entries `DirectEntryAddressBook` alone (but not the exception that
`IsThumbprintMatch` throws for a malformed thumbprint in the URL, so a bad entry may also fail
such a lookup), failed requests also `TwitterAddressBook`, cancellation none of them. `Take` is a turn of the loop of
`FastestQualifyingResultAsync` (`Throw`, `Win`, `Drop`), `NoneQualified` its end, `Remember` the
rest of the check. `Publish` is the environment: whoever has a URL serve something replaces or
removes the entry there while checks are under way (`OwnEndpoint.PublishAddressBookEntryAsync`
itself always uploads to a fresh URL). The method
`GetVerifiableIdentifiersAsync` adds nothing: it awaits its checks.

**Left out.** How a book makes a URL of a name, the two requests of a Twitter lookup, and
signatures and thumbprints, of which an entry's being valid is left.

## 3. The runs

The inbox runs use `MCInboxController`; requests are symmetric (`Symmetry`), except in the
liveness run. Deadlock checking is off in all runs, because a finite set of
requests, checks, bytes or blobs ends.

| run | instance | what it shows |
|---|---|---|
| `inbox_owner` | 3 requests: long polls, posts, deletions of the mailbox and of items, these also with a wrong code or by way of another mailbox; 2 mailboxes, deactivation, loss of the table | `StrandedOnlyByDeletion`; `DeletedMailboxRefusesAll`; `OneDeletionSucceeds`; `OnlyTheOwner`; `StaleCopiesUndoNothing`; `LongPollAnswersWithItems` |
| `inbox_faults` | 3 requests that create 2 new inboxes, use one of them in every way, with posts of every form, and delete it; aborts, failing storage, restarts, deactivation | `IInv`, the inductive invariant; `CreationIsNeverPutOff`; `PostAnswerIsTruthful`; `ImplementsRelayService`, the refinement |
| `inbox_liveness` | 3 polls and posts, fairness | `WaitingPollIsAnswered`, `RequestIsAnswered`; without deletions also `PollIsComplete` |
| `inbox_deleted_item` | 4 polls, posts and item deletions | violated: `AcceptedItemWakesPoll` |
| `inbox_truncated` | 4 polls, posts and item deletions | violated: `PollIsComplete` |
| `blobs` | 2 uploads of every kind, the policy scaled to sizes 2 and 4, container missing or not | `BlobInv`, the inductive invariant (with the types); `LimitIsKept`, `EntryCopyIsShort`, `StoredBlobsFollowThePolicy`, `ReplyIsTruthful` |
| `blob_entry_lifetime` | as `blobs` | violated: `EntryLifetimeIsLimited` |
| `postal_service` | 2 windows of one endpoint, 2 calls (a dart behind an item of another type, a corrupt dart behind an item that cannot be opened, an item for two recipients), one failure of any kind | `PostalInv`, the inductive invariant (with the types); `ReceiptsAreTruthful`, `NothingIsLost`, `ShownOnce`, `SleepIsExcused`; `ImplementsDelivery`, the refinement; with fairness `DartIsShown` |
| `postal_poison` | 1 window, 2 darts, one payload that expires | violated: `ReadableDartIsShown` |
| `payload_download` | 6 pieces, a pipe that pauses at 3 and resumes below 2; every content, failing request, failing receiver, cancellation | `PipeInv`, `SuccessMeansComplete`, `BlameIsDeserved`, `NothingGoesOnAfterwards`; with fairness `DownloadEnds` |
| `blob_purge` | 3 blobs, 2 days of 2 ticks, a time to purge within a day; blocks of 1 and 2; failing storage, cancellation, deletions by others | `PurgeInv`, `OnlyExpiredArePurged`, `PurgeIsComplete`; with fairness `PurgeEnds` |
| `address_books` | 2 checks of 3 names by 2 endpoints, 3 books, one entry that changes; failures, time limits, cancellation | `BooksInv`, the inductive invariant (with the types); `VerifiedIsPublished`, `NoIsDeserved`, `ShortcutsAreGrounded`; with fairness `FirstMatchEndsCheck`, `SlowerAreCancelled` |

**Bounds.** The number of requests, mailboxes, and the inputs are the only bounds;
nothing else is capped (ETags and events grow with the requests). Three requests
are enough for every pairwise race with a third party that observes it: two
posters and a poll, two polls and a post, two merges of one entity and the
deletion that must survive them, two creations and a post between them. The
lost wake-up after a deletion and the truncated poll need four, which is why the
runs that show them have four. For blobs, the sizes 1, 2, 4 and 5 and lifetimes from
0 to 6 have a value below, at and above each limit of the policy (2 and 4; 1, 2
and 3) and of the calendar (4 and 5); uploads meet only in the existence of the
container, so two are enough. The bodies of these uploads exceed, meet and miss the limits of
their streams, in pieces of any size; `StreamSpec`, where `MaxBytes` bounds what passes through,
serves the theorem about the stream alone and has no run.
For messages, two calls are the least in which one item can stand in the way of
another, two windows the least in which one deletes what the other is at, two
recipients the least of which one post fails and one succeeds. The three pairs of messages
contain every kind; in each, the first item stands before the second in the listing, so that
what is behind an item that is skipped, purged, discarded or fatal is there, and the third has
a recipient without a window; all pairs of all messages would take TLC hours. `MaxFaults` is 1, and
what more failures could do to safety is covered by the theorems. A payload of twice the
pipe's capacity pauses and resumes its writer more than once, with a gap between the two
thresholds. Three blobs on two days are more than either block of the purge holds, so
that each sender has to wait for room, and expirations at 1 and 3 with purges before 3 and 5
lie within the day before the given time and a full day before it. For address books, two
checks are the least that race for the cache, and each name is served by no more books
than can disagree: one, or two; `MaxChanges` is 1, since a check asks each book once. The
theorems below hold for every number.

**Fairness.** `FairSpec` assumes weak fairness of each handler's next step: the
thread pool runs a continuation that is ready, and the storage client completes
or fails an operation in bounded time. Nothing is assumed of clients (`Arrive`,
`Interrupt`) or of maintenance. A poll that waits has no step enabled until its
task is completed, so fairness does not wake it by itself. The `FairSpec` of
`PostalService` assumes the same of each window's loop: `Task.Delay` ends, a request is carried
out, and a response arrives. A long poll that waits has no step (`Awaken`) before an alert has
reached it, and a poll that has missed its alert has none at all. The alert itself is fair as
long as the sender still awaits the answer to its post (`Sending`), when the relay's handler is
running; if the post has been given up, the handler may have been too, and the alert
need not come. Nothing is assumed of senders: a post may never be made. In `PayloadDownload` and
`BlobPurge` each worker, and the method itself, has weak fairness: they run on the thread
pool, and the streams and the storage answer. Fault actions (`FailListing`, `FailDirectory`,
`Cancel`, `DeleteElsewhere`) have none, nor has a failure any preference over success within an
action that may end either way. In `AddressBooks` the continuations of a check have it, and
the abort of a lookup whose token is cancelled, which `HttpClient` guarantees; a book
need never respond.

**What the violated runs show.** Each is a disagreement with a sentence of the
repository, quoted in `PROJECT.json`.

1. `WaitIncomingMessageAsync` leaves its lock before it calls `WaitAsync`. A post
   in between takes the event out and pulses it, and the poll then waits on an
   event that nobody will pulse again. Normally the poll finds that post's item
   when it lists; if another session deletes the item first, the poll sleeps, and
   items accepted later do not wake it, because the next poll of the mailbox
   creates a new event. `StrandedOnlyByDeletion` says that this is the only way.
2. An item deleted between listing and download raises a 404 that is taken for a
   missing container: the response ends normally without the remaining items.
3. The maximum lifetime of address book entries is enforced only if the length is
   declared: `TryGetMaxAllowedBlobSize` does not look at the lifetime of an entry.
4. A payload that cannot be downloaded ends the enumeration of `ReceiveAsync`; nothing
   deletes or skips its item, so each poll meets it again and the items behind it
   are never reached. `DartIsShown` says what else can keep a dart from being shown: that every
   window of the endpoint has ended, or waits in a poll that nothing wakes for this dart
   (`DeafTo`). Of the latter there are two ways, and TLC shows that each is needed: the poll missed
   its alert, as in finding 1, and another window, which is closed afterwards, deleted the item
   that the alert was for; or the post of the dart was given up by its sender between the
   storing of the item and the alert. `SleepIsExcused` says that as long as no
   announced item has been deleted, no poll waits while an announced one is there.

Smaller disagreements are in the models without a run of their own:

* An inactive mailbox rejects posts "till it is reactivated by its owner"
  (`Models/Mailbox.cs:51-52`), but no operation of the relay reactivates one: nothing in the
  repository ever clears `Inactive`. `StaleCopiesUndoNothing` therefore claims only that stale
  copies do not clear it by accident; it would allow a handler that does so on purpose.
* A mailbox that is inactive and deleted answers 410, where the documentation of
  `CheckInboxAuthenticationAsync` says 404 (`AuthenticationVerdict`).
* A post with a negative lifetime is answered 500, where the message for a bad lifetime
  asks for a positive integer (`PostVerdict`).
* A client that disconnects while its upload is in flight can leave an item in the mailbox
  for which no waiting poll is woken (`Interrupt` at `upload`, with effect). The properties about
  wake-ups speak of accepted items for this reason, and `DartIsShown` excepts such an item.
* `StreamWithProgress.ReadByte` counts each byte twice. The limit is still kept
  (`LimitIsKept`), but reached at half its value.
* The purge leaves blobs that expire within the last day before the given time, where its
  documentation says that all that expire prior to it are purged (`PurgeIsComplete` has the
  tolerance of a day).
* A book whose lookup throws before another has answered with the claiming endpoint fails
  the check, and the other lookups are not cancelled; `FastestQualifyingResultAsync` documents
  a null result if none qualifies, and says nothing of this (`Throw`).
* The cache of verified identifiers ignores case, so two URLs that differ in case only are
  one identifier to it (`VerifiedIsPublished` is about some spelling).
* A download whose caller cancels, or whose receiver throws `NotSupportedException`, may end
  with `InvalidMessageException`, which is documented for a changed payload (`BlameIsDeserved`
  names both exceptions); the `EndOfStreamException` documented at `PayloadReference.cs:124` is
  thrown nowhere.
* A download whose receiver fails while the pipe is full never ends unless it is cancelled:
  the reader's end is never completed, and the writer waits for it (`DownloadEnds` excepts
  `Abandoned`; by `OneDeadlock` this is the only way for a download to be stuck). The repository passes streams in memory, which do not fail.

## 4. The proofs

For every set of requests, mailboxes, inputs and faults, of uploads, policies and
limits, of calls, endpoints and windows, of payloads and pipes, of blobs, days and
capacities, of checks, books, names and spellings, assuming only `ControllerAssumption`,
`NoItemAssumption`, `StreamAssumption`, `PostAssumption`, `WindowAssumption`, `PayloadAssumption`,
`PurgeAssumption`, `BooksAssumption` and `InitiallyAssumption` (the constants have their types; a
pipe resumes at no more than it pauses at; the blocks of the purge hold at least one) and
`BlobAssumption` (above). Neither the blobs nor the checks need be finite in number:

| theorem | statement |
|---|---|
| `TypeCorrect` | `Spec => []TypeOK` |
| `HandlersKeepToTheirCode` | `Spec => []HandlersInTheirCode` |
| `TableInvariant` | `Spec => []TableInv` |
| `StaleCopiesAreHarmless` | `Spec => StaleCopiesUndoNothing` |
| `WakeUpInvariant` | `Spec => []WakeUpInv` |
| `NoLostWakeUp` | `Spec => []StrandedOnlyByDeletion` |
| `WholeInvariant` | `Spec => []IInv` |
| `PromisesAreKept` | `ServiceSpec => []Promise` |
| `RelayServiceIsImplemented` | `Spec => ImplementsRelayService` |
| `OwnersAlone` | `Spec => []OnlyTheOwner` |
| `DeletedOnce` | `Spec => []OneDeletionSucceeds` |
| `PostsAreAnsweredTruly` | `Spec => []PostAnswerIsTruthful` |
| `DeletionIsFinal` | `Spec => []DeletedMailboxRefusesAll` |
| `CreationGoesThrough` | `Spec => []CreationIsNeverPutOff`, while nobody drops the table |
| `PollsAreComplete` | `Spec => []PollIsComplete`, when no request deletes an item |
| `EmptyAnswersAreExcused` | `Spec => LongPollAnswersWithItems` |
| `StreamKeepsItsLimit` | `StreamSpec => []LimitIsKept` |
| `BlobInvariant` | `Spec => []BlobInv` |
| `BlobTypesAreKept` | `Spec => []TypeOK` |
| `PolicyIsEnforced` | `Spec => []StoredBlobsFollowThePolicy` |
| `CopiesAreShort` | `Spec => []EntryCopyIsShort` |
| `RepliesAreTruthful` | `Spec => []ReplyIsTruthful` |
| `PostalInvariant` | `Spec => []PostalInv` |
| `PostalTypes` | `Spec => []TypeOK` |
| `ReceiptsHold` | `Spec => []ReceiptsAreTruthful` |
| `NoLoss` | `Spec => []NothingIsLost` |
| `NoRepetition` | `Spec => []ShownOnce` |
| `SleepersAreExcused` | `Spec => []SleepIsExcused` |
| `DeliveryIsImplemented` | `Spec => ImplementsDelivery` |
| `PipeInvariant` | `Spec => []PipeInv` |
| `SuccessIsComplete` | `Spec => []SuccessMeansComplete` |
| `BlameIsRight` | `Spec => []BlameIsDeserved` |
| `NothingGoesOn` | `Spec => NothingGoesOnAfterwards` |
| `OneDeadlock` | `Spec => []StuckOnlyIfAbandoned` |
| `TypeCorrect` (purge) | `Spec => []TypeOK` |
| `PurgeInvariant` | `Spec => []PurgeInv` |
| `OnlyExpiredBlobsArePurged` | `Spec => []OnlyExpiredArePurged` |
| `PurgeMissesNothing` | `Spec => []PurgeIsComplete` |
| `PurgeOnlyAdvances` | `Spec => WorkOnlyAdvances` |
| `BooksInvariant` | `Spec => []BooksInv` |
| `VerificationIsGrounded` | `Spec => []VerifiedIsPublished` |
| `DenialIsDeserved` | `Spec => []NoIsDeserved` |
| `ShortcutsFollowVerification` | `Spec => []ShortcutsAreGrounded` |

*Types.* `TypeOK` is inductive by itself; one lemma per part of the state says
that the operations on it keep its type, and the theorem has one step per action.

*Stale copies.* That no merge undoes a deletion, or a deactivation that its handler has not
seen, is not inductive: it depends on what older copies hold. `CopiesMatchETags` says that a copy with the stored ETag
equals the stored entity, so the copy of an accepted merge is up to date and the
merge changes what its handler means to change and nothing else. `MergersHaveCopies` and
`NamesAreUnused` (an insert never meets an entity, names being fresh) complete
it. The lemma `TableSteps` reduces all actions to seven things a step can do to
the table, so that each later proof has seven cases.

*No lost wake-up.* The invariant follows a poll from its registration. Before it
lists, either the dictionary still holds its event, or some post has stored its
item and taken the event (`DisarmedBeforeListing`). When it has listed and still
has its event, it has seen every item whose poster is past taking the event
(`ArmedSinceListing`). When it has listed and lost its event, the poster that took
it will pulse it, or the poll found an item, or an item was deleted
(`DisarmedSinceListing`); a poll that waits found none (`PollsAreRegistered`). The
lemma `QuietSteps` deals at once with all steps outside the rendezvous.

*The refinement.* `IInv` is the conjunction of all parts; `inbox_faults` checks it with TLC and
`WholeInvariant` proves it. Of `StorageInv`, three parts serve the mapping: `EntitiesHaveETags` tells a lost
mailbox from one that never was, `BlobsAreInTheContainer` makes a 404 from a missing
container mean that the item is not there, and `PollsStayInTheirMailbox` that what a poll sends
is its owner's. `GotoMapped`, `RespondMapped`, `WriteMapped`, `MergeMapped` and `InsertMapped` say once
what the steps of handlers do to the mapped variables; then there is one lemma for each
handler, for arrivals, interruptions and the environment, and each step is a step
of `RelayService` or a stutter. `MergeMapped` is where the ETags matter: the merge of
an up-to-date copy changes an account only as its handler means to, and `CopiesMatchETags`
says that an accepted merge has one.

*What the mapping carries over.* `PromisesAreKept` proves the promises where they are easy, of
ten small actions, and `PromiseCarriesOver` makes them a theorem about the controller: that
owners alone decide, that an item is deleted once, that a post's answer is true and that
deletion is final are then read off. In `RelayService`, `ClosedForGood` is inductive only together
with what is known of a request sent too late: it is never admitted, since a closed account
never opens again.

*Creation and polls.* `CreationGoesThrough` adds to `HandlersInTheirCode` that a creation past `InitTable` finds
the table; `PollsAreComplete` that what was waiting when a poll arrived is in the mailbox, and
once the poll has listed, either still to be downloaded or sent.

*Empty answers.* A long poll without items goes back to wait, except where the code takes a 404
for an empty inbox. `ListedItemsWereStored`, the fourth part of `StorageInv`, says that what a poll
has listed was stored and can only have been deleted; so `EmptyAnswersAreExcused` finds, behind
every empty answer, a listed item that another session deleted, or a missing container.

*The stream.* `LimitIsKept` needs `CountIsEnough`: the count is never below what
callers got, which a second count only helps. `CountingKeepsTheLimit` is used for
the stream by itself and for the reads of the blob controller.

*Blobs.* The policy is used once, in `LimitsFollowPolicy`: whatever verdict let an
upload begin, its limit is one that the policy grants. `LimitFollowsPolicy` carries
that to the end of the handler, `GoesOnWithAll` says that a handler that has come
so far has got every byte of the body, and `LimitIsKept` connects the two: the real
size is within the limit. `StoredAtTheEnd` is what the truth of the replies adds.

*Messages.* `SendInv` follows a post: a receipt comes after the item, an item only to
those it is meant for, and its call is not over while nothing is known of it.
`NothingIsLost` depends on what the place of a loop tells of its item
(`PlacesAreRight`): it deletes what it has shown and discards what cannot be opened or
may be purged. `ShownOnce` needs more (`NothingComesAgain`, `ItemsHaveArrived`): while
nothing has failed, what a window has shown is neither in the response it reads nor,
once deleted, in the inbox, and an item that is stored for the first time has not
been shown. `LeaveStep` deals at once with all ways in which an enumeration ends.
`SleepIsExcused` needs `SleepersHaveLooked`: a poll falls asleep over an empty inbox and, while it
is registered, an alert cannot announce an item without ringing it, or making it miss
(`AlertStep`); a poll that missed one and yet falls asleep found an announced item gone. What is
stored later has not been announced, since only what has arrived is (`StoreStep`), and what has
arrived once never arrives again.

*The delivery.* `DeliveryIsImplemented` has one lemma for what a call tells its caller, one for
the relay's storing, one for removals (`RemovalRefines`, used for both deletions and for a
request that failed with effect), and `Invisible` for the rest. It rests on `PostalInv`: that a
loop's place tells what may be done to its item makes each `Take` and `Show` legal, and `SendInv`
that a call returns after its messages came, and fails only when a post of it was told an
error, which only a fault brings about.

*Payloads.* `PipeInv` orders the counts (`InOrder`), bounds what is in the pipe (`BackPressure`) and
says what an end that was seen tells of the writer (`EndIsReal`): without a cancellation a
closed pipe has had everything. That the outcome is known only when both ends have
stopped is what `SuccessMeansComplete` and `NothingGoesOnAfterwards` rest on.
`OneDeadlock` is the safety half of `DownloadEnds`: a download that is not over is stuck exactly
when it is `Abandoned`. That this is stuck is the disagreement of section 3; that nothing else is,
is the work of the proof. While the writer is
paused the pipe holds at least `ResumeThreshold` pieces, so the reader can read, and a reader that
waits has consumed what there was, so the writer is not paused. `WriterCanMove`, `ReaderCanMove` and
`DownloadCanMove` are the guards of the steps of each, written out.

*The purge.* `BlocksAreBounded` counts what a block holds; that this set is finite is part of the
invariant, since the set of blobs need not be, and each step adds at most one to it.
`WorkIsOfItsDirectory` ties a blob in the second block to the directory it came from, and through
it to the given time: `OnlyExpiredArePurged` follows by the arithmetic of `DayAfter`.
`NothingIsForgotten` follows each blob of a directory in question through the stages - still to be
enumerated, queued, in the rest of a handler, in the second block - unless a block has failed or
the caller has cancelled; with `StagesAreOver`, which empties the stages one after the other,
it leaves nothing for a normal return to have missed (`PurgeIsComplete`).
`SomebodyCanMove` is the safety half of `PurgeEnds`: a full block has a worker or can start one,
as capacities and degrees of parallelism are at least 1, a failed block declines, and so the
chain from the method over the first block to the second always ends in somebody who is not
waiting. It is not inductive by itself but follows from the other parts.

*Address books.* `EndpointsAreYielded` says of every endpoint in a book, in a lookup and in the
cache that it was published for its name, or a spelling of it; `InOrder` says of each stage of
a check what its lookups have brought. Of `NoIsDeserved` the core is that a race drops a task only
for a result that denies the claim, and that a book whose answer denied cannot answer again.
`CacheIsGrounded` follows an entry of the cache to a check that asked the books and was answered
yes; it rests on `VerifiedForGood`, that such a check remains what it is through every step, and on
`TryAdd` being reached only after a race that was won. A check that the cache decides then owes its
answer to that one, whatever the books have come to hold meanwhile (`ShortcutsAreGrounded`).

*Only model-checked.* The liveness properties `WaitingPollIsAnswered`, `RequestIsAnswered`,
`DartIsShown`, `DownloadEnds`, `PurgeEnds`, `FirstMatchEndsCheck` and `SlowerAreCancelled`: temporal
reasoning under fairness, and `ENABLED`, are out of the prover's reach. For the two with bounded
buffers what can be proved is that nobody waits in a circle (`StuckOnlyIfAbandoned`,
`SomebodyCanMove`); the guards these name were compared with `ENABLED` of the steps by TLC, on the
instances of the runs. Every invariant and action property of a passing run is a theorem.

## 5. Not modelled, and what could follow

* **Endpoint creation and publication** is one call after the other, without state of its own:
  what it changes at the relay is in `InboxController` (a new inbox) and `BlobController` (the
  upload of an address book entry, at a fresh URL). An inbox
  whose creator failed before it learned of it stays at the relay for good (`Create` in
  `RelayService` with a lost answer).
* **Cryptography, URL shorteners, web pages**: no state, or a single request. The scripts that
  the web pages bring along are third-party code.
* **Chat clients** beyond the loop of `ChatroomWindow`: user interface.
* **Message channel**: verifying the sender of an item against its address book entries; the
  models have its outcome (an item that opens or not).
* **Database initialization**: the wiring of services; push notifications of the relay client.

Next would come the promises of `DeliveryService` as theorems of its own specification, as
`RelayServiceProofs` has them for the relay, and the composition of several relay processes over
one storage account, should the relay ever be run so: the dictionary of waiting polls would then
need to be shared, and `StrandedOnlyByDeletion` would be the first property to fail.
