# Formal model of the financial chat application

The repository is a TypeScript monorepo: a NestJS backend (`src/backend`) with an HTTP API
and an AMQP/cron worker, a React frontend (`src/frontend`), Postgres, Redis, RabbitMQ, an
S3-like store and OpenAI as external services. This directory models its stateful parts in
TLA+, checks them with TLC and proves the most important results with TLAPS.

Paths below are relative to the repository's `src/backend/src` unless they start with
`frontend/`.

## 1. Inventory

### Chat pipeline — *modelled in `ChatTurn` and `Metering`*
`app/api/v1/chat/chat.v1.controller.ts`, `domain/logic/chat/chat.service.ts`,
`domain/base/message/*`.

`POST /chat/stream` checks the account's budget, finds or creates the conversation, stores the
user's message, and then drives an async generator that calls OpenAI in up to two rounds,
runs the queries the model asks for, stores the reply, charges the account, clears the stop
flag and sends `done` or `error`.

* State: the generator's locals (content, cost, tool calls, stopped, finalised so far), one set
  per request; `messages` and `conversations` in Postgres.
* Interaction: every request shares the account's spend and, with other requests for the same
  conversation, its stop flag and its log. Nothing serialises requests.
* Hard: a client that goes away between two yields; a stop that arrives between a chunk's check
  and its token, or before the count of a round's tokens; an exception at any await, including
  inside the `catch` block, which repeats all of `_finalizeTurn`; a conversation deleted while
  its turn runs; a crash anywhere.
* Correct when: every question gets exactly one reply, the reply's cost is charged exactly
  once and fairly, a stop reaches the turn it was meant for, the last event tells the truth.

### Spending limit — *modelled in `ChatTurn`, abstractly in `SpendPolicy`*
`domain/logic/chat/usage.service.ts`. One Redis counter per account, with an expiry that opens
a new window. The budget is checked when a turn is admitted and charged when it ends.

* Hard: check-then-act over the whole life of a stream; `INCRBY` and `EXPIRE` are two commands.
* Correct when: spending passes the limit by a bounded amount, and a counter never stays
  without an expiry (that would lock the account out for good).

### Stop flag — *modelled in `ChatTurn`*
`domain/logic/chat/chat-stop.service.ts`, `app/api/v1/chat/stop-chat/*`. One Redis key with a TTL
per conversation, set by the stop endpoint and by a disconnect, polled at every chunk, deleted
when a turn is finalised.

* Hard: the flag names a conversation, not a turn; it is set, polled, deleted and expires
  independently.
* Correct when: a stop is not lost, does not stop another turn, and bounds what is still sent.

### Conversations and messages — *partly, in `ChatTurn`*
`domain/base/conversation/*`, `app/api/v1/conversations/*`. Creation, lookup, deletion with
cascade. Listing and searching only read; reading the messages is `ChatClient!Serve`.

### AMQP worker and message tasks — *modelled in `AmqpWorker`*
`shared/common/common.worker.ts`, `domain/base/message-task/*`, `infra/global/amqp/*`,
`app/worker/*`, `app/app.cron.ts`. A consumer records each job in `message_tasks`, dispatches it,
acknowledges or rejects it and saves the record afterwards.

* Hard: redelivery after a crash, attempts counted in memory and saved after the
  acknowledgement, two deliveries of one task at once, the same job dispatched twice.
* Correct when: an accepted job is run or recorded as dead, attempts never pass the maximum,
  the record agrees with what happened.

### Sessions — *modelled in `Sessions`*
`app/api/v1/auth/sign-in|refresh`, `domain/base/session/*`. Sign-in and refresh each insert a
session and revoke the account's others on the device, in one transaction; the row they start from
was read outside it.

* Hard: two refreshes with one token; READ COMMITTED statements that see different moments and
  wait for each other's rows; an answer that is lost after its commit.
* Correct when: a token is redeemed once, old sessions are revoked, nobody is locked out.

### Sign-up, email verification, idempotency — *modelled in `EmailVerification`*
`app/api/v1/auth/sign-up|verify-email|resend-verification`,
`domain/base/email-verification-token/*`, `infra/middleware/idempotent/*`,
`frontend/src/pages/verify-email/*`. Tokens are replaced and consumed; the interceptor remembers
keys in Redis.

* Hard: services that swallow errors inside transactions; lookups outside them; a commit whose answer
  is lost before the email is published; two requests with one key.
* Correct when: no half of an account is stored, answers and emails are true of the tables, a
  fresh link works.

### Frontend chat client — *modelled in `ChatClient` and `ReplyStream`*
`frontend/src/pages/chat/use-chat.ts`, `use-conversation-sidebar.ts`,
`frontend/src/shared/api/chat/chat.api.ts`. One stream at a time, an optimistic bubble, navigation
while the stream runs, refetches, and a decoder of server-sent events by hand.

* Hard: closures over a state that has moved on, answers out of order, a stop before the server has
  stored the reply, a network that cuts the stream anywhere.
* Correct when: text appears under its own conversation, the list settles to what is stored, the question
  does not flicker, and the stream shows the reply that is stored.

### Frontend API client and token refresh — *modelled in `TokenRefresh`, composed with `Sessions`*
`frontend/src/shared/lib/api-client.ts`, `frontend/src/shared/lib/auth-context.tsx`. Calls that fail with 401
wait for one shared refresh and are sent once more. Tabs share the cookie and localStorage.

* Hard: several 401s at once, a refresh that fails, a logout, reload or another tab meanwhile.
* Correct when: no call waits for ever, the cookie still redeems, token and user agree.

### Stored files and cleanup — *modelled in `StoredFiles` and `ObjectStore`*
`app/worker/cron/cleanup/*`, `domain/base/stored-file/*`, `infra/global/storage/*`. Objects are
uploaded straight to the bucket, rows written in several statements; a daily job removes what belongs
to nobody, from both.

* Hard: the bucket is listed, the table read and objects removed at different times; pages and their
  tokens; failures that pass for success.
* Correct when: nothing that is stored loses its object, all garbage of the job's beginning goes, an
  operation does what it answers.

### Charts in an answer — *modelled in `ChartBlock`*
`frontend/src/components/FinancialChart.tsx`, `MessageBubble.tsx`. A block of the model's text is remapped,
checked against the tool's figures and drawn. Correct when every number drawn came from the tool.

### Financial data — *modelled in `FinancialData`*
`domain/logic/chat/financial-query.tool.ts`, `app/cli/financial-data/*`. The tool's fuzzy filters and
the seed that replaces the table. Correct when a question hears of every row it asks for.

### Generic persistence — *modelled in `Entities` and `Paging`, transactions in `Sessions` and `EmailVerification`*
`domain/base/*/*.service.ts`, `*.mapper.ts`, `*.util.ts`, `shared/common/common.func.ts` (diff),
`common.pagination.ts`, `infra/db/*`. Correct when a save writes what was edited and nothing else, and
the pages of a list add up to it.

### Code generation — *modelled in `CodeGen`*
`app/cli/code-gen/*` writes the five files of a domain entity from a declaration. Correct when the code it
writes keeps what it is given.

### Left out
HTTP plumbing, configuration, logging, i18n; migrations, the other seeds and commands; rendering:
see "Not modelled" at the end.

## 2. Plan

| module | what for | composes with | state |
|---|---|---|---|
| `SpendPolicy`, `SpendPolicyProofs` | abstract promise of the limit | | checked, proved |
| `ChatTurn`, `MCChatTurn`, `ChatTurnProofs` | the chat pipeline | implements `SpendPolicy` | checked; safety proved |
| `Metering`, `MCChatOrderly` | what a turn costs | refines the price `ChatTurn` chooses | checked, proved in `ChatTurnProofs` |
| `AmqpWorker`, `MCAmqpWorker`, `AmqpWorkerProofs` | redelivery, attempts, ack before save | | checked; safety proved |
| `Sessions`, `SessionsProofs` | rotation of refresh tokens | | checked, proved |
| `TokenRefresh`, `MCTokenRefresh` | the browser that triggers it | extends `Sessions` | checked, proved in `SessionsProofs` |
| `EmailVerification`, `MCAccounts`, `EmailVerificationProofs` | tokens, resend, idempotent retries | relies on a job of `AmqpWorker` for its mail | checked, proved |
| `ChatClient`, `MCChatClient`, `AnswerProofs` | the page | observes what `ChatTurn` stores and sends | checked, proved |
| `ReplyStream` | the wire that feeds the page | observes what `ChatTurn` sends | checked, proved in `AnswerProofs` |
| `StoredFiles`, `HousekeepingProofs`, `MCHousekeeping` | uploads and saves against the cleanup | is a job of `AmqpWorker` | checked, proved |
| `ObjectStore`, `ChartBlock`, `Entities` | the storage service's own operations, charts, rows | | checked, proved in `HousekeepingProofs` |
| `CodeGen`, `Paging`, `AccountsProofs` | the code the generator writes; lists read page by page | | checked, proved |
| `FinancialData` | filters of the tool's query, and the seed | | checked, proved in `AnswerProofs` |

Every invariant and every property of steps that a passing run checks is also proved. What is left to TLC is liveness.

Bounds: two actors wherever a race needs two, one object wherever the objects do not share
state, two where symmetry or confusion between them matters; up to three events of the
environment, so that every pair of faults can meet and one more can follow.

## 3. The models

### `ChatTurn`
A *turn* is one request. `pc[t]` names the statement it is suspended at:

| label | code |
|---|---|
| `budget`, `resolve`, `ask` | `prepareTurn`: `assertWithinBudget`, `_resolveConversation`, the user's message |
| `open` | history (first round) and `openaiService.streamChat` |
| `stream`, `token` | the chunk loop: the stop check, then the `token` event |
| `tools`, `query` | `AnnounceQuery` is the event before a tool's query, `SendRows` the one after |
| `save`, `record`, `expire`, `clear` | `_finalizeTurn`: the reply, `INCRBY`, `EXPIRE`, `DEL` of the flag |
| `done` | the last event |

A step runs from one await, or one yield, to the next: that is where Node can interleave another
request, a socket's `close`, or a failure. `Throw` is the exception path: an HTTP error
before the stream, the `catch` block during it, the end inside the `catch` block. `YieldThen` is
a yield: the controller leaves its `for await` loop when the socket is closed, which makes the
generator return there without running either `_finalizeTurn`.

The environment is the constant `Env`, a set of kinds of events (stops, disconnects, refused
or broken OpenAI calls, failing Redis or Postgres commands, crashes, deletions, overlapping
requests); each run says which it allows. A failing command has no effect, or,
for the two that matter most (`SaveReplyUnheard`, `RecordCostUnheard`), has its effect
without an answer.

Abstractions. Text is a count of chunks; what a call costs is one of `RoundCosts`, rounded, where 0 is a cost
that `recordCost` returns on; a message keeps its role, the number of its question, its cost and whether the catch block
put an error note behind it. One account: accounts share no state.
Ids that belong to someone else are refused by the same guard as missing ones. The socket's
`close` before the controller listens is only remembered in `open`. The stop flag's TTL is an
action that may fire whenever the flag is up, whoever still needs it.

History variables: `asked`, `over` and `charges` (in `turn`), `missed`, `questions`, `events`. Only bounds
on the model (`questions < MaxQuestions`, `events < MaxEvents`) and properties read them; no other guard does. `missed`
are the turns that a stop was meant for and whose flag was taken down (`DropFlag`) before they saw it: by another turn of the
conversation that ends, or by the TTL. The comment at `chat-stop.service.ts:14-15` says that a missed stop request must not
silently no-op; with one flag for all turns of a conversation it does, and `StopBoundsOutput` excepts it.

### `SpendPolicy`
What the limit promises without the pipeline. Admission hands out tickets, each good for one
charge of at most `MaxCost`; a charge uses one up; a window's end sets the spend to zero
and leaves the tickets. `ChatTurn` implements it with
`tickets <- Tickets`: the charges a turn past its budget check may still make. A turn may be charged
twice when a Redis command fails after `INCRBY`, because the `catch` block charges again: `MaxCharges`
is 2 with `"redis"` in `Env`, else 1.

### `AmqpWorker`
A *job* is one published message; `broker[j]` says where RabbitMQ has it, and, when a worker holds it
unacknowledged, which answer is under way. A *handler* is one run of the callback of
`createMqWorker`, suspended at

| label | code |
|---|---|
| `invalid`, `ackInvalid` | no `meta`: `saveAsInvalidPayload`, then the acknowledgement |
| `find` | `MessageTaskService.process`: the SELECT |
| `dispatch` | `handler.dispatch` |
| `answer` | `handleSuccess`, `handleDead` or `handleFail`, and the task's new status |
| `save` | `MessageTaskService.save`: INSERT, or UPDATE with the diff |

An acknowledgement is written to the channel (`Reply`) and takes effect later (`SettleAnswer`), so
a rejected job may be back in another handler before the first one has saved. An INSERT whose key exists
rejects, nothing catches it, and Node ends the process (`Die`): all its handlers are gone and its
messages delivered again. A broken connection (`Disconnect`) is noticed by the broker first; the handlers
go on until they answer, or the process ends (`Restart`). A process that dies for any other reason, a
failed query included, is a `Disconnect` followed by a `Restart`.

Abstractions. A job is its outcome: it succeeds, throws, or refuses its payload. A row keeps
its status and its attempts. The queues differ in what matters to a job: `hot` has no retry
configuration, as all queues of `worker.constant.ts`; `cool` has retry enabled; jobs on `cron` come
without `meta`, as `app.cron.ts` publishes them. `RetryExpires` assumes that the retry queue's TTL (a minute
by default) outlasts a save. History variables: `runs`, `seen`, `cuts`, `mishap`.

What the model makes visible of the code: the scheduled cleanup is published without `meta`, so it ends as
a `DEAD` row and is never dispatched; on the `hot` queues a job may run more often than
`max_attempts`, because overlapping deliveries read the same count; and two first attempts that
overlap end a worker's process on a duplicate key.

### `Metering`
Where `ChatTurn` charges a price out of a small set for each round, `Metering` says which. `meter` holds the
locals of the generator's loop over rounds (messages of the prompt, text and tool calls of the round,
`gotUsage`, content, cost); `truth` (history) holds what OpenAI counts and what was sent and shown.

| actions | code |
|---|---|
| `Ask` | `prepareTurn` and the first messages |
| `StreamChatCompletion`, `Delta`, `ToolDelta`, `UsageChunk`, `NoticeStop`, `StreamOver` | a round's chunks, its stop check and what is summed when it is left |
| `PushCalls`, `AnswerCall`, `NextRound` | the messages of the next round |
| `Thrown`, `FinalizeTurn`, `HangUp` | the `catch` block, `recordCost`, a client that leaves |

Prices are integers, in hundredths of a micro-dollar; `Micros` is the code's `Math.round`. OpenAI's own count is
external: contents, a surcharge per message and for the tool definitions, and what it generated.
What the model makes visible: the estimate for a stopped round leaves out the arguments of tool calls and
the tool definitions, so it is a lower bound; a round whose stream fails is charged nothing, nor is a turn whose
client hangs up; a model without a price is charged the default's.

### `Sessions`
A *request* is a sign-in or a refresh, suspended at

| label | code |
|---|---|
| `find` | the lookup outside the transaction: `FindAccount`, `FindToken`, `Refuse`, `FailToFind` |
| `write` | `SaveAccount`: `accountService.save` and `userService.save` in the sign-in's transaction |
| `revoke`, `lock` | `RevokeOthers`, `LockRows`: `revokeAllOtherSession`, which matches rows when it begins and waits for those another transaction has written |
| `commit` | `Commit`, whose answer may be lost; `Rollback` from any label of the transaction |

`Expire` is time, `CleanExpired` the nightly delete. A token is identified with its session; passwords
and hashes with the account they belong to. `parent` is the session whose token was redeemed (history, as is
`met`, the pairs of sessions whose transactions overlapped).

### `TokenRefresh`
Extends `Sessions` with the browser: the cookie, localStorage (`store`), each tab's React state (`user`),
API calls (`call`), and the page that waits for each auth request (`asker`, whose refreshes are a tab's
`refreshPromise`). `Login`, `Logout` and `Reload` are the user's, `Send`, `Rejected`, `RejectedAgain`,
`CallAnswered` a call's life, `LoginAnswered`, `Refreshed`, `NotRefreshed`, `Unheard` the answers.
An access token names its account and any call may meet a 401: tokens age on the way.
What the model makes visible: a logout is undone by another tab's call, which refreshes with the cookie the logout
leaves; another tab's login leaves this tab with the old user beside the new token (`crossed` records
both, and the properties except them); a refresh never revokes sessions of other devices. A call that fails for good loads
`/login` and with that ends all of its tab's calls; where the page is there already, only the failed calls end (`HandleFatal`).

### `EmailVerification`
A *request* is a sign-up, a resend or a verification; its record keeps the uncommitted writes of its
transaction and whether Postgres has aborted it.

| actions | code |
|---|---|
| `SignUp`, `Replay`, `Remember`, `Forget` | the idempotency interceptor: GET, handler, SET, TTL |
| `SaveAccount`, `SaveUser`, `SaveToken` | the sign-up's transaction, with its unique keys |
| `Resend`, `DeleteAll`, `LockAll` | the resend's |
| `OpenLink`, `Effect`, `FindToken`, `SaveVerified`, `DeleteToken` | the page behind the link, and the verification |
| `Commit`, `CommitFails`, `CommitUnheard`, `Arrive` | the end of a transaction, and the mail's publication and arrival |

A body is identified with its key: the page draws a fresh key for each call, and only a replay repeats one.
`spentBy` and `met` are history. What the model makes visible: the services of accounts and users swallow
every error but a unique violation, and only Postgres's refusal of the next statement keeps half an
account out of the tables; a sign-up whose commit's answer is lost has an account and no mail; resends that
overlap leave two valid tokens, where a comment promises one; a second visit of a used link says "failed"
though the user is verified; a replay answers with a user id that was never stored.

### `ChatClient`
The chat page: URL (`selected`), the locals and refs of `useChat` (`isStreaming`, `stream`,
`streamingConversationIdRef`, `streamingText`, `bubble`), the query cache of the messages
(`cache`, `fetch`) and the sidebar's dialog (`deleting`). `Send`, `HearConversation`, `HearToken`, `End`,
`Break` and `Stop` are `sendMessage` with its callback and its `finally` (`Finish`, `Invalidate`); `Select`,
`NewChat`, `ConfirmDelete`, `Delete`, `DeleteAnswered` the sidebar; `Mount`, `Serve`, `Lose`, `Land` a
request for messages. The server is what the page can observe of `ChatTurn`: `Accept`, `Refuse`, `Reply`,
which goes on after the page has hung up. An effect of React runs in the step that changes what it depends on.
Every click the page offers is included: on the conversation that is on screen, on "New chat" where there is no other, and, while a
deletion is under way, on all that Escape gives back when it dismisses the dialog.
History: `excused`, `disturbed`, and `left` of `server`. What the model makes visible: the event with the new
conversation's id takes a user who has walked elsewhere back to it; an earlier turn's refetch, or an
earlier question of the same text, takes away the bubble of a later turn, and so does a click on the sidebar, even on
the conversation on screen (`resetTurn` in `ChatPage.tsx:18-26`): the question is then out of sight until its turn has ended and the
list is back; a deletion whose answer is lost leaves the user on the deleted conversation; a refetch after a stop may
come before the reply is stored; a stop before the id is known is no request at all.

### `ReplyStream`
The bytes between `writeSseEvent` and the page: `SendToken`, `AnnounceQuery`, `SendRows`, `FinishTurn` write
frames, `EndRound` adds the round's text to what will be stored, `Read(k)` hands the first `k` bytes to `TextDecoder` and the buffer, `Hear` is one turn of the inner loop
(`ParseSseEvent`, `OnEvent`), `BreakOff` a stop or a broken connection. A byte is a name: the framing's ASCII
taken together (`Framing` lists the names that are no character, `Characters` is what texts are made of), a wide
character as two bytes. `sent` and `heard` are what was written and what reached
the callback. What the model makes visible: a live tool card may lack its SQL, because the updater that
reads `pendingSql` may run after it is set to null; when a round fails, the client has been shown its text (`roundContent`) and the
stored reply has an error note in its place.

### `StoredFiles`
A *file* is one presigned upload: `GetPresignUploadUrl`, `Upload`. A *save* is `save` or `saveBulk` with its caller:
`SaveNew` or `SaveEdited`, then `DeleteRelated` or `DeleteRelatedFails`, and per file `SetMetaInfo`, `Create` or `CreateFails`, `Return` at
the end. A `saveBulk` of several owners' files, which nothing in the repository calls, is as many saves side by side. An edit that changes the
key, by a new id or `fileExposeType`, names an object that has to be looked at: no URL was ever issued for a key with the other
expose type, so that edit ends in `CreateFails`. `Delete`, `Expire` and `OwnerGone` happen around it. The cleanup is `StartCleanup`, `CleanExpired`,
`FindOwnerTables`, `CleanOrphans` for each of them, `ListPage`, `ReadRows`, `RemoveObject`, `EndCleanup`, and `DatabaseFails` wherever a query may. `late`,
`garbage`, `kept` and the fields `alone` and `met` are history. The job is modelled as if it were dispatched. What the
model makes visible: a save deletes before it creates and loses the old files when it fails; an edit that
names another owner deletes that owner's files and then violates the primary key; an owner table that no migration
creates (the only one the code names) makes the whole job fail; a listing that fails ends the folder
silently.

### `ObjectStore`
The storage service's own operations: `put`, `remove`, `deleteFile` and `copy` are one request (`SendRequest`,
`RequestFails`, with its effect or without); `ensureFile` is a HEAD and a PUT (`Exists`, `ExistsFails`);
`deleteFolder` is a loop of listings and bulk deletions (`ListObjects`, `DeleteObjects`, `FolderFails`).
`was`, `steady` and `missed` are history. What the model makes visible: `exists` takes every error for absence, so
`ensureFile` may overwrite; the answer to a bulk deletion names what was not deleted, and nobody reads it.

### `ChartBlock`
`WriteRow` is the model's text as it is parsed, `Render` is `MessageBubble`: `normalizeChartSpec`, then
`isChartDataGrounded`, then the drawing. A row is the sequence of its properties in the order of `Object.keys`. `Numeral` is a number the model has put in quotes: the chart
draws it as a figure, and the check, which looks at values of type number (`FinancialChart.tsx:63`), lets it through. Of a message
without tool results anything is drawn. The comment at `FinancialChart.tsx:56-57` wants every plotted number traceable; these
are the two exceptions `ChartTraceable` names.

### `Entities`
One row of any of seven tables and the entities that hold it. `New`, `FindOne`, `FindJoined`, `Edit` and, for `save`,
`InsertRow`, `Update`, `SaveAgain`, `Refused`; `DeleteRow`. The tables `Table`, `Mapper`, `Edits` and `Service` say of each
kind how its columns are read and spelled, what its util edits, and what its service can do. `diff` compares spellings: a
timestamp read through a join is spelled differently from the mapper's and so is written back unedited.
`due`, `excused`, `deleted` and an entity's `edited` are history: an edit counts whatever it gives, the value that was loaded (`Back`)
included. What the model makes visible: an edit back to the loaded value is no edit to `diff`, so what another holder has
written meanwhile stays (`Unseen`); a service that swallows a failure leaves an
entity that passes for stored; messages and tokens are never updated; a save of a deleted row
changes nothing and says so to nobody.

### `FinancialData`
`CallTool`, `CallWithoutJson`, `CallMisshapen` are the model's call as `_parseToolArgs` takes it, `ExecuteQuery` the query
with its filters, `SeedDeletes`, `SeedInserts`, `SeedFails` the seed command. Names are sequences of characters, of
which `Cases` says what is a letter or a digit; the others are punctuation or wildcards of LIKE. `Only` is the `replace` that strips
them (`Nth` counts the places that stay). Tickers are assumed to be of letters and digits, as those of `financial_data.sql` are. `lacking` is history. What the model makes visible: a name without a
letter matches every row; arguments of the wrong shape fail the turn; a question between the seed's
two statements is told that there is no data.

### `Paging`
`ParseSort`, `FindIds`, `FindIdsFails` and `GetCount` are the parts a list endpoint is made of; no endpoint composes
them yet, so the caller who follows the links is external. `InsertRow` and `DeleteRow` come between the two statements;
`made` are the ids there have been, since a time-ordered id is never made twice. `list`, `seen`, `shifted` are history. What the model makes visible: ties come in any order, so pages of such a sort may repeat
and lose rows; with `perPage` 0 there is no last page; users cannot be sorted by the times the API offers.

### `CodeGen`
`Generate` runs the command on the declaration `decl`, `Redeclare` changes that, and the rest runs what was generated: `New`, `Edit`,
`Save`, `Load`, `PassAsJson`. `files` keeps the declaration each of the five files was made from, because a file that
exists is left alone without `--force`. `due`, `kept`, `threw` are history. What the model makes visible are the conventions the
generator takes for granted, which `Conventional` names: elsewhere a field is lost on edit, or a save throws.

## 4. Runs

| run | what runs | shows |
|---|---|---|
| `chat_orderly` | `ChatTurn` with stop, refused, broken, delete; 2 turns, 2 conversations. Beside it `Metering` | `NoDanglingQuestion`, `BooksBalance`, `WindowArmed`; `FairlyCharged` |
| `chat_faults` | stop, disconnect, redis, db, crash, overlap; 2 turns, 1 conversation | `OneReply`, `StopBoundsOutput`, `SettledBeforeLastEvent`, `PolicySpec` |
| `chat_live` | stop, disconnect, refused, broken, delete; fairness | `TurnEnds`, `BudgetReturns` |
| `amqp_jobs` | one job on any queue, 2 workers, 2 handlers, 2 broken connections; fairness | `NeverLost`, `RecordTruth` (which includes `AttemptsHonest`), `RunsBounded`, `JobsSettle` |
| `auth_sessions` | `TokenRefresh` over `Sessions`, in two sizes | `LiveSessionRemains`, `OneLiveUnlessOverlap`, `RedeemedOnce`, `TokenMatchesUser`, `CookieSurvives`, `NoCallStranded` |
| `accounts` | `EmailVerification`; beside it `Paging`, `CodeGen`, `ObjectStore` | `NoHalfAccount`, `AnswersAreTrue`, `MailedUserExists`, `StrayTokensOverlap`, `FreshLinkWorks`; `PagesAddUp`; `GeneratedKeeps`; `BucketAsTold` |
| `chat_client` | `ChatClient`; beside it `ReplyStream`, `FinancialData` | `ShownUnderItsOwn`, `StopHitsItsTurn`, `SettledView`, `QuestionStays`; `ReplyAsStored`; `NothingLeftOut` |
| `housekeeping` | `StoredFiles` in three sizes; beside it `ChartBlock`, `Entities` | `CleanupSparesStored`, `CleanupCollects`, `SavedFilesStay`; `ChartTraceable`; `EditsKept` |
| `chat_hangup` | disconnect | **violation** of `NoDanglingQuestion` |
| `chat_broken` | broken | **violation** of `ShownIsKept` |
| `chat_late_stop` | stop | **violation** of `NoPhantomStop` |
| `amqp_hot_retry` | nothing breaks | **violation** of `BacksOff` |

Components that do not interact share a run, so that a few commands check everything: a variable `part` says
which of them a behaviour is about, and the others keep their initial values. Nothing is composed by that.

The four violation runs are disagreements between the code and what its comments or documentation
say; `PROJECT.json` quotes them. A disconnect leaves the generator at a yield, so the question keeps no
reply; a round whose stream breaks loses the text already shown; a stop that arrives after its
turn was finalised stays in Redis for its TTL and stops the next turn of that conversation; a queue
without retry configuration does not retry by way of a retry queue.

### Bounds

*Chat pipeline.* Two turns are what a race needs: turns meet only in the spend, in a flag and in a log.
Two conversations are needed where a flag or a log could be mixed up, one where they are to be
shared. A call costs one unit or nothing (`RoundCosts`; in `chat_faults` one unit, so that every turn is charged), and with `Limit = 1`
every turn that is charged reaches the limit. One content chunk and one tool call per OpenAI call
give each loop a first, a last and no iteration; `ChatTurn` takes the number of rounds from the code.
Two or three events let any two faults meet. `chat_late_stop` needs `Limit = 2` so that a
second turn is admitted.

*Metering.* Three rounds, one more than the code's, so that there is one that is neither first nor last; two models, of which one has no price; two
deltas and one tool call per round; two questions, of which the second is followed through its first round, since it differs
from the first only in the messages it inherits. The prices are the code's, so no smaller numbers stand for them.

*AMQP.* One job is enough: jobs meet only when one of them ends the process of a worker, which is
to the other job a broken connection, and the run has two of those. `MaxAttempts = 3` (5 in the
code) leaves an attempt between the first, which inserts the row, and the last, which is
acknowledged: that is where late saves overwrite newer ones. Two handlers are two deliveries of one job that
overlap.

*Sessions.* Two requests at once and one device, since devices share nothing. `deep` has one tab, two calls whose 401s share a
refresh, one account and three sessions: the fewest with which a token is redeemed twice. `wide` has two tabs with a call
each, two accounts and two sessions. One session expires, in `deep`.

*Email.* Two keys that want the same email under two usernames, two requests, two visits to links,
three ids (a sign-up, its rival or a resend, and one resend more), one fault and one expiry.

*Paging.* Three rows, two of them made in the same millisecond; two texts, one filter; `perPage` -1, 0, 1 and 2; sorts of up
to two keys; walks of three pages; two writes during a walk, so that a deletion may make room for an insertion. *CodeGen.* The one field beside the fixed three is a string, a Date or an array, with all
flags; two edits, two runs of the command. *ObjectStore.* A folder's own name, two objects in it and one whose name only begins
like the folder's; two contents, two clients, two operations, pages of one, one error.

*Chat page.* Three conversations, one of which exists before; two texts; two turns; two events (clicks and failures), so
that the user can leave and come back; with a new conversation for each turn, no list that lags behind (`Within`). *ReplyStream.* Three events beside the first and the last, cut at every place; payloads with a wide character and with newlines.
*FinancialData.* Three letters in two cases, a dash for all punctuation, `%`; two companies, one whose ticker spells the other's name; names that differ in case, in punctuation or have no
letter; two runs of the seed.

*Stored files.* `saving`: two callers and two files, a fault or an event. `cleaning`: one caller beside a cleanup of two files on pages of one.
`folders`: a third file in the other folder, no faults. One cleanup; in `cleaning` one fault and one event. *ChartBlock.* Rows with up to three properties,
of which the one for the x axis comes first (`Drawable`), two rows, two series, two figures and a numeral. *Entities.* Two holders, two edits, one failing statement, any of the seven tables.

`CHECK_DEADLOCK FALSE` in every configuration: requests, edits, writes and faults are bounded, and
the system stops when all are used. Symmetry is used only in runs without temporal properties, except for `PolicySpec` in
`chat_faults`, a property of single steps that names no element of the symmetric sets; the sets are slots and ids the
modules only compare for equality.

### Fairness

`WF_vars(Serve(t))`: Node's event loop resumes a handler whose await has been answered, the
Postgres, Redis and OpenAI clients answer or time out, and an OpenAI stream is finite (here
`MaxTokens` and `MaxCalls` per call). No fairness is assumed of clients, of failures or of `FlagExpires`.
`WF_vars(UsageExpires)`: Redis removes a key whose TTL has passed. `BudgetReturns` is checked
without `"redis"` and `"crash"`: either may separate `INCRBY` from `EXPIRE` and leave a counter
without an expiry, which is the exception `WindowArmed` also needs.
In `amqp_jobs`: RabbitMQ delivers a ready message to a connected worker and expires a retry
queue's message, queries and jobs end, and a process whose connection is lost is replaced (amqplib
emits an `error` nobody listens to). A connection that the broker closes in an orderly way emits no
such error and its worker is not replaced; that case is outside the assumption.
The other runs check safety only and assume no fairness.

### Exceptions the properties name

Several properties hold up to an exception that is the code's, recorded by a history variable. They are:
a turn whose stop was taken down (`missed` in `ChatTurn`), and a store that fails behind the first INSERT of a reply (`OneReply`);
overlapping transactions (`met` in `OneLiveUnlessOverlap`, `RedeemedOnce`, `StrayTokensOverlap`); a login or another tab's
auth request that overlaps one (`crossed`) and a commit whose answer is lost (`missed`) in `TokenRefresh`; a list that failed to
load or was asked for too early (`excused`) and a bubble that a click or another turn took (`disturbed`) in `ChatClient`; an
object inserted after the cleanup looked (`late`) and failures the cleanup hides (`met`) in `StoredFiles`; swallowed failures,
joined timestamps and edits back to the loaded value (`excused`) in `Entities`; numerals in quotes, and messages without a tool result, in `ChartBlock`; the gap of the seed in `FinancialData`; rows moved across what was read, and ties, in
`Paging`; failures taken for success (`missed`) in `ObjectStore`; unconventional declarations in `CodeGen`.
Each stands for a behaviour of the code that section 3 describes, and covers no more than that.

## 5. Proofs

The theorems hold for every value of the constants the modules' named assumptions allow
(`ChatAssumption`, `MeteringAssumption`, `PolicyAssumption`, `WorkerAssumption`, `SessionsAssumption`,
`ChatClientAssumption`, `ReplyStreamAssumption`, `FinancialDataAssumption`, `PagingAssumption`, `StoredFilesAssumption`,
`ObjectStoreAssumption`, `CodeGenAssumption` and so on). These say that bounds and
token counts are natural numbers, that sets that must be finite are, and that `None` and the like are not members of what they stand
beside; of the letters that no character is a case of two of them. Type invariants are proved rather than run. The larger inductive
invariants were checked with TLC before they were proved.

* `SpendPolicyProofs!OvershootBounded`: spending never passes `Limit - 1` plus what all tickets
  together are worth. `SpendBounded` alone is not inductive (nothing would bound the next charge);
  `Exposure`, the spend *plus* the worth of the outstanding tickets, is: an admission starts
  below the limit, a charge gives up a ticket worth at least its cost.
* `ChatTurnProofs!TypeCorrect`: `TypeOK` is an invariant. It needs `Shape`, which relates a turn's
  locals to its label: at the tool labels `calls` is positive (so `calls - 1` is a number), the
  cost is at most what the rounds opened so far can cost, a turn that still streams was
  neither charged nor in its `catch` block, and a turn about to be charged has a charge
  left. `IInv` is `TypeOK /\ Shape`; `GoKeepsShape` reduces each action to the `ShapeAt` of
  its own target label. TLC checked `IInv` before it was proved.
* `ChatTurnProofs!RefinesSpendPolicy`: `Spec => PolicySpec`. Each step is an admission (the budget
  check), a charge (`RecordCost`, `RecordCostUnheard`), a reset (`UsageExpires`), a forfeit (a turn leaves) or
  a stutter. It rests on the parts of `Shape` about cost and charges.
* `ChatTurnProofs!SpendIsBounded`: the two put together, the bound for the pipeline itself.
* `ChatTurnProofs!WindowIsArmed`: without Redis failures and crashes, a spend without an expiry is
  always about to get one.
* Five theorems rest on `StoresAgree`, what conversations and turns know of each other whatever fails: questions are numbered
  apart (`Numbered`, `Distinct`), a message with the number of a turn in flight is that turn's (`OwnMessages`), a deleted
  conversation has no messages (`GoneIsEmpty`), and a turn past its `INSERT` has its reply stored or its conversation gone (`Filed`).
  `StepKinds` sorts every action into one of a few kinds of step, so that each invariant answers for a kind once.
* `ChatTurnProofs!NoQuestionDangles`: while the process stays up, clients stay and Postgres answers, every question has its reply or
  a turn that works on it (`QuestionsTended`), whatever OpenAI and Redis do.
* `ChatTurnProofs!QuestionsAnsweredOnce`: in every environment, a second reply to a question is the catch block's, last, with the error
  note and the cost of the first, and comes only of a store that failed behind the first INSERT; and a turn is never charged more often
  than it has replies (`Paid`). The log says which second replies there are (`Noted`), and each turn what it finds of its own (`Finds`): none before
  its first `INSERT`, and after it none with a note until the catch block has put one there.
* `ChatTurnProofs!AccountsBalance`: while Redis and Postgres answer, a
  finished turn was charged once, what its reply says, or not at all if it was free. A turn finds
  its own cost in its reply (`Finds`), and one past `RecordCost` has charged once (`ChargedOnce`).
* `ChatTurnProofs!LastEventComesLast`: whatever fails, the reply is stored (`Filed`) and the cost recorded (`Charged`) before `done` or
  `error` is sent.
* `ChatTurnProofs!StopsBoundOutput`: whatever fails, a turn that is not in `missed` sends one chunk at most after a stop (`Heeds`), the
  one that had passed its check: while such a turn streams, its flag is up, through all its rounds.
* `ChatTurnProofs!TurnsChargedFairly`: `FairlyCharged`, for any prices and token counts. In the products of prices and counts the
  invariant keeps one comparison (`Fair`): what is due, with all that was sent and generated in a round whose usage has not
  arrived, is at most what OpenAI counts, and at least that while every count has arrived. `ProductGrows`, `CostGrows` and
  `UsageCovers` carry it through `calculateCost`.
* `AmqpWorkerProofs!JobsSurvive`: `TypeOK`, `NeverLost` and `AttemptsHonest`, from `WorkerAssumption`.
  The inductive invariant gives every handler a claim (`HandlerAt`): the attempts it holds
  in memory have been made, or are about to be, and an acknowledgement it is about to send is
  justified by what the job has done. Others cannot break a claim, since `runs`, `seen` and
  `invalid` only grow and a published job keeps its queue (`Grows`): `HandlerStays` says so once,
  and each action then answers for the handler that moves.
* `AmqpWorkerProofs!RecordsAreTrue`, `RunsAreBounded`: without the mishaps that both properties name (`Peaceful`), what is recorded
  of a job is what its handler has just done or has been told (`Calm`), and the attempts a message carries count the runs (`Cool`).
* `SessionsProofs!NobodyLockedOut`, `RotationReplaces`, `TokenSpentOnce` (and `SessionTypes`), for any number of
  requests, accounts, devices and sessions. The inductive invariant has four parts beside the types: `RowsOK` (the three
  properties, and that a redeemed parent is a committed session, `ParentCommitted`, and on its own device spent by then,
  `ParentSpent`), `OwnAt` (a request in its transaction holds a minted session that only it can commit), `SeenAt` (the rows its UPDATE
  has matched are of its account and device, and leave out only sessions it has met) and `PairAt` (two requests in their
  transactions at once have met; two sign-ins never hold one account's row together). `OneLiveUnlessOverlap` alone says nothing about
  rows that are still uncommitted, which is where the next violation would come from.
* `SessionsProofs!BrowserIsAClient`: `BrowserSpec => Spec`. Whatever the tabs do, the server sees a behaviour of `Sessions`: each step is
  one of the server's or leaves it alone, so all of the above holds beside the browser.
* `SessionsProofs!TokenFollowsUser`, `CookieIsNeverSpent`, `WaitersAreWoken`, from `BInv`: until auth requests have overlapped
  there is one at most (`Alone`), and everything follows from what it is worth to the browser, i.e. the cookie it redeems
  (`Redeems`), the account it was issued to (`Fresh`, `Mirrors`) and the session it brings (`Replaced`). A call that waits has a tab
  whose refresh is under way (`NoCallStranded` with `RequestsKnow`).
* `EmailVerificationProofs!EmailInvariant` and five that follow from it: `AccountsComeWithUsers`, `MailFollowsCommit`,
  `AnswersRestOnRows`, `OwnVisitNeverSpoils`, `StrayTokensHaveMet`. The invariant ties each request to the rows it has
  written (`RequestsLinked`), keeps two requests from one row (`RequestsApart`), and lets a page's answer rest on a row that was
  there (`PagesOK`); every action is one of a few kinds of step, and what each kind preserves is proved once.
* `AnswerProofs!PageInvariant` and the four properties of the page: `TextKeepsToItsOwn`, `StopsHitTheirTurn`, `ViewSettles`,
  `QuestionStaysInSight`. Twelve parts, of which the turn's order (`TurnsInOrder`), what a stream's closure knows (`StreamKnows`,
  `LeftBehind`), and what a list may lack while its turn streams and after (`WhileStreaming`, `Afterwards`) carry the rest. They hold through
clicks that take the bubble away, since these leave the stream and what is on its way alone.
* `HousekeepingProofs!StoredSpared`: `CleanupSparesStored`, from `SpareInv`, which adds `OrphansLate`: what the cleanup
  holds for an orphan has no row, or one that is in `late`.
* `HousekeepingProofs!SavedStay`: `SavedFilesStay`, from `StayInv`: what is promised of an owner (`KeptAt`), how far a lone
  save has come (`ProgressAt`, `FreshAt`), and that two saves of one owner know of each other (`PairAt`). `FilesTypes` is the type
  invariant.
* `HousekeepingProofs!CollectsWhatItFound`: `CleanupCollects`. A file to be collected whose object is still there is ahead of
  the listing or pending on the page (`InReach`), because the keys left over from a page all come after its token
  (`PageComesFirst`, `TokenSplits`), and nobody puts garbage back (`OthersLeaveGarbage`).
* `HousekeepingProofs!OperationsKeepTheirWord`: `BucketAsTold`. `FolderListed` shows that `deleteFolder`'s prefix, with the slash
  it adds, matches what is in the folder and nothing whose name only begins alike; `ListedAt` that what the listing has
  passed is gone and the rest is on the page or after it; `OthersStand` that clients disturb each other only where a key is not
  `steady`. It assumes of names that they are sequences of characters.
* `HousekeepingProofs!NoEditLost`: `EditsKept`, from `ReadAsWritten`: a mapper's `toPg` spells what a plain `SELECT` reads the
  way it was read, for each of the tables, so a save writes only columns that were edited (`ChangesAreEdits`, `TouchedColumns`), and what
  it leaves out of those has the row's value or is in `excused`.
* `HousekeepingProofs!ChartsAreTraceable`: `ChartTraceable`; what is drawn is among the figures that were checked, or a numeral.
* `AnswerProofs!EveryRowWanted`: `NothingLeftOut`, for any alphabet and any table. Names that are spelled alike are normalized to one
  sequence (`SpelledAlike`): `Only` keeps as many characters as there are places for them, each at its own (`NthOf`, `OnlyOf`), and lowering the case
  first keeps the same places. A ticker loses nothing (`TickerStands`), and `Like` with `%` at both ends finds a text in itself by a
  cut that is written down (`LikeItself`).
* `AnswerProofs!ReplyShownAsStored`: `ReplyAsStored`, for any characters, payloads and number of events, wherever the network cuts.
  `StreamInv` relates four sequences. `InTransit`: the buffer, followed by what decoding the carry and the wire would yield, is
  the text of the events sent and not yet heard. It is kept because decoding goes over a concatenation that cuts no character
  (`DecodeConcat`), and a chunk that ends in half of one leaves the half in `carry` (`ReadSplits`). `FirstEvent`: the first two newlines in a row end
  the first event, since a text's own newlines are escaped, and parsing it gives the event that was written.
  `EventsInOrder`: what was heard is a beginning of what was sent. `Recorded`, `Shown`: the content with the running round's text, and the page, are what the
  events sent and the events heard come to (`TextOf`, `CallsOf`, `Waiting`), so one begins the other; at `done` no round is running, at
  `error` what is missing of the stored reply is the failed round's text.
* `AccountsProofs!FilesWork`: `GeneratedKeeps`. Files of different runs differ at most in whether the field may be null (`Alike`), and
  what their mapper spells is read back as it was (`Spells`); so the row is what the mapper makes of `kept`, `$pgState` is the row, and
  a save that skips a column skips one that has not changed.
* `AccountsProofs!PagesAddUpToList`: `PagesAddUp`, for any rows, sorts, page sizes and writes. In a sort without ties (`NoTies`) a row's place is the
  number of rows before it (`Rank`), and a page holds the rows of its ranks (`PageOfRanks`), whichever of the sorted sequences the
  statement yields. A walk forwards has read, once each, as many rows as
  its pages hold, those of the lowest ranks (`Forward`); a walk backwards the first page and those from the last down (`Backward`).
  A write that moves no row across what was read leaves it its ranks (`Unmoved`), and the pages that `getPagination` counts
  have room for every row (`Pages`).

The library's rules of induction take an operator, which the provers cannot instantiate. Where a fact about all sequences or numbers
was needed, the proofs show that the set of numbers for which it fails has no least member (`SeqInduction` from
`Least`, by the library's theorem that the order of the naturals is well founded on every subset).

Checked only with TLC: the liveness properties `TurnEnds`, `BudgetReturns` and `JobsSettle`, since fairness and `ENABLED` are out of the
prover's reach.

To run: `tlc -workers 2 -config ChatOrderly.cfg MCChatOrderly` for a run (its `.cfg` and module are in
`PROJECT.json`), `tlapm ChatTurnProofs.tla` for the proofs.

## 6. Not modelled

* HTTP plumbing, configuration, logging, i18n, request validation: wiring without state of its own. What the JWT guard
  decides is `TokenRefresh!CallAnswered` and `Rejected`.
* UI components and pages: rendering. Their hooks are modelled above; the usage badge, drafts and scrolling are not,
  since they only read.
* Migrations, `initials` and the other commands: one-shot scripts of constants. Migrations were read for keys and cascades.
* `common.cursor.ts` has no caller. The helpers for CSV, dates, hashes and strings are formatting, and no
  property is about it.
* Read-only queries (the conversation list, `getUsage`), beyond reading messages and the tool's query.
* A disabled storage, which refuses every call; nested transactions and the read replica, which nothing uses: every
  caller opens one transaction, and both pools name one database.
* What the model writes, and whether it is right: `ReplyStream`, `ChartBlock` and `FinancialData` take its text as given.
* The scheduled cleanup is published without the `meta` its worker demands (`app/app.cron.ts`) and so never reaches
  `CleanupCommand`. `AmqpWorker` shows the `DEAD` row it ends as; `StoredFiles` models the command as if it ran.
