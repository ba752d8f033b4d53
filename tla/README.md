# A TLA+ model of codex-for-grok

`codex-for-grok` is a local HTTP bridge: Grok talks the Responses API to
`127.0.0.1:18474`, the bridge adds the credentials of the Codex CLI, adapts the
request and streams the answer back. It is one Rust binary that also installs
itself: it adds two models to Grok's config, runs as a user service and can
remove both again. This directory models it in TLA+, checks the models with TLC
and proves the main results with TLAPS. Line numbers refer to the files under
`src/src/`.

## 1. Inventory

| Component | State | Operations | What makes it correct |
|---|---|---|---|
| Request handler and stream (`server.rs` 203-534) | the stream semaphore; per request: permit, `ActiveStream`, `saw_completed`, outcome | accept, read body, acquire a permit, load the session, POST upstream, refresh and retry once on 401, pass errors on, stream frames, end on completion, failure, end of body, idle timeout or disconnect | no exit loses or doubles a permit; the client hears one end; what is recorded is what it heard; silent upstreams cannot hold streams |
| Metrics (`metrics.rs`) | atomic counters, `active_stream` gauge, `latest_request` under a lock, ready flag | count start, outcome, cancellation in a destructor, usage | the books balance; the gauge counts streams; no counter wraps |
| Serve and shutdown (`server.rs` 96-133, `cli.rs` 97-129) | listener, process lock, ready flag, drain deadline | take the lock, bind, signal, drain, give up draining, exit | one bridge at a time; the process stops within a bound and leaves nothing behind |
| AuthManager (`auth.rs`) | auth file shared with codex, refresh lock, refresh counter | load, refresh under the lock, blocking owner-only write | one refresh at a time, no spent token presented, login survives |
| Setup and uninstall (`cli.rs` 130-508) | Grok's config, `ownership.json`, backups | plan, back up, write, record, roll back | the user's text survives; manifest and config agree |
| Service lifecycle (`cli.rs` 535-767) | service file, systemd or launchd | start, stop, restart, removal on uninstall, restore | no foreign file is touched; the manifest owns exactly the file that is there |
| QuotaManager (`quota.rs`) | child process, JSON-RPC session, snapshot with staleness | spawn, handshake, update, reconnect with back-off, shut down | ready only after a good reply and stale after a lost session; every failure is retried; the shutdown ends worker and child |
| SseDecoder (`server.rs` 699-753) | byte buffer | push a chunk, take events | the same events however the bytes are cut |
| StreamTransformer (`protocol.rs` 303-486) | items by `output_index` | transform an event | the completed output holds what the deltas said, in order |
| Request adaptation (`protocol.rs` 63-301) | none | `adapt_request` | supported input is kept, unsupported is refused |
| Routes, status (`server.rs` 135-201, `metrics.rs` 176-226) | reads Metrics, sets ready | health, ready, status, models | readiness follows the credentials and the drain |
| Config (`config.rs`) | none | parse the environment | limits are positive |
| doctor, status commands, entry point, scripts | none | read and print | - |

**How they interact.** hyper runs one task per connection. The handler calls
AuthManager (awaits its lock and its file reads), the HTTP client and Metrics;
the stream it returns owns the permit and the `ActiveStream`, and is driven by
hyper as the client reads. When the client goes away, hyper *drops* the task at
the await it is suspended at: destructors run, nothing else. QuotaManager runs
as a background task that writes a snapshot the status route reads. The install
commands are separate processes that share files with the user, with Grok, with
each other and with the running service, and take no lock among themselves.

**What is hard here.**

- Cancellation: eleven awaits in the handler and four in the stream, each a
  place where a destructor is the only code that runs (`server.rs` 203-534).
- A refresh token is good once. Requests race for it; the codex CLI rewrites the
  same file; the write goes on in a thread after its request was dropped; a
  crash between the POST and the rename loses the only good token (`auth.rs` 78-126).
- A stream can fail after it completed, complete without tokens, or fall
  silent; the failure must leave two nested loops (`server.rs` 429-508).
- Shutdown waits for streams that may never end, and goes on without them: what
  is still in flight then runs on after the lock is free (`cli.rs` 118).
- Upstream bytes arrive cut anywhere, also inside a CR LF pair; deltas of several
  items interleave, and the bridge adds what they left out from what it
  remembers (`server.rs` 699, `protocol.rs` 304).
- Grok replays the history, not always as it got it; one thought that Codex
  cannot resolve makes it refuse every later request (`protocol.rs` 177).
- Setup, start and uninstall change two to four files with no transaction
  underneath: each write can fail, the rollback can fail, the process can be
  killed, the user edits the same files (`cli.rs` 257-458, 568-588).

`PROJECT.json` lists each of these as a hazard at its line, with the property
that covers it or the reason why none does.

## 2. Plan

Order is by what matters most to a user of the bridge.

| # | Module | Composes | State |
|---|---|---|---|
| 1 | `StreamSlots` - abstract semaphore | - | done |
| 2 | `Bridge` - handler, stream, metrics, shutdown | implements 1 | done, proved |
| 3 | `Auth` - AuthManager and the world around its file | - | done, proved |
| 4 | `Install` - setup, start, stop, restart, uninstall | - | done, proved |
| 5 | `Quota` - session, reconnect, staleness, shutdown | - | done, proved |
| 6 | `SseLines` - decoder of a whole stream, line by line | - | done |
| 7 | `SseDecoder` - decoder on chunks | implements 6 | done, proved |
| 8 | `Adapt` - `adapt_request` on JSON values (`Json`, `Lists`) | - | done, proved |
| 9 | `Transformer` - the events of one response | - | done, proved |
| 10 | `Conversation` - several turns | composes 8 and 9 | done, proved |
| 11 | `Process` - lock, listener, ready flag, drain, exit | - | done, proved |

The abstract specifications are the semaphore (`StreamSlots`) and the decoder of
the whole stream (`SseLines`). `Process` says how far the assumption goes under
which `Auth` has one process: `OneBridge`, but for the rest of a drain that ran into its
deadline.

## 3. Bridge

`Bridge.tla` models `POST /v1/responses`. `pc[r]` is the await or the yield the
task of request `r` is suspended at, and an action is the code from one
suspension point to the next.

| State | In the code |
|---|---|
| `permits` | `AppState.streams`, the tokio semaphore; the permit of a request is owned by the handler (`PermitPcs`), then by the stream (`StreamPcs`) |
| `saw`, `ending` | the stream's `saw_completed` and the outcome it leaves its loop with |
| `told` | the last terminal event the client was sent (history) |
| `verdict`, `billed` | which outcome `record_outcome` counted for the request, and whether `record_usage` added its tokens (history, so that counters can be compared with requests) |
| `metrics` | the atomics of `Metrics`, the active gauge, `latest` |
| `quiet` | requests whose upstream has gone silent (environment) |
| `phase` | `serve()`: serving, draining after the signal, stopped |

The handler: `RejectEarly`, `Accept`, `BadBody`, `Busy`, `AcquirePermit`, `GoOn`
(session, POST, refresh, second POST, limits), `GiveUp`, `ErrorStatus`,
`ErrorBodyRead`, `Refuse`, `StartStream`. The stream: `Poll`, `ForwardFrame`,
`BadFrame`, `CompletedFrame`, `UsageRecorded`, `UpstreamError`, `IdleTimeout`,
`UpstreamEnd`, `FinishStream`. Clients leave with `DropHandler` and `DropStream`
at any suspension point. `record_outcome` moves its counter before it awaits the
lock of `latest`; the model keeps the two apart, and so finds that a stream
dropped there is counted as its outcome and as cancelled (`Twice`).

Abstracted: bodies, headers and frames are reduced to the kinds the stream tells
apart (other, completed, unreadable). Permit and gauge of a stream that was
never polled are released in one step. Token sums are reduced to which requests
were added. Credentials answer nondeterministically here and are `Auth`'s matter.

**Run.** `bridge` (2 requests, 1 permit, 19.8 thousand states) checks `TypeOK`,
`PermitsConserved`, `BooksBalance`, `VerdictMatchesClient`, `LatestIsAnswered`,
`FailureIsLast`, that the bridge implements `StreamSlots` (`ImplementsSlots`),
and under `FairSpec` `QuietStreamEnds`. Two requests on one
permit are the least number where one is refused while the other holds, and
where a stream and a handler interleave. More would only repeat this: all but the
liveness property are proved for any number of requests and permits, and that
speaks of one stream. That the shutdown itself ends is `Process`'s matter
(`SignalEnds`). Deadlock is not checked: the process stops.

**Fairness.** Weak fairness of `Poll`, `UsageRecorded`, `IdleTimeout` and
`FinishStream`: tokio polls a woken task and fires timers, and a client that is
connected reads what it is sent. Nothing is assumed of the upstream, of the
credentials, of clients that leave or of the drain. The handler is *not* fair: nothing in the code bounds the wait for
upstream headers or for the body of an error.

## 4. Auth

`Auth.tla` models `AuthManager` and everything its file is shared with. A token
is the number of the pair it was minted with. `pc[t]` is where a request is
suspended; `seen[t]` is the session it read last, `denied[t]` the access token it
wants replaced, `after[t]` whether it came from `session()` or from a 401.
`writers` are the blocking threads of `secure_write_auth`, which outlive a
dropped request, and hold the file lock between `WriterLock` and the rename.
`orphans` are the POSTs of dropped requests that are still on the wire.

The environment: the token endpoint grants, and rotates the refresh token, leaves it
out or sends an empty one (`Blank`), which `merge_refresh` stores, so that the file
is left without; it refuses, or its answer is lost; access tokens expire; the codex CLI refreshes,
logs out and logs in; clients leave at any await; the process crashes.

`disturbed` is the point of the model. It becomes true exactly when, *while a
refresh is in flight*, its request is dropped, the process dies, a rotated reply
or its write is lost, or codex rewrites the file. `NoSpentToken`, `LoginSurvives`,
`NoStaleWrite` and `OneRefresh` hold whenever it is false, so the list in the model
is the complete list of what can break them (a later `codex login` with no refresh
in flight clears it). They say nothing of these events themselves, against which
the code has no defence: `PROJECT.json` has them as hazards without a property.
`LockHeldInside`, `RetryIsDifferent`, `LogoutStays` and `RefreshAnswered` hold
always. `LogoutStays` is what the check of the file before the write is worth: a
refresh under way does not undo a logout, unless its check came before.

**Run.** `auth` (2 requests, 2 token pairs, 82 thousand states) checks
`NoSpentToken`, `LoginSurvives`, `NoStaleWrite`, `OneRefresh`, `RetryIsDifferent`,
`LogoutStays`, and under `FairSpec` `RefreshAnswered`. Two requests and two pairs are enough for
two requests to want the same pair replaced while codex, an orphaned POST or a
writer left behind works on it too. Refreshes in a row need more pairs, which the
liveness check cannot reach; the six safety properties, `TypeOK` and
`LockHeldInside` are proved for any number of requests and pairs.

**Fairness.** Strong fairness of `AcquireLock`: tokio's mutex is a FIFO queue.
Weak fairness of the task's own steps and of the blocking threads. Weak fairness
of `EndpointAnswers`, which is an assumption about the world: the POST has no
timeout, so an endpoint that keeps the connection open and says nothing blocks
every request that needs a refresh (a hazard with no property).

**Limits.** Two orphaned POSTs of the same token are one. A partial file is never
on disk, since the write is a rename. `disk = NoAuth` stands for all ways the file
is unusable.

## 5. Install

`Install.tla` models the commands that own files. A *slot* is a table of Grok's
config, `[model.x]` (custom) or the `[models.x]` of versions before 0.1.2 (legacy), for
each alias `x`; it is empty, holds the bridge's exact bytes (`ours`), another
table that validates (`same`), or one that conflicts (`other`). `text` numbers
the rest of the file, so that a lost edit shows. `cmd[p]` holds the step of a
command and everything it remembers: `old`, `next`, the manifest to write, the
manager state and service file to restore. Each step changes at most one file
and may fail, and a kill may come between any two.

`SetupRead` ... `SetupUndo` are `setup_at`; `StartRead` ... `StartManager` are
`install_and_start` and `commit_service_file`; `RemoveRead` ... `RestoreManager`
are `uninstall`, its transaction and its rollback. The user edits the config
(`UserEdit`, at most `MaxEdits`) and the service file (`UserService`). `raced`
records that this happened while a command ran: the commands write back what
they read and take no lock, so such an edit can be lost, and the properties
excuse only that. `broken` records a rollback that failed and said so, `killed`
that a command was killed: what a property asks of the manifest it asks of the
runs without, and of the user's own text and tables always.

Abstracted: paths, digests, TOML and the version field of the manifest (all
lead to a refusal that changes nothing), the alias `codex-luna` (refused),
`--dry-run` (changes nothing), the text of the service file. A systemd call may
fail before or after it took effect.

**Run.** `install` (two models, one command at a time, one edit, kills, 956
thousand states, symmetric in the models) checks `ConfigTransactional`,
`ServiceOwned`, `RetryIsSafe`, `UserTextKept`, `ForeignKept`, `BackupFirst`: after
every command the manifest, the config and the service file agree, and what is
the user's survives. One edit is enough to put any slot in any state before,
between or after commands; both models are needed for a setup that owns one of
two. That commands running at once do no harm to what is the user's
(`UserTextKept`, `ForeignKept`) is proved for any number of them; what the
manifest says after two setups at once nothing promises, since no lock is taken.

**Where the documentation says more than the code does.**

- `install_crash`: "Transactional configuration" (CHANGELOG). A setup killed
  after it wrote the config and before it wrote the manifest leaves blocks that
  no manifest owns. Setup then says "already configured; ownership verified",
  and uninstall refuses.
- `install_start`: "`start` installs and starts the per-user service after
  setup" (README). If both tables are already there and valid, setup reports
  success and writes no manifest, and start refuses with "run setup before
  start", however often setup is run.

## 6. Quota

`Quota.tla` models the worker of `QuotaManager`, the `codex app-server` process
it talks to, and the shutdown in `run()` of `cli.rs`. `pc` is where the worker
is: at the top of its loop (`checking`), before the spawn (`spawning`, apart
because the token is cancelled by another thread), at one of the three writes of
the greeting, in `select!`, before `mark_stale` (`failed`), asleep, gone.
`requests` and `lines` are the two pipes of the current session; `piped` are the
app servers whose pipes the worker holds, `running` those alive. The two differ:
an error drops the pipes and does not kill the child (there is no
`kill_on_drop`), so an old app server can live on beside the next until it
notices the end of its stdin. `from`, `late` and `failures` are history: the
session that delivered the published limit, app servers started after the
shutdown, and the bounded number of failures.

A rate limit is the number of account changes it reflects, so that an old one
can be told from a new one. `None` stands for lines that hold no limit: error
replies, answers to `initialize`, notifications that do not parse; the worker
passes over all of them.

**Run.** `quota` (2 states of the account, 3 failures, 2 lines in flight, 77
thousand states) checks `SnapshotIsHonest`, `OneLateSession`,
`LimitNeverGoesBack`, and under `FairSpec` `ReadyAgain` and `StopsEverything`. Two
lines are an answer and a notification in the pipe together; three failures are
one in the greeting, one in the session and one after the reconnect. The safety
properties are proved for all bounds, so also for the delay at its limit. Deadlock
is not checked: the process stops.

**Fairness.** The worker's steps are weakly fair; the arms of `select!` are
strongly fair, since it starts at a random arm each time. Of codex it is assumed
that a running app server takes its requests, is not in error for ever, and
exits at the end of its stdin. The end of the process is not assumed:
`StopsEverything` says that the worker stops by itself.

**Limits.** There is no timeout for a reply: an app server that hangs leaves the
snapshot ready and not stale for ever. The code promises nothing else, and
`ReadyAgain` holds only under the assumption above. `requests` is not bounded by
the capacity of the pipe but by `MaxInFlight`, so the write that blocks on a full
pipe is not modelled.

## 7. SseDecoder

`SseLines.tla` is the promise: the frames of an event stream that lies there in
one piece. `SseDecoder.tla` is the code, which gets the stream in chunks of any
length: `Receive` is a call of `push` with the next chunk, `TakeLine` a round of
its loop over the complete lines. The two share `Line`, `AfterLine` and `Digest`,
the body of the loop, since the code has it once; what differs, and is to be
shown, is the buffer. `FramesOf` reads the same bytes without any decoder: it says
of each line, from the lines before it, which frame it completes.

Bytes are strings: a field name and the end marker are one each, since the code
looks at them only in whole lines. Field values are one byte, or none.

**Run.** `sse_decoder` (every stream of up to four of seven lines, cut in every
way, 115 thousand states) checks `ChunksDoNotMatter` (after every `push` the
frames are `FramesOf(received)`) and `ImplementsLines` (the decoder implements
`SseLines!Spec`, under a mapping that puts the buffer before what is still to
come). Four lines are two data lines with a comment or another field between
them and the blank line that ends the event, or an event and the next one.
Deadlock is not checked: the stream ends.

## 8. Adapt, Transformer, Conversation

`Json.tla` has the values of `serde_json`: an object is a function from fields to
values. `Lists.tla` has `filter`, `map` and the ordered values of a `BTreeMap` for
sequences, defined by positions and not recursively, so that the proofs can
reason about them; the run `sse_decoder` compares them with `SelectSeq` and
`SetToSortSeq`. `Adapt.tla` is `adapt_request` as an operator: fields dropped and refused,
model, effort, include, instructions, and the input items one by one.
`Transformer.tla` is one `StreamTransformer` and a Codex that streams the items of
a response: announced in order, finished in any order, deltas in between with
and without the index, a completed event with and without its output.
`Conversation.tla` composes both over the turns of a conversation: Grok keeps the
history and sends all of it each time (`Ask`, `Answer`, `Cut`), possibly garbled,
and Codex refuses a request whose thoughts it cannot resolve, whose outputs have
no call, or whose items lack what it asks for (`Accepts`). What Codex may answer is
the constant `Answers`, turn by turn; the transcript is what was said by both, as
Codex said it, and what the history is compared with.

Texts are sequences of atoms, so that a join is a concatenation. Fields that the
bridge passes on untouched are left out. Of Codex it is assumed what `transform`
relies on (`TransformerAssumption`): an item keeps its id, type, name and call id,
has an index of its own, and no two items share an id. A conversation assumes
besides (`ConversationAssumption`) that an answer consists of thoughts with an id of
the upstream form, calls and messages of the assistant, and that turns share no ids. Of a body `Adapt` assumes
(`BodiesAssumption`) only that arrays and texts are sequences. `Accepts` is what the tests
and comments of `protocol.rs` say of Codex; both are outside `src/`.

**Runs.** `adapt` (21 thousand bodies: every combination of the other fields, and
every input of up to two of 42 items) checks `Settled`, `SaysTheSame` and
`CodexForm`. The code treats an item by itself and looks at no other; two items
show that they keep their order and that system messages go. `transformer` (every
response of up to three items, 21 thousand states) checks `DeltaAddressed`,
`CompletedIsWhole` and `ThoughtsStayBehind`; three items are the least where one is
finished while others on both sides of it are not. `conversation` (two answered
requests and a third, answers of up to two items, one cut stream, 224 thousand
states) checks `NeverRefused` and `Remembers`; a third request replays answers
of two turns, and what garbles them is chosen anew with every request. Deadlock
is not checked: a request, a response and the conversation end.

## 9. Process

`Process.tla` is `run()` of `cli.rs` and `serve()`: `Launch` with a port,
`AcquireLock`, `Create`, `Bind`, `Signal`, `CloseListener`, `Drained` or `DrainTimeout`,
`ShutdownQuota`, `Unlock`, `Exit`, and `Kill` at any of them. `inflight` are
requests, of which only `/readyz` is told from the others, since it writes the
ready flag that the signal clears. The flag is cleared in `Signal` and the listener
closed in `CloseListener`, which axum's accept loop does when it is polled next: a
connection may be accepted between the two. `late` and `probed` are history: drains
past their deadline, and bridges with a `/readyz` in flight at the signal or accepted
after it. Other
programs take and leave ports (`Occupy`), and doctor or status look at one
(`FetchIdentity`).

**Run.** `process` (two processes, two ports, 317 thousand states) checks
`OneBridge`, `NothingLeft`, `DrainingShown` and, under `Fairness`, `SignalEnds`.
Two processes meet at the lock and at a port; a third would meet one of them.
`OneBridge` speaks of processes and their requests. A blocking auth writer that
outlived its dropped request is not in `inflight`: until the runtime is gone it may
still rename its file beside the next holder of the lock, under the file lock of
`secure_write_auth`.

**Fairness.** Weak fairness of `Run(p)`, the steps of `run()`: it is one task, its
drain has a timer. Nothing is assumed of requests, nor that a process is started.

**Where the documentation says more than the code does.** `process_port`:
"`doctor` checks ... bridge identity" and "`CODEX_FOR_GROK_PORT` ... Local port"
(README). `fetch_identity` asks port 18474 whatever is configured, so a bridge on
another port is reported as unavailable.

## 10. Proofs

`Bridge_proofs.tla` holds for every finite set of requests and every limit above
zero (`BridgeAssumption`).

- `PermitInvariant`: `PermitInv`, that is `TypeOK`, `PermitsConserved` and an exact
  gauge, is inductive; `TypeOK` alone is not, since that the gauge stays a natural
  number when a destructor decrements it follows from its being the number of
  streams. The counting is in one lemma, `MoveCount`: when a request moves from
  one suspension point to another, the number of requests in a set of suspension
  points changes by -1, 0 or 1. `ActionBalance` says for each action from where to
  where it moves. `TypeCorrect`, `PermitsAreConserved`, `StreamsAreLimited` follow.
- `StoryInvariant`: what is recorded, what the client was told and where the
  request is are tied together (`Story`). `VerdictMatchesClient` is not inductive
  by itself: a verdict is given in `Poll`, one or more steps after the event it
  depends on, so the invariant says for each suspension point what `ending`,
  `told` and `saw` can be. `VerdictsMatchClients`, `LatestWasAnswered` and the
  action property `FailuresAreLast` follow.
- `BooksAreBalanced`: a step of one request books in the counters exactly what
  that request's standing gains (`Booked`); the rest is `CountBut`, that two sets
  that agree but for one request differ in size by it.
- `BridgeImplementsSlots`: under the mapping `Stage` the initial states map to
  initial states and each action to `Ask`, `Grant`, `Over` or a stutter; the guard
  of `Grant` is where `PermitsConserved` is needed.

`Auth_proofs.tla` holds for every finite set of tasks and every bound on the
tokens (`AuthAssumption`, `NoAuthAssumption`).

- `TypeCorrect` with `Postable` (a POST carries a refresh token), `LockIsHeldInside`.
- `RetriesAreDifferent`: `RetryIsDifferent` needs to know what a finished write
  brings, so the invariant adds `Minted` (every token seen was minted, so a new one
  differs from all of them) and `Owned` (a writer with an owner is its owner's
  only one, and the owner waits for it).
- `RefreshInvariant`: `Context /\ Calm`. `Calm` states the four claims about an
  undisturbed refresh as one (`Settled`), since each needs the others: the POST is
  good because no write is pending, no write is pending because the lock is held,
  and the login on disk is good because the last write brought what the endpoint
  minted. `CalmFacts` is what the lock makes of it: one unwritten file at most,
  and none while a POST is out. `NoTokenIsSpentTwice`, `LoginIsKept`,
  `NoWriteIsStale` and `RefreshesAreSerial` follow.
- `LogoutIsKept`: while the file is gone and no writer is past its check, no step
  takes one past it. This needs the types only.

`Quota_proofs.tla` holds for every bound on account changes, failures and lines
(`QuotaAssumption`).

- `QuotaInvariant`: `TypeOK` in two halves (`DataTypes`, `ControlTypes`) and
  `SessionsAreCounted`: every session but the open one has cost a failure. Without
  it `session` could leave its type at the next spawn. `TypeCorrect` follows.
- `ReadyIsReal`: `SnapshotIsHonest` is inductive over the types.
- `NewestLimitStays`: that the published limit never goes back is a property of the
  whole pipe (`InOrder`): the limits in it are sorted, none older than the published
  one and none newer than the account. `AppendInOrder`, `TailInOrder`,
  `RaiseInOrder` and `EmptyInOrder` are the four things that happen to a pipe.
- `ShutdownStopsSpawning`: `Late`, that once an app server was started after the
  shutdown the worker is never again between check and spawn.

`Process_proofs.tla` holds for every set of processes and ports
(`ProcessAssumption`): the lock is held by the process that is between
`acquire_lock` and `drop(lock)` (`Held`), and requests are in flight past a drain only
after its deadline (`Overdue`). `TypeCorrect`, `OneBridgeAtATime`, `NothingIsLeft` and
`DrainIsShown` follow.

`SseDecoder_proofs.tla` holds for every set of streams (`StreamsAssumption`).
`ImplementsTheLines` is the refinement: `Receive` moves bytes over the seam of buffer
and rest and leaves their concatenation as it is, a stutter; `TakeLine` finds the
first newline of the buffer, which is the first of the concatenation, so it cuts
off the same line. `Typed` says that no newline gets into a data line, which is why
the join of the data lines loses nothing.

`ChunksAreTransparent` is about `FramesOf`, which knows nothing of a decoder. Its
invariant `Read(n)` says that the lines up to position `n` of the bytes received have
been taken: `buffer` is what follows `n`, `data_lines` is what is open there
(`OpenData`), and `frames` are those of the lines that end at `n` or before. `Receive`
adds bytes behind `n`, which no line before looks at (`LineAlike`, `OpenAlike`,
`EndsAlike`); `TakeLine` moves `n` to the next line end, and `NextData` and `NextFrame`
say what that line adds.

`Lists_proofs.tla` has what the others need of sequences, none of it about the
bridge: the members of a finite set in order (`RankOnto`, `AscendingIs`,
`AscendingUnique`), picking from a sequence, from a selection and from a
concatenation (`PickIs`, `PickPick`, `PickNext`, `PickConcat`), and joining
(`FlattenNext`, `FlattenConcat`, `FirstOfIs`). The induction theorems of the library
take an operator as a parameter, which no backend can instantiate; `SetInduction`
states induction over the natural numbers for a *set* of them, so that it can be
cited with a set comprehension.

`Protocol_proofs.tla` holds for every set of bodies, every set of responses of any
length, and conversations of any number of turns (`BodiesAssumption`,
`TransformerAssumption`, `ConversationAssumption`).

- `RequestsHaveCodexForm`: what is proved of one item (`ItemForm`) is carried over to
  the input by `InputIs`: each item sent is the normal form of an item of the body
  that is kept.
- `AdaptingSettles`: a normal form is kept (`ItemKept`) and is its own normal form
  (`ItemSettled`, over `ContentSettled` and `Complete`), so the second pass selects
  everything and changes nothing (`InputSettled`). With no system message left the
  instructions stay too; effort, include and reasoning are settled by cases.
- `AdaptingSaysTheSame`: a normal form says what its item says (`ItemSays`), and the
  two selections, thoughts out before or after, are the same one (`InputSays`,
  by `PickPick`). For the instructions the separators that the joins add are no words,
  and selecting the words of a join joins the words (`WordsFlatten`, `JoinWords`).
- `DeltasAreAddressed`: `Known` says what the two maps hold of an item that was
  announced; `ItemKnown` that its own event brings that about and that no other
  item's event overwrites it, `DeltaKnown` that it is what a delta is given.
- `CompletedEventIsWhole` and `ThoughtsAreDropped`: `ShownInv`, that `items_by_index`
  holds under each index what that item's last event was made into and what Grok
  was shown, and that a finished item is its finished version. `CompletedShown` is
  then the order: the indices are 0 to n - 1, so the values in the order of the keys
  are the items in theirs.
- `ConversationIsAccepted` and `ConversationIsRemembered` rest on both halves. Neither
  property is inductive: what the next request holds depends on a history that was
  made several turns ago. `HistoryInv` says that the history, item by item, has the
  label that the transcript has, that each thought in it was issued with the
  ciphertext it carries, that each output follows its call, and that no two thoughts
  share an id, so that garbling one hides no other. `AnswerHistory` shows that
  a turn keeps it, from either of the two forms in which Grok may take the answer;
  for that `ShownInv` is needed while the answer is streamed (`Answering`), and
  that an item which went through the transformer is still told by its id
  (`TakenIs`). For the request, the places which the bridge keeps are
  those which the transcript recalls (`SentIs`), in the same order (`PickShifted`), and
  each comes out as an item that says the same and is whole (`CarriedArrives`).

`Install_proofs.tla` holds for all models, any number of commands at once, edits,
failures and kills (`InstallAssumption`).

- `TypeCorrect`: types of the files and of all that a command remembers.
- `SetupIsAdditive`: `UserTextKept` is no invariant by itself, since a command writes
  what it read or made from it long before. The invariant says that what it
  holds differs from the config only in the bridge's own blocks (`OldKept`,
  `NextKept`), which setup and uninstall bring about (`PlanIsAdditive`,
  `RemoveIsAdditive`) and another command's step keeps, since it does not touch the
  rest either.
- `NothingForeignIsTouched`: the same invariant for the tables; for the service file
  `ServiceInv`, that a command which writes or removes it has seen that it is not
  the user's.
- `BackupComesFirst`, `ConfigIsTransactional`, `ServiceIsOwned` and `RetryAfterRestore`
  are for one command at a time (`Procs = {p}`): with two at once they do not hold,
  since the code takes no lock. `AloneInv` relates what the command remembers to the
  files, step by step: which memory is the file (`BackupInv`, `ManifestInv`, `FileInv`,
  `ManagerInv`, `RestoredInv`) and which manifest, the one on disk or the one to be
  written, owns what is there (`AgreeInv`, `BlocksInv`).

Only model-checked: the liveness properties (fairness and ENABLED are outside what
the prover handles).

## 11. What is not modelled

`config.rs` is stateless parsing; what it guarantees (a limit above zero) is the
assumption `BridgeAssumption`. Of `doctor` and `status` only the look at the port is
modelled: the rest reads and prints, as do `/status` and `/models`. The published
`refresh_count` is stored without comparison, so two handlers can store it out of
order; nothing promises that it does not go back. The argument parser and the
shell scripts change no state the bridge relies on. TLS, HTTP framing, JSON and
TOML are libraries.

Nothing is claimed where the code promises nothing: there is no timeout on
upstream headers, error bodies and token POSTs, no lock between install commands
or against the user's editor, and no watch over an app server that hangs. Two
install commands at once are beyond TLC; that the user loses no text and no table by
them is proved (`SetupIsAdditive`, `NothingForeignIsTouched`).
`PROJECT.json` lists these as hazards with no property.

## 12. Running it

    tlc -config MCBridge.cfg MCBridge.tla
    tlapm Bridge_proofs.tla

`PROJECT.json` lists every run with its configuration, the mutants (plausible
bugs that each property must notice) and the map from definitions to lines.
