# FreshBrain AI engine: a TLA+ development

This directory holds specifications of the concurrent and transactional parts
of the engine in `src/app`, TLC configurations that check them on small
instances, and TLAPS proofs of every safety property those configurations
check. Each definition is translated from the code; `PROJECT.json` maps it to
the lines it stands for.

Run `tlc -config <X>.cfg <MCModule>` to check a model and
`tlapm <Module>Proofs.tla` to check proofs.

## The system

A FastAPI process serves chats. Each request has one database session
(`core/database.py`), that is one PostgreSQL transaction at READ COMMITTED
until it commits. A session takes a connection of the engine's pool with its
first statement and gives it back with the commit or when it is closed. A
separate process, `python -m app.jobs`, polls a job table. The two communicate
only through the database.

| component | state it keeps | operations | what is hard |
|---|---|---|---|
| job queue `jobs/` | rows of `background_jobs`: status, attempts, payload, updated_at | `enqueue`, `claim_next` (lease reclaim, `SKIP LOCKED` select, update), `mark_done`, `mark_failed` | several runners, a partial unique index that several statements can violate, crashes, leases, late results |
| rolling summary `jobs/handlers.py` | `rolling_summary`, `summarized_through_count` | read, LLM call, write back | a read-modify-write with an LLM call in the middle; turns that commit while it runs |
| chat turns `ai/chat/` | messages, tool-call log rows, title; in memory a queue of statuses and a task | `_prepare`, `run_chat_loop`, `_finalize`, `_stream_events` | overlapping requests with long transactions, a client that leaves, a task that outlives its request, the iteration limit |
| conversations `conversations/` | `last_active_at`, `deleted_at` | two lists read by pages, rename, soft delete | cursors whose row moves or disappears; equal `created_at` |
| tool requests `tool_requests/` | rows with text and status | create, edit, set status | read, decide, write, with others in between |
| tool catalog and executor `ai/tools/` | none | scope check, what the model and `GET /tools` are shown, dispatch | scopes are strings that stand for a tree; the model may name any tool |
| tool call logs | rows | `record` | belongs to the turn's transaction |
| feedback | rows | check, insert, commit | the service and the table check different things; the message must be there |
| LLM client and stub `ai/llm/anthropic/` | none | reply, title, summary | the real model may say anything; the stub decides by the last message alone |
| WMS and warehouse `integrations/` | none | one call each | missing configuration, exceptions |
| tokens `core/security.py`, `dev/` | none | mint, decode | expiry at the boundary |
| engine and sessions `core/database.py` | the pool of connections | take, give back | held during LLM calls; sessions that are abandoned |
| rate limit, logging, prompts, config, migrations | none, or a library's | | not concurrent, or external |

How they interact: a turn's `_finalize` commits the turn and then, in a second
transaction, may enqueue a `summarize_conversation` job; a runner claims it and
calls the handler in the claim's session; the handler changes what the next
turn's `build_chat_context` sends to the model.

### What makes each component correct

- queue: one pending row per conversation; each claim counted; at most
  `worker_max_attempts` tries; a final status stays final; work that can be
  done is done in the end.
- summary: it holds exactly the messages its count says, and never one of the
  window that is sent raw; what ages out is folded in the end.
- turns: all or nothing, with their log rows; what is sent to the model is made
  of whole turns; a stream ends and does not announce what is not stored.
- pages: nothing twice, nothing left out that stayed where it was.
- tool requests: overlapping calls do not undo each other; live rows are
  read-only; only the granted get through.
- tools: the outside is reached with a valid token's scopes only, whatever the
  model asks for; what is shown can be run.
- feedback: a rating of a message the client was told of is stored.
- pool: every connection comes back, and every call ends.

## Modules

| module | models | kind |
|---|---|---|
| `JobLifecycle` | what the queue promises of each row | abstract specification |
| `JobQueue` | `jobs/repository.py`, `jobs/runner.py`, the table | component |
| `JobQueueProofs` | type, safety and refinement theorems of `JobQueue` | proofs |
| `RollingSummary` | turns of one conversation and executions of the handler | component |
| `RollingSummaryProofs` | type, window and prefix theorems | proofs |
| `SummaryPipeline` | `JobQueue` and `RollingSummary` composed by `INSTANCE` | composition |
| `SummaryPipelineProofs` | the composition implements its parts; no gap is left alone | proofs |
| `ChatTurn` | `ChatService`, `run_chat_loop`, the event stream | component |
| `TurnStore` | what a conversation promises to its readers | abstract specification |
| `ChatTurnProofs` | type, safety and refinement theorems of `ChatTurn` | proofs |
| `ConversationPages` | the two paged lists against turns and deletions | component |
| `ConversationPagesProofs` | type and completeness theorems of both lists | proofs |
| `ToolRequests` | the endpoints of tool requests | component |
| `ToolRequestsProofs` | type, safety and action theorems of `ToolRequests` | proofs |
| `Scopes` | `scope_grants` | operators |
| `ToolCatalog` | catalog, `GET /tools`, executor, WMS client | operators |
| `StubModel` | the stub of the language model, the warehouse it asks | operators |
| `Feedback` | what the feedback service and its table accept | operators |
| `ApiProcess` | calls of one API process: tokens, chats with their tools, ratings, the pool | composition |
| `ApiProcessProofs` | type and safety theorems of `ApiProcess` | proofs |
| `MC*` | symmetry and sets for TLC | instances |

Definitions whose comment begins "Mutant" are deliberate mistakes that stand
before the definition they would replace. Put in its place, each makes a named
property fail under the configuration that checks it; `PROJECT.json` pairs
them. They are used by nothing else.

### How state and actions correspond to the code

*Steps.* A step ends where the code awaits the database, the model, a tool or
the client. A statement and the commit right after it are one step. Where
PostgreSQL would make a statement wait for a lock, the step is not enabled.

*JobQueue.* The columns are functions on `Job`, whose order is `created_at`.
`pc` is where a runner is in `run_once`. The claim is three steps (`Reclaim`,
`SelectNext`, `CommitClaim`); `reclaimed` are the rows its open transaction has
changed, so `NothingPending` can roll them back, as the `return None` without a
commit does. `expired` says that `updated_at` lies before the lease cut-off.
`ReclaimRaises` and `MarkFailedRaises` are the violations of
`idx_background_jobs_pending_dedup`, which end the process. `ReclaimDeadlock` is
two multi-row reclaims that lock their rows crosswise: PostgreSQL cancels one,
which ends its process, and the other goes through. `claims` is a history
variable. A crash also stands for a lost database connection.

*RollingSummary.* A message is its turn's start time and its position. A turn
is inserted where its `created_at` belongs, because `now()` is the start of its
transaction and not the commit. Handlers start at any time, even several,
because dedup concerns pending rows only. `disturbed` is a history variable: a
turn was committed below an existing message, or a reply had no text.

*SummaryPipeline.* Each action is an action of one of the two, or the one of
both that a call makes: `EnqueueSummary`, `Claim`, `Done`, `Failed`, `Crash`.

*ChatTurn.* `at` is where a request is between `_prepare` and its end;
`generator`, `queue` and `sent` are the three parts of the stream. The message
records carry the turn, the role, the stop reason, the kinds of tool calls, the
number of results and an `id` that a reply shares with its results. `context` is
what `build_chat_context` took, as a set: `Newest` is any set of messages that
an order by `created_at` may put last. `pending` are rows flushed in the session: `Finalize`
makes them visible, leaving drops them. `Disconnect` cancels the generator and
leaves the loop's task running with a session that is closed, which is what
`asyncio.create_task` without a cancellation gives.

*TurnStore* is the refinement target of `ChatTurn`: `turns` are the turns that
have messages, `before` says of which turn something is read before something of
which other (a strict order, so no two turns are mixed up), `rows` are the
committed log rows by turn. Each commit adds one turn somewhere and leaves the
order of the others and their rows; everything else stutters.

*ConversationPages.* A row is its id, time, rank and whether it is shown; rank
is how the random id compares with the others of the same time. Each of
`CheckOwned`, `ReadCursor` and `ReadPage` is a SELECT. `Page` says what ORDER BY
and LIMIT ask of an answer, as the set of the sequences that satisfy it; as no
two rows have one place there is exactly one.

*ToolRequests.* A call is `Receive` (scope check), a load and `TouchAndCommit`.
`Update` is what SQLAlchemy writes: columns that differ from what was loaded.
A scope is a sequence of pieces of text, so that a prefix as text and a prefix
as a path differ: `tools.request` is the former of `tools.request_edit`.

*ApiProcess.* `at` is where a call is, from the decoding of its token to its
answer. A chat repeats `Ask` and `RunTool` or `RunRename`; `Log` is the flush of
the log row, the one statement of the loop. `conn` says who holds a connection;
a statement that needs one is enabled when the call has it or one is `Free`,
and `PoolTimeout` is what happens otherwise. `Disconnect` closes the session
under a running loop (`orphan`); the loop's next log row makes that session
take a connection again, which only `Collect` gives back. Whether the stub or
the real model answers and whether the WMS is configured is chosen in `Init`,
since settings are read once. A token is minted when it is used, with an age,
which is the same as minting it earlier. `reached` is a history variable. A
rating names a message and a conversation by the chats that announced them, not
necessarily the same one: the table has a foreign key for each.
A question is the set of what the stub recognises in it; a tool result is its
status. `ChatTurn` has what `ApiProcess` leaves out, the messages and events,
and leaves out what `ApiProcess` has.

## What the runs check

| run | shows | bounds |
|---|---|---|
| `queue` | dedup, claim accounting, retry budget, isolation, finality of failure, implementation of `JobLifecycle`; pending rows are claimed, retriable rows leave `processing` | 2 runners, 2 rows, 2 conversations, 2 tries, 2 crashes, any number of deadlocks, handlers may outlive leases |
| `queue_in_lease` | exclusive claims and final completion if handlers end in time | 3 rows, 1 crash, no slow handlers |
| `queue_exhausted` | finding 1 | 1 row, 1 try |
| `queue_stale` | finding 2 | 2 rows of one conversation |
| `summary_overlap` | the window is kept; the summary is a prefix | 2 requests, 2 handlers, 3 turns of 2 or 4 messages, window 3, trigger 4 |
| `pipeline` | no lost wakeup; gaps close | 1 runner, 2 requests, 3 turns, 3 rows, 1 crash |
| `pipeline_two` | finding 3 | 2 runners, 4 turns |
| `chat` | `ChatTurn` implements `TurnStore`; turns and contexts whole, renames of others survive, streams end and tell the truth, a left stream stores nothing | 1 plain and 1 streaming request, 2 iterations, 1 tool call each, window 4, with and without an earlier turn |
| `pages` | messages exactly once; conversations that stay put are listed | 2 conversations, 3 turns, limits 1 and 3 |
| `pages_order` | finding 4 | the same |
| `tool_requests` | edits and status changes stay apart; live rows; scopes | 1 row, 3 calls, 2 texts, 7 scopes |
| `api` | the outside is reached with a valid grant; the stub settles; what is shown runs; ratings reach the table; a full pool costs no reply; calls end and connections come back | 2 calls, 1 connection, 2 iterations, 3 sets of scopes, tokens of every age |

Why the bounds are enough. Two runners and two rows let a stale row meet a
pending row of the same conversation, or two stale rows be locked crosswise by
two reclaims (`ReclaimDeadlock`); the third row of `queue_in_lease` lets one of
another conversation be there, too, and the proofs cover every number. A third
runner only repeats the second's role. Two tries distinguish the first, the last and
one too many. Three turns and window 3 let a fold be followed by another and a
late turn land below the count; turns of 4 messages cross window and trigger at
once. In `chat` an earlier turn lets two requests hold transactions on one
conversation and end in either order; two iterations are the first, which
differs from the others, and the last; window 4 cuts into the older of two
turns, and a turn of 5 messages alone is longer than it. In `pages` limit 1 cuts within a turn
and 3 across two. In `tool_requests` the row may be there from the beginning,
so all three calls can overlap on it. In `api` one connection is the smallest
pool, in which two calls already wait for each other; one call is any chat and
the other rates it, lists tools, asks for a title or continues a conversation
(`Sends`), so a rating may follow the commit or come before it; two iterations
are a tool and its answer, or two tools and the limit; the scopes are a parent
of the tool's, a prefix of it only as text, and another system's. In `pipeline` every turn may enqueue, so
there are as many rows as turns. Symmetry is used in safety runs only.

`CHECK_DEADLOCK FALSE` stands where the system stops by nature: requests, turns
and calls are made at most once in `ChatTurn`, `ConversationPages`,
`ToolRequests` and `ApiProcess`.

### Fairness

A runner that is up keeps taking steps (`main()` loops; statements return; the
LLM SDK and httpx have timeouts), a runner that is down is started again by
whoever operates it, and leases expire as clocks run: `WF` of `RunOnce`,
`Restart`, `LeaseExpires`. Nothing makes clients send requests and nothing makes
crashes stop; crashes are bounded. In `SummaryPipeline` a request that has begun
goes on, but may be cut off. In `ChatTurn` the loop's task, the generator and
what follows the loop are each fair. In `ApiProcess` what the process does for a
call (`Serve`) is fair: the SDK and httpx have timeouts, waiting for the pool
has one, and statements return. So is `Collect`, as CPython frees the task and
its session when the loop ends and the pool takes the connection back then; the
code has nothing else that would. Clients need not send or leave.

Liveness of the queue is conditional on `[]<>~Wedged`: finding 2 is the
exception and has its own run.

## Findings

1. `jobs/repository.py:62`: `claim_next` rolls its own lease reclaim back when
   nothing is pending, so an exhausted row stays `processing` for ever. The
   test at `tests/test_jobs.py:185` reads it in the same session.
2. `jobs/repository.py:21`: a stale row and a pending row of one conversation
   make every reclaim violate the unique index; every runner that polls dies.
3. `jobs/handlers.py:36`: with two runners the older fold may be written last
   and take the summary back, with nobody left to repair it.
4. `conversations/repository.py:114`: the messages of a turn have one
   `created_at`, so a question may be listed before its answer or after it, as
   their random ids fall.

Other disagreements met on the way, which the models show but no run is spent
on:

- `README.md:67-70` says there is no lease and no reclaim; there is.
- `README.md:57-59` says a job is enqueued every `CONTEXT_WINDOW_MESSAGES`
  messages; past the trigger each turn enqueues one, as the window itself stays
  unsummarized.
- `runner.py:29`: `mark_failed` may itself violate the unique index, so the
  attempt leaves no result and the process ends (`MarkFailedRaises`).
- A turn that began earlier and commits later goes below messages that are
  already summarized; a later fold takes some of them twice (`disturbed`).
- A reply without text advances the count without folding (`disturbed`).
- A reply cut by `max_tokens` may leave tool calls unanswered in the history.
  `ContextsHoldWholeTurns` claims results of replies that stopped for tools.
- The window may cut the oldest turn it shows, leaving results without their
  calls; `ContextsHoldWholeTurns` exempts that turn behind a summary. Between
  the messages of that turn the tie of `created_at` decides which are left out.
- A rename by the model to the title that was loaded is not written, even if
  the user renamed meanwhile (`Finalize`). `RenamesSurvive` is the other half:
  a turn that did not rename keeps what the user did.
- A down rating with a reason the table does not list passes the service and
  fails with an unhandled error (`InsertRating`).
- When the pool is full after the commit, the client of a stored turn gets an
  error (`PoolTimeout` at `committed`).
- The abandoned loop of a new conversation fails at its first log row, whose
  conversation was rolled back (`Log`).
- A paged list of conversations may repeat rows when the cursor's conversation
  moves to the top and leave out one that moves there (`UntouchedAreListed`).
- "Live requests are read-only" but for an edit that had read the row before
  (`LateEdit`); overlapping edits of different columns are merged (`Update`).

## What is proved

Every invariant and every action property of the passing runs, and both
refinements, for every value of the constants under the named assumptions; two
theorems, `GapsAttended` and `StubEnds`, have a hypothesis of their own.
These give the constants their kinds and positive bounds, and keep `None` and
the like apart from real values. Three say more: `ApiProcessAssumption` has
finitely many calls, since the pool's connections are counted, and scopes that
are sequences of text; `CatalogConsistency` is what the catalog itself checks on
import; `PipelineAssumption` repeats what the two parts assume. TLC evaluates
the assumptions in every run.

Each proof has an inductive invariant, one lemma or step per action, and under
it a step for each conjunct the action can disturb. The invariants were checked
with TLC on the instances of the runs first.

`JobQueueProofs`. `Invariance` is `Spec => []IndInv` with `TypeOK`,
`TransactionsIsolated`, `NoClaimIsLost`, `RetryBudget` and `ClaimIsExclusive`.
Dedup alone is not inductive: a reclaim makes a row pending only when its
transaction commits, so `IndexUnique` counts the uncommitted entries in. Claim
accounting alone is not either: the commit writes `seen + 1`, so `LocalsAgree`
says that `seen` still is the row's value, which holds because `LocksExclude`
says that only one transaction holds the row. `DedupHolds`, `ClaimsCounted`,
`TriesBounded`, `Isolation` and `Exclusion` follow. `Refinement` is
`Spec => ImplementsLifecycle`: each step moves each row by a step of
`JobLifecycle` or leaves it (`StepRows`). `FailureFinal` and `CompletionFinal`
are the action properties, the latter for handlers that end within their lease.

`RollingSummaryProofs`. `WindowKept` needs that no handler holds a larger count
than it may write, and that messages only grow. `SummaryIsOfThePrefix` needs
`PrefixInv`: as long as nothing is `disturbed`, each handler holds a summary and
a slice of a prefix of the messages, whichever handler wrote last; a turn that
is committed at the end leaves every prefix as it is (`CommitAppends`,
`PrefixExtended`).

`SummaryPipelineProofs`. `PartsImplemented` is `Spec => Queue!Spec /\ Talk!Spec`:
every step of the pipeline is a step of the queue and one of the conversation.
So the theorems of both parts hold of it, which are used through instances of
their proof modules; `SummaryInPipeline` states two. `GapsAttended` is
`GapIsAttendedTo` for one runner and any number of requests and rows. Two
runners refute what it is for (finding 3), so that hypothesis is one of the
statement. Its invariant adds that a request decides on a count that is at most
the current one (so that it cannot wrongly find nothing to fold), that the
handler has the current count, and that the row it works on is processing (so
that a failure or a crash leaves a row behind, to be retried or given up).

`ChatTurnProofs`. `IndInv` says of the history that each turn is in one piece
and has the results of its calls, and of each request, by the place it is in,
how its messages, the calls it has still to run, its log rows, the queue of its
stream and what its client got hang together. `ContextInv` says of what a
request has read that it is stored and that only the oldest of it may be of a
turn that is cut; it is kept because turns that commit later never add messages
to a turn that was read (`ContextKept`), and it holds of any choice the ORDER BY
leaves (`ContextIsWhole`). `TurnsStoredWhole`, `ContextsWhole` and
`DoneAfterAll` follow; `TitlesKept`
and `NothingAfterLeaving` are action properties. `TurnsRefine` is
`Spec => ImplementsTurnStore`: a commit that puts a turn between two others
keeps the order of all others (`Order...` lemmas), every other step changes
neither messages nor log rows.

`ConversationPagesProofs`. What the client has got is the list from its top down
to the cursor, so what is due and has not come is below the cursor. In a list
of messages rows only appear, and their times are unique to their turn
(`TimesInv`), so this is about all of them: `MessagesAllOnce`. In the list of
conversations rows move, so it is about those that nobody touched, and the order
of what has come only while none of it was touched: `UntouchedCome`.

`ToolRequestsProofs`. What a call writes is decided when it loads its row, so
`IndInv` says what a call that has loaded relies on: the row is there, and the
call passed its endpoint's checks against its copy. `GrantsCover` is that what
`scope_grants` lets through covers the endpoint. `TypeCorrect`, `ScopesHold`, `LiveKept` and
`NothingIsUndone`.

`ApiProcessProofs`. The invariant is one about a call and a step keeps it for
the call it is about: how far the call is tells what it has done, which token it
holds, whether it has a connection, and what its last tool gave.
`TypeCorrect` (the bound of the pool included), `Granted`, `ShownRuns`,
`RatingsStored`, `RepliesKept`. `StubEnds` is `StubSettles` with an invariant of
its own about what the stub said to what; it assumes `MaxToolIterations > 1`,
since one iteration ends any chat that uses a tool at the limit
(`MAX_TOOL_ITERATIONS` is 5).

Only model-checked: liveness (`PendingIsServed`, `RetriableIsReclaimed`,
`GapCloses`, `StreamEnds`, `CallsEnd`, `ConnectionsComeBack`), which is beyond
the prover, as is `ENABLED`. The findings are counterexamples of TLC.

## What is abstracted or left out

- Texts, names, timestamps and error columns, except what order and guards
  need. Times of different events differ. Clocks of hosts agree.
- Messages of one turn have one `created_at`, so `ORDER BY created_at` promises
  no order among them. In `ChatTurn` a context is a set, and which messages of a
  turn the window cuts off is any choice; `history` lists a turn as it was
  inserted, and no property depends on that. In `ConversationPages` the id
  breaks the tie, and any rank is possible. `RollingSummary` alone reads them in
  insertion order, which is what PostgreSQL does in practice: a tie that falls
  differently from one read to the next could let a fold take one message of a
  turn twice and another not at all.
- The deadlock of two reclaims is in `JobQueue` only. `SummaryPipeline` is about
  one conversation, two stale rows of which violate the unique index first
  unless one is exhausted, and its passing run has one runner.
- A reply of the model in `ApiProcess` and each iteration in `ChatTurn` has a
  bounded number of tool calls (one; the `Calls` of the run).
- Failures of the database in `ApiProcess`, except a pool that is full;
  `ChatTurn` and `JobQueue` have them.
- The owner check of conversations: `NotFound` may happen to any chat that
  continues one. Signatures of tokens and malformed ones.
- `last_active_at` is set and committed in one step.
- The session of a stream stays open until its generator ends, as it does with
  the FastAPI version the project pins.
- A chat request with an empty string as conversation id is treated as one
  with a new conversation, but `rename_conversation` is then offered, too;
  `ChatTurn` models None.
- A model that calls `rename_conversation` without being offered it.
- Not modelled: rate limits (a library's counters, which the repository only
  configures), logging (output only), prompts (text from constants), settings
  and the application factory (static), migrations and the seed script (run
  once by an operator; the constraints they create are in the models of the
  tables).

## Plan

Done: queue, summary, pipeline, turns, pages, tool requests, the store that
turns implement, and the API process with tools, stub, feedback, tokens and
pool, in that order of importance.

Proved: the safety properties of all of them.

Next: what the liveness properties rest on can be proved as safety, so that only
the fairness argument is left to TLC: an action of `Serve` is possible while a
call is neither ended nor waiting for the pool, stated without `ENABLED`; the
queue of a stream holds its None once the loop is over; a retriable row is
pending, held by a runner or stale. And dropping the hypothesis of
`GapsAttended` where two runners do not work on one conversation at a time.
