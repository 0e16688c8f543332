# TLA+ models of ts-pf

ts-pf is a contract-first RPC system in TypeScript: a contract is implemented
on a server, called from a client, and carried over HTTP, over framed message
connections (WebSocket, stdio, `MessagePort`, in memory), as JSONL streams and
as server-sent events; MCP tools and SWR hooks are built on the same clients.
This directory holds TLA+ specifications of the parts of it that keep state
while other things happen, the TLC configurations that check them, and TLAPS
proofs about most of those parts.

All source paths below are relative to `packages/` unless they start with
`src/`; `PROJECT.json` maps every definition to its lines.

## 1. The system

### Components

| Component | Source | State | Operations | Modules |
| --- | --- | --- | --- | --- |
| push queue | `message/src/push-queue.ts` | buffered entries and their sizes, the paused flag, one waiting `next()`, how it was closed | `push`, `end`, `fail`, `next` | `PushQueueOps`, `PushQueue` |
| backpressure | `message/src/backpressure.ts` | the pending drain wait, its timer, whether a stall was reported | `wait`, `cancel`, the timer, the drain promise | `DrainWaiter` |
| session | `message/src/session.ts` | handshake state, hello generation, `ready` promise, hello timer, pending drain promises, whether the close was reported | inbound text, `onHello` settling, hello timeout, `send`, `close`, duplex close | `MessageSession` |
| frames | `message/src/frame.ts`, `error.ts` | none | decode, encode | classes in `MessageSession` |
| duplex adapters | `message/src/{duplex,ws,stdio,port}.ts` | send buffers, drain promises, pollers, paused reads, the unfinished line, closed flag | `send`, `pause`, `resume`, `close`, socket and stream events, microtasks | `DuplexPipe`, `MemoryDuplex`, `WsDuplex`, `Lines`, `StdioDuplex`, `PortDuplex` |
| links and handlers of the adapters | `message-client/src/{ws,port,stdio}.ts`, `message-server/src/{ws,port,stdio}.ts` | the connect promise, closed flags | connect, call, close, bind | with their adapter |
| server mux | `message-server/src/{shared,call}.ts` | the `inflight` map of ids to `ServerCall`s, the connection's pause counter; per call a procedure, an output iterator, an input queue, a drain wait, a cancelled flag | frames by id, the procedure's completion, iterator results, drains, `onError` | `ServerMux`, `CallService` |
| client mux | `message-client/src/{duplex,call,shared}.ts` | the `inflight` map of `ClientCall`s, the pause counter; per call the promise, the abort listener, the output queue, the input pump | `call`, frames by id, abort, `next` / `return` of the output, the pump | `ClientMux` |
| a connection | both muxes | frames in flight in both directions | those of both ends | `Connection` |
| client chain and plugins | `client/src` | dedupe's in-flight map, the cache store, retry attempts | a call through the interceptors | `Dedupe`, `ClientPlugins` |
| server dedupe | `server/src/dedupe-plugin.ts` | in-flight map | a call | `Dedupe` |
| server runtime | `server/src/{runtime,middleware,call-interceptor,events}.ts` | per execution: validated input, context, middleware position | run a procedure | `Procedure` |
| implementer | `server/src/implement.ts` | arrays of middleware shared or copied between builder nodes | `use`, `useAfter`, `handler`, `router` | `Implementer` |
| HTTP server | `server-http/src` | one request: its step, plugins' context, the response so far | `handle` and the hooks of five plugins | `FetchHandler` |
| HTTP client | `client-http/src`, `http/src` | one call: its phase, its signal | `call`, abort, the response | `FetchLink` |
| files | `file/src` | none | encode, decode | `MultipartCodec` |
| streams | `stream/src`, `sse/src` | a partial line or event, a producer suspended at its yield, a keep-alive timer | pull, write, read, cancel | `ItemStream`, `Lines` |
| SWR | `swr/src/subscriber.ts` | per subscription its iteration and controller; the cache entry | subscribe, unsubscribe, events | `Subscriber` |
| MCP | `mcp/src` | per request the visible tools of a host, clients by caller, calls in progress | list, challenge, call; `all`, `$host`, `$toolset`, `$coverage` | `ToolCall`, `Toolset` |
| contracts, documents, adapters | `contract`, `protocol`, `openapi`, `docs`, `codegen`, `astro`, `mvc-kit` | none at run time worth a model | builders, generators, adapters | |

### How they interact

```
 caller ── client chain ── DuplexLink ── ClientCall ─┐          ┌─ ServerCall ── procedure
             │ dedupe        │  inflight              │          │   inflight │
             │ retry    MessageSession ── duplex ═════╧══════════╧═ duplex ── MessageSession
             │ cache                                                          attachRouter
             └────────── FetchLink ── fetch ═══ body (JSON, multipart, JSONL, SSE) ═══ FetchHandler ── procedure
                              tools (mcp), subscribers (swr) are callers of such clients
```

A link and a router each own one `MessageSession`; a session owns a duplex. The
session's `send` is synchronous, and a duplex may **close inside it**: the
close then runs through `onClose` into every call in flight, the sending one
included, before the send returns. Each call owns a push queue for the values
it receives and a drain waiter for the values it sends. The queues of all calls
share one counter per connection, which pauses and resumes the duplex. Frames
are routed by id; the server frees an id with its terminal frame or its cancel,
so an id may be reused while the `ServerCall` of its earlier use still runs.

Over HTTP one request is one call. Its plugins, context factory, procedure,
codec and error hook belong to the user and may throw where they are called.
A stream is the body of one request or response: the encoder pulls the user's
iterator when the body is read, the network cuts the text anywhere.

JavaScript runs one turn at a time, so what interleaves is turns: inbound texts,
timers, settled promises, aborts and what user code calls. Every model takes one
turn as one step.

### What is hard, and what makes it right

- **push queue.** Values and their closing race a waiting consumer; the pause
  must be given back with values of any size. Right: nothing is lost or
  reordered, the closing comes last, a pause has a cause that consumption
  removes, the loop ends.
- **drain waiter.** A drain promise or a timer of an earlier wait settles during
  a later one. Right: a wait is decided once and by its own events, and ends.
- **session.** The accept of a hello races the hello timer, a second hello and
  the close; closes nest. Right: one handshake reply, no frame before the
  handshake, one report of the close with nothing left armed, and `ready` always
  settles.
- **duplexes.** Texts wait for an open, a resume, a poll; a close comes while
  they do. Right: a FIFO pipe that closes once, after what was delivered, and
  leaves nobody waiting.
- **server mux.** Procedures, iterators, drain timers and hooks settle after a
  cancel, a close or a reuse of their id. Right: one answer per call and nothing
  after it, silence after a cancel, no call answers for another, generators
  returned, pauses given back, every call ends without the peer's help.
- **client mux.** The promise, the output and the pump of one call are settled
  by frames, aborts, breaks, failed sends and the close, in any order. Right:
  nobody hangs, nothing is sent after a call's end, nothing is held by a call
  that is over.
- **connection.** Both ends pause, stall, cancel and close at once. Right: every
  call is over at both ends, and a cut stream never looks complete.
- **plugins.** Callers come, abort, retry and settle in any order around one
  shared call. Right: one execution per key, an abort only for who aborted, a
  retry that is not answered by the failure it retries, a store that does not go
  back.
- **runtime.** An interceptor or middleware calls `next()` again, at once or
  later. Right: executions do not mix, what follows the check was checked,
  failures stay what they were.
- **HTTP.** Any user hook throws after others ran; a proxy answers in the
  server's place. Right: each failure told once, headers on every answer, and a
  caller that knows whether the server answered.
- **files.** A value is a graph and JSON a tree; parts and placeholders come from
  anyone. Right: a value arrives as what it means or is not sent.
- **streams.** Chunks, cuts, cancels, breaks and failing items. Right: the items
  in order, no cut that looks like the end, nothing left open.
- **SWR.** Iterations of ended subscriptions go on beside later ones. Right: the
  data of a key are those of its subscriptions, in order.
- **MCP.** Scopes and visibility are asked by the user's predicates, twice, for
  callers that run at once. Right: a hidden tool is an unknown tool, a client is
  one caller's, results say what happened, what is listed is what is served.

`PROJECT.json` lists these at their lines under `hazards`.

## 2. The models

### `PushQueueOps`, `PushQueue` — `message/src/push-queue.ts`

`PushQueueOps` holds the queue as a record and its methods as operators on it
(`Push`, `Close`, `Pull`, with `Take` and `SettleWaiter` as in the source); the
two muxes use them for every queue they own. `PushQueue` runs one queue with one
producer and one consumer. A pushed value is the offset of its first byte, so
gaps, repetitions and swaps show; `pushed` and `got` are histories.

### `DrainWaiter` — `message/src/backpressure.ts`

Waits are numbered. `pending` is the wait whose settle function is stored,
`timers` and `drains` are the timers and drain promises of *all* waits that can
still fire, which is where late events come from. `Settle` is the `settle`
closure with its identity check.

### `MessageSession` — `message/src/session.ts`

One record for the fields of the class, in either role. `Inbound` takes one
class of text (legal frames, bad frames with and without an id, garbage,
oversize) through `onDuplexMessage` and the handler of the state. `onHello`'s
promise resolves or rejects at any time, and is compared to `helloGeneration`
as in the code. Every step that sends chooses what the duplex does: takes the
text, takes it and returns a drain promise, closes inside the send, or throws.

### `ServerMux` — `message-server/src/shared.ts`, `call.ts`

`Calls` are `ServerCall` objects and `Ids` are the ids of the wire. `phase` says
what `run()` awaits: the procedure, `iterator.next()`, the drain, or `onError`
called from the inner or the outer catch. `Outbound` computes every outcome of
`sendOutbound` — sent, sent with a drain, replaced by an error because it cannot
be encoded or is too long, closed in the send, `onError` throwing inside it —
and `Turn` applies one to the state together with everything a close in the
send does to *all* calls (`abortAll`). `Requeue` drives the pause counter.
`CancelCalls` is `ServerCall.cancel` on a set of calls.

The drain timeout cancels a call in the same turn in which it answers it, so whether
a call that is over was answered cannot be read off its state: `AnsweredUnlessCancelled`
is about the step that ends a call nobody had cancelled *before* it. A call whose
`onError` throws is `rejected`; `EveryEndIsAnswered` asks an answer of it, too, and
fails (finding 5).

### `CallService` — what `ServerMux` promises

The same system without queues, drains, pauses, hooks, iterators and timers: an
id is owned by the call it began; a step is `Begin`, `Item`, `Answer`, `Cancel`
or `Disconnect`; an answer and the release of the id are one step, and a result
is not preceded by items. `ServerMux!ImplementsService` is the refinement, with
`owner <- inflight`, `out <- frames` and the calls that left `unused` as `used`.

### `ClientMux` — `message-client/src/duplex.ts`, `call.ts`, `shared.ts`

Client ids are never reused, so a call is its id. A call is a record: `mode` is
the code's mode plus `idle`, `awaiting` (the handshake) and `done`; `promise` is
what the caller sees; `pump` is what `pumpInput` awaits. `Commit` writes the
calls back and drives the pause counter; `CloseAll` is the `onClose` of the link.

### `Connection` — both muxes, and `MCConnection`

Instances of `ClientMux` and `ServerMux` joined by two wires, sequences of
records of an id and a frame's kind. What an instance adds to the frames it sent
in a step is appended to the wire of its direction (`Added`, `SentBy`);
`ServerReceives` and `ClientReceives` take the head of a wire into the same
action that the mux alone takes for a frame of any peer. An end that has paused
reads nothing, the other end's close included; a close loses what is in flight
to the end that closed. `MCConnection` adds the two ends *alone*, with a
peer that may do anything, for the liveness that must not need the peer;
joined, it has one call with every outcome and close, and two calls (`Quiet`). Calls
share the reads of the connection, so one may hold up another: `HeldUp` is the one
way in which it may do so for good, by an input that its handler left lying (finding
2), and `AllOver` says that there is no other. Without it `CallsEnd` fails for two
calls.

`ControlFits` says that `maxFrameBytes` leaves room for `cancel` and `in-done`.
Without it a cancel is dropped and the server's call goes on: nothing in the code
prevents a limit that small, and the composition assumes there is none. It
assumes, too, that the object of an id's call is the id itself and that a
placeholder is no object (`ObjectsAssumption`), and that a send of the server has
one of the outcomes of `Sends` that `call.ts` tells apart (`SendsAssumption`).

### `DuplexPipe`, `MemoryDuplex`, `WsDuplex`, `StdioDuplex`, `PortDuplex`

`DuplexPipe` is what `message/src/duplex.ts` says of one direction: texts leave
in the order they were taken, a closed pipe takes none, nothing leaves after the
owner was told of the close, and the close releases who waits for a drain. Each
adapter is a record with the fields of its closure and its histories (`taken`,
`arrived`), and is shown to implement the pipe; the memory duplex is two.
`MemoryDuplex` keeps the queue of microtasks, since its flush and its close are
queued there and a turn may come in between. `WsDuplex` has the socket's four
states, its `bufferedAmount` and the poll of it, and its two owners: `WsHandler`,
which wraps a socket in any state, and `WsLink`, whose callers wait for the
connect. `StdioDuplex` splits what the peer wrote, cut anywhere, with `Lines`.
Sockets, streams and ports are external, modelled by their documented events.

### `Dedupe` — `client/src/dedupe-plugin.ts`, `server/src/dedupe-plugin.ts`

One algorithm in two files. A *pass* is one call of the interceptor; an
execution of the rest of the chain is named by the pass that opened it, and
carries the `waiters` and the abort flag of its entry. `Abort` is the abort
listeners of one signal: its waiters leave, an execution that is left by
everybody is aborted and its entry deleted, if the entry is still its own.
`Settle` is the rest of the chain, `Finally` the finally callback that deletes
the entry, `React` the reaction of one waiter: three turns, between which calls
and aborts may come. `OpenAborting` is the case that `ctx.next()` itself runs
code that aborts the signal, before the entry exists. `Bypass` is a call without
a key.

### `ClientPlugins` — `client/src/retry-plugin.ts`, `cache-plugin.ts`

Extends `Dedupe`: retry around dedupe around cache, the order `client/README.md`
shows, under its own `ChainNext`; each of its steps is a step of `Dedupe` or
leaves the state of `Dedupe` alone, which is proved. A pass of `Dedupe` is a caller
and the number of an attempt; `Enter` is one trip down the chain, which reaches the cache only with a new execution.
`store` keeps the link
call whose answer was stored and `fresh` whether it is still served, so a time
to live may end at any time. `attempt` is the loop of the retry plugin.

### `Procedure` — `server/src/runtime.ts`, `middleware.ts`, `call-interceptor.ts`, `events.ts`

A chain is a sequence of kinds: interceptors and the four observers of
`events.ts`, `.use()`, the input check, `.useAfter()`, the handler. A *frame* is
one invocation of an entry, with who called it, the input and the context it
got; an *execution* is what the innermost interceptor's `next()` begins. Users'
entries call `next()` any number of times with an input and a context of their
own, before or after earlier ones settled (`Hedgers`, the kinds that do not
wait), and settle as they like; observers do what `events.ts` does. A context is
the set of its contributors, so that mixing shows.

Interceptors may hedge in `procedure`: each call of the innermost one's `next()`
has an execution of its own. The middleware of one execution share it, and in
`procedure_hedge` a `.use()` hedges as well, which is finding 3.

### `Implementer` — `server/src/implement.ts`

The builder of implementation trees over any contract (`Leaves`, the paths of its
procedures), as a heap: arrays of middleware are
references, which `use` and `useAfter` copy or push to as the source does.
`wrote` is the history of what an expression attached.

### `FetchHandler` — `server-http/src/handler.ts` and its plugins

A request goes down numbered steps, plugin by plugin; `step` and `at` are the
place, `failing` is the catch of `handle()`. Each call of user code is one step
with the outcomes *returns* and *throws*. A request is a record of what the code
asks of it (prefix, known procedure, method, version, origin, body), a response
keeps who built it, its code and status, and its headers as counts, which is how
a header set twice or lost shows. The plugins are CORS (a list, `*`, a function),
the body limit, request and response headers, and one of the user's that may
answer in `onRequest`.

### `FetchLink` — `client-http/src/fetch-link.ts`, `http/src/codec.ts`

Extends `FetchHandler`: an interceptor may send again, answer by itself or throw,
before or after it had a response, the signal may abort at any time, `fetch` may
fail, a proxy or framework may answer in the handler's place (`Arrivals`), the body
may be cut while it is read. `result` is what the caller gets, with its code, status
and `local`.

A throw of an interceptor that is no `PFError` is a local failure in the code, after
`next()` gave a response as well. So a local failure says that `callInner` was left
without a response, and not that the server did not run the call; a retry plugin
with the default predicate retries it either way. A response that claims our version
and whose body is no envelope is the codec's `BAD_REQUEST` with status 400, whatever
the status of the response (`client-http/tests/fetch-link.test.ts:202` has an HTTP
500); other undecodable responses are `INTERNAL` with their own status.

### `MultipartCodec` — `file/src`

A value is a graph of nodes (plain objects, class instances, files, leaves,
objects that look like placeholders); `Walk` is `extractFiles` with its `seen`
set, in the order of the entries; the wire is a JSON tree, a function from paths
to labels, and a list of parts; `InjectAccepts`, `Injected` and `AssertAccepts`
are the two walks of the receiver. The properties compare them with a definition
by paths (`IsTree`, `Meant`). What the model shows beside its property: an object
in two places of a value is refused as "Circular value" although nothing is
circular; a file inside a class instance is sent as `{}`; a program's own object
that looks like a placeholder (reserved by `protocol/PROTOCOL.md:151`) is refused,
or taken for one of the value's files.

### `ItemStream`, `Lines` — `stream/src`, `sse/src`

One body, JSONL in either direction or server-sent events: the producer, the
sender's pull loop and keep-alive timer, the text as tokens, chunks cut at any
token, the reader's splitter and the user's loop. `Lines` is the splitter of
`stdio.ts` and `jsonl.ts` (`NextLines`) and, separately and by the places of the
newlines, what the lines of a text are (`LineEnds`, `LineAt`); a `\r` and its `\n` may come in two
chunks. Two things hold only with exceptions, which the properties name: a JSONL
body cut cleanly between two lines looks complete, and an item that cannot be sent
(a stream or a file, refused by `assertItem`) or written (what JSON cannot hold)
fails the stream and leaves its iterator suspended and un-returned: `"left"` and
`"unwritten"`. An item the schema refuses returns it. And a loop over a JSONL stream that
is left early only releases the reader's lock: the body is not cancelled.

### `Subscriber` — `swr/src/subscriber.ts`

Subscriptions to one key, one after the other, in four modes. An unsubscription
only aborts: the iteration of an earlier subscription may take events while a
later one runs. `taken` numbers the events, so data out of order show.

### `ToolCall`, `Toolset` — `mcp/src`

`ToolCall` is a call from the SDK's request (`sdk.ts`: verification, challenge),
or from a program, over visibility (`host.ts`, `bind.ts`), the executor
(`executor.ts`: fixed, or a client per caller), to its result and report
(`call.ts`). Predicates are the user's and may answer otherwise the second time
they are asked. `Toolset` is a program that builds one toolset: `all()` with its
filters (but the one by tags) and injected keys, `$host`, `$toolset`, `$coverage`,
and the generated names, as sequences of the words between their `_`, so that two paths can meet in
one name. `listedHostNames` of the audit lists names for an empty host that
`hostEntries` does not; the audit is outside of the model.

## 3. The runs

Twelve runs; one module may be several parts of the system side by side, one of
which moves (`part`), since their state is disjoint.

| Run | Instance | Shows | States |
| --- | --- | --- | --- |
| `message` | queue: mark 3, sizes 1, 2, 4 bytes; 4 drain waits with a timeout; a session of either role, all send outcomes, 5 frames; memory, WebSocket (two callers), stdio and port duplexes of 2 or 3 texts, a peer text with blank, padded and unfinished lines, limit 1 | order and completeness, pauses with a cause, waits decided by their own events and ended, clean single close, one handshake reply and nothing before it, adapters refine the pipe, who waits is woken, lines reassembled | 13,230 |
| `session_ws` | server sessions whose sends may close inside | **violation** (finding 1) | |
| `server_mux` | 2 ids, 2 calls, all send outcomes, a hook that may throw, trailing deliveries | answers on every way out, the other safety properties, and the refinement of `CallService` | 207,896 |
| `server_mux_paused` | 1 id, 2 calls | **violation** (finding 2) | |
| `server_mux_hook` | 1 id, 2 calls, sends that go out | **violation** (finding 5) | |
| `client_mux` | 2 calls, all send outcomes, trailing deliveries | nobody hangs or holds anything, pauses given back, silence after the end | 687,549 |
| `connection` | over both ends, mark 0: 1 call, 2 inputs, 1 item, every outcome; 2 calls of a connection that stays open, one with 1 input and a value, one without input and with 1 item; and each end alone with any peer | streams whole; every call ends, unless held up by the input another one left lying | 338,117 |
| `client_plugins` | 2 callers, 1 key, 1 retry | one execution per key, shared fate, a retry is new, the store keeps its order, an abort settles | 314,349 |
| `procedure` | 4 chains of 4 entries, 5 invocations; 4 builder nodes, 2 middleware, 3 trees; 3 tools, 2 calls; 3 contracts, 6 `all()` calls, 2 hosts | executions apart, inputs checked, errors final, built as written; hidden is unknown, clients apart, honest results, complete surface | 1,356,976 |
| `procedure_hedge` | one chain with two `.useAfter()`, a `.use()` that hedges | **violation** (finding 3) | |
| `http` | 13 requests, 6 lists of plugins, 2 sends of a link; 2,916 graphs of 3 nodes and 756 bodies of others; a stream of 2 items, both line ends, 1 keep-alive, 4 tokens under way; 2 subscriptions of 3 events | errors told once, headers on every answer, callers know who answered, files arrive; items in order and no hidden cut, nothing left open, data of a key | 539,850 |
| `http_abort` | the same | **violation** (finding 4) | |

**Bounds.** `MaxPushed` 9 with mark 3 lets the queue cross its mark, drain to
half of it and cross it again with every mix of sizes; the proofs remove the
bound. Four waits are one pending wait and late events of three earlier ones,
where two would do. Three texts in a duplex with mark 1 are one that was handed
on, one above the mark and one behind it. `MCPeerText` has a padded line, a blank
line, an empty line and a rest; with the limit of 1 token some chunks leave a rest
that exceeds it, and others end at a line or one token behind it. Two call objects
on one id give a call and its successor, two ids give two calls whose pauses and
closes meet; a third would only repeat one of the two relations. `MaxItems` 2
is an item, a terminal frame, and an item after either; `MaxInputs` 2 with mark 1
crosses the mark. In `client_mux` one `in-item` and two buffered items cross the
marks likewise. `HighWaterMark` counts entries of size 1 in the muxes, because
`message` covers the sizes. `Trailing` is the stdio duplex, which delivers the rest
of a chunk it has read although it is paused: with it a paused queue still receives
frames. In `connection` mark 0 makes one value a pause, so both directions can be
paused by one call, and two inputs leave one behind the pause. One call says nothing
about what calls do to each other, and they share the reads: with two, one can pause
the server's reads by its input, the other the client's by its output, and the frames
of each travel behind those of the other. Closes, drains, failed sends and hooks are
left to the one call there. A third call would repeat one of the two.
In `client_plugins` two callers can share an execution and each has a second
attempt, which can meet the other's first or second, or open the next execution of
the key while an aborted one still runs; the proofs remove the bounds, so they
cover several keys too. Five invocations of a chain of four entries are one
execution and the beginning of a second at any depth. In a stream two items are
a first and a last one, and two subscriptions of three events exceed `maxChunks`
2. In `http` two sends are a request and its repetition; the six lists of plugins
have each kind once or twice, the proofs all lists; two files of at most
`MaxFiles` 2 leave room for one too many. Two calls of tools are two callers.

**Symmetry** of ids and calls is used in `server_mux` and `client_mux`; their
liveness is checked in `connection`, without.

**Deadlock** is switched off where the system stops: a mux whose connection is
closed and whose calls are over, a waiter that has used its waits, a request that
was answered have nothing more to do. `session_ws` checks it.

**Fairness** is weak, and on these only: a `for await` consumer asks for the
next value; an armed timer fires (hello, drain, retry delay); queued microtasks
run and awaits of settled promises resume; and, for an end of a connection alone,
user code settles what the call awaits: the procedure, the iterators, the hook.
Nothing is assumed there of the peer or of the network: a duplex may never drain, a
hello may never come, a link may never answer. For both ends joined (`ConnFairness`)
frames in flight arrive at an end that reads, an end that reads is told of the
other's close, a consumer takes from a stream that has not ended (what is left behind
its end may be left for ever), and a handler or iterator on the server has to go on
only once its input is at its end: it may wait for input for ever while the client
has not ended it. No end has to close, abort or drain. JavaScript's event loop
justifies the rest, since a queued turn runs. For the muxes it is one condition on
all of these steps (`FairStep`): while one can be taken, one is, which is less than
fairness for each of them and enough where calls are finitely many.

**Assumed of the link** in `client_plugins`: a link call whose signal was aborted
answers with a failure of any kind and never with a value, as `FetchLink`
(`client-http/src/fetch-link.ts`) and `DuplexLink` do. The retry predicate is the
default, `isLocalFailure`, and dedupe and cache find the same key, as their
defaults do. `StoreInOrder` needs it: a link of the user's own that answers an
aborted call with a value lets an older value replace a newer one in the store. It
needs the dedupe plugin too; the cache alone makes no such promise.

**What the properties leave out on purpose.** The part of `NobodyHangs` that is
about held resources (`NothingHeld`) is about calls whose `call` frame went out:
when the duplex closes inside the send of that very frame, `open()`
(`message-client/src/call.ts:90-118`) goes on to attach the abort listener and
take the input iterator of a call that is already over. The caller's promise is
rejected all the same.

## 4. Findings

1. **A closed server session becomes ready again** (`session_ws`). `acceptHello`
   sets `ready` after the send of `hello-ok` without looking at the state; the
   WebSocket adapter may close inside that send. `protocol/PROTOCOL.md:360`
   states the order `waiting-hello` → `ready` → `closed`.
2. **Reads stay paused for a call that has answered** (`server_mux_paused`). A
   handler that answers without consuming its input leaves its queue above the
   mark, and nothing ends the queue. Frames of all other calls wait behind it
   (`HeldUp`). The weaker promise, that a pause always
   belongs to a call that was not cancelled and still holds values, is
   `PausedByOpenQueue` and holds.
3. **A middleware that hedges lets others see raw input** (`procedure_hedge`).
   `applyNext` writes the input given to `next()` into the execution, and all calls
   of `next()` of one `.use()` share the execution. If a `.use()` calls
   `next({ input })` while an earlier one still runs, the `.useAfter()`s and the
   handler that the earlier one has yet to reach see the raw input, against
   `docs/concepts.md:74`. A `.use()` whose calls follow each other is safe.
4. **An abort is not always a local failure** (`http_abort`). An abort while the
   body of the response is read is caught as "Invalid response", `INTERNAL` and
   not local, against `client-http/skills/ts-pf-client-http/SKILL.md:38`; a retry
   plugin with the default predicate does not see it as an abort.

5. **A call whose `onError` throws is not answered** (`server_mux_hook`). `run()` of
   `message-server/src/call.ts` rejects when the hook does (line 278), against its
   comment "Never throws" (line 173) and the one of the class, "exactly one terminal
   frame ... unless cancelled first" (lines 112-114). The call has no terminal frame
   and stays in `inflight` until the connection closes. `server_mux` keeps such a
   hook and shows what still holds.

## 5. The proofs

TLAPS checks these for all values of the constants, from the assumptions that
the modules name and nothing else: finite sets of calls and callers, `NoCall` not
one of them, Booleans and naturals where the code has them, chains and pipelines
that are sequences of what the code builds them from (`ChainsAssumption`,
`PipelinesAssumption`), contracts that are finite trees (`ImplementerAssumption`),
a peer's text that is a sequence of tokens (`StdioAssumption`), items whose JSON has
no line end in it and is not trimmed (`StreamAssumption`). TLC evaluates every one of them. Bounds of the
models (`MaxFrames`, `MaxTexts`, `MaxSends`, ...) are arbitrary naturals in the proofs.
The temporal theorems of a part are of its specification without fairness.

**`MessageProofs`: the package `message`.**

- *Push queue.* `QueueInv` says that the received and buffered values form a
  chain from offset 0 to `pushed` with `buffered` equal to the length of its
  buffered part, that a paused queue is open and above half its mark, and that
  an unpaused open one is within it. "A paused queue holds a value" is not
  inductive alone: it follows from being above half the mark, which the counter
  tells only because it equals the buffered sizes. Theorems: `NothingLost`,
  `PausedCanResume`, `BoundedWhileReading`, `ClosingComesLast`, and the exactness
  of the counter.
- *Drain waiter.* An undecided wait is `pending`, timers belong to the pending
  wait, and started waits only have drains. From these: `DrainedIsOwn`, for any
  number of waits.
- *Session.* A close can happen inside a send, which is itself inside a handler,
  so the invariant is about the records that a turn passes on and not only about
  the state between turns: `Sound` holds of all of them (the close is reported
  at most once and then nothing is held; of a server, a reply goes out first and
  no other follows), `Settled` adds what a turn has restored when it ends
  (before the handshake nothing is settled or delivered; a session in use was
  accepted and, as a server, said so). Each operation is shown to keep them, also
  after a nested close.
  Theorems: the type, `ClosedIsClean`, `OneReply`.
- *Adapters.* `PipesTheorem`: each direction of the four adapters implements the
  safety part of `DuplexPipe`, step by step. For the memory duplex the inductive
  part is the queue of microtasks: the close is the last task and there is one
  of it (`CloseIsLast`), so every flush queued before it comes first and nothing
  arrives after the owner was told; and what arrived followed by the inbox is
  what was taken (`Ordered`). For the WebSocket it is that texts wait only while
  the socket is not open, so a text sent to an open socket cannot overtake one
  that waits, that a parked sender of an open socket has a poll, and that the
  link listens to the socket exactly while it connects (`WsGood`, `LinkGood`).
  `ParkedTheorem` (`ParkedIsWoken`) follows from the same invariants.
- *Lines of stdio.* `LinesTheorem` (`LinesReassembled`), for every text of the peer
  and every way to cut it into chunks. "Delivered are the first lines of what came"
  is not inductive: the next chunk continues a line of which only the tokens held
  back are known. `LinesInv` adds that, until the adapter closes, *all* complete
  lines were delivered and `pending` is what follows the last newline (`RestOf`).
  That the loop over `pending` and a chunk keeps this is an induction over the
  tokens of the chunk (`ChunkReassembles`).

**`PushQueueLemmas`, `ServerMuxProofs`, `ClientMuxProofs`: the two connections.**
The lemmas are about the queue operations on entries of size 1 and about the
counter of paused queues, which both sides keep as the cardinality of a set.

- *Server.* `TerminalIsLast` is not inductive: nothing in it keeps a call that has
  answered from answering again. `Core` adds what does: whoever may still send
  owns its id (`SenderOwnsId`), an entry of the map is an uncancelled call that
  has sent items only (`InflightOwned`), unused objects are fresh, a running
  procedure has sent nothing, a closed connection has an empty map, and an
  uncancelled drain wait is settled by the duplex or its timer only. The argument
  has two layers: `Legit` says what a turn may do with the outcome of its send,
  and one lemma per action shows its turns legitimate (`OutboundOutcome` analyses
  the send); `TurnCore` and `TurnServes` then show once, for any legitimate turn,
  that `Core` survives, that the turn is a step of `CallService`, and that it answers
  a call it ends (`Answers`: this one is about a step, not a state, since the drain
  timeout cancels and answers at once). `Held` adds
  the resources: the counter is the number of paused queues, each of an open
  input (`PausedByOpenQueue`), and a call that is over has no open generator
  (`ProducerReleased`). Theorems: `TypeOK`, `TerminalIsLast`, `SenderOwnsId`,
  `AnsweredUnlessCancelled`, `SilentAfterCancel`, `ProducerReleased`,
  `PausedByOpenQueue`, and `ImplementsService`, that is `Spec => Service!Spec`.
- *Client.* `CallInv` says of one call which promise, queue and resources go with
  its mode; it is local, but for the link being closed and for the counter. Every
  step commits new calls, so it is shown by showing `CallInv` of those; that a
  close inside the send of one call ends all the others is shown once
  (`CloseAll`). Theorems: the type, `NobodyHangs`, `SilentWhenDone`,
  `PausedByStream`.

**`ClientPluginsProofs`: dedupe, retry and cache.**

- *Dedupe.* The code names an execution in two ways, as the entry of a key and by
  the waiters it holds, and neither property is inductive until the two agree:
  `Booked` says the waiters are exactly the passes that wait for it, `Entered`
  that the map holds executions of its keys which are neither aborted nor over,
  `Found` that what runs unaborted is in the map, and `Ended` and `Kept` what an
  abort leaves behind. `WhoLeaves` and `Without` compute the effect of an abort
  once, for its two actions. Theorems: `TypeOK`, `OneExecution`, `SharedFate`.
- *The chain.* `ChainIsDedupe`, that is `ChainSpec => Spec` of `Dedupe`, carries
  those over. `RetryIsNew` is not inductive alone: `ChainInv` adds that the
  passes of a caller are tried in order (`Tries`), so an earlier one has settled,
  its execution has been reported, and `Entered` says that no entry holds a
  reported execution. `StoreInOrder` rests on `LaterRuns`: a link call that may
  still be stored is later than what its key holds. It survives an answer because
  `Found` leaves one unaborted execution per key, and a new call of the link
  because calls are numbered upwards (`Numbered`, with the cardinality of finite
  sets).

**`ProcedureProofs`: one call of a procedure,** for every chain of handlers that
`runtime.ts` can build and any number of invocations. Frames form a tree, and a
step grows it by one frame, settles one, or lets one through its check, so each
part of the invariant is shown for these three: `Shape` (parents, kinds and runs
fit the chain), `Isolated` (what a frame sees comes from its ancestors and the
frames of its own run), `Final` (where a thrown error came from and who was told
of it).

- `IsolationTheorem` (`RunsAreIsolated`) and `ErrorsTheorem` (`ErrorsAreFinal`)
  have no hypothesis.
- `InputTheorem` (`InputIsChecked`) is for chains in which no `use()` and no
  `useAfter()` calls `next()` again while an earlier `next()` of it runs. Under it
  the frames of a run that can still step are one path with one leaf (`OneLeaf`),
  so the check that a frame passed is the one its input went through. The run
  `procedure_hedge` and its finding show that the hypothesis is needed.

- *The builder.* `BuilderTheorem` (`BuiltAsWritten`), for every contract. It is
  about arrays that nodes and trees share, and a push reaches everybody who does:
  `OwnArrays` adds that the arrays to which `use` of a procedure node pushes belong
  to that node alone: no other node has or inherits them, and no tree runs them.
- *A tool call of the MCP server,* for any tools, tokens and number of calls.
  `Fits` says what a call can have come to in each phase and what it can have been
  shown, `OwnClients` that the keys and the clients of the factory match one to
  one. Theorems: `HiddenIsUnknown`, `ClientPerCall`, `ResultsAreHonest`.

**`HttpProofs`: a request from the fetch link to the handler and back,** for any
pipeline of plugins, any request and any number of retries. `Control` says with
which error and response a request can be where, `Dressing` which headers the
plugins that have run so far put on it, `Heard` what the client has of both.

- `ToldTheorem` (`EveryErrorIsTold`) and `AnswerTheorem` (`CallerLearnsTheAnswer`)
  hold of every pipeline; the second for any throws and answers of interceptors, and
  for responses of our version that are no envelope.
- `HeadersTheorem` (`HeadersOnEveryAnswer`) assumes `Once`: at most one CORS and
  one response-headers plugin, among any others and in any order. It fails
  without: of two CORS plugins the later one's origin wins, and two
  response-headers plugins append the cookies of the shared bag twice.

The same module has two other parts of the HTTP packages:

- `SubscriptionTheorem` (`SubscriptionData`), for any number of subscriptions and
  events and any `maxChunks`. `SubscriberInv` adds what is held back: the buffer of
  a `replace` that still streams has the latest events of its own subscription and
  the entry none of them (`Buffered`); and what a subscription without a rival
  leaves at each moment (`Lone`). `Cap` runs after every event, `Expected` cuts
  once at the end: `CapTwice` says that is the same.
- *A stream of items over a body,* for any items, either line end, JSONL or events,
  any number of keep-alive comments, and every way the network chunks, cuts or
  breaks the text: `FaithfulTheorem` (`OutputIsFaithful`) and `ReleaseTheorem`
  (`NothingHeldOpen`: a stream that is over holds no timer, and its iterator has ended
  or was told to, but for one suspended at an item that could not be sent or
  written), both from the invariant `StreamInv`.

  What the loop got is a prefix of what was sent says nothing about the text that is
  on its way, and the text alone does not say what it means once its beginning is
  gone. `StreamInv` gives every token under way, and every token the reader holds
  back, a label (`Labels`): the item, comment or last event it belongs to, the
  line of it, and the place on that line. Labels follow one another as the sender
  writes (`Follows`, `IsPath`), so a path remains one when a chunk is taken from its
  front (`PathShift`), when its end is cut off (`PathPrefix`), and when the sender
  adds to it (`PathWritten`). `Receives` says that such a path exists; that the
  reader's record, data and event type of a half-read event included, is
  what a reader standing at the path's first label has (`ReaderAt`); and that each
  label agrees with what the sender did (`IsGiven`, and `IsLatest` for the last
  one while the body is open). The steps:
  - *A chunk* (`ReadKeeps`): `NextLines`, `SplitLines` and `ProcessLines` are unrolled
    token by token and line by line, by induction (`JsonlEnd`, `SseEnd`): after every
    token the reader is at some label of the path, wherever the chunk ends, between
    `"cr"` and `"nl"` too.
  - *An event taken* is the next item, the close event behind the last, or the
    sender's failure (`TakeKeeps`, `TakenEvent`).
  - *Writing* (`WriteKeeps`) adds the labels of one item, comment or last event;
    a step that writes nothing keeps the path (`SenderKeeps`).
  - *The end* (`NothingLeft`): a body that is open and over was read to its last
    item. Of a JSONL body that was cut, a rest without a line end is taken for a
    last line (`HasLastLine`); `WhatIsLeft` shows that it is either all of a line that
    was sent or no item at all, so a cut can shorten a stream but not change it.

**`ConnectionProofs`: `WholeTheorem` (`StreamsAreWhole`),** for any number of calls
over both ends, any bounds and outcomes of sends. The property speaks of the two
ends at one moment and nothing in it binds them, so the invariant follows the sign
of completeness along its way. The client sends `in-done` only when its input
iterator finished (`PumpEndsMoves`), so every `in-done` in flight comes from such a
call (`GoodUp`); the server's queue ends by an `in-done` or, cancelled, by
something else (`WholeInput`). The other way, `done` is a last turn of a finished
generator (`IteratorMoves`), every `done` in flight comes from one (`GoodDown`),
and only a `done` ends the client's queue as answered (`WholeOutput`). `ConnInv` is
these with the few fields of each end on which they rest (`ClientOK`, `ServerOK`).
`ClientMoves` and `ServerMoves` say what one step of an end may do to that, closes
inside a send included; each action of `ClientMux` and `ServerMux` is shown to be
one, and `ClientStepInv` and `ServerStepInv` show once that such a step, with its
frame appended to the wire, keeps `ConnInv`.

**Proved and not in a run's list**, because a proved statement needs no instance:
`BoundedWhileReading` and `ClosingComesLast` of the queue, `TerminalIsLast` of the
server, and the type invariants of these modules.

**Model-checked only.**

- Every liveness property (`EveryWaitEnds`, `CallsEnd`, `AbortSettles` and their
  parts `LoopEnds`, `WaitEnds`, `HandshakeSettles`, `AllEnded`, `CallersAnswered`,
  `PumpsEnded`, `AllOver`), and with them the half of
  `PipesKeepOrder` that says the close is told: liveness under fairness is out of
  the prover's reach.
- `FilesArrive` and `EveryToolIsListed`. Their algorithms walk trees of values and
  of a contract by `RECURSIVE` operators, about which the prover can say nothing.

Induction: the library's theorems that take a predicate as a parameter cannot be
instantiated by the installed provers. Where the proofs need one, about the lines
and tokens of a text, it is `SetInduction` (of `MessageProofs` and of `HttpProofs`):
the least element of the set of numbers for which a claim fails.

## 6. What is not modelled

- *Within the modelled parts:* the decoding of frames field by field; the
  validation of options; texts of errors; which microtask of a turn a continuation
  runs in, except where two continuations can be separated by another event;
  the `BAD_REQUEST` that a stray frame is answered with, which belongs to no call and
  is not among the frames `CallService` compares; a call of the same key inside
  `ctx.next()` of the dedupe plugin; a throwing predicate of one MCP tool while
  another one is resolved (it rejects the call, `mcp/src/host.ts:300`);
  `onStall` beyond how often it is called; names and types of files; the byte
  lengths of characters split over two chunks (the decoder is the platform's
  streaming one, tokens stand for characters).
- *Parts of components:* `StdioLink` starts a child process and hands its streams
  to the adapter. The proxy and `asResult` of the client keep no state.
  The completeness check of an implementation tree, the search, audit and
  truncation of the MCP package, the keys and matchers of SWR, and the paths and
  content types of `http` are pure functions that a unit test reaches.
- *Whole components:* builders and type-level code (`contract`), generators that
  run at build time (`openapi`, `docs`, `codegen`, the repository's scripts), and
  adapters whose state is another library's (`astro`, `mvc-kit`).

## 7. Plan

Every property of a run is proved but for liveness and the two named above. Next:

1. `FilesArrive`: `Walk` as a recursive function over the nodes in the order of
   their discovery, so that the prover reaches it.
2. `StdioLink`'s child process and `protocol`'s decoding of frames, as models.
