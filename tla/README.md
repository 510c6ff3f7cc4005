# NiuMaNotifier: a verification project in TLA+

NiuMaNotifier watches AI coding tools (Codex, Claude Code), shows one light for
"running / waiting for you / failed / done", and carries permission requests of
the tools to the user and the decision back. This directory holds TLA+ models
of its core, the instances TLC checks, and theorems TLAPS checks for every
value of the constants. Paths are relative to the root of the repository.

## 1. Inventory

### The parts and the state they keep

| Part | State | Operations | Correct when |
| --- | --- | --- | --- |
| State machine (`niuma-core/src/store/transitions.rs`) | per session a status, the attention list, the latest activity | apply one event | the list, the statuses and the latest activity agree, whatever the order of events |
| Store (`store.rs`) | the above under one mutex, dedupe keys, the bounded event cache, approval requests | append a batch, sweep silent sessions, clear a tool, reset, dismiss, request operations | an occurrence counts once; what is shown stays in the cache; silent sessions end |
| Main state (`main_state.rs`) | none | choose the one state to show | blockers win, then recent activity |
| Approval requests (`approval.rs`) | status, proxy status and heartbeat per request | upsert, decide, resolve in tool, return, heartbeat, return stale | one outcome, one winner |
| Arbiter (`approval_arbitration.rs`) | hook capability per project, waiting watcher events, recent emissions | watcher report, hook or relay report, expiry, cancel | an approval is shown, and no report of the watcher is handed on once the hook has it |
| Local API (`niuma-api/src/handlers/*.rs`) | only what its calls have in flight | one handler per route | no handler exposes its intermediate states |
| Watchdog (`approval_proxy_watchdog.rs`) | none | hand back requests of dead hooks | nothing stays pending because a process died |
| Hook processes (`niuma-cli/src/hook_runtime.rs`) | one request each | submit, heartbeat, poll, print or give up | prints only a recorded verdict |
| Codex relay (`niuma-cli/src/tools/codex/app_control.rs`) | pending approvals and inputs of one Codex session | observe both directions, control socket | an approval is recorded as decided only when Codex has an answer |
| State mutation service, listener configuration | configuration file | mutate, then publish | what is shown follows what is stored, also after a lost update |
| Runtime events and SSE (`runtime_event.rs`, `niuma-api/src/sse.rs`) | bounded broadcast channel, display version, last content per connection | publish, refresh, send | versions increase per connection, every connection catches up |
| Plugin supervisor (`src-tauri/src/tools/plugin_runtime.rs`) | processes, backoff, owner of each tool, session registry | start, stop, reconcile, bootstrap | an enabled plugin ends up running its manifest; threads of an old process never disturb its successor |
| Session watcher plugins (`builtin-plugins/codex-runtime`, `claude-code-runtime`) | cursors into growing files, an index for details | read new lines, report; answer snapshots and details | the scans add up to one parse; a detail is of its session and fresh |
| Notification plugins (`bark-runtime`, `ntfy-runtime`) | file of sent events, notification records | read the stream, push, report, record | sent means pushed; a repeat costs a fault; the plugin always comes back to reading |
| Managed sessions (`codex_managed_session.rs`, ...) | a registry file shared by processes, pending questions per relay | register, bind, instruct, interrupt, answer | a wrapper is bound to its own thread; a question is answered once and then gone |
| Remote agent (`src-tauri/src/remote`) | settings, tokens, device socket, sessions, relay tasks, status | log in, connect, invite, offer, cancel, relay calls and streams | relays serve the one session and nobody takes it over; a bound device comes online |
| Remote server (`remote-server/src`), web clients (`remote-client-web`) | relay rooms, login sessions, the client's session controller | environment of the remote agent | not modelled |
| Hook installation, payload parsing, tray, frontend | files, windows | conversion and presentation | not a protocol |

### How they interact

Tools run **hook processes**, which post to the **Local API** over HTTP and, for
permissions, poll it until somebody decides. **Watcher plugins** read the tools'
session files and post what they see; for Codex they see the same permissions as
the hooks, hence the **arbiter**. The **relay** of a managed Codex session sits
between the terminal and the app-server, reports approvals and questions, and
takes answers, instructions and interrupts. Consumers (desktop UI, notification
plugins, remote clients through the **remote agent**) follow the SSE streams and
decide through the API. The **plugin supervisor** runs the plugin processes and
asks the session providers among them for lists and details.

Handlers run concurrently on a multi-threaded runtime; they share the store (one
mutex), the arbiter (another), the broadcaster of the main state (a third), the
configuration file (none) and, for relays, a control socket. No handler holds a
lock across its whole work, and that is where most of the difficulty lies: every
handler has states between two critical sections in which others run. Processes
die, time out and ask again; receivers of the event bus fall behind; files grow
and are replaced while they are read; sockets break while what they served goes
on. `PROJECT.json` lists the hazards with their lines, and those that no property
covers with the reason.

## 2. Modules

| Module | Models | Kind |
| --- | --- | --- |
| `StoreTransitions` | `transitions.rs`, `clear_tool_state` | operators on the state |
| `MainState` | `main_state.rs` | operators |
| `SharedStore` | what the store keeps, the stale event of `store.rs` | state of the two state machines that follow it |
| `NiumaStore` | `store.rs`, the sweeper thread of `background.rs` | state machine |
| `ApprovalRequests` | `approval.rs` | operators on the requests |
| `ApprovalArbiter` | `approval_arbitration.rs` | operators on the arbiter |
| `ApprovalFlow` | handlers of approvals and events, watchdog, hooks, relay, consumers, watchers, UI commands | state machine composed of the above |
| `ApprovalContract` | what approvals promise | abstract specification |
| `SessionViews` | `tool_sessions.rs`, `pending_action.rs`, session detail | operators on `MainState` and `StoreTransitions` |
| `DisplayVersions` | the broadcaster and the connections of `sse.rs` | operators and properties of the versions |
| `SessionContents` | the snapshots of the session providers, what groups and details show of them | operators and properties on `SessionViews` and `SharedStore` |
| `SseStreams` | `runtime_event.rs`, `state_mutation.rs`, `sse.rs` | state machine composed with `SessionContents` and `DisplayVersions` |
| `PluginRuntime` | `plugin_runtime.rs`, `plugin/*.rs`, `config_files.rs`, plugin handlers | state machine |
| `Notifications` | Bark and ntfy plugins, event stream, notification records, test notification | state machine |
| `SessionLines` | the two JSONL parsers | operators |
| `SessionPlugin` | watcher and session provider of the Codex and Claude Code plugins | state machine over `SessionLines` |
| `ManagedSessions` | `app_control.rs`, `codex_managed_*.rs`, session control handlers | state machine composed with `StoreTransitions` |
| `RemoteRpc` | one relay of the remote agent | operators on a relay |
| `RemoteAgent` | `src-tauri/src/remote`, remote commands | state machine over `RemoteRpc` |
| `MC*` | instances for TLC | |
| `StoreTransitionsProofs`, `StoreProofs`, `ApprovalFlowProofs`, `PluginRuntimeProofs`, `NotificationsProofs`, `SessionPluginProofs`, `ManagedSessionsProofs`, `RemoteAgentProofs` | theorems | |

**`StoreTransitions`.** A session is a pair of tool and id; `runtime_states` is a
total function with the status `Absent` for what the Vec does not hold. The
attention list is a set of items with an ordinal for the order of insertion. An
event keeps what the transitions look at: id, dedupe key, tool, session, type,
resolve key, whether a subagent sent it, and its time. Keys are in three sets
(`ApprovalKeys`, `InputKeys`, `OtherKeys`), because the code only looks at the
prefix. `apply_event` is `upsert_runtime_state` followed by
`apply_attention_transition`, as in the store's loop.

**`NiumaStore`.** The mutex is `holder`: a batch is appended event by event
between `BeginAppend` and `EndAppend`, a sweep between `BeginSweep` and
`EndSweep`, and nobody else gets in. The sweep decides which sessions are silent
with the clock it read before it had the lock, so `BeginSweep` has a time that
may lie in the past. The cache keeps at most `MaxPublicEventCacheSize` events,
and more when the events behind the shown state need it.

**`ApprovalRequests`, `ApprovalArbiter`.** One operator per function, with the
function's name. Request ids stand for what is computed into them: tool,
session, channel, fingerprints and tool call are functions of the id.

**`ApprovalFlow`.** `calls[c]` says where the call of client c stands; one step is
one critical section. `post_approval_request` is `CheckExisting` (relay only),
`Arbitrate` once per fingerprint, `UpsertRequest`, `FindWatcherItem`,
`AppendAndReply`; `post_approval_decision` is `ReadRequest`, `SendRelayDecision`
(relay only), `Decide`, `AppendAndReply`; and so on. `AppendAndReply` is the last
step of every handler with events to append. A batch is one step here, since
`NiumaStore` models what happens under the mutex. The app-server is external:
the first answer it gets counts. A hook is `ready`, `creating`, `waiting`,
`returning`, and ends by printing (`allow`, `deny`), `silent` or `crashed`;
a call of a crashed hook still runs to its end in the server.

**`ApprovalContract`.** Per request a phase, per hook the answer it printed, and
the set of consumers that were told they won. Its actions are the only ways a
request may change: open, hand back, win, settle in the tool, forget; a hook
answers only what is recorded.

**`SessionViews`, `SessionContents`, `DisplayVersions`, `SseStreams`.** `SessionViews`
computes what the API shows from the providers' snapshots and the stored state: the
groups with their normalized sessions, the status of each, the detail and the action
that waits for the user. `SessionContents` says what a provider's snapshot is
(`IsListing`: the plugins index their items by session; the one of Codex records the
parent of a subagent and normalizes a subagent to it, one level up, and a main session
to itself; the one of Claude Code knows no lineage) and has the two properties of what
is shown of snapshots and state together. In `SseStreams` a mutator changes the store,
takes a version and sends its event in three steps; the channel is a log of which a
receiver sees the last `Capacity` events; a connection waits, reads the store and, for
the main state, gets its version from the broadcaster in another step
(`DisplayVersions` has the broadcaster, what each connection got last, and the two
properties of the versions). Saving the listener configuration and clearing the tool's
state are one step here (`ApprovalFlow` has their interleaving). `excused` marks a
connection that met something the code does not follow: a detail stream after a lag or
a dismissal, a groups stream whose lag was hidden behind test notifications or whose
provider went away without an event.

**`PluginRuntime`.** The manager is one thread that waits for a configuration
event, a lag or the fallback timer, reads manifests and switches, and ticks each
plugin. A tick is one step except where it stops a session provider: releasing
the ownership and clearing the registry are two. Each process of a provider has a
bootstrap thread and a stdout thread that belong to an `instance` (its guard);
they go on after the process was replaced. config.json is truncated and written in
two steps by the handlers. One plugin request runs at a time in the instance that
is checked; removing the plugin of a listened tool switches the listener off first,
as the UI does.

**`Notifications`.** A plugin connects, reads a frame, decides, pushes, reports,
records, one step each; any error ends the connection. A receiver keeps
`Capacity` events, the socket `Socket` frames. `pushes` is history: what reached
the phone. Faults are crashes, failed calls, restarts of the host and half-written
configurations, and each spends of one budget. Processes that the supervisor does
not run (`Running`) stay down.

**`SessionLines`, `SessionPlugin`.** A line is a kind and an id; a parser is what
later lines need. Lengths count half lines, so a file whose last line is being
written has an odd one. The watcher takes notifications, discovers, scans and
posts; the provider answers snapshots and details from an index, with the checks
of identity and signature as steps of their own: a detail checks whose file it has,
then reads line after line, each from the file as it is by then, and an index that
does not hold any more is rebuilt once. Which of the lines make a page is left open,
and lines are taken to be equally long, so a replaced file can hold the same line
at the same place. The age of a file stands for
ACTIVE_FILE_TTL; two passes over the files fit into its 60 s. `taken` and
`received` are history. A start with the provider alone is the case that the file
watcher could not be created. Refusing a request of a switched-off tool checks and
clears in one step. Files without a session_meta line get no index entry and are
left out.

**`ManagedSessions`.** A wrapper registers, starts its app-server and relay, and ends;
an error on the way, also in cleaning up, marks its entry as exited and then ends the
process, which may be killed between any two of these. Codex opens threads, begins and
ends turns, asks questions and writes its session file later; all of that is external.
The relay observes, records the first message and reports questions in background
threads (`jobs`); the plugin binds entries when it refreshes. A registry update is one
step: the code holds a file lock. It may fail in a background thread: the first
message is then lost for ever (`log.lost`), because the relay has taken it out of its
memory. A report of a question takes its session from the registry in one step and is
appended in another. Commands go handler by handler through the control socket, whose
client gives up after 5 s while the relay goes on. All first messages lie within the
binding window of 10 s and all wrappers run in one directory, the case in which only
message and id tell them apart. Clients answer questions that are shown.

**`RemoteRpc`, `RemoteAgent`.** A relay is a record: its next number, the channel
from its streams, the state of each stream and what it wrote (`wire`, history). A
call is read in one step; the Local API's answer starts the stream's task and is
written in another, so streams may run before they are named on the wire.
The agent's loop loads settings, connects, sleeps; the socket receives invites,
offers and cancels; relays open, serve and end; the user saves settings and logs
in, with a step for each await. Agent, socket and relays are tasks of one runtime
thread and interleave where they wait, so receiving and handling a signal is one
step. Reading and writing the settings by a command is one step too. The server
issues and revokes tokens and is otherwise external; calls over WebRTC are left
out. A connection id is of one client (`ClientOf`): the server creates one
for each (`connections.service.ts:86`), and the code does not check it.

## 3. Runs

| Run | Instance | Checks |
| --- | --- | --- |
| `store` | three sets of events, one per behaviour (`source`): blockers of one session with and without key; one session name in two tools and one occurrence under two ids; a session reported again with an old time. Cache limit 1, clock 0..2 | `TypeOK`, `AttentionReflected`, `ActiveEventsCached`, `NoDuplicatePublicEvent`, `LatestActivityListed`, `SweepKeepsBlockers`, `SilentSessionsEnd` |
| `approval_proxy` | two hooks that ask under one id, a consumer, the Claude Code watcher and the watchdog; the user resets, dismisses, switches the tool off and on; clock 0..1; the hooks are symmetric | `RefinesContract` |
| `approval_arbitration` | one hook, two watcher reports of the same Codex command, its output, clock 0..3 | `OpenIsShown`, `HookSilencesWatcher`, `ReportSurfaces`, `AbandonedIsReturned` |
| `approval_relay` | hook with two fingerprints, relay, two consumers that disagree, terminal, a report without fingerprint | `DecidedReachesCodex` |
| `streams` | a main session and its subagent, two mutators, up to two connections, channel of 1, four cases of what is followed | `VersionNamesContent`, `GroupAndDetailAgree`, `PendingActionIsBlocked`, `VersionsIncrease`, `StreamsFollow` |
| `plugin_runtime` | a built-in session provider and an external plugin, two manifests, two instances, one request, one crash, one other event | `RunningIsServed`, `OwnershipSurvivesOldThreads`, `SwitchesTakeEffect` |
| `notifications` | a running and a stopped plugin, an approval, its resolution and a subagent's completion, a test; cache, receiver and socket of 1; 3 publications, 2 faults, 1 save | `SentIsPushed`, `RepeatsCostFaults`, `WaitingIsPushed`, `ReadsAgain` |
| `session_plugin` | eight starts over both tools: partial lines, bad lines, replaced files, switches, failed posts, details while the file grows or is replaced between two reads | `ScansAreOneParse`, `DetailAnswersRequest`, `WatchedLineIsReported` |
| `managed_sessions` | wrappers started with nothing, an option and a session to resume; five starts: side by side, two questions, two clients, turns that end while they are steered | `BoundToOwnThread`, `AnswersOnce`, `AnsweredIsCleared`, `OthersKeepWaiting`, `IdentifiedIsBound` |
| `remote` | two servers, two connections of one client and one of another, three relays, two streams; four starts | `TypeOK`, `RelaysServeSession`, `DeviceOfServer`, `WireInOrder`, `NotTakenOver`, `ComesOnline`, `StreamsEnd` |
| `bad_frame` (violation) | one plugin, an approval and its resolution | `BadFrameBlocksNothing` |
| `relay_held` (violation) | one relay, one broken socket, another client | `BusyMeansInUse` |

What they show:

* **Store.** A session with an attention item is listed as blocked, never as
  running, ended or absent, in every order of keyed and unkeyed blockers, sweeps
  and clearings. The cache never loses the event behind what is shown, even at
  limit 1. One occurrence reported under two ids is in the event centre once. The
  latest activity is never that of an ended session. A sweep never touches the
  attention list. A silent session is swept.
* **Approvals.** `ApprovalFlow` implements `ApprovalContract`: a request is settled
  once, at most one consumer wins and its verdict is the recorded one, a hook
  prints nothing that is not recorded. An open request is in the attention list
  once its creation has ended. After a hook or relay has shown an approval, and for as
  long as the arbiter remembers, no report of a watcher about it is newly delayed or
  handed on; one that an expiry had taken out before is still appended beside the
  hook's. A report that waits for a hook surfaces, or another of the same command
  does. A relay approval is recorded as decided only when Codex has been given an
  answer, whichever of connecting, writing to the app-server and hearing back fails. A
  request whose hook died is handed back.
* **Streams.** One version of the main state never names two contents and grows
  on every connection, although streams read the store before they get a version.
  Groups and detail give a session one status. Every stream gets to the current
  content in spite of lags, lost configuration updates and changes by the clock,
  with the exceptions named above.
* **Plugins.** A session provider shown as running has a list and its own detail
  client; late threads of old processes never take the tool from their successor.
  That list may be older than the process's latest: it has one, is what is checked.
  What stays enabled ends up running its manifest, what stays disabled ends up
  without a process.
* **Notifications.** What is called sent was pushed. A repeated push costs a fault.
  What waits in a stream is pushed, and the plugin always comes back to reading.
* **Session files.** However writes and scans are cut, the events are those of one
  parse. Every line of a detail is the one its session has there, even if the file is
  replaced between the check of its identity and a line, or between two lines; the
  latest page of Codex is taken from every line that was complete when the request came.
* **Managed sessions.** A wrapper is bound to a thread of its own app-server if its
  terminal names it or its message is its own. Niuma answers a question once; an
  answered question is not shown again; the others go on waiting. A session whose
  first message was recorded gets its wrapper bound.
* **Remote.** One session is kept and one relay runs at a time, for that session;
  nobody takes it over; the status names no other connection, while the transports it
  lists (`available`, `selected`) may be those of a while ago; the device in the
  settings is of the server in them; frames are in order; a bound device comes online
  again; streams end after their relay. None of this speaks of WebRTC peers: one that
  leaves the table is not closed, and its data channels may go on serving calls after
  another connection was accepted.

What the code does not keep (findings in `PROJECT.json`):

* `bad_frame`: the plugins do not know the event types of settled approvals; such a
  frame ends the connection and what waits behind it is lost.
* `relay_held`: a broken device socket aborts the relay before it releases its
  session, and other clients are told busy.

Other disagreements between documents and code were met while modelling; the
properties are stated so that they do not claim them, and the hazards carry the
quotations: the light stays on running after a subagent was the last to end
(`transitions.rs:154`); a decision between storing a request and appending its event
leaves an item that nothing resolves (`handlers/approval.rs:137`); a hook between the
expiry of a candidate and its append is shown beside it (`:607`); a second call with
the same command replaces the waiting report of the first
(`approval_arbitration.rs:162`); when an answer cannot be written to the app-server,
its request stays pending and only the terminal can answer (`app_control.rs:1597`); of
two changes of the listener configuration at once one is lost
(`state_mutation.rs:81`); a permission asked again after its tool was switched off and
on is not shown (`store.rs:577`); a consumer is told that it won although the terminal
answered first (`app_control.rs:1324`); commands go to the first loaded thread after
/new (`:1707`); steady traffic on the bus keeps the supervisor's fallback timer from
firing (`plugin_runtime.rs:275`); switching remote access off leaves the open
connection (`device_socket.rs:220`); a WebRTC session is dropped from the table
without being closed (`signaling.rs:88`, `:127`, `:241`), although a comment speaks of
one effective remote connection (`device_socket.rs:72`).

### Bounds

Clocks are capped (`MaxTime`); the other numbers are timeouts scaled to one or
two ticks in the order the code has them: the watcher's delay and the memory of
emissions below the lifetimes of the hook capability. The clock is long enough
for each timeout to expire once and for something to happen afterwards. Each
occurrence of an event is one of a finite set and may be delivered again at any
time (dedupe is part of the model). Hooks, consumers and reports act once each;
two of a kind suffice for every race between two critical sections, which is the
longest chain in which a handler relies on an earlier read. Channel, cache and
socket of size 1 make lags, evictions and full buffers happen with the first
event too many. Faults, requests, saves, turns and the like are in a `budget` that
steps spend; two faults are a fault during the recovery from another.

A type invariant is checked for `NiumaStore` and `RemoteAgent`, where it is a theorem
too.

The larger modules start from a list of scenarios (`Starts`, `Cases`, `source`):
each bounds a different part of the system, and a behaviour keeps to its
own. Within one, all interleavings are explored. Restricting the scenario removes
only steps that no fairness condition forces (users, tools, faults), so liveness is
checked against the same fair steps. `session_plugin` has one file and `Limit` 1;
files meet only in the discovery's limit and order.

`approval_proxy` checks the contract for two askers and one consumer; that two
consumers never both win is what `FlowImplementsContract` (section 4) proves for any
number of either. Hooks are interchangeable there, and the contract is a safety
property, so symmetry is sound; no run with a liveness property uses it.

Deadlock checking is off: when all clients are done and the bounds are spent, the
system rests. `UiCommands` switches off commands that an instance does not ask
about.

### Fairness

* `NiumaStore`: the sweeper loops for ever and the mutex does not starve it (strong
  fairness of `BeginSweep`); whoever holds the mutex releases it; the clock goes on.
* `ApprovalFlow`: handlers that have begun, living hooks (poll or deadline), expiry
  tasks and the watchdog make progress, as one weakly fair action, because there is
  only a bounded amount of that work; so does the clock. The liveness properties
  have an escape for the end of the bounded clock, which the real clock does not have.
* `SseStreams`: a mutation that has begun publishes; a connected stream is served
  (its task is woken by the channel or its timer).
* `PluginRuntime`: manager, handlers and the threads of a process run; the fallback
  timer and a backoff expire.
* `Notifications`: plugin processes and the host's tasks run.
* `SessionPlugin`: the watcher's loop runs, and the scan of active files, which is on
  an interval shorter than anything that keeps the loop busy, comes due (strong
  fairness).
* `ManagedSessions`: Codex writes the file of a thread it began, the plugin refreshes
  every two seconds, the background thread that records the first message runs.
* `RemoteAgent`: the runtime thread runs; an open stream delivers, because the Local
  API sends keep-alives; connecting succeeds unless a fault is spent.

No fairness is assumed of tools, users, terminals, crashes or other faults.

## 4. Proofs

`StoreTransitionsProofs` proves, for arbitrary sets of tools, sessions, keys and
event ids, that each operator keeps the state well formed and keeps
`GoodState` = `ItemsReflected` and `ActivityListed`. `StoreProofs` lifts this
to the specification with the inductive invariant

    Inv == TypeOK /\ GoodState(state) /\ ActiveEventsCached /\ DedupeRecorded
             /\ NoDuplicatePublicEvent /\ SweepTargetsRunning

The additional parts are needed because the properties are not inductive alone:
`DedupeRecorded` (the key of every cached event is recorded) is why a second
report is refused; `SweepTargetsRunning` (what a sweep is about to end is still
running, as the sweep holds the lock) is why a sweep cannot hit a session that
waits; and `AttentionReflected` needs `ActivityListed` beside it where a session
ends. Theorems: `TypeCorrect`, `AttentionIsReflected`, `ActiveEventsAreCached`,
`NoDuplicates`, `LatestActivityIsListed`, `SweeperKeepsBlockers`. They assume what
the modules state about constants (`ASSUME`): the key sets are disjoint, event ids
are unique, the clock bound and the timeouts are naturals.

`ApprovalFlowProofs` proves `FlowImplementsContract`, that `ApprovalFlow` implements
`ApprovalContract`, for any number of hooks, relays, consumers, watchers and
requests. The mapping hides everything but the status of a request, what a hook
printed and who was accepted; a consumer has won from the moment its decision is
recorded, before it hears of it. The inductive invariant `FlowInv` adds to the
types that a consumer has no answer while its call is under way
(`DecidersInFlight`): without it a second call could take a win back. Each action
is shown to be one step of the contract or to change nothing it sees.

It also proves `WatcherStaysSilent` and `DecidedIsAnswered`. The first rests on
`NothingWaits`: no watcher event waits in the arbiter for a fingerprint that a hook or
relay has shown, so no later expiry can take one out. What an expiry or a post had
taken out before is on its way to the store and outside the arbiter; the property
compares these batches before and after a step, and lets them only shrink. The second
rests on `RelayInv`: a relay's request is stored at most once, after the relay holds
the approval; it is never handed back by the watchdog or a deadline, which are for
hooks; and a consumer that is about to record a decision has either seen the
app-server answered or read a request that was settled already, which it cannot decide
again (`AnsweredBeforeDecided`). The assumptions are `ClientAssumption`: clients of
different kinds are different, hooks and relays use their own channels, and two relay
approvals have two requests.

Its last theorem, `OpenIsAlwaysShown`, is about the attention list:

    OnlyWatched /\ Spec /\ []AskedBeforeAnswered => []OpenIsShown

The two hypotheses say which commands and reports take part. `OnlyWatched`: the user
does not dismiss, reset or switch a tool off, which take an open request out of the
list on purpose; the reports are of the six types that the built-in watchers make
(`session_protocol/current.rs` of both plugins and `log_watcher.rs`), none of which
ends a session; and only what Claude Code did after a call names a request
(`claude_approval_resolve_key`). `AskedBeforeAnswered`: when such a report comes, the
request it names has been stored, because Claude Code goes on with a call only after
its hook has asked. A hook that dies before its request arrives, or the same call
made again, breaks that: the request is then stored between the look for it and the
append of the report's own event (`handlers/approval.rs:245`), which takes the item
away while the request stays open. `approval_arbitration` is an instance that
satisfies both hypotheses.

The inductive invariant `ShownInv` adds to `RelayInv` and `ArbiterInv`:

* `StoreShows`: an open request whose event's key the store knows is in the list, as
  an item with the request's own key, and the store has applied no such event of a
  request that it does not hold;
* `Asking`: an open request whose event has not been applied has a hook's or relay's
  call that is about to apply it (`Shows`);
* `CallGood`: whatever batch a call has collected, each of its events is allowed
  (`EventAllowed`): none ends a session, one with the id of an approval is that
  approval and its request is stored, and one that resolves a request's item comes
  after the decision (a decision or its resolution changes the request first, and
  is never taken back);
* `HeldBackGood`: what the arbiter and its timers hold back is approvals that
  watchers reported, so an expiry never resolves anything;
* `IsFiniteSet(Stored)`: finitely many requests are stored, so that the watchdog's
  list of stale ones is a sequence.

`append_events` is a fold, which the prover does not unfold for a batch of any length.
`AppliedExists` and `BatchSteps` turn it into the sequence of the stores between two
events, and `InductiveSet` does the induction over that sequence. What one event does
to an item is in `StoreTransitionsProofs`: only an event of the item's own key, or the
end of its session, takes a keyed approval away (`ApplyEventKeeps`), and an approval is
in the list after it was applied (`ApplyEventShows`). The further assumptions are
`EventAssumption`, that ids and keys of approvals are not those of a session file's
events, and `ProcessAssumption`, that hooks and watchers are different processes.

`StoreProofs` also has the theorems of the streams, which follow the same state,
dedupe keys and clock: it instantiates `SseStreams` and proves
`VersionsNameOneContent` and `VersionsGrow` of its specification, for any
connections, mutators and events and for contents of any kind, from no assumption. A
stream reads the store first and takes its version later, when other streams may have
taken theirs, so neither property is inductive:

    StreamsInv == Shaped /\ Latest /\ Fresh /\ VersionNamesContent

`Latest` relates every connection's last frame to the broadcaster: its version is
not newer than the broadcaster's, and when it is the same, so is the content.
`Fresh` says what a stream holds between reading and sending: a content other than
the one it sent last. With both, `version_for_content` hands out a version that a
stream has already sent only for the content it sent, which is not what it is about
to send; and a new version is above all that were sent.

It proves `GroupsAndDetailsAgree` and `AskingIsBlocked` as well: what a group or a
detail shows is computed from a snapshot and the stored state, by two ways that look at
different fields. The theorems are for any events, mutators and snapshots for which
`FamiliesListed` holds, with

    ContentsInv == FamiliesListed /\ StateHeld /\ SnapshotsHeld /\ MutatorsHeld

`StateHeld` is `GoodState` of the store, with the attention list finite and every item
in it taken from an event of its session; `SnapshotsHeld` that what the registry holds
of each tool is a listing of whole families; `MutatorsHeld` that a listener change in
progress is for a tool of the host. The order in which a group picks its primary
session is a total preorder on a finite set, which has a first element: that is
`FiniteFirst`, by the well-foundedness of the naturals, as the library's induction
theorem cannot be instantiated. A detail's lineage then leads to the same sessions as
the group of its primary (`ViewsAgree`), and a pending action comes from an item that
`AttentionReflected` ties to a blocked runtime state of one of them
(`AskedIsBlocked`). The assumptions are `ListingAssumption` and `EventIdAssumption`
(an event is found by its id).

`FamiliesListed` is a hypothesis and not an assumption, because not every listing has
it: a listing holds the recent files only, and lineage comes from several places. It
excludes

* two subagents whose common parent is not listed. The group shows the more urgent
  status of the two, the detail of its primary session only its own;
* subagents of subagents. Normalizing goes one level up, so the detail of the one in
  the middle shows the question of its own subagent while its status is not blocked;
* a main session with a recorded parent, a subagent in another project than its parent,
  and events whose lineage is not the one the listing has.

The views can differ there. `GroupAndDetailAgree` is false of an instance with the
first, and `PendingActionIsBlocked` of one with the second. No document or comment of
the repository says what should be shown, so neither is a finding. The instance
`MCSseStreams` satisfies the hypothesis, and TLC evaluates that. Snapshots of plugins
other than the two built-in ones are covered as far as they have the form of
`IsListing`.

`PluginRuntimeProofs` proves `RunningProvidersAreServed` and `OwnersAreInvalidated`
for any plugins, manifests, instances and requests, with

    IInv == Typed /\ Owned /\ Entered /\ Reported /\ Served /\ Shown

The manager takes the owner away in one step and clears the entry, the status and
the registry in later ones, while threads of this and of older processes run. `Owned`
says that a tool's owner is the instance of its entry or nobody, and nobody while the
manager clears; `Entered` that two entries never share an instance; `Reported` that a
bootstrap thread has no result before it ends and works for the plugin of its entry;
`Served` that details are asked of the entry's own process, and that there is a
session list once its bootstrap has reported; `Shown` that a status "running" was set
from that report. `OwnersAreInvalidated` is an action property: by `Owned`, whoever
takes an owner away is the manager or that owner's own thread, which invalidates it.
The assumption is `PluginAssumption`: session providers are plugins, instances are
numbers and none is `NoInstance`, there is a manifest version and `Absent` is none.

`NotificationsProofs` proves `SentHasReached` and `RepeatsAreFaults` for any plugins,
events, tests, cache sizes and fault bounds, with

    IInv == Typed /\ SentIsPushed /\ CarriedIsPushed /\ UnsentIsSent /\ Accounted

A plugin pushes, then reports, then writes the event into its file, and may crash
between any two. While an event is on this way, the process's program counter and the
status it reports stand for the push (`CarriedIsPushed`); what is about to be pushed
is not in the file (`UnsentIsSent`); and `Accounted` is the ledger: the pushes of an
event are at most the faults that were spent, plus one when the event is in the file
or on its way there. A step that pushes earns the one; a step that loses what it
carries spends a fault. The assumption is `NotificationAssumption`: a test is no
event, a plugin that runs is a plugin, the cache, the channel and the socket hold at
least one, and the bounds are naturals.

`SessionPluginProofs` proves `ScansAreOneParseHolds` and `DetailAnswersRequestHolds`
for any files, contents, sessions and starts, and for both parsers. The first compares
the scans of a file, cut anywhere, with one parse of the whole. A parse is a fold over
lines, which the community modules define over the set of their numbers; so the fold
is shown to be a recursive function of the sets `1..k` (`Scanned`, `ParseIsScanned`),
and what holds of it for every length follows by induction over the naturals, stated
of a set (`SetInduction`) and derived from the order being well-founded. `SpansJoin`
is the lemma the rest needs: a parse that goes on where another stopped, with its
parser, makes of the lines what one parse of all of them makes; and `ParseFails` is
why a scan that starts in mid-line hands on nothing. The inductive invariant is

    ScanInv == FilesInv /\ Shapes /\ TakenInv /\ CursorInv /\ PlanInv

`CursorInv` says that the cursor of a file that was not replaced stands, with its
parser, where the parse of what was taken has come to. `PlanInv` says it of the plan
of a scan, which is made in one step and read in another, when the file may have
grown or been replaced; it is what makes the property inductive.

The second rests on what can be said of a file that may be replaced at any moment:

    ProviderInv == FilesInv /\ IndexInv /\ ProviderShape /\ AskedInv /\ RefreshInv /\ AnswerInv

An entry of the index (`Indexed`) says what its file was at a generation it has had,
and that its lines were read after the modification was looked up under which it is
entered: so an unchanged modification means that no line is missing
(`CurrentEntry`), while the other order would not. `AskedInv` keeps what the files
held when the request came in, `RefreshInv` what a refresh has looked up and read so
far, and `AnswerInv` what is known of the entry the request works with at each step:
from `lookup` on it is of the session that was asked for and up to date, and every line
read of a page is the one that was indexed, whatever the file is by then. A step of
the environment can only let a file grow or replace it (`FilesStep`), and everything
these say of a file survives both. TLC checked both invariants on the instance of
`session_plugin` before they were proved. The assumption is `PluginFilesAssumption`:
contents are sequences, a start has no file longer than its content, `None` is no
session, and the bounds are naturals.

`ManagedSessionsProofs` proves `QuestionsAnsweredOnce`, `BindingsAreOwn`,
`AnsweredQuestionsGo` and the action property `OtherQuestionsStay`, for any wrappers,
threads, questions and clients. It rests on the lemmas of `StoreTransitionsProofs`,
because the module is composed with the store's transitions:

    IInv == TypeOK /\ ClientsTyped /\ Passing /\ FiledOnce /\ Binding /\ Showing

* `Passing` follows a question on its way: new, asked of the relay, filed as a report
  on its way to the store, shown and pending, taken by one client who writes the
  answer, answered. Before the store has it, nobody serves it, it is not answered
  and not shown; while it is pending, nobody writes an answer; and at most one client
  writes, whose answer is the first. `AnswersOnce` is its last part. The terminal may
  answer at every point, and clients may give up and try again.
* `FiledOnce` says that one background thread at a time carries a question to the
  store: it looks its session up in one step and appends in another.
* `Binding` says where names and messages come from: a thread that an app-server has
  loaded and a session that a wrapper's mark names are the wrapper's `Own`, that is,
  begun by it or the one it resumes; a message that was typed is of a thread of the
  terminal it was typed into. So a match by the hash of the first message finds
  another wrapper's thread only when the two messages are the same, which
  `BoundToOwnThread` excepts (`Distinct`), and what the registry names is `Own` too.
* `Showing` adds to the store's `GoodState` that the attention list holds only
  questions and failures, that a session which has failed says so in the list
  (`FailureShown`), that a question is shown in one session and its clients speak of
  that one (`OneSession`), and that the id of an answer is seen in the store only after
  the question was reported as answered (`AnswersAreReported`). `OneSession` is
  why the report of an answer takes the question out wherever it is shown,
  `AnswersAreReported` why it is not refused as already applied, and `FailureShown`
  why it is refused as late activity only beside a failure that is shown, the
  exception that `AnsweredIsCleared` names.

The assumptions are the store's and `WrapperAssumption`: sessions are wrappers and
threads and no thread is a wrapper; questions are the keys of inputs and each is asked
by one wrapper; a typed message is neither an instruction nor one of before; and what
each behaviour may start with has its type.

`RemoteAgentProofs` proves, for any servers, connections, clients, relays and
streams, `TypeCorrect`, `OneRelayServes`, `DeviceBelongs`, `NobodyTakesOver` and
`FramesInOrder`. The inductive invariant of the first four is

    IInv == Typed /\ Served /\ StatusNamesSession /\ DeviceOfServer

`RelaysServeSession` is not inductive: that the relays of other connections are gone
when an invitation is accepted depends on the socket's table. `Served` says that
there is one session, that the table has one entry, and that a relay that runs is
entered there under its connection, which is the session, and only while the
socket is open; so clearing the table is stopping every relay. What a relay does
with its calls and streams (`RemoteRpc`) keeps its connection and does not start
it again, which is one lemma for each operator. `NobodyTakesOver` is an action
property: with `Served`, the step that replaces a session or aborts a relay is
either an invitation of the same client or leaves nobody in its place. The
assumption is `RemoteAssumption`: `None` is no server or connection, relays are
numbered from 1, and the bounds are naturals.

`FramesInOrder` needs more about one relay than `WireInOrder` says: what waits in its
channel is of a stream that has been named on the wire, or is named by the answer that
is being written, while nothing is read from the channel; and a stream's end is the
last of it, in the channel or on the wire. Each operator of `RemoteRpc` keeps this for
the relay it works on. It assumes `RpcAssumption`: "none" is no stream.

Only model-checked are the liveness properties (`SilentSessionsEnd`, `ReportSurfaces`,
`AbandonedIsReturned`, `StreamsFollow`, `SwitchesTakeEffect`, `WaitingIsPushed`,
`ReadsAgain`, `WatchedLineIsReported`, `IdentifiedIsBound`, `ComesOnline`,
`StreamsEnd`), which are out of reach of the prover (fairness and ENABLED).

## 5. Not modelled, and the plan

Left out for good: parsing and formatting, files and SQLite as such, WebSocket
framing, encryption, installation of hooks, translation, windows and tray.

Left out of parts that are modelled: the scanner of Codex's internal log
(`log_watcher.rs`, a second source of the events that the session files give);
the wrapper for Claude Code, which types into a pseudo terminal and has no protocol
beyond its registry; calls over a WebRTC data channel, which go through the same
router as the relay's; diagnostics of the remote agent; the wording of every text.

The remote server and the web clients are programs of their own in TypeScript.
They are the environment of `RemoteAgent`; modelling them would be a project beside
this one.

Nothing of what the passing runs check is left to prove but liveness. What could still
be weakened is the hypotheses of three theorems: `FamiliesListed` of the streams, and
`OnlyWatched` and `AskedBeforeAnswered` of the attention list.
