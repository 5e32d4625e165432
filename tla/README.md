# pterodactyl-mcp in TLA+

Specifications of the parts of pterodactyl-mcp whose correctness depends on the
order of events: confirmations, rate limits, the pool of console connections,
the timers of panel requests, the tools and their audit trail, and the MCP
sessions. TLC checks them on small instances; TLAPS proves the most important
invariants for all values of the constants. All paths
below are relative to the repository (`src/` is its TypeScript source).

## 1. The system

One Node process serves MCP over HTTP. A client opens an MCP session with a
panel API key; every tool call of the session becomes one or more requests to
the Pterodactyl panel or a WebSocket conversation with Wings. All sessions share
the stores and limiters that `createApp` (`src/http.ts:34-49`) makes. There are
no threads: code runs undisturbed between two `await`s, and at every `await`
other calls, timers and socket events come in. Nothing but the audit log
survives a restart.

| Part | Source | State | Operations | What makes it correct |
|---|---|---|---|---|
| Confirmation stores | `power/confirmation-store.ts`, `confirmation/action-store.ts` | `pending`: token to entry (account, server, signal or kind and fingerprint, expiry) | `create`, `consume`, lazy `evictExpired` | a token is used once, in time, for what it was issued for, and is lost only to expiry, restart or its own use |
| Backup limiter | `BackupRateLimiter` in `action-store.ts` | `lastBackup` per server | `check`, `record` | no backup within the interval after one that is recorded |
| Confirmed tools | eleven handlers in `mcp/register-*-tools.ts` | none of their own; local variables across `await`s | first call issues a token, second call consumes it and acts | nothing acts unconfirmed; the audit log agrees with what the panel did; every call returns |
| Rate limiter | `rate-limit.ts` | `buckets`: count and reset time per key | `check`, first thing in every tool | bounds the calls of any minute, denies only at the limit, tells a retry time that is enough |
| Console sessions | `pterodactyl/console-session.ts` | `sessions` map with `lastUsed`; per session `ws`, `authenticated`, `credentials` | `withSession`, `connect`, `close`, collecting output, two evictions | what is sent goes to a socket Wings has accepted; a connection is reused only with its own token; sockets and sessions are not lost or piled up |
| Panel clients | `pterodactyl/client.ts`, `application-client.ts` | a timer and an `AbortController` per fetch | `request`, `requestText`, `uploadFile`, `downloadFileContent`, `writeFile` | timers run exactly while something is to be timed; every request ends |
| Unconfirmed tools | 24 handlers in `mcp/register-*.ts` | none of their own | permission, path check, one request | what was asked of the panel is recorded, whatever became of it |
| Audit log, metrics | `audit/logger.ts`, `metrics/registry.ts`, `mcp/helpers.ts` | file-logging flag; counters, gauges | `log`, `recordToolCall`, ... | each call has one outcome, recorded and counted once; no record is lost when the file fails |
| Console output tools | `mcp/register-tools.ts`, `mcp/helpers.ts`, `pterodactyl/console-output.ts` | none | log file first or WebSocket, search, command policy | a command is sent only if the server's policy allows it, the account may and the server runs; the lines shown are the last ones read |
| Bulk tools | `mcp/register-bulk-tools.ts` | none | a loop over servers | one server's failure leaves the others alone |
| Resources, prompts | `mcp/register-resources.ts`, `mcp/register-prompts.ts` | none | reads of the panel | they end; refusals are recorded |
| MCP sessions | `http.ts`, `auth/middleware.ts` | `sessions` map, the gauge | initialize, POST, GET, DELETE | map and gauge follow the transports; callers get their results |
| Policies | `policy/*.ts`, `files/path-policy.ts` | overrides read at start of a session | `forServer`, `evaluate`, `normalizeServerPath` | the policy of a server is its override, else what is detected, else the default |
| OAuth, allowlist, configuration | `auth/*.ts`, `config.ts` | registered clients | look-ups | stateless |

How they interact: a tool call is admitted by the rate limiter (synchronously,
so it is part of the handler's first step), asks the panel for the server and
the permission, reads or writes a confirmation store, sends the action and
writes the audit log. Console tools fetch credentials from the panel and go
through the session pool. The hard behaviours are the interleavings at the
`await`s, timeouts that race late answers (the panel may carry out what was
reported as failed), restarts between the two calls of a confirmation, lazy
expiry, and sockets whose events arrive in any order. `PROJECT.json` lists them
as hazards, each at its line.

## 2. The modules

| Module | Models |
|---|---|
| `Limiters` | `RateLimiter.check` and `BackupRateLimiter.check` as operators |
| `RateLimiter` | the rate limiter over time |
| `ConfirmedTools` | both confirmation stores, the backup limiter and the eleven tools that ask for a confirmation |
| `ConfirmedInvariant`, `ConsoleInvariant`, `ServerInvariant` | the inductive invariants of `ConfirmedTools`, `ConsoleSessions` and `ServerTools` |
| `OneTimeConfirmation` | what confirmations promise, without calls, clocks or stores |
| `ConfirmedRefinement` | the mapping by which `ConfirmedTools` implements it |
| `ConsoleSessions` | `ConsoleSession` and `ConsoleSessionManager` |
| `PanelRequest` | one request to the panel and its timer |
| `AuditLog` | `AuditLogger` as operators on a log |
| `ConsoleLog` | `truncateContent`, `tailLines` and `searchConsoleLines` as operators on a log file |
| `CommandPolicy` | `CommandPolicy`, `detectEggPreset` and `PolicyResolver.forServer` as operators |
| `ServerTools` | every tool that needs no confirmation, the resources and the prompts, on top of the three above |
| `McpSessions` | the `/mcp` endpoint |
| `MC*` | instances for TLC: definitions for constants, symmetry |
| `*_proofs` | theorems and proofs; `ConfirmedRefinement_proofs` those of the refinement, `Operators_proofs` those of `CommandPolicy` and `ConsoleLog` |

A definition whose comment begins with "Slip" is not part of the
specification: it is a plausible mistake in the definition of which it bears
the name, and the property it is meant for was seen to fail when it takes that
definition's place. They keep the properties honest.

### ConfirmedTools

A step is what a handler does between two `await`s, so a handler is a short
chain of actions: `Start` (admission, checks, and for a confirmed call of most
tools the `consume`), then `PermissionReply`, for `delete_server` also
`LookupReply`, and `ActReply` when the request that acts has been answered.
`pc[c]` says what call `c` awaits. `server_power` has an order of its own: it
asks for the permission and looks at the installation state before it issues or
consumes a token (`PowerIssue`, `PowerConfirmed`), the others consume first and
ask then. `HandlerOf` holds what differs between the eleven tools.

- A token is named by the call that it was issued to: the code's are 24 random
  bytes, so no two are equal, and a client can only present one it was given
  (`Presentable`), its own or another account's.
- A fingerprint is the record of what the code hashes: kind, server, and the
  arguments the handler puts into the hash (`arg`). Arguments it leaves out are
  `rest`.
- `wire[c]` is the request that acts, at the panel: `PanelExecutes` and
  `PanelRefuses` are the panel's steps. They do not wait for the client: a call
  may give up on a request that is carried out later.
- `Restart` empties the stores and limiters, and ends the calls in flight; the
  audit log and the panel keep what they have.
- `confirms`, `issuedAt` and `recordedAt` are history variables.

`Keys` are what the code calls token fingerprints, the first eight and last four
characters of an API key (`src/auth/middleware.ts:24`), under which the limiter
and the console pool file their state; keys that agree in these share it.

### ConsoleSessions

A call enters `withSession` (`Enter`, with both evictions), continues in
`connect` after each of its `await`s (`Reuse`, `Reconnect`, `OpenSocket`), shakes
hands with Wings (`Opens`, `AuthSucceeds`, `ClosedEarly`, `AuthTimesOut`, ...),
and collects output until a timer or an expiring token ends it. `await`s on
settled promises continue in microtasks: only other microtasks may come between
(`Quiet`). `ws` hands out the frames of one chunk of data in one turn, before any
microtask: "auth success" is therefore one step with what came behind it, which
may be a close frame or one that breaks the protocol (`RestOfChunk`). A socket
whose handshake is over has no 'error' listener, so a frame that breaks the
protocol ends the process (`ProtocolError`). `disturbed` is a history variable:
whether another call of the key or an eviction overlapped the call. The sockets'
close handshakes are one step. The claims made about calls
that were not disturbed are the ones the code can keep: nothing in
`withSession` keeps two calls of a key apart.

### PanelRequest

`phase` is what the method awaits: headers, the body, or the body of an error.
`Timed` are the parts of a request that the code times: the wait for headers in
`PterodactylClient`, the whole of a request in `PterodactylApplicationClient`,
nothing in `writeFile`. `uploadFile` and `downloadFileContent` get a url by a
request of their own first (`FetchAgain`). An abort while an error's body is read
falls into a `catch` that ignores errors, and the request ends with the status.
Timers count down, so no clock and no bound on it is needed.

### ServerTools

`HandlerOf` is a table: for each tool, resource and prompt the permission it
asks for, whether a path is checked first, whether its request acts, whether it
loops over servers, and which of four programs it runs: one request, a console
command, console output, or a diagnosis. A program is a chain of requests;
`pc[c]` names the one that call `c` awaits. The answer to a request is taken from
the panel's state when the panel answers (`PanelAnswers`) and used when the call
goes on (`Resume`), and in between the panel may change (`PanelChanges`), other
calls may take steps, or the request may fail for its caller although it was
carried out (`RequestFails`, `PanelExecutes`).

- A command with `wait_for_output` goes through the console session, which
  acknowledges nothing: `sendCommandAndCollect` (`console-session.ts:187`) sends on
  the socket, and silence or a timeout ends the wait. `PanelAnswers` therefore
  answers `session` whether `PanelExecutes` has happened or not, and the call then
  succeeds (`register-tools.ts:198`).
- `Begin` is the handler up to its first `await`: the limiter, which may admit
  or refuse any call, and the path check.
- `Throw` is an error in the program: the `catch` of the handler records it, the
  loop of a bulk tool notes it and goes on (`Push`), `diagnose_server` does
  without the console output, and for resources and prompts the SDK answers.
- `Record` writes the records of a step to the audit log, any one of which may
  fail to reach the file, whole or in part (`AuditLog`), and counts those that
  are counted. Records are numbered in `made`; the log is a file of lines, a line
  a sequence of pieces, so that half a line and what is later appended to it can
  be told from a record on a line of its own.
- `path[c]` goes through `COMMON_LOG_PATHS`; a read log is cut, its last lines
  taken and searched (`ConsoleLog`). A line is its number of bytes, whether it
  ends in the text searched for, and whether it is nothing but an escape sequence,
  so the cut, which falls in the middle of lines, is exact and the text is left
  out. A blank file sends the handler to the next path; a file of escape sequences
  is not blank, and a success without lines. `new RegExp` throws on a pattern that
  is no regular expression (`console-output.ts:63`): a search may be `"invalid"`, and
  then the call, or each server of a bulk call, fails once its output is there.
- `Command` has one command for every combination of lists that some command
  of the code's patterns is on; an egg is the set of games whose words occur in
  its docker image and invocation. An override may name a mode or preset the code
  does not know, which `loadPolicyOverrides` does not look at: such a mode has no
  list at all. The test of a command's length in `evaluate` is left out, as the
  tool's schema lets in nothing longer.
- `made` and `witness` are history variables: all records in order, and whether
  the server of a command was running, the account was allowed, and for which of
  its servers a bulk call had a request fail or the panel's state refuse it.

### McpSessions

HTTP requests are numbered as they arrive. A POST of an initialize waits for the
account (`authenticating`), then enters the session and answers in one step
(`Authenticated`): `handleRequest` calls `onsessioninitialized`, which puts it in
the map. Tool calls and event streams are `streaming` until they are answered or
their session is closed by a DELETE, whose `onclose` takes it out of the map
(`DeleteSession`). A client may leave any request open at any time
(`ClientLeaves`); what was begun for it goes on. The tools themselves run in the
other modules: here a tool is `running` until it returns. The MCP SDK is not part
of the repository: what is assumed of it is in the module's comment.

### Abstract specification

`OneTimeConfirmation` has tokens that are issued for a deed, spent at most once
or withdrawn, and under which that deed is carried out at most once. The mapping
in `ConfirmedRefinement` reads "issued" off the result of the issuing call,
"spent" off the calls that consumed a token, "live" off the unexpired entries of
the stores, and what was carried out off the *consuming* call's request, not off
the grant: it is the code's checks that make the two agree.

## 3. What TLC checks

| Run | Instance | Properties | Result |
|---|---|---|---|
| `confirmed_race` | 3 overlapping calls, 2 keys of different accounts, 1 server, `server_power` and `create_server_backup` (one of each store), lifetime 1, clock to 3, one restart | `IInv`, `NoActionWithoutConfirmation`, `ConfirmedOnce`, `PowerTokenSpentOnlyToAct`, `ConfirmedInTime`, `ConfirmationKept`, `BackupQuietPeriod`, `ImplementsOneTime` | hold |
| `confirmed_every_tool` | 2 calls, all 11 tools, 2 servers, a good and a refused argument, clock to 2 | `TypeOK`, `NoActionWithoutConfirmation`, `AuditAgreesWithPanel`, `CallReturns` | hold |
| `backup_spacing` | 4 calls of one key | `BackupsSpaced` | violated |
| `confirmed_arguments` | 2 calls of `restore_server_backup` with and without `truncate` | `ConfirmedAsRequested` | violated |
| `rate_limiter` | 2 keys, rate 2, a minute of 3 ticks, 8 ticks, 6 calls a key | `AtMostTwiceTheRate`, `DeniedOnlyAtTheRate`, `RetryAfterIsEnough`, `IInv` | hold |
| `console_sessions` | 3 calls, 3 keys, 2 tokens, pool of 1, idle time 1, clock to 3 | `IInv`, `ConnectedWhenAlone`, `NoSocketLost`, `AtMostOneTooMany`, `SentOnAcceptedSocket`, `ReusedWithOwnToken` | hold |
| `console_returns` | 3 calls that share one key | `CallReturns` | holds |
| `console_auth_timeout` | 1 call | `AuthTimeoutIsReported` | violated |
| `panel_request` | 2 requests, every method | `TimerWhileTimed`, `WaitsInTime`, `Inv`, `TimeoutsAreTrue`, `EveryRequestEnds` | hold |
| `panel_timeout` | 1 request | `RequestsInTime` | violated |
| `server_tools` | one call of any tool, resource or prompt with good and refused arguments, or two of which one sends a command; 2 servers, 5 states of a server, 5 log files, 4 searches, 13 commands, 2 policies; one change at the panel, one failure of the audit file, one restart | `IInv`, `EveryOutcomeRecorded`, `LogKeepsRecords`, `CommandsSentWithCause`, `BulkAnswersEach`, `LinesAreTheLastRead`, `EveryAnswerBringsTheEnd`, `CallReturns` | hold |
| `mcp_sessions` | 5 HTTP requests, 2 of them without a session id, one restart | `TypeOK`, `MapHoldsOpenSessions`, `AnsweredUnlessClosed`, `RequestsEnd` | hold |

Why the bounds are enough to be interesting:

- *Confirmed tools.* A confirmation takes two calls; the third races the second
  for the same token, or brings a token of another account, tool or store. A
  lifetime of 1 on a clock to 3 lets tokens be used in time, at the last
  moment, and too late, and lets one be issued after another has expired. The
  restart may fall between any two steps. The second run trades the third call
  for every tool and both kinds of argument. The rate is two calls per window,
  so that the third call of the first run is refused when it comes too soon.
- *Rate limiter.* Six calls at rate 2 cover three windows, which a burst at
  their boundaries needs; the theorem removes the bounds.
- *Console sessions.* Three calls on up to three keys with a pool of one make
  every eviction happen, of idle, used and connecting sessions; on one key they
  make one call connect while another resets and a third reuses. The run takes
  `Symmetry` over the calls (and keys and tokens), which is sound as its
  properties treat them alike and none is a liveness property. `console_returns`
  has no symmetry.
- *Panel requests* share no state, so two are one more than needed.
- *Server tools.* What two such calls share is the audit log, the counters and
  the panel; one change, one fault and one restart, each at any point of a call,
  meet a call between any two of its requests. Bulk calls name three servers,
  one of them twice, with `BULK_MAX_SERVERS` 2, so that a server is cut off and
  another follows a failure. The logs are blank, nothing but an escape sequence,
  short, and longer than the 8 bytes of `FILE_MAX_READ_BYTES` with the cut inside an
  escape sequence or a text; two lines and one match are asked for. Searches are
  for lines that match or that do not, or invalid. Every server starts in a state in which nothing is refused
  (`ReadyState`), so that the history can tell what a change took away. The default mode is strict, one server takes its game
  from its egg and the other is overridden to standard. The run has the
  transport `auto`, which takes every path of the other two but their errors; what
  a bulk tool answers where only files are read is in the theorem, which is for
  every transport.
  A failure of the audit file and a restart may follow one another, which makes
  a line that two processes wrote.
- *MCP sessions.* Two requests without an id make two sessions, or a session
  and an initialize that overlaps or fails; three more requests use, stream,
  delete and use again.

Deadlock is not checked where a clock and a set of calls are bounded: when all
calls are over and the clock is at its bound, the instance stops. `PanelRequest`
has no such bound and is checked for deadlock.

### Fairness

- `ConfirmedTools`: every panel request ends (`WF(Reply(c))`): it is answered,
  or the `AbortController` of `fetchWithTimeout` (`src/pterodactyl/client.ts:139-160`)
  or of the application client ends it, and where the code sets no timer
  (`writeFile`, reply bodies) Node's fetch has a limit of its own. Neither the
  panel's carrying out a request nor a client's second call is assumed.
- `ConsoleSessions`: continuations run and timers fire (`WF(Continues(c))`).
  Nothing is assumed of Wings.
- `ServerTools`: a request that is awaited is answered and the call goes on, or
  the request fails (`WF(RequestFails(c) \/ Resume(c))`), which is what
  `EveryRequestEnds` of `PanelRequest` and `CallReturns` of `ConsoleSessions` say.
  The panel is not assumed to answer or to carry out anything.
- `McpSessions`: a request that was let in goes on (`WF(Proceed(h))`): the account
  is told or the request for it fails, and a tool returns, as `CallReturns` says.
  Nothing is assumed of clients.
- `PanelRequest`: time passes, due timers fire, and the runtime's limits
  (minutes, more than any value the configuration accepts) end what the code
  does not time.

### What the violated runs show

- `BackupsSpaced`: `create_server_backup` checks the limiter on entry
  (`register-extended-tools.ts:161`) and records after the panel's answer (`:217`).
  Two calls that overlap both pass. What the code does keep is
  `BackupQuietPeriod`: a call that *starts* within the interval after a recorded
  backup is refused.
- `ConfirmedAsRequested`: arguments outside the fingerprint (`truncate`, `force`,
  `ignored`, the limits of `create_server`) may differ between the call that was
  confirmed and the one that acts.
- `AuthTimeoutIsReported`: the authentication timer (5 s) may fire before the
  handshake's limit (10 s); `finish` then removes the `error` listener and closes a
  connecting socket, which `ws` answers with an `error` event that nobody hears.
- `RequestsInTime`: the timer of `PANEL_REQUEST_TIMEOUT_MS` ends with the headers,
  and `writeFile` has none.

Seen on the way and stated as it is, without a run of its own:

- The fixed window admits up to twice the configured calls within a minute
  (`AtMostTwiceTheRate` is the bound that holds); the console pool holds one
  session more than `CONSOLE_MAX_SESSIONS` (`AtMostOneTooMany`).
- A refused permission leaves two audit records, `denied` and then the `error` of
  the handler's `catch`, and is counted once; a bulk read of a refused path leaves
  none (`register-bulk-tools.ts:77`), nor does `delete_server` when the server is
  not found. `EveryOutcomeRecorded` says exactly how the records of a call may read.
- A log longer than `FILE_MAX_READ_BYTES` is cut to its first bytes before its last
  lines are taken (`console-output.ts:107`): the lines shown are then not the
  recent ones, though the tool's description says "recent" (`register-tools.ts:96`).
  `LinesAreTheLastRead` says what they are.
- The success of `send_console_command` with `wait_for_output` says only that the
  command was handed to the socket; the audit log's `success` may be of a command
  no server has had. `EveryOutcomeRecorded` makes this one exception.
- A close frame behind "auth success" in the same chunk is dealt with before
  `connect` goes on, and `ensureConnected` does not look at `readyState`: the request
  is sent on a closing socket, for nothing, and the call returns what it collected.
  `SentOnAcceptedSocket` says to whom this can happen: the call that has just opened
  the socket, or one that another call disturbed.
- An invalid search pattern is found out only when the output is there, in a bulk
  call once for each server, each of which then fails (`BulkAnswersEach`).
- An error on a pooled or closing socket has no listener (`ProtocolError`).
- A token is spent although the request for the permission then fails, in every
  tool but `server_power`, and a backup whose reply is lost starts no quiet period.
- A record appended after a torn one in a restarted process shares its line
  (`LogKeepsRecords`): that line is not JSON.
- A command is sent on a permission and a power state that were read at
  different moments and may both have passed (`CommandsSentWithCause`).
- A session that was initialised for a client that had gone away stays in the map
  until the process ends, and nobody can delete it (`MapHoldsOpenSessions`).

## 4. What is proved

With TLAPS, for any sets of calls, accounts, servers and arguments, any
lifetimes, rates and timeouts, from the named assumptions of the modules only:

| Theorem | Module | Statement |
|---|---|---|
| `ConfirmationInvariant` | `ConfirmedTools_proofs` | `Spec => []IInv` |
| `TypeCorrect` | | `Spec => []TypeOK` |
| `ActionsConfirmed` | | `Spec => []NoActionWithoutConfirmation` |
| `OneActionPerToken` | | `Spec => []ConfirmedOnce` |
| `ConsumedInTime` | | `Spec => ConfirmedInTime` (an action property) |
| `PowerTokensBuyActions` | | `Spec => []PowerTokenSpentOnlyToAct` |
| `AuditTruthful` | | `Spec => []AuditAgreesWithPanel` |
| `QuietAfterBackup`, `PendingKept` | | `Spec => BackupQuietPeriod`, `Spec => ConfirmationKept` (action properties) |
| `RefinesOneTime` | `ConfirmedRefinement_proofs` | `Spec => ImplementsOneTime`, the refinement of `OneTimeConfirmation` |
| `Invariance` | `RateLimiter_proofs` | `Spec => []IInv` |
| `TypeCorrect` | | `Spec => []TypeOK` |
| `RateBound`, `NoEarlyDenial`, `RetryAfter` | | `Spec => []AtMostTwiceTheRate`, `[]DeniedOnlyAtTheRate`, `[]RetryAfterIsEnough` |
| `TimerInvariant` | `PanelRequest_proofs` | `Spec => []Inv` |
| `TimersMatchWaits`, `TimedWaitsEnd`, `NoEarlyTimeout` | | `Spec => []TimerWhileTimed`, `[]WaitsInTime`, `Spec => TimeoutsAreTrue` |
| `ResolverGivesWhatIsMeant`, `OnlyOnePolicyIsMeant` | `Operators_proofs` | `Meant(ForServer(override, egg), override, egg)`, and no other policy is meant |
| `TailLinesAreTheLast`, `SearchLinesAreTheFirst` | | `TailLines` and `SearchLines` yield, in order, the lines that fewer than the maximum come after, or before |
| `TypeCorrect` | `McpSessions_proofs` | `Spec => []TypeOK`, which includes that streams are of sessions in the map |
| `RequestsInvariant` | | `Spec => []RequestsInv` |
| `MapFollowsSessions`, `ResultsReachCallers` | | `Spec => []MapHoldsOpenSessions`, `[]AnsweredUnlessClosed` |
| `SessionInvariant`, `TypeCorrect` | `ConsoleSessions_proofs` | `Spec => []IInv`, `Spec => []TypeOK` |
| `ConnectionsKept`, `SocketsKept`, `PoolBound` | | `Spec => []ConnectedWhenAlone`, `[]NoSocketLost`, `[]AtMostOneTooMany` |
| `RequestsOnAcceptedSockets`, `ReusesItsOwnToken` | | `Spec => SentOnAcceptedSocket`, `Spec => ReusedWithOwnToken` (action properties) |
| `ServerToolsInvariant` | `ServerTools_proofs` | `Spec => []IInv`, which includes `TypeOK` |
| `CallsFit` | | `Spec => []CallInv` |
| `CommandsHaveCause`, `BulkToolsAnswer` | | `Spec => []CommandsSentWithCause`, `[]BulkAnswersEach` |
| `TrailFits`, `LogKept` | | `Spec => []TrailInv`, `[]LogKeepsRecords` |
| `OutcomesFit`, `OutcomesRecorded` | | `Spec => []OutcomeInv`, `[]EveryOutcomeRecorded` |
| `LinesShown` | | `Spec => []LinesAreTheLastRead` |
| `CallsComeToAnEnd` | | `Spec => EveryAnswerBringsTheEnd` (an action property) and `[]AheadBounded` |

*Confirmations.* That an action was confirmed is not inductive by itself: a store
might hold an entry that says something else than its issuer asked, or a call
might be past its `consume` without a token. `IInv` rules these out: an entry is
exactly what the call it was issued to asked for and nobody has consumed it
(`PowerStoreOK`, `ActionStoreOK`); a consumed token's issuer asked for the
consumer's deed (`ConfirmsOK`); a handler past its `consume` has consumed
(`ConsumedBeforeActing`); a call without a result has issued nothing
(`LifeOfCall`). The proof sorts the steps by what they do to the stores: lemma
`Unrelated` for those that only shrink them, `IssueStep` for a step that adds an
entry under a new name, `ConsumeStep` for one that removes the only entry of a
token and names its consumer; `MatchIsAgreement` turns the checks of `consume`
into agreement of the two requests. `StoreInvStart` and `StoreInvReply` show
which handler steps are of which kind, types being a pass of their own.

*Audit, backups, pending confirmations.* Three of the properties speak of two
states or of what happens after a call has ended, and need to know what a call
has *not* done yet: `RecordsOfCall` (no records before the end, nothing sent before
it acts) and `BackupsRemembered` (the limiter's entry of a server is at least as
late as every backup recorded there) were added to `IInv` for them.
`AuditAgreesWithPanel` is then inductive with it: the panel's late steps only move
`wire` on, and every step that ends a call writes the record that fits what it
knows. A call that starts in the quiet period fails `BackupAllowed` because the
limiter still knows the backup; a pending entry leaves the store only in
`ConsumeStep`, by its own time, or by a restart.

*Refinement.* `CarriedIsGranted` shows that the deed read off the consumer's
request is the one granted to the issuer, from `ConfirmsOK`. Then the steps are
sorted by what the mapping sees of them: nothing (`QuietMaps`), a token issued
(`IssueMaps`), spent (`ConsumeMaps`), its deed carried out (`ExecuteMaps`), or tokens
withdrawn because time passed or the process restarted (`WithdrawMaps`).
`SameToken` says on what the mapping of a token depends, so each lemma looks at
one token and shows the others unchanged.

*Rate limit.* The history of admitted calls is numbered by window; calls in one
window are at most the rate, and two windows that are not neighbours are a
minute apart, so the first and last of `2 * MaxPerMinute + 1` calls are.

*Panel requests.* A timer and the time waited add up to the timeout
(`TimerMeasures`), and a timer is set just while the request is in a timed part.

*Policies.* The preset and the mode of `forServer` are worked out by cases of the
override and the egg (`PresetOfServer`, `ModeOfServer`); the two early returns give
what the last line would have given.

*MCP sessions.* `RequestsInv` says what each request has done by the time it awaits
something: nothing has become of one that has not arrived (`FreshRequest`), one
that awaits the account or a stream was let in by this process and has no answer
(`OpenRequest`), an id in a header was told in an answer (`IdWasTold`), a tool runs
for a call that streams, was told of the end, or was left (`ToolOfCall`). Without
`IdWasTold` a new session could be the one an earlier request named, and its
calls would seem unanswered. `Arrival` gathers what the five handlers share;
`MapStep` and `AnsweredStep` carry the two properties beside the invariant.

*Console sessions.* Calls of a key share the session's `ws`, `authenticated` and
`credentials`, so nothing a call set is sure to be there at its next step. The
invariant says what can have changed it: calls that are under way on one session
at the same time are all `disturbed` (`OverlapsAreKnown`), and so is whoever's
socket a session gets while another call connects (`HeldWhileConnecting`); a call
that is not disturbed finds its credentials, its mark and its socket
(`UndisturbedSession`, `OpenSocketsHeld`). Sockets of sessions are ones that were
accepted and may since have been closed by the other end (`HeldSockets`). A
connection that is reused was open when `connect` looked, and nothing but
microtasks comes between that and the sending of the request, so it is open then
unless another call has put its own socket in the place (`ReadyCalls`); of a socket
the call has just opened nothing of the kind holds.
The proof has a lemma for each kind of step; the longest is `EnterStep`, in which
a call disturbs those of its own session and those it evicts. The bound of the
pool (`FewSessions`) is a lemma about the cardinality of what the two evictions
leave (`PoolStep`), for every limit.

*Unconfirmed tools.* `HandlersFit` reads off the table what all handlers have in
common: those that do more than one request ask for `control.console`, and bulk
tools only read. `CallInv` says of each call, by its kind, what it may await and
what it is owed. A command is past the permission only with the permission
granted at some moment and the policy's consent, and past the power state only
with the server seen running (`CommandFits`); for this the history must have noted
every state an answer can carry, also one that changes while the answer is on its
way (`Noted`). A bulk tool is at the server after the last it has answered for; where
it met trouble is among those, and each of these was failed; one that was failed
without trouble had an invalid search, or a console of which only log files are
read (`BulkFits`). That nothing else makes a handler throw is shown
handler by handler (`OnFetchKeeps`, `OnLogKeeps`, ...). `StepKeeps` puts the steps together
from one lemma for each thing a handler does next (`AwaitKeeps`, `StopKeeps`,
`PushKeeps`, `ThrowKeeps`, ...). That the policy a command passed is the one meant for
the server is the theorem of `Operators_proofs` (`PolicyOfServer`).

*Audit log.* `TrailInv` relates the log to the history of records and the life of
the process that made each: every record is at the end of a line or was printed,
never both; numbers grow along the file and along stdout; once a process has
printed it prints; a line in two pieces ends in the first record of its process.
The last needs that a process which still uses the file and has recorded nothing
is the only one that can meet an unfinished line. `PieceAdded` and `FileGrows` say
what an append does to a file, `LogOneKeeps` that `AuditLogger.log` keeps the
invariant, `RecordKeeps` that a step's records (two at most, lemma `StepLeaves`)
do, and `WhereFiled` turns positions at ends of lines into the counts of
`LogKeepsRecords`. It holds for any number of failures of the file and restarts.

*Outcomes.* `EveryOutcomeRecorded` needs to know what a call has not told yet and
what it has sent: `OutcomeInv` adds that a call not made has no record, and that
whatever may act does so in its last request (`SentFits`, with `Lasts`), so a denial
comes before anything was sent, and a success after the panel's answer or, of a
command on the console session (`Unacknowledged`), after it was sent. The argument
has two halves. Of the history: `RecordAdds` says that a step's records are at most a
refusal and an outcome of one call (`Adds`), and `CountsKept` that the counters then
still count the calls with an outcome from this process, over sets whose size is
known. Of the handlers: each one goes on, ends, or notes one answer of many
(`Proceeds`; `ResumeProceeds` and `FailureProceeds` show it of all of them), and
`GoesOnTells`, `StopsTells` and `NotesTells` show the invariant of each; a bulk tool
records no more refusals than it reports failures because both grow together.
A restart forgets the counters and no record, and `LogFits` says that none of the
records is from the new process.

*Log lines.* `Those` and `StartOf` go through a log by recursive functions, and what
these yield needs induction over the lines. The library's induction theorems take
an operator, which the provers cannot instantiate; `Induct` takes a *set*: one that
holds 0 and with each number the next holds all of them, because the least
number it lacked would follow one it holds (`LeastOf`, from the well-foundedness
of `<`). It is cited of the set of lines up to which a claim is true. `Recursion`
uses it to show that the recursive functions exist; `PickedUpTo` is the claim for
`Those`: what has been picked so far are the lines at the positions, in order.
`LinesAround` then counts what comes before and after a line by a bijection, so
that a piece of the picked lines is the same as those with fewer than so many
after or before them (`LastLines`, `FirstLines`), and `TheCut` says which lines
`truncateContent` leaves text of. `TakenAreTheLastRead` joins them for what a handler
takes from a file; only `OnLog` changes what is shown (`ShownFromLog`), and
`LinesAreTheLastRead` is inductive with the parts of `IInv` on the file read and the
request.

*Why calls return.* `CallReturns` itself is beyond the prover, but what it rests on
is not. `Ahead` counts the requests a call may yet ask: eleven for each server
not reached, and of the present one those that may come after the one awaited
(`Stage`; eleven is what `diagnose_server` asks when the state is read, the power
too, four logs are blank and the console session is used instead).
`CallsComeToAnEnd` says that a call that goes on, with an answer or with a failure,
lowers it, that nothing else raises it once the call has begun, and that it is
positive while the call awaits. The induction needs of `IInv` only that a bulk tool
is at one of its servers. What is left to TLC is that every request is answered or
fails in the end, which is the assumed fairness of `ServerTools` and a property of
`PanelRequest` and `ConsoleSessions`.

The assumptions are those named in the modules. `ServerToolsAssumption` asks that
there is something to call (`Batches` is not empty), that servers start in a state
in which nothing is refused, and that bounds are natural numbers.

Only model-checked is liveness (`CallReturns`, `EveryRequestEnds`, `RequestsEnd`),
which is beyond the prover.

## 5. Not modelled

- Text: path, command and search patterns beyond which lists match, ANSI codes,
  url rewriting, parsing of configuration and panel answers, the texts of prompts.
  What handlers refuse is a set of arguments (`InvalidArgs`, `valid`).
- The lines a console session collects: calls that share a socket get each
  other's lines, and the protocol does not tell whose they are.
- OAuth routes (they answer 501, or add to a map nothing else reads), the IP
  allowlist (a pure test), the fingerprint and the mapping of tokens.
- The time at which policy overrides are read (once per MCP session) and the two
  names, identifier and UUID, under which a server can be asked for: an override
  filed under one of them does not apply to a call that uses the other.
- `notifications/cancelled`, on which the MCP SDK drops the result of a tool: the
  handler does not hear of it and goes on, so a result may be missing there where
  `AnsweredUnlessClosed` says it is sent.
- An empty text as the mode or preset of an override, which the code takes for none
  in some tests and for a value in others.
- The MCP SDK, `ws`, Wings and the panel are external, modelled by the events the
  code handles.

## 6. Plan

1. Proofs: the part of `CallReturns` of `ConfirmedTools` that is safety, as was done
   for `ServerTools`.
2. The hazards without a property are marked by a note in `PROJECT.json` that says
   why they have none.

## Running

`tlc -config ConfirmedRace.cfg MCConfirmedTools.tla` checks a run (the module and
configuration of each are in `PROJECT.json`), `tlapm ConfirmedTools_proofs.tla`
checks a module's proofs. The largest run takes about a minute and a half on two
cores.
