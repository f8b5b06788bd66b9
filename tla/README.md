# Verification of the OLT monitoring API

TLA+ models, model-checking runs and machine-checked proofs for the ZTE C320
multi-OLT monitoring backend in `src/` (Go). Line numbers below are lines of
that tree; `PROJECT.json` maps every definition to the lines it models.

## 1. Inventory

The program is one process. HTTP handlers run on one goroutine per request;
two pollers have a goroutine per OLT; the indexer has one per sync and OLT.
They share the registry, the configuration in memory, and Redis.

| Component | Code (`src/internal/` unless noted) | State | Operations | Model |
|---|---|---|---|---|
| OLT registry | `service/olt_manager.go` | `olts`, `opLocks` under `mu` | register, unregister, update, get client / adapter / new client, AcquireSNMPLock, InvalidateONUCache | `OltManager` |
| SNMP client | `snmp/client.go` | `Conn`, one mutex | Connect, Close, Get, walks | `OltManager` |
| ONU service | `service/onu_service.go` | Redis entries, a singleflight group | GetONUList, GetONUDetail, GetPONList | `OnuCache`, locking in `OltManager` |
| Cache | `cache/redis.go` | Redis keys with time to live | get, set, delete, delete by pattern | `OnuCache` |
| Optical poller | `poller/optical.go` | a goroutine per OLT | start, stop, pollOLT, pollPON | `Pollers`; pollPON in `OnuCache` |
| Names poller | `poller/names.go` | a goroutine per OLT | start, stop, pollOLT, pollPON | `Pollers`; pollPON in `OnuCache` |
| OLT handlers | `handler/olt_handler.go` | `Config.OLTs`, no lock | create, update, delete | `OltConfig` |
| Configuration | `config/config.go` | `Config`, the YAML file | Load, Save | `OltConfig` |
| Process start | `src/cmd/main.go` | | register what the file has; shutdown | `OltConfig` (start), `Pollers` (shutdown) |
| Users | `handler/user_handler.go`, `handler/auth_handler.go` | `Config.Users`, no lock | create, update, delete, change password | `UserAdmin` |
| Login | `handler/auth_handler.go` | rate and lockout counters, one mutex | Login | `LoginThrottle` |
| Indexer | `service/indexer_service.go` | the search index in Redis | SyncAll, WalkOLT, SetEnabled | `IndexSync`; WalkOLT's lock in `OltManager` |
| Provisioning, reboot | `service/provisioning_service.go`, `service/telnet_service.go` | a telnet session, the OLT | batch, reboot | `TelnetBatch`, its effect on the cache in `OnuCache` |
| System info | `service/system_service.go` | Redis entry | GetSystemInfo | locking in `OltManager` |
| Activity log | `service/activity_service.go` | a bounded list | Log, List | not modelled |
| ifIndex | `snmp/ifindex.go` | none | CalculateIfIndex, ParseIfIndex | `IfIndex` |
| Parsing, adapters, HTTP plumbing, domain types, tools | `snmp/parsers.go`, `handler/router.go`, `domain/` ... | none | conversions | not modelled |

How they interact:

- A request calls the ONU or system service, which asks the registry for the
  OLT's shared client, then for its operation lock (a channel of capacity 1),
  and exchanges SNMP packets under the client's mutex.
- The indexer and the pollers clone a client of their own; the indexer takes
  the operation lock, the pollers do not.
- Unregistering closes the shared client, deletes the OLT's channel and its
  Redis keys, all under `mu`. Updating unregisters and registers.
- The ONU service and both pollers write the list and names entries of a PON.
  The list request and the optical poller read the names to fill them in.
- The indexer and the pollers list the registered OLTs: a sync each time, a poller
  once. A create triggers a sync at its end, a delete and an update none.
- The signal handler in `main` cancels the pollers' context, waits for both and
  exits; it does not wait for requests.
- The OLT handlers change the registry, then `Config.OLTs`, then the file, then
  (after a telnet session) `Config.OLTs` and the file again.

What is hard: goroutines interleave between every two of those steps; values
read before a wait (a client, a channel, an account, a cache entry, a
configuration entry) are used after it; `mu` is held across network calls; a
crash can come inside a Save; Redis, the device and a Save may fail at any
step. The full list, line by line, is under `hazards` in `PROJECT.json`.

What makes each component correct:

- registry and lock: one operation per OLT at a time, no lock or mutex leaked
  or shared between OLTs, every caller returns, no connection closed under an
  exchange or dropped unclosed, a removed OLT is gone;
- ONU cache: an entry does not hide a provisioned ONU or survive its OLT, a
  forced request sees the device of its own time, and the cached list ends up
  right when the device stops changing;
- configuration: registry, configuration and file agree when nobody is at
  work, and a restart brings back what was acknowledged;
- users: a change is not undone by another request's, and a superadmin stays;
- telnet: a success means that the OLT took the commands, a serial number is
  won by one request, and damage done to another's ONU is told;
- search index: a new OLT gets into it and a deleted one out of it, newer items
  are not replaced by older ones, and it ends up right;
- pollers: every listed OLT is polled for ever, walks end before their
  connection, and the shutdown ends with nothing left that runs;
- login: the number of attempts and of failures in a span of time is bounded,
  and a lock is neither set without failures nor lifted by later attempts.

## 2. Modules

| Module | What it is |
|---|---|
| `SnmpSerial` | abstract: operations arrive at the gate of an OLT, are admitted one at a time, leave; a retired gate makes those at it stale |
| `OltManager` | the registry with its three kinds of locks, and every caller of them |
| `OltManagerProofs` | theorems about `OltManager`, and that it implements `SnmpSerial` |
| `OnuCache` | the list and names entries of one PON, and their writers |
| `OnuCacheProofs` | theorems about `OnuCache` |
| `OltConfig` | registry, configuration and file under create, update, delete, Save and restart |
| `OltConfigProofs` | theorems about `OltConfig` |
| `UserAdmin` | accounts under create, update, delete and change of password |
| `UserAdminProofs` | theorems about `UserAdmin` |
| `TelnetBatch` | provisioning and reboot sessions of one PON, against the OLT's command line |
| `TelnetBatchProofs` | theorems about `TelnetBatch` |
| `IndexSync` | the syncs of the search index, over a registry and devices that change |
| `IndexSyncProofs` | theorems about `IndexSync`, and about `IfIndex` |
| `Pollers` | the goroutines of both pollers, from the start of the process to its exit |
| `PollersProofs` | theorems about `Pollers` |
| `LoginThrottle` | login attempts against the rate limit, the lock and the clock |
| `LoginThrottleProofs` | theorems about `LoginThrottle` |
| `IfIndex` | the interface index of a PON |
| `MC...` | the symmetry sets for TLC; constants are in the `.cfg` files |

A definition whose comment begins with "mutant:" is a wrong version of the
definition after it, used to see that a property notices the bug; no
specification uses one.

### OltManager

`olts`, `opLocks`, `mu`, `conn` and `clientMu` are the fields of `OLTManager`
and `Client`; `chan[l]` says whether a channel holds its one token. `pc`,
`tgt`, `cl` and `lk` are the call each goroutine is in, its OLT, and the client
and channel in its local variables. Clients and channels are addresses: an
allocation takes one nothing refers to, so reuse after garbage collection is
covered. `WalkOLT` differs from the requests in taking the lock before it
knows whether the OLT exists, and in never giving up (`cl = None`).

| Code | Actions |
|---|---|
| `GetClient` (and a PON list request, which takes no operation lock) | `GetClient(p, o, "lookup")`, `GetClient(p, o, "ponWait")` |
| `AcquireSNMPLock` | `LookupLock` under `mu`; then `SendToken` or `CtxDone` |
| an exchange | `BeginExchange`, `EndExchange` |
| `GetAdapter`, `GetNewClient` | same names |
| the deferred release | `Release` |
| `RegisterOLT` | `RegisterOLT`, `DialDone` (`mu` held in between) |
| `UnregisterOLT` | `UnregisterOLT`, then `CloseAndDelete` or `ClosePanics` |
| `UpdateOLT` | `UpdateOLT`, `CloseAndDelete`, `Reregister`, `DialDone` |

A panic in `Close` unwinds through the deferred unlocks and ends the request in
the router's Recoverer: `ClosePanics` releases `mu` and changes nothing else.
In `main` no OLT is removed, so the panic cannot end the process.

### OnuCache

One PON of one OLT. `dev` is the device. `list` and `names` are the Redis
entries; `flight` is the function singleflight runs for the PON and `members`
the requests waiting for it; `poll` and `npoll` are the pollPON calls under
way. The status walk takes time: one begins (`FlightLock`, `OpticalBegin`) and
ends (`FlightStatus`, `OpticalWalk`), and has the ONUs that were there all along,
none that was there at neither end, and of the others any (`Seen`); an ONU
that comes and goes within one walk is left out. The name walk, which repairs
what is missing, reads in one step. A list has the ONUs and their names,
an ONU with status and power but no name being `Blank`; names from the names entry
are put into it and take no ONU out of it (`WithNames`). Serial numbers go with
the names. Redis may fail at every read and write: a read goes on to the walk,
or does without names; a write leaves the entry; the deletion after a
provisioning changes nothing. A reboot deletes the same keys as a provisioning
and changes no ONU, which `ExpireList` covers. The OLT is unregistered once and
not registered again.

Ghosts: a walk or entry carries the tag `prov` if an invalidation after a
provisioning came when the walk had begun to read the ONUs (`Reading`), and
`unreg` if the OLT was unregistered when the walk had its client already; `acked` and
`must` remember what a property compares with, `late` the forced requests that
joined a walk that was reading already.

### OltConfig

`reg`, `cfg` and `file` give each OLT's address, or `None`. Save is viper's
`WriteConfig` (an external library): it opens the file with truncation, renders,
and writes. `SaveOpen` truncates and renders, `SaveWrite` writes,
`SaveFails` is a file that cannot be opened, and `SaveBreaks` a write that fails
after the truncation (`src/internal/config/config.go:174` keeps no old copy): the file
is left as it was truncated, or no YAML, or with the entries that went through and
at most one of them in part. Two Saves at once set `mixed`:
the file then has one's text, or no YAML at all (`readable` FALSE).
`refreshVLANProfiles` reads an entry and writes it back after a telnet session
(`Fetch`, `StoreProfiles`); reading a missing entry of a Go map gives the zero
entry, whose address is `NoHost`, as is what is left of an address cut in two. `Restart` is a crash at any step followed by
`Load` and the registration in `main`. A process whose file is unreadable does
not start; the model then goes on with the process that is still running.

Ghosts: `overlapped` (OLTs two requests were about at once), `want` (what the
last request on each OLT asked for), `behind` (the last Save failed or met
another) and `cut` (a Save that broke off cut an entry in two).

### UserAdmin

A request reads the account (`CreateUser`, `UpdateUser`, `ChangePassword`,
`DeleteUser`), hashes a password or not, writes the account it made from what
it read (`Write`), saves and answers (`Answer`). A password that cannot be
hashed ends it (`HashFails`). Ghosts: `overlapped`, `raced` (two requests were
taking a superadmin away at once), `ledger` (the accounts as the requests that
are through asked for them).

A map access is one step in `OltConfig` and `UserAdmin`. The Go maps behind them have no lock,
and the runtime ends the process when it sees two accesses at once; what the
models show of lost updates holds in the runs where it does not.

### TelnetBatch

`input` holds the typed lines the OLT has not executed, `output` the pieces of
its output, each up to a prompt character, that nobody has read. A provisioning
(`ProvisionONU`, `Connect`, `WriteBatch`, `ReadPrompt`, `Validate`) types a
template's commands at once and reads one prompt per command; `Batch` keeps of
a template the command that gives the id, the one that selects the ONU, and one
for all settings. A reboot (`RebootONU`, `Connect`, then the steps of `Reboot`)
sends a command at a time and looks at none of the output but the last. Reads
end by the deadline or a lost connection at any time (`ReadFails`), which a
reboot ignores after its last command (`ReadRebootFails`). A closed session
leaves what it typed to the OLT.

The OLT is external: `Reject` may reject any line and says so; `AcceptOnu` needs a
free id, `AcceptSelect` a registered ONU, `AcceptSet` a selected one; after a
rejected line it executes the next. That is what the code relies on
(`validateProvisioningOutput`, the pipeline, the "Confirm" it looks for).

Ghosts: `strays` counts prompt characters that end no output (a banner, a name
with '#', a message), `verdicts` what the OLT made of each command of a batch,
`declined` a question answered by something else than "y", `blind` a reboot
whose last output was not read, `failedOn` the ids about which a provisioning
answered failure.

### IndexSync

A sync is at "begin" (its goroutine was made), then walks (`List` takes the
registered OLTs; each OLT's goroutine is `GetNewClient`, then `WalkOLT`), then
stores (`Store`, `StoreFails`). `Ticker` is the sync of the ticker's goroutine,
`Trig` those that a create or `POST /search/sync` starts beside it. Of an ONU
table the version is kept: an item of the index is a version, with the names or
without them (a failed name walk gives blanks). `reg` is what `OltManager` calls
the registered OLTs, and a create or delete is one step of it here; an update is a
delete and a create, without a sync. `Restart` is a crash at any step; the index
stays in Redis, and the setting of the search is that of the file, as
`SetEnabled` saves OLTs and users only.

Ghosts: `overlapped` (syncs under way that met another), `old` and `carried`
(OLTs deleted since a sync, or the sync that stored the index, listed them).

### Pollers

`root` is the goroutine that `Start` makes for each poller, `at` the ones it makes
for each listed OLT: `Wake` (the names poller's first sleep), `GetNewClient` or
`NoClient`, `DiscoverPONs`, `BeginPON` and `EndPON` under the semaphore, `Close`,
then the select, `Tick` or `Return`. A poll that fails at any step leads to the
select. `main` is the signal handler of `src/cmd/main.go`. Sleeps and walks do not
look at the context, and neither does the model. The registry is an environment
that gives any OLTs to a listing and finds one or not at a lookup, which allows
more than `OltManager` does.

### LoginThrottle

A request passes `checkRateLimit` (`Refuse`, `Login`), then `IsLocked`, then
`CheckPassword`, then `RegisterFailure` or `ResetFailures`. Each of them takes the
mutex of `AuthHandler` once and is one step; between them any other request may
run. `Tick` advances the clock. Whether a password is right is a choice.

Ghosts: `hits` (the attempts of a client that passed, each with its time and the
window it was counted in), `fails` (the failures of a user since its last success, each
with its time and number), and `since` (requests past `isLocked` whose user was locked
after that). Both histories are sets whose elements differ, so that how many fall into
a span of time is a cardinality.

### IfIndex

`CalculateIfIndex` and `ParseIfIndex` as products, quotients and remainders. They
have no state; the theorems (in `IndexSyncProofs`, whose walks use them) are about all
boards and PONs.

## 3. Runs

| Run | Instance | Checks |
|---|---|---|
| `OltManagerSafety` | 2 OLTs, 2 goroutines, 4 clients, 4 channels, symmetry | `IInv`, `ChannelOwnership`, `OverlapOnlyAcrossRetire`, `RegisteredClientUsable`, `NoCloseInFlight`, `NoClientDropped` |
| `OltManagerLive` | 1 OLT, 2 goroutines, 3 clients, 3 channels, `FairSpec` | `EveryCallReturns`, `ImplementsGate` |
| `OltManagerRemove` | the same instance, `Spec` | `UnregisterRemoves`, violated |
| `OnuCachePolled` | 1 ONU, 2 names, 1 request, 1 poll of each kind, 1 change, `FairSpec` | `IInv`, `UnregisterClears`, `EventuallyCurrent` |
| `OnuCacheRequests` | 2 ONUs, 1 name, 2 requests, no poll, 1 change, symmetry | `ListAfterProvision`, `FreshUnlessLate` |
| `OltConfigSafety` | 2 OLTs, 2 requests, 2 addresses, symmetry | `IInv`, `Remembered`, `GhostOnlyByOverlap` |
| `UserAdminSafety` | 2 users, 2 requests, 2 passwords, symmetry | `IInv`, `NothingLost`, `SuperadminStays` |
| `UserAdminLast` | 2 users, 2 requests, 1 password | `SomeSuperadmin`, violated |
| `TelnetBatchSafety` | 1 id, 2 serial numbers, 2 requests, 1 stray prompt, in one session, symmetry | `IInv`, `SuccessMeansApplied`, `ProvisionedIsMine`, `ForeignSettingsReported`, `RebootNotDeclined` |
| `IndexSync` | 2 OLTs, the ticker and 1 triggered sync, 2 changes, 1 fault, `FairSpec` | `IInv`, `DeletedLeavesSearch`, `OlderOnlyByOverlap`, `EventuallyIndexed`, `CreatedIsIndexed` |
| `Pollers` | both pollers, 2 OLTs, up to 2 PONs, 1 at a time, `FairSpec` | `IInv`, `QuietAfterStop`, `ClientOutlivesWalks`, `ShutdownEnds`, `PolledForEver` |
| `LoginThrottle` | 1 user and the empty name, 1 client, 3 requests, limits of 3 hits in a window of 1 and 2 failures for a lock of 3, 5 ticks, symmetry | `IInv`, `RateBounded`, `RefusedOnlyAtLimit`, `FailuresBounded`, `LockedOnlyAfterFailures`, `LiftedOnlyByEarlier` |

Deadlock is checked in all of them.

What they show:

- `OltManagerSafety`: the operation lock is exclusive as long as the OLT stays
  registered; two operations on one OLT overlap only if its channel was
  deleted under one of them. No release takes another's token, no channel or
  client serves two OLTs, `mu` and the client mutexes are released on every
  way out, the panic included. A client is looked up before a wait, yet never
  closed while an exchange runs on it: `Close` takes the client's mutex.
- `OltManagerLive`: no cyclic wait among `mu`, client mutexes and channels,
  although `mu` is held across a dial and across `Close`, and `GetAdapter`
  takes it with the channel held; and `OltManager` behaves as `SnmpSerial`.
- `OnuCachePolled`: after an unregister has deleted the OLT's keys, an entry exists
  only if a walk or poll that had its client before stored it. And no stale value
  is for ever: once the device stays as it is, the list ends up right. That rests on
  every entry having a time to live, the names entry included, and on nothing else.
- `OnuCacheRequests`: the only way an entry can hide a provisioned ONU after its
  invalidation is a walk that had begun to read before. A forced request may join
  another's walk; it misses an ONU only if that walk was reading when it came, not
  if it was still waiting for the client or the operation lock.
- `OltConfigSafety`: requests on different OLTs, however they interleave, with
  Saves that fail before or after the truncation, overlap or are cut by a crash, leave the registry and the
  configuration of each OLT right, and the file as soon as a Save by itself
  succeeds. An entry without its address needs two requests about the same OLT, or a
  Save that broke off in the middle of it.
- `UserAdminSafety`: an update is lost only to another about the same user,
  and the check of the last superadmin fails only against a second request
  that takes a superadmin away at the same time.
- `TelnetBatchSafety`: counting prompts is right as long as no prompt character
  is inside the output; each stray one takes the last unread command out of
  what a success vouches for, and no more. Of two requests for one id at most
  one answers success. The other has by then set up the first's ONU with its own
  settings, although its answer says "Provisioning stopped due to OLT error"
  (`service/provisioning_service.go:82`): the batch was typed as a whole, and
  the OLT went on. All that holds is that such settings come with a failure or
  a request under way. A reboot is declined by its own "exit" only after a
  stray prompt or a failed read, and then still answers success.

- `IndexSync`: the index gets older only at the end of a sync that met another, so
  the ticker alone never does it; a deleted OLT is found only until the next
  sync that began after the delete; and with the search enabled and everything
  else at rest the index ends up right, after failed walks, blank names, older
  stores and restarts. A create gets its OLT into the index even without a
  ticker, as its sync lists the registry after the OLT was registered.
- `Pollers`: `Stop` returns only when nothing of a poller runs, and both do after a
  signal, whatever was under way; failed polls end no goroutine; no walk
  outlives the client of its poll. An OLT created after the start is never
  listed, hence never polled: the code has no place that would.
- `LoginThrottle`: at the seam of two windows a client passes twice the limit, and
  no more. Attempts compared at the same time have all passed a check that none
  of their outcomes could count in, so a lock comes late by at most one failure for
  each other request. A lock is lifted before its time by a success that was
  under way when it was set, and by nothing else.

Two properties are violated. Both are sentences of the code's comments or of
`src/API.md`, and findings in `PROJECT.json`: the OLT that cannot be removed because
its client never connected, and the last superadmin demoted by two requests.
Where the passing runs say "only if", the exception does happen: the
operation lock is replaced under an operation by an update, a forced list
request joins a walk that began before it came, and an OLT deleted while its create is
still fetching VLAN profiles stays configured.

### Bounds, and why they are enough

- Two goroutines or requests: each property relates at most two of them, and
  each hazard is a race of one with another. The theorems of section 5 remove
  the bound for every safety property.
- Two OLTs (users, ONUs): one that something happens to and one that must not
  be touched. One OLT is enough for liveness, where a second only adds calls
  that need `mu`.
- Clients and channels: one per OLT in the map and one per goroutine, so
  that `FreshLock` and `FreshClient` are never empty: 4 for 2 and 2, 3 for 1
  and 2.
- `MaxChanges = 1` bounds the changes of the device: a stale value needs one
  change between a read and a write. It bounds nothing else, and all other
  variables are finite by themselves.
- No poll in `OnuCacheRequests`: polls write the cache only, which a forced request
  does not read, and the requests store lists themselves. What a poll that began
  before the invalidation stores is in `Invariance` of section 5, for any number of
  polls and ONUs. Two ONUs, as an empty list is not stored: a list that hides
  one has another.
- Two names in `OnuCachePolled`, so that a wrong name differs from a right
  one; two addresses and two passwords for the same reason.
- One id in `TelnetBatchSafety`: sessions about different ids share nothing.
  `MaxStray = 1` bounds stray prompts per session, and the constraint
  `StraysOfOne` the sessions that meet them. The theorems remove the bound, but
  for `ForeignSettingsReported`, which holds only while a session meets fewer stray
  prompts than it has commands.
- `IndexSync`: two changes are a create and a delete, or a change of a device on
  either side of a walk; one fault is a failed walk, a walk without names, a
  failed store or a restart. One triggered sync beside the ticker's makes every
  pair that can meet.
- `Pollers`: `Width = 1` with two PONs lets one wait at a full semaphore, as eight of
  sixteen do in the code.
- `LoginThrottle`: small limits and lengths keep what matters: a window shorter than
  the lock, a lock that ends before the clock does (`MaxTime`), more requests
  than failures that lock, and hits on both sides of a window's end.
- Symmetry is used only where invariants and action properties are checked.

## 4. Fairness

`OltManager.FairSpec`: strong fairness of each goroutine's steps inside a call.
`sync.RWMutex` and `sync.Mutex` hand over to a waiter, blocked senders of a
channel are served in order, and an SNMP exchange ends by its timeout and retry
limits; a step that is enabled again and again is therefore taken. Calls start
without fairness.

`OnuCache.FairSpec`: weak fairness of expiry alone, in the form Redis has it: an
entry expires unless it is stored anew before (`RenewList`, `RenewNames`). Nothing
obliges a poller to poll, a client to ask, a walk to end, an invalidation or scan
to be made, or a write to succeed: what hangs stores nothing.

`IndexSync.FairSpec`: weak fairness of each sync (its goroutines run, and a walk ends
by the SNMP timeout) and of the ticker. Strong fairness of the trigger of each
create: the code starts a goroutine there and waits for nothing, while the model
waits for an idle element of `Trig`, which is a bound of the model. Nothing
obliges a walk or a store to succeed; the fault bound says that failures end.

`Pollers.FairSpec`: weak fairness of every goroutine and of the signal handler, and
strong fairness of the return from the select: with the context done and the
ticker due at once Go picks at random, and does not pick the ticker for ever. A
signal is not obliged to come.

`OltConfig`, `UserAdmin`, `TelnetBatch` and `LoginThrottle` have only safety
properties and no fairness.

## 5. Proofs

Checked by TLAPS, for any sets of OLTs, goroutines, clients, channels, requests,
addresses, syncs, ONUs, sessions and users, and any limits.

`OltManagerProofs`, from `NoneAssumption` (None is none of the identifiers):

- `Invariance`: `Spec => []IInv`. `ChannelOwnership` is not inductive by
  itself. That a release takes the right token needs to know which calls have a
  channel (`LocalsOK`), that a channel in use is not given out again
  (`LocksNotShared`), that a closing call's OLT is still registered, which
  holds because `mu` excludes all others (`MutexDiscipline`), and that the
  client it closes is nobody else's (`RegisteredClientUsable`). The proof has a
  step per action and under it a step per conjunct.
- `ChannelOwnershipHolds`, `LocksNotSharedHolds`, `RegisteredClientUsableHolds`:
  conjuncts of it. `OverlapOnlyAcrossRetireHolds`: two holders whose channels
  are both the one in `opLocks` hold the same channel, so own the same token.
- `NoCloseInFlightHolds`, `NoClientDroppedHolds`: action properties, from the
  invariant before the step and a look at the only actions that change `conn`
  or `olts`.
- `ImplementsGateHolds`: with the refinement mapping `gatePhase`, `gateAt`,
  `gateStale`, a lookup is an arrival, a send an admission, a release or an
  ended context a leave, a deletion a retirement, and every other step a
  stutter. The admission is the case that needs the invariant: had one that is
  not stale been inside, it would own the same channel and the send would block.

`OltConfigProofs`, from `OltConfigAssumption` (the empty address and None are
no addresses):

- `Invariance`: `Spec => []IInv`. `Remembered` speaks of OLTs at rest; to be
  inductive it needs how far the three copies are at each place of a handler
  (`Underway`, `Progress`), that the file, or the text on its way to it, lags
  only for a request that has yet to save (`FileCurrent`, `TextCurrent`), and
  that a Save not marked `mixed` is the only one (`SoleWriter`).
- `RememberedHolds`, `GhostOnlyByOverlapHolds`: consequences of it. Of a Save that breaks
  off, `SaveBreaksIInv` shows that it leaves a file no property speaks of until the next
  Save by itself.

`IndexSyncProofs`, from `IndexSyncAssumption` (the values that mark walks are different
and no items):

- `Invariance`: `Spec => []IInv`. `DeletedLeavesSearch` needs that a walk under way is of
  an OLT that is registered or was deleted since its sync listed it
  (`WalksListed`); the order of items needs that two syncs under way have both
  noticed it (`MeetingNoticed`) and that no item is newer than the device, nor a
  stored one newer than that of a sync that met no other (`VersionsOK`).
- `DeletedLeavesSearchHolds`; `OlderOnlyByOverlapHolds`: only `Store` changes the index,
  and `VersionsOK` bounds it by what the sync walked.

`PollersProofs`, from `PollersAssumption` (two pollers, positive width and number of
PONs):

- `Invariance`: `Spec => []IInv`. `QuietAfterStop` needs that PON goroutines exist only
  during the walk of their poll (`ClientOutlivesWalks`), and that a poller which
  found no OLTs has no goroutine (`RootOK`).
- `QuietAfterStopHolds`, `ClientOutlivesWalksHolds`: conjuncts of it.

`OnuCacheProofs`, from `OnuCacheAssumption` (the markers Absent and Blank
are different and no names; the number of changes is a number):

- `Invariance`: `Spec => []IInv`. The entries are written by walks, so their properties
  are first said of the walks: one that reads or has read and that no tag excuses has every
  ONU that is counted on (`WalksSee`), one that has its client when the OLT goes is
  tagged (`Unregistered`), and the ONUs counted on are on the device
  (`CountedOnAreThere`). `FreshUnlessLate` needs to know that everybody who waits is a
  member of the one flight (`WaitersAreMembers`), and that a forced request never
  takes the way through the cache (`CacheReadInOrder`).
- `ListAfterProvisionHolds`, `UnregisterClearsHolds`, `FreshUnlessLateHolds`: conjuncts of it.

`UserAdminProofs`, from `UserAdminAssumption` (None is no user, password, account or
change):

- `Invariance`: `Spec => []IInv`. `NothingLost` speaks of users nobody is busy with; in
  between, a request alone about its user writes what it is asked for over an
  account that is still as the others left it (`AsAsked`). `SuperadminStays` needs that
  whoever takes a superadmin away is alone in that and leaves another
  (`OneRemoves`), which is what `LastSuperadmin` counted, as `AnotherSuperadmin` shows
  with the theorem on the cardinality of a singleton.
- `NothingLostHolds`, `SuperadminStaysHolds`: conjuncts of it.

`TelnetBatchProofs`, from `TelnetBatchAssumption` (None is no serial number or id; there
is an id):

- `Invariance`: `Spec => []IInv`. A batch matches prompts with commands by counting, and
  so does the proof: pieces read and unread are as many as commands executed and
  stray prompts (`OutputCounted`), and a rejection that was not read yet is no further
  on in the output than these two count. What a success vouches for follows when the
  pieces read are `Len(Batch)`. `RegisteredStays` and `InputOK` carry the first command
  of a batch, `SettingsExplained` the request that made foreign settings;
  `Lockstep` is that a reboot without a stray prompt has one line or one piece on its way.
- `SuccessMeansAppliedHolds`, `RebootNotDeclinedHolds`: conjuncts of it.
- `ProvisionedIsMineHolds`: a success with fewer stray prompts than commands vouches for
  the "onu" command, and its serial number stays. With as many stray prompts as
  commands the success vouches for nothing and the property fails, which TLC shows
  with `MaxStray = 4`; the property says so.
- `ForeignSettingsReportedHolds`: under `MaxStray < Len(Batch)`, for the same reason.

`LoginThrottleProofs`, from `LoginThrottleAssumption` (positive limits and lengths, finitely
many requests):

- `Invariance`: `Spec => []IInv`. A request past `isLocked` whose user is locked was there
  before the lock (`LockCameLater`): the check lets nobody by while the lock lasts,
  and the failure that sets it finds the others. `HitsCounted`: an attempt belongs to
  one window, no two of a window have the same number, windows do not overlap, and
  the present one has all its attempts in the history. `FailuresCounted`: the entry
  of a user counts failures there were, its lock is that of one of them, and until a
  span as long as a lock is over (`SpanOK`), either its failures are all in the
  entry, or a lock was set that outlasts it, and only the requests past `isLocked` may
  still add to them: a failure is one more in the span and one less of these.
- `RateBoundedHolds`: of three windows with an attempt in the span, two would have to
  overlap (`TwoWindows`), so the number of an attempt, raised by the limit in one of
  the two, tells it from all others, and the pigeonhole theorem bounds them.
  `RefusedOnlyAtLimitHolds`: the same theorem, from numbers to attempts.
- `FailuresBoundedHolds`, `LockedOnlyAfterFailuresHolds`: from `FailuresCounted`.
- `LiftedOnlyByEarlierHolds`: among the steps that change a lock, a failure never
  ends one, and a success comes from such a request.

`IfIndex`, in `IndexSyncProofs`, for all integers in the ranges named: `RoundTrip` (board and
PON come back if both are below 256), `Injective`, and `Alias` (a PON past 255 has the
index of a later board's, which the handlers do not exclude).

TLC checks the inductive invariants first, as `IInv` in the runs. The proofs found two
formulas too weak or too strong: the invariant of `OnuCache` has to say that a request
which merges names has a list for them, and `ProvisionedIsMine` has to except
sessions of many stray prompts.

Only model-checked: the liveness properties `EveryCallReturns`, `EventuallyCurrent`,
`EventuallyIndexed`, `CreatedIsIndexed`, `ShutdownEnds` and `PolledForEver` (the prover has no
ENABLED, so nothing follows from fairness), and the two properties that are
violated. Every invariant and action property of the passing runs is a theorem.
Induction over data and RECURSIVE operators are out of the prover's reach too; no
module uses the latter, and the histories of `LoginThrottle` are sets because sums
over time would have needed the former.

## 6. Not modelled, and why

- What an exchange returns, OID handling, parsing, firmware adapters, VLAN
  profile parsing: conversions of values without state.
- Tokens and password hashes: cryptography. A role stays that of the token for a
  day after it was changed; plain from the code, which keeps no list of tokens.
- The activity log: one append per request to a bounded list.
- The time to live a poll gives its entries, and `poll_interval`: the models of
  the cache have no clock, so an interval longer than an entry lives is not seen.
- Why a forced list request fails: that a walk ends with the context of the
  request that leads it is in `OnuCache` (all members get `Err`), but no property
  is stated, as no document promises the members otherwise.
- That a blank name is put right: `EventuallyCurrent` takes a `Blank` for a current name,
  as a failed name walk stores blanks and name walks may fail for ever.
- Detail, PON list and health entries of the cache: the same read-walk-store
  pattern as the list, without merging.
- Routing and formatting; the tools under `src/cmd/test_*`; the installer.
- Credentials and VLAN profile values of an entry: no property is about them.

## 7. Abstractions to know

- Sections under the read lock of `mu` are single steps: nothing can change
  under them.
- A list request's three walks before `GetAdapter` are one exchange of
  `OltManager`: between two of them it holds the channel and no mutex, as it
  does between that exchange and the next.
- Time is not modelled except in `LoginThrottle`: elsewhere a timeout is a choice
  that is always open. There the clock is read in the step that takes the mutex;
  the code reads it just before.
- `IndexSync` and `Pollers` take the registry's operations as steps of an environment;
  `OltManager` has them in detail.
- A crash leaves Redis as it is.

## 8. Plan

Done, in this order: `OltManager` with `SnmpSerial` and its proofs, `OnuCache`,
`OltConfig` with its proofs, `UserAdmin`, `TelnetBatch`, `IndexSync`, `Pollers` and
`LoginThrottle` with their proofs, `IfIndex`; then the proofs of `UserAdmin`, `OnuCache` and
`TelnetBatch`, and of what `LoginThrottle` counts.

Next, proofs: a gate-like abstract specification for `OltConfig` (an atomic store per OLT),
refined where requests do not overlap.

Next, models, if room is left: a clock for the cache entries, so that a poll
interval longer than an entry lives shows; the activity log.
