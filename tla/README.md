# Verification of GhostRoutePanel

TLA+ specifications of GhostRoutePanel, the TLC configurations that check them, and the theorems
about them that TLAPS has checked. Paths in this file are relative to the repository's root
(`src/core/app.cpp`); `PROJECT.json` prefixes them with the directory the repository lies in
(`src/src/core/app.cpp`).

Contents: 1 inventory, 2 what is hard, 3 modules, 4 runs, 5 proofs, 6 where the code does not keep
what it promises, 7 assumptions and limits, 8 not modelled, 9 what could follow.

## 1. Inventory

`ghostroute-panel` (src/main.cpp, `App`) is an HTTP server whose handlers run in the threads of
httplib's pool, plus one health worker thread. `ghostroute` (cli/ghostroute.cpp) is a second program
that works on the same database and the same configuration files. Two VPN cores, Xray and Hysteria,
are systemd services that read those files. Shell scripts install the machine, write the first
configurations and replace the installation by a newer release.

| Component | State | Operations | Interaction | What makes it correct |
|---|---|---|---|---|
| User table (`Database`, App's `/api/users` routes, CLI `user`) | table `users`; `sqlite3_changes` of a connection; the handler's locals | create, patch, reset, delete, list | all handler threads share one connection; each CLI process opens its own; no transactions, no busy timeout | a request takes effect in full, on the row it was addressed to, or not at all, and the answer says which; a deleted user stays deleted |
| Core configuration (`XrayManager`, `HysteriaManager`) | two files, the state of two services, the `ofstream` buffer | `sync_users`, `reload` | called by every handler and CLI command that changes a user; no lock | a file is whole and lists the enabled users; a core is only made to read a file it can load, and serves what it lists |
| `App::sync_vpn_users` and the CLI's copy of it | none | list, then Xray, then Hysteria | joins the two above | files and cores follow the table |
| `HealthService` | `running_`, the worker, table `server_health` | start, stop, tick (probe, record, restart) | shares the panel's connection; restarts the cores that the managers also restart | a core that is down is restarted; what is recorded is what was found; stop ends the worker |
| `ProvisionService`, scripts/provision-*.sh | the configuration files, the cores | install, nginx, xray, hysteria, full | overwrite the files the managers write | what they break, the next sync repairs |
| Tenants (`TenantResolver`, `resolve_tenant_id`, `ensure_tenant`, CLI `--tenant`, `tenant add`) | table `tenants`; the last row id of a connection | resolve, ensure | before every request and every CLI command | a tenant exists once; a request works on its own tenant |
| `SystemStats`, `AlertService` | static previous CPU sample; table `alerts` | sample, check_server_load | every handler thread, without a lock | a load is a percentage; an alert has a reason |
| `AutoUpdater`, self-update.sh | the installed files, the panel service | check_and_update | CLI only; stops and starts the panel | one whole release is installed and runs |
| `App::run` | the services | start, stop | creates everything, joins the worker | what runs is stopped and started again without loss |
| `AnalyticsService`, `Config`, `GeoIpService`, `parse_size`, web UI | none that the program changes | read | | not modelled (section 8) |

## 2. What is hard in this code

* *One connection, many threads.* SQLite's serialized mode makes a `sqlite3_step` atomic and nothing
  more. `update_user` reads, merges and writes in separate statements, and `sqlite3_changes(db_)` is
  asked of the connection after other threads may have used it.
* *Two programs, one database.* Without a busy timeout a statement that meets the other program's lock
  fails at once with `SQLITE_BUSY`, which most of `Database` takes for "no row"; a write may also be rolled back
  at its commit, when it has already set what `sqlite3_changes` or `last_insert_rowid` return.
* *Files without locks.* Every sync truncates and rewrites both files; writers overlap in every way,
  a stream writes at its own offset, and what it writes stays in its buffer until its destructor runs
  unless the text is longer than the buffer. The provisioning scripts write the same files.
* *Reload inside the scope of the stream.* `sync_users` returns `reload()`, so the destructor of `out`
  runs after the core was told to read the file.
* *A list is data from the past.* Between `list_users` and the last write of a file, any number of other
  requests may run from start to end.
* *Services that start on their own time, or not at all.* `systemctl` may return before the core has read
  anything, and where it fails no caller of a sync hears of it.
* *Processes that end in the middle.* A CLI process is interrupted, the panel is stopped by
  self-update.sh or killed while its threads write files; a panel that starts does not sync.
* *A watchdog among other actors.* The health worker sees a core only through a process list that other
  processes can match, restarts cores that a sync or a script is restarting too, shares the panel's
  connection, and must end when `App::run` returns, wherever it is.
* *A static variable as state.* All handler threads read and write the previous CPU sample without a
  lock, and subtract samples as unsigned numbers.
* *Tenants that come about by being named.* `ensure_tenant` looks and inserts in two statements, in
  every process, and returns `last_insert_rowid` whatever came of the INSERT.
* *An update that is not alone.* Nothing keeps two updates apart; one unpacks over the files that the
  other has just started.

`PROJECT.json` lists these and the remaining hazards one by one, each at its line, with the properties
that cover it.

## 3. Modules

```
UserTable      what the user operations promise
UserStore      the handlers, SQL statement by SQL statement      implements UserTable (one handler)
CoreService    what a sync amounts to for the cores
CoreConfig     the two managers, system call by system call      implements CoreService (one writer)
PanelSync      EXTENDS UserStore, INSTANCE CoreConfig: a request from its first statement to its answer;
               implements UserStore and CoreConfig
Host           EXTENDS CoreConfig: syncs among provisioning scripts, the health worker and processes
               that end in the middle
Health         the health worker, App::run around it, and what happens to the cores meanwhile
Monitor        the CPU sample of GET /api/system/stats and the overload alert
Tenants        how tenants come about and how a request finds its own
Updater        ghostroute update and self-update.sh

UserStoreProofs, CoreConfigProofs, PanelSyncProofs, HostProofs,
HealthProofs, MonitorProofs, TenantsProofs, UpdaterProofs         theorems

MCUserStore, MCCoreConfig, MCPanelSync, MCHost,
MCMonitor, MCTenants, MCUpdater                                   instances for TLC
```

**UserTable.** A client has at most one request outstanding; it takes effect at once or is dropped.

**UserStore.** `users` is the table (`Keys` are its UNIQUE pairs), `idOf` the table `tenants` as the id of
each slug, `changes` the change counter of each connection, `h` what each client is running: the statement it
is at and the handler's locals (`tid`, the row `update_user` read, the enabled users that `list_users` gave).
A request names its tenant by a slug, which may be one that no tenant has: the panel then works on tenant 1, a
CLI command creates the tenant. `via` is history: whether `tid` was found (`named`), is the panel's tenant 1
(`fallback`), that of a tenant the command has created (`enrolled`) or the id of one whose INSERT was rolled
back (`lost`).

| Action | Code |
|---|---|
| `Begin` | a request reaches a thread; a CLI process starts |
| `Resolve` | `tenant_id_by_slug`, then `value_or(1)` in the panel or `ensure_tenant` in the CLI |
| `Ensure`, `Enroll` | `ensure_tenant`: it looks again, then inserts the slug and returns `last_insert_rowid`, whatever came of the INSERT |
| `Select`, `SelectNothing` | `user_by_name` inside `update_user` |
| `Insert`, `InsertFails` | `create_user`, which throws when its INSERT fails: the name is taken, the tenant does not exist, a lock is met, or two threads in `uuid_v4` at once drew one uuid from the generator they share |
| `Update`, `Reset` | the UPDATE of `update_user` and `reset_user_traffic`: a row, no row, or refused with its result ignored |
| `Check` | `sqlite3_changes(db_) > 0` and the answer it leads to |
| `Delete` | `delete_user`, whose result nobody looks at |
| `List`, `Finish` | `list_users`, then the sync and the answer |
| `OtherWrite` | `update_service_health`, `insert_alert` on the panel's connection |

`SQLITE_BUSY` is a possible outcome whenever another process is at a statement that can hold the lock
(`Contended`). A refused UPDATE may leave the counter of the connection as it was, or set it to 0, depending
on whether it failed to get its lock or to commit; both are modelled. For the same reason `Enroll` has three
outcomes: the row, no row and id 0, no row and the id that was rolled back. `OtherStatements` switches the
statements on other tables on and off. UserTable's requests name a tenant by its id: `Pending` is the request
with the tenant its slug resolves to (`AddressedTo`).

**CoreService.** A writer is given a list and hands it to one core after the other; at that moment the core
serves the list (`Prompt`), keeps what it served (`Kept`) or stops, which depends on the core and the list
alone, except that a list may be handed over in vain (`stale`): the core then keeps what it served, or stops.

**CoreConfig.** `file` is what a reader of each file finds: the users the text lists, its length, and the
users that a longer, older text may have left behind its end (`tail`). `core` is what each service does, `w`
the sync each writer runs. `Begin`, `Open` (truncates, or fails), `Write` (`out << text`: into the buffer or,
when the text is at least `BufSize` long, to the file), `Test` (`xray run -test`), `Reload`, `Close` (the
destructor). `Overlay` is a write at offset 0 over what is there. `Loads` is what a core makes of a file: it
exits on an empty one, serves a complete one, and with a remnant behind the text may do either. `Notifying` is
the set of cores whose unit makes `systemctl` wait until they have read their file; the others are `Starting`
and read it in a step of their own, `Start`. `Reload` is either a `systemctl` that succeeds (`Restarts`) or
one that fails (`RestartFails`: the core runs on as it did, or is stopped and not started), and goes on alike,
as the code does. The history variable `stale` has the cores that the last sync to begin failed to restart
while no other sync ran, until somebody restarts them. Seen as CoreService (`Service`), the handing over is
`Reload`, or the `Test` that keeps xray from it: `Prompt` are the lists too long for the buffer, `Kept` those
that fit it in xray's case, and every list if the file cannot be opened.

**PanelSync** runs `UserStore`'s statements, hands the list of `List` to `CoreConfig`'s `Begin`, lets the
client take `CoreConfig`'s steps and answers when both managers have returned. The history variable `overlap`
records whether two requests have been in progress at once since a list was last read by a request that was
alone. `EntitledOf(t)` are the enabled users of tenant t, and `Resolvable` the ids that a request can have
resolved: tenants that exist, tenant 1, and in the CLI also none (id 0) or one that was rolled back.

**Host.** The syncs of `CoreConfig`, and around them: `script`, a provisioning script (`Provision`,
`ScriptOpens`, `ScriptWrites`, `ScriptRestarts`: `cat > "$CFG"` truncates, writes a configuration without
users, and the core is restarted, or is not and the failure is hidden); `watch`, the part of the health worker
that touches the cores (`Probe`, `WatchRestarts`, `WatchFails`; `Matches` and `ShellMatches` are those of
Health); and the ends of processes, `PanelEnds` (all its threads lose what their streams have buffered),
`PanelStarts` (nothing is synced), `CliEnds`, `CoreEnds`. The history variable `calm` is the last writer to
begin a sync, as long as nobody else has begun to write since.

**Health.** `main` is what `App::run` does, `running` is `running_`, `worker` the thread: its step, the core
`tick()` is at and what `is_alive` returned; `status` is `server_health.status`, `proc` each core's
process. `Stop` and `Join` are the two halves of `stop()`. `Loop`, `Probe`, `Record`, `Restart`, `Rerecord`
and `Wake` are the steps of `start()`'s loop and of `tick()`. `Matches` is what `pgrep -f` finds: the core,
an `xray run -test` of a sync, and, with `ShellMatches`, the shell that runs `pgrep` itself (dash stays
in the process list while the last command of `sh -c` runs; bash replaces itself by it). The environment
crashes cores, reloads them from a sync, refuses statements, fails restarts, runs `-test` and kills the
panel; `MaxFaults` bounds how often, a relaunch follows at will. The module needs no MC module: its
constants are two flags and a number. `Health` has the record and the worker's life, `Host` the files
the restarts read; they share the probe and the restart.

**Monitor.** `kernel` is /proc/stat with two parts, busy and idle ticks; `prev` and `hasPrev` are
the static variables of `cpu_usage_percent`, `t` what each thread computes from them. The data race on
the static variables is modelled by letting a thread touch their parts one at a time in any order
(`First`, `Load`, `Store`), `has_prev` possibly before the sample. `Minus` is unsigned subtraction modulo
`Word`. `Decide` is the percentage and `check_server_load`'s comparison, `Alert` its INSERT. `alone`,
`since` and `last` are history.

**Tenants.** `tenants` is the table (ids are positions, since rows are never deleted), `users` the users with
the tenant that was asked for (history), `p` what each process and each thread of the panel does. `Launch`,
`Migrate`, `Lookup`, `Ensure`, `Insert`, `Create`, `Done` are a CLI command from `main` to its exit,
`LaunchPanel` and the same `Migrate`, `Ensure`, `Insert` the start of `App::run`, `Request` and `Resolve` what
a handler does (`Resolved` is `TenantResolver`: header, first label of `Host`, default). Any statement may be
refused while another process is active, and `Ends` ends a process anywhere. An INSERT that is refused when it
commits is rolled back, but `last_insert_rowid` keeps the id it had taken, which another process may take
next; `lost` records it (history).

**Updater.** `installed` is the release each file is from, `panel` whether it runs and the files it was
started from, `u` each update: `Check`, `Script` (is there a URL), `Stop`, `Download`, `Unpack` file by file,
`Start`, `End`. `Failed` is what `set -e` and `pipefail` make of an error, `Interrupt` ends an update anywhere,
`Publish` brings a new release out.

Every property is preceded by a comment that says what it means for the code. Operators marked
"A variant with a bug" are not part of a specification: they are the mutations with which each property
is tried out (`PROJECT.json`, "mutants").

## 4. Runs

All runs check deadlock. Two runs check liveness. `health_recovers` does so under weak fairness of the worker
(a thread that is runnable gets to run, `sleep_for` a finite interval ends, `pgrep` and `systemctl` return),
of `Join` (`std::thread::join` returns once the thread has ended) and of the end of a `-test` run;
`host_faults` under weak fairness of the probe and of a core that was started and is to read its file, and
strong fairness of `WatchRestarts`: a restart that the worker tries again and again does not fail for ever. In
`health_recovers` the same is said by `MaxFaults`: the failures, of whatever kind, are finitely many, so that
the properties say what holds once they are over. Both runs set `ShellMatches` to FALSE, which is stated in
the antecedent of `CoresComeToServe`; where `pgrep` finds its own shell, neither holds (section 6). Nothing is
assumed of requests, crashes, syncs, scripts or of anyone who stops or starts a process.

| Run | Instance | Result |
|---|---|---|
| store_one_thread | one thread, two slugs of which one may name no tenant, every patch of one or several columns with two values of each limit, other statements (43 740 states) | `TypeOK`, `ImplementsTable`: the statements of a request amount to one atomic operation |
| store_panel_and_clis | a thread, two CLI processes, other statements; three slugs, two of which are created meanwhile; one name (753 658 states) | `CliReplyTruthful`, `AppearsOnlyByCreate`, `RowsChangeForTheirTenant` |
| core_one_writer | one writer, three lists, some texts buffered and others not; systemctl waits for both cores and may fail | `TypeOK`, `XrayStaysUp`, `ServesOneList`, `WrittenWhenReloaded`, `QuietMeansServed`, `ImplementsService`: for the cores, a sync is one atomic handing over to each |
| core_three_writers | three writers, three lists, Hysteria's file cannot be opened, systemctl waits for no core | `EmptyIsOwed`, `QuietFileIsALastList`, `QuietFileHoldsNobodyElse` |
| panel_serial | two threads, two tenants of one user each and a slug that names none, other statements, create, disable, delete; systemctl waits for xray only and may fail (2 487 644 states) | `SerialRequestsSettleFiles`, `SerialRequestsSettleCores` |
| host_faults | a thread of the panel and a CLI process, one user, all scripts, any number of crashes, ends of processes and failing restarts; xray's text bypasses the buffer, Hysteria's does not | `HostTypeOK`, `UndisturbedSyncSettles`, `SettledCoresServeNobodyElse`, `OnlyEndsStrand`, `CoresComeToServe` |
| health_recovers | four faults, automatic restart, a shell that pgrep does not match | `TypeOK`, `NothingAfterStop`, `StopReturns`, `Recovers`, `RecordSettles` |
| monitor_threads | two threads, counters up to 2 that start anywhere, words of 3 bits, threshold 85 | `TypeOK`, `LoneLoadInRange`, `SerialLoadTrue`, `SerialAlertsTrue` |
| tenants_race | two CLI processes, the panel and a thread of it, two slugs, one name | `TypeOK`, `OneTenantPerSlug`, `UsersInTheirTenant`, `CommandTakesEffect` |
| updater_race | three updates, two releases of two files | `TypeOK`, `LoneOkInstalls`, `LoneOkRuns`, `StoppedOnlyByFailure` |
| store_false_not_found, panel_two_tenants | the smallest instance that shows it | violated; see section 6 |

Why the bounds are enough. A statement names one row, so requests on different keys meet only in the change
counter of the connection and in locks; one user, with a handler that creates, patches and deletes it and
another that does the same, has every conflict of two requests. In `store_panel_and_clis` the two CLI
processes create two tenants, so that an id that was rolled back can be taken by the other one, and the panel
names a tenant while it comes about; its three connections have every conflict of two. Two values of each
limit tell an overwritten value from a kept one. Two users give texts of three lengths, so that a shorter text
over a longer one, an equal one and a longer one all occur; `BufSize` lies between those lengths, so buffered
and direct writes meet. Three writers allow a file that is opened by a second and filled by a third writer
while the first one tests it. In `panel_serial` both threads change both tenants, one of them also by a slug
that names no tenant, so that the files pass from the users of one tenant to those of the other in every
order. In `host_faults` the lists of a sync and of a script differ in content and length, for Xray in one
direction and for Hysteria in the other, and each of the four kinds of actor (thread, CLI, script, worker) can
be between any two steps of the others; a second thread of the panel would differ from the CLI process only in
ending together with the first. Four faults give, in one behaviour of Health, a crash, a failed restart, a
refused record and a `-test` run or a killed panel, in any order: each of them once more than a single pass of
`tick()` over a core can meet. Two threads that share a static variable can tear each part of it, and with
counters up to 2 and words of 3 bits every sign and every wrap of a difference occurs (`MonitorAssumption`
states that the counters stay below half a word, which 64-bit ticks do). Two CLI processes and the panel race
pairwise for either tenant, in either order of creation. Of three updates two can overlap while the third
follows alone. `MaxTicks`, `MaxReleases`, `MaxFaults` and `MaxTenants` (never reached by an INSERT that finds
no id left, as no run with CLI processes has more slugs than it allows tenants) are the only bounds in the
guards. The theorems remove the bounds for the properties proved.

## 5. Proofs

The theorems hold for any sets of clients, tenants, names, users and lists, any lengths of texts and any
`BufSize`, any numbers of threads, processes, updates, releases and faults. What they assume of the constants
is stated by `StoreAssumption` (clients of different processes do not share a connection; a creation names its
limits; the ids of the tenants are 1, 2, ... and no two slugs share one), `CoreAssumption` (lists are sets of
users; a text is not empty), `PanelAssumption` (the same for the texts of a panel's lists), `HostAssumption`,
`MonitorAssumption` (a word holds more than twice the counters), `TenantsAssumption` and `UpdaterAssumption`;
TLC evaluates each of them in a run. `HealthAssumption` only gives the three settings their types. What a
single theorem assumes besides is a definition that its statement names:

| Definition | Meaning | Without it |
|---|---|---|
| `OneWriter` | one sync at a time | two syncs truncate each other's files between `-test` and reload |
| `OneProcess` | no CLI process | a lookup that meets a lock ends in another tenant, and tenants come about meanwhile |
| `OneHandler` | one request at a time | one of two patches is undone |
| `PatchesIndependent` | each patch names `enabled` and both limits (a limit that has one value only need not be named), or no other client asks for a change of its row, by whatever slug | the same |
| `OneClientPerConnection` | no connection is shared, by threads or by other statements | the false "user not found" |
| `LocksAreRequests` | no CLI process, or no other statements | a request that is alone reads an empty list because the health worker has the lock |
| `ListFits` | `ListLimit` is not below the number of names | the list lacks users |
| `LonePanel` | one tenant (`MaxTenants = 1`), `OneProcess`, `ListFits`, files that can be written | the files list one tenant, or stay as they are |

*UserStoreProofs.* `TypeCorrect` proves `TypeOK`, from the inductive `TypeInv`: a busy handler serves a
request of its client, and a patch has read a row before its UPDATE (without that, the merged row would have
no type). `OnlyCreateAdds` proves `AppearsOnlyByCreate` from it: `Update` writes only where there is a row, no
other statement but `Insert` adds one. `CliRepliesAreTruthful` proves `CliReplyTruthful`, which is not
inductive: a CLI process may reach `check` after a refused UPDATE, and its answer is right only because
nothing but its own statements has raised the counter of its connection since it began. The strengthening
(`CliInv`) says that the counter of a CLI connection is 0 until its write statement, or 1 if the command has
just created its tenant (`via` is `enrolled`), and then agrees with the outcome, except where an `enrolled`
command's UPDATE was refused: there `Refused` may leave the 1 of the INSERT, which is the exception the
property states. That other clients cannot disturb the counter rests on `StoreAssumption`.

`RowsStayWithTheirTenant` holds for any processes. `Traced` says of a handler that is at its statement where
its id is from: it is that of the tenant its request names, tenant 1 in a panel that found none, 0, or the id
of an INSERT that was rolled back. Tenants keep their ids (`TenantsStay`), so that an id once found stays
right while other processes create tenants, and only a statement changes rows, those of the handler's own key
(`TenantStep`). An id 0 changes none: no row has a tenant that is not in the table `tenants`
(`NoRowWithoutTenant`, from the foreign key that `Insert` checks).

Without a second process nothing is `Contended`, and no tenant is created: then a handler that is past
`Resolve` works on the tenant its slug resolves to (`Addressed`), which the refinement needs.
`IndependentPatchesImplementTable` is the refinement, for any number of handlers: the UPDATE that writes the
merged row is UserTable's `Apply`, and every other statement is a stutter, a beginning or an end
(`TableStep`). What that needs is that the merge of a patch with the row it has read equals the merge with the
row there is now (`MergesCurrent`). It holds of a patch that leaves none of the three columns to be written
back (`Overwrites`, `Determined`), and of one whose row no other client asks to change (`HasRowToItself`):
that row is still in the table as the patch has read it (`ReadHolds`), because a statement of another client
works on the row its own request names (`Addressed`, `RowLeftAlone`). So the missing transaction in
`update_user` matters exactly to two requests for one row of which one is a patch that leaves a column out.
`OneHandlerImplementsTable` is the case of one handler. `NoFalseNotFound`, which a run shows to fail, is a
theorem for clients that have their connections to themselves (`LoneRepliesAreTruthful`): `StepCounts` says
that a step counts on the connection of its own client only.

*CoreConfigProofs.* `IInv` is the inductive invariant for any number of writers: `TypeOK`; text is in a buffer
only inside `sync_users` (`BufferedInSync`); an empty file is about to be filled by somebody who still holds
its text (`EmptyIsOwed`); and each file lists the last list of some writer or is owed one
(`FileListedOrOwed`). `EmptyIsOwed` needs `BufferedInSync`, since a buffer that survived `sync_users` could be
dropped by the next one. `QuietFileIsALastList` is not inductive, as it says nothing while writers run; it
follows from `IInv`, because a quiet writer owes nothing. `QuietFilesHoldNobodyElse` extends it to what is
left behind a text: whoever a file mentions is in the last list of some writer, or the file is still to be
truncated by somebody (`MentionsLastLists`); a tail is made of an earlier text, and that text was written
after the truncation which the last sync of every writer goes through. For a single writer (`OneWriter`),
`AloneInv` adds that a file is empty or one whole text, empty as long as its text is still held, and that
xray's file is not empty between the `-test` run and the reload. `LoneWriterServesOneList` and, if systemctl
waits for xray, `LoneWriterKeepsXrayUp` follow; a `systemctl` that fails puts its core into `stale` in the
same step, which is why the property speaks of the step and not of the state. `LoneWriterWritesFirst` and
`LoneWriterIsServed` need what the writer has left behind it (`LeftBehind`): each file it has passed is the
text of its list, and each core it has passed serves it, is going to, or is `stale` (`InOrder`).
`LoneWriterImplementsService` is the refinement of CoreService. Only `Reload`, and the `Test` that ends in
`close`, are steps of it (`HandingOver`); what they do to a core is decided by the phase of the stream
(`StreamInv`): the file is the text if that did not fit the buffer, and empty otherwise; a `RestartFails` is a
list handed over in vain. A core that systemctl waits for is never seen `Starting` (`NoneStarting`), and all
other steps stutter (`ServiceStutter`).

*PanelSyncProofs.* `PInv` joins `h`, `w` and the files: the two modules agree on where a client is (`Joined`);
a request is past its lookup with an id that it can have resolved (`Resolved`), which stays one when tenants
are added (`ResolvableGrows`); while `overlap` is false, at most one client is busy (`Serial`), and what the
files list is given by its phase (`Settling`): before its write statement they list what the table says of
some tenant, after it they are owed a sync (`Unsynced`), during the sync the managers already passed have the
list and the others not yet (`Phase`). Of a core that is `stale` the invariant only knows the file (`Good`).
An overlap ends only when a lone request reads a list, which is why one such request repairs everything. A
list read by a request that is alone is whole (`WholeList`), and its statements are refused by nobody
(`AloneUncontended`). `SerialRequestsKeepFiles` and `SerialRequestsKeepCores` follow for the states in which
nobody is busy, for any tenants. `PanelImplementsStore` and `PanelImplementsConf` say that the composition
runs its parts as specified: every step is one of `UserStore` or leaves the table and the handlers alone, and
likewise of `CoreConfig`, whose lists are sets of keys by `TypeInv`. What is proved of `UserStore` therefore
holds end to end, as `PanelKeepsStorePromises` states for two of its properties. The theorems of
`CoreConfigProofs` hold of `Conf` by the same argument, but tlapm cannot use a theorem of an instantiated
module, so that they are not restated here. `LonePanelFollowsTable` and `OneHandlerFollowsTable` state under
which conditions `FilesFollowTable`, which a run shows to fail, is true: one tenant, no CLI process, room in
the list, writable files, and requests that do not overlap.

*HostProofs.* `HInv` adds to `HostTypeOK` what is known of the sync of `calm` at each of its steps (`SyncOK`):
nobody else has a file open, no script runs, and each file is empty or the text, according to the step.
`UndisturbedSyncRepairs` is its value at the end. The ends of other processes do not disturb it, since they
drop buffers and write nothing. `SettledCoresAreClean` adds the cores (`CalmCoresOK`): from the reload on, a
core that has read its file in time and is not `stale` serves the list, starts, or is down, and whatever makes
it read the file again finds that list or nothing (`ReadsTheList`); whoever restarts a `stale` core takes it
out of `stale` with that list, and the restarts of others that fail change nothing or stop it.
`NobodyElseStrands` proves the action property `OnlyEndsStrand`: a file becomes empty only by an open, whose
stream then holds the text, and a stream that is closed by its own writer or script leaves a text behind
(`SyncStrandsNothing`, `ScriptStrandsNothing`; they need that a text in a buffer is that of the file the
stream has open, `Streams`).

*HealthProofs.* `TypeCorrect`, and `NothingHappensAfterStop` for any settings and number of faults. The action
property needs one fact about the states before the step: there is a worker only while `App::run` is listening
or joining (`ThreadWhileRunning`), which `Join` and `Kill` establish. `StopIsNear` is the half of
`StopReturns` that needs no fairness: while `stop()` waits, `running_` is false (`StopHeeded`), and each step
of the worker makes `StepsLeft` smaller, which is ten at most.

*MonitorProofs.* Every part of every sample, torn or not, is at most the kernel's (`AtMost`).
`LoneLoadIsPercentage` needs that a thread that is alone has loaded both parts before they change
(`RequestOK`, `LoneOK`); `SerialLoadIsTrue` that `prev` is the reading of the last call if that was alone
(`LastOK`, `KnowsPrev`, `FoundSince`). `SerialAlertsAreTrue` compares what such a call computes with the
threshold (`SerialOverload`) and carries the comparison from `Decide` to `Alert` (`AlertOK`). The last steps
are linear arithmetic about `Minus`, in lemmas of their own.

*TenantsProofs.* `Belongs` says of each user what `UsersInTheirTenant` says; `CliOK` and `ThreadOK` say it of
an id that a process still holds: of the tenant asked for, or 0, which no tenant has, or of an INSERT that was
rolled back, or in the panel 1. "user add" inserts one tenant at most (`rowid` is 0 until then), so that an
INSERT refused before it has begun leaves `last_insert_rowid` at 0, which the foreign key of the user's row
refuses. One that is refused at its commit leaves an id that nothing keeps another process from taking, and
the history variable `lost` is the condition of that exception. `CommandOK` adds that a command that was alone
has found or added its tenant (`AloneOK`) and that a "user add" that is done has added its row (`AddedOK`).
Since rows are only appended, what has been true of an id stays true.

*UpdaterProofs.* `StoppedIsOwed`: if the panel is stopped, some update that has stopped it is still to start
it, or somebody is to blame. `LoneOK`: of an update that is alone, the files it no longer has to unpack are of
its release, and from its successful stop to its start the panel is down.

Only model-checked: what must eventually happen (`StopReturns`, `Recovers`, `RecordSettles`,
`CoresComeToServe`), since liveness under fairness is out of the prover's reach. Every other property of the
passing runs is also a theorem. No module declares a recursive operator.

## 6. Where the code does not keep what it promises

Two of these are runs that TLC finds violated, with the text they contradict in `PROJECT.json` "findings".

* `store_false_not_found`: a PATCH whose UPDATE changed the row is answered 404 "user not found" and is
  not synced, because another thread's statement set the counter to 0 before `sqlite3_changes(db_)` was
  read. The opposite also happens: a reset of a user that does not exist is answered ok when the health
  worker has just recorded a status.
* `panel_two_tenants`: a change of one tenant removes the users of all the others from the cores.

The others contradict no text of the repository. They are the reasons for the conditions under which the
properties above are stated, and each shows up when its condition is dropped.

* Of two PATCHes that name different columns, one can be undone by the other (`ImplementsTable` with two
  threads).
* Of two lists, the older one can be written last and stays (`FilesFollowTable` with two threads).
* A text that fits the buffer reaches the file only after `reload()`: xray's `-test` fails on an empty
  file, so xray keeps its old users, and Hysteria is restarted on an empty file (`QuietMeansServed` without
  its condition on the length).
* The file that passed `-test` can be truncated by another writer before xray reads it (`XrayStaysUp` with
  two writers, or with one and an xray that systemctl does not wait for).
* Where `/bin/sh` is dash, `pgrep -f` always finds the `sh -c` that runs it, so `is_alive` is always true and no
  core is ever restarted (`Recovers` with `ShellMatches`).
* A tenant lookup that meets the lock of a CLI process ends in `value_or(1)`, and the request changes the
  user of the same name of tenant 1 (`RowsChangeForTheirTenant` without `fallback`).
* A `ghostroute user reset` that has just created its tenant reports success, though that tenant has no such
  user, when its UPDATE is refused: `sqlite3_changes` is still the 1 of the INSERT into `tenants`
  (`CliReplyTruthful` without its second disjunct).
* A `user add` whose INSERT into `tenants` is rolled back at its commit goes on with the id that is gone; if
  another process takes that id for another tenant, the user lands there and the command reports success
  (`UsersInTheirTenant`, `CommandTakesEffect` and `RowsChangeForTheirTenant` without `lost`).
* A `systemctl` that fails is reported to nobody: the request is answered as done while the core goes on
  serving the users it had, a deleted one included, or is down (`XrayStaysUp`, `QuietMeansServed`,
  `SerialRequestsSettleCores` and `SettledCoresServeNobodyElse` without `stale`). The worker restarts a core
  that is down; one that runs on with old users stays so until the next sync (`CoresComeToServe`).
* A request that names no known tenant works on tenant 1, which is not the default tenant if a CLI
  command created another one first; the property allows it with `u.by = "panel" /\ u.tid = 1`.
* "tenant add" prints the id of another tenant, or 0, when its INSERT is refused (`CommandTakesEffect`
  without `alone`).
* `list_users` stops at 100 rows, so that with more users the configurations lack some (`ListFits`).
* A list that is refused by a lock is taken for a list of nobody and written to both files; it takes no second
  request, only the health worker's statement at the moment a CLI command lists (`LocksAreRequests`).
* A CLI command whose lookup of its tenant and INSERT are refused goes on with tenant id 0. Its delete then
  deletes nothing, and the sync that follows writes configurations without users (`Resolvable` contains the id
  0 where there are CLI processes).
* A process that ends between the open and the flush of a file leaves it empty for good, until somebody syncs
  (`OnlyEndsStrand` without its last two disjuncts).
* Overlapping calls of `/api/system/stats` can compute a percentage far above 100 from wrapped differences and
  raise an overload alert that no load justifies (`LoneLoadInRange` without `alone`).
* Of two overlapping updates, one can start the panel on files that the other is replacing; it then runs a
  mixture of releases, and the other's start does nothing (`LoneOkRuns` without `alone`).

## 7. Assumptions and limits

* SQLite is built in its default serialized mode with rollback journal; nothing in the code sets a busy
  timeout or WAL. A statement of one process meets only statements of another one.
* `limit` and `devices` are the columns `traffic_limit_bytes` and `device_limit`. No code adds to
  `traffic_used_bytes`. Tenants are never deleted, so foreign keys do not cascade.
* `list_users` steps through its rows one by one; `List` reads them at once. Between two of its steps another
  thread of the same connection may insert or delete a row, and the list may then have it or not, as if it had
  been read before or after; with several such rows it could be a mixture of both. The runs have one user per
  tenant.
* `std::system` is taken to start its command. `systemctl` may succeed or fail; when it fails the core runs on
  as it did or is stopped and not started. What a core does after a failed reload of its own, the repository
  does not say.
* What is said of the cores (`XrayStaysUp`, `QuietMeansServed`, `ImplementsService`,
  `SerialRequestsSettleCores`, `SettledCoresServeNobodyElse`) is said of those that systemctl did not fail to
  restart, as each property states by `stale`. `Recovers` and `CoresComeToServe` hold where `pgrep -f` does
  not match its own shell.
* The lines of a user in a configuration are one unit; only lengths and the users listed matter. A name
  that breaks the YAML of Hysteria is not modelled. A core accepts a complete generated text, although
  `generate_config` leaves out the `"decryption": "none"` that provision-xray.sh writes.
* `BufSize` stands for the length from which `std::ofstream` writes at once, which depends on the
  standard library (about 1 KiB or 8 KiB with libstdc++).
* One provisioning request runs at a time. install.sh and provision-nginx.sh install packages, a web
  server and certificates; of them the model has that they succeed, so that the chain goes on, or not.
* systemd's own restart policy for the cores, which the repository does not define, is left out: a core
  comes back only when something restarts it.
* Monitor lets each thread load a part of the static sample once per call, as the optimised build that
  the README names does. The five counters that count as busy are one, the two idle ones another.
* An update unpacks whole files. What a panel does with files that change under it is not modelled.
* Windows branches are left out: the README names Linux as the place of deployment.

## 8. Not modelled

* `AnalyticsService`: `ingest_connection` has no caller, so `traffic_hourly` and `traffic_by_country` are
  empty in every state the program reaches, and the dashboard shows zeros. For the same reason
  `check_user_limits` and `check_certificates` of `AlertService` and `restart_count` of `server_health` have
  no steps: nothing calls the first two and nothing increments the third.
* The readers: `GET /api/alerts` (the newest 50), `all_health`, `list_tenants`, CLI `stats` and `health`. They
  change nothing and format what they read.
* Memory, disk, uptime and load average in `SystemStats`: read and returned, without state.
* `Config` reads a JSON file into a record; its values are constants of the modules. `GeoIpService`
  returns a fixed code.
* `parse_size` converts one string by itself: once characters and floating point are abstracted away,
  nothing of it is left.
* The web UI is presentation, and as written web/js/app.js does not load (line 119 assigns to an optional
  chain).

## 9. What could follow

* `Health` and `Host` share the probe and the restart but not the record: one module with both would say
  that the record settles on what the files make of the cores. Its state space is the product of two
  that already fill the runs.
* A stronger `FilesFollowTable` for several tenants, once the configurations list the users of all of them.
* `CoreService` for several writers: with the locks that the managers lack, `OneWriter` would be the lock's
  promise.
* Provisioning requests that overlap each other, if the panel were to allow more than one operator.
