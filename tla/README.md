# Formal models of the MTTL-W01 local server

The repository replaces the cloud service of a four-channel power strip (LG U+ MTTL-W01) by a
server on the local network. The device connects to it over MQTT/TLS, a dashboard and Home
Assistant control it through it. These modules model the parts of the server whose correctness
depends on interleavings, timers, crashes and failing peers; TLC checks them on small instances, and
TLAPS proves the most important results for instances of any size.

## 1. The system

One Python process (`server/app.py`) starts the device MQTT server, the Home Assistant bridge, the
QMS server and the web server, and two child processes (the MEF proxy and a certificate server).
State is in JSON files under the data directory, one per device and kind, each replaced atomically
(`FileStore._write`: temporary file, then `os.replace`).

| part | state | operations | interacts with |
| --- | --- | --- | --- |
| device session table (`mqtt_server.py`) | `sessions`, `offline_timers`, per session: socket, topic, `last_seen` | connect, register, packets, expiry, disconnect, start | registry, store, timers, web |
| commands (`mqtt_server.py`, `app.py`) | `commands`, `settled_timers` | send, confirm, time out, prune, status | session table, reports, web, HA |
| state reports (`mqtt_server.py`) | `state/<mac>.json`, `energy/<mac>.json` | `_status`, `_events`, `_energy`, `_set_online` | store, commands, event broker |
| wire codec, oneM2M replies (`mqtt_server.py`) | none | read a packet, reply to a request | handler threads |
| registry (`registry.py`, MEF proxy) | `devices/<mac>.json`, `pending-enrollment-<mac>.json` | look up, enroll, rename, delete, announce | session table, web, HA |
| HA bridge (`ha_mqtt.py`) | `client`, `connected`, `last_states`, `last_capabilities`, broker's retained topics | restart, save, callbacks, publish, link, remove | store, paho threads, commands |
| DNAT manager (`dnat.py`) | rules on the router, configuration file | enable, disable, status | router over SSH |
| certificates, TLS reload (`certificates.py`, `app.py`) | CA and leaf pairs on disk, SSL contexts, child processes | generate, reload | web, child processes |
| firmware (`firmware_patch.py`, MEF proxy) | configuration, patched image | configure, offer, serve | web, MEF process |
| event broker (`app.py`) | `revision` | publish, wait | SSE clients |
| web, QMS, certificate server, Android app, dashboards | none of their own that matters here | requests | the parts above |

What is hard: every connection has its own thread; the poller, timers, web requests, HA callbacks
and a second process run beside them; decisions are taken under a lock and acted on after it; files
are read, changed and written without one; a device can vanish without closing its connection; the
process can die between any two file operations.

## 2. The plan

In this order, most important first:

1. `DeviceSessions` with its abstract specification `DeviceSlot` and `DeviceSessionsProofs` - the
   session table and the online flag (done).
2. `CommandTracker` and `CommandTrackerProofs` - commands from the request to "confirmed" or
   "unconfirmed", pruning, the settled-status timer (done).
3. `HABridge` and `HABridgeProofs` - the life cycle of the paho client, its locks and late callbacks
   (done).
4. `StateReports` and `StateReportsProofs` - read-modify-write of the state file by handlers, poller
   and timers; the event broker, the event streams and the pages that follow them (done).
5. `HAPublishing` and `HAPublishingProofs` - links, discovery topics, retained states, the publisher
   thread, deletes (done).
6. `DnatManager` - the router's rules under failing commands, reboots and moves (done).
7. `Certificates`, `FirmwareOta` and `FirmwareOtaProofs` - eight files replaced one by one, the services
   that load them, the OTA offer of another process (done).
8. `StatusDecoder`, `MqttCodec` and `MessageProofs` - what a message does, and how it is cut out of the
   byte stream (done).
9. `MCOutside` and `OutsideProofs` - 5 to 8 side by side, and the proofs of 6 (done).

What is left: two dashboard requests at one time in `HAPublishing`; a store that fails in
`DeviceSessions`.

Abstract specifications worth stating: the slot of a MAC (`DeviceSlot`), a command's life as a
promise to the caller, a link as one agreed set of retained topics. Theorems worth proving: type
correctness and the safety properties of 1 to 9, and the refinement.

## 3. DeviceSessions

Models `_listen`, `_handle`, `_packet`, `_set_online`, `_poll`, `_expire`, `_schedule_offline`,
`disconnect` and `start` of `MQTTServer`, with `by_entity`, `consume_pending_enrollment`, `enroll`
and `delete` of `DeviceRegistry` and the MEF proxy's announcement.

* **Threads.** `pc[s]` is the handler of connection `s`; `timer[s]` the thread of the timer that `s`
  armed; `pollPc` the poller; `webPc` a delete request. Each step is one region under
  `sessions_lock`, one file access or one call that may block. Reading a packet and choosing what to
  do is one step; a write to the state file another.
* **Sockets.** `conn[s]` tells an open socket from one whose peer hung up (`gone`: a blocked read
  returns), one that was `close()`d under a blocked reader (`closed`: the read need not return; it
  may still deliver the packet it waits for) and one nobody can block on (`shut`).
* **Time.** An armed timer may fire at any moment; a session may lapse whenever its handler waits for
  a packet; a pending enrollment may age whenever it exists. Handling one packet is taken to be
  shorter than the 45 s timeout. So nothing depends on the configured delays.
* **Data.** A state file is its `online` field; a packet is what it makes the handler do. A packet
  with both a status and an event part counts as two. A pending enrollment is not there, young or old;
  an old one is removed by the connection that finds it, which is refused. `stray` is a history variable: the last
  "online" was written by a connection that no longer owned its slot.
* **Identity.** A connection is one TCP connection and is never accepted twice. A timer is named by
  the connection that armed it; `ArmsOnce` is what makes that a faithful name.
* **Kept for the table only.** `command_topic` and `last_seen` matter while a session is in the
  table; the poller's copy may hold one that has left, and whatever is read of it `_expire` then does
  nothing.

`DeviceSlot` is the abstract specification: a MAC is a slot with at most one owner, a connection owns
it at most once. The refinement maps `owner` to `sessions`, and `fresh` to the connections that have
not registered.

### Runs

| run | instance | what it shows |
| --- | --- | --- |
| `sessions` | 1 device, 2 connections, 1 delete, 1 crash, symmetric | all safety properties and the refinement of `DeviceSlot` |
| `sessions_live` | 1 enrolled device, 2 connections | the liveness properties |
| `inactive_offline` | 1 device, 1 connection | counterexample, see below |
| `deleted_state` | 1 device, 1 connection, 1 delete | counterexample, see below |

Two connections of one device are the smallest instance with a displaced and a displacing handler, a
stale copy of the poller, and a timer of the one against the registration of the other. More devices
do not interact except through the poller's list and the delete; the proofs below are for any number
of devices, connections, deletes and crashes. Deadlock is not checked: when the connections and the
bounds are used up the model rests, as the server does without clients.

**Fairness.** Every handler, timer, poller and web step is weakly fair: these are runnable threads
that wait only for locks held for a bounded time. (A `sendall` to a peer with a full window can block
the poller for long; liveness is claimed without that.) A read on a socket whose peer is gone ends -
strongly fair, because a dead peer has only finitely many packets in the socket, yet the read is
disabled while each of them is handled. No fairness for the peer, nor for a read blocked on a socket
that was closed without `shutdown()`.

### What the code does not keep

* `InactiveBecomesOffline` (README_EN.md:405). The poller finds a session silent for 45 s; a packet
  arrives; the poller takes the session out of the table and writes "offline"; the handler, still at
  its packet, writes "online". In its `finally` block it is not in the table any more, so it arms no
  timer. The device is shown online until it connects again or the server restarts.
  `OnlineIsTakenBack` shows that this is the only way: whenever the last "online" came from a
  connection that owned its slot, somebody is about to take it back.
* `DeletedLeavesNoState` (web/index.html:220). A connection that registers after `disconnect(mac)`,
  or a handler past its device check, writes the state file after the delete removed it. (`_status`
  and `_events` do not look for the device at all.)

### Proofs

`DeviceSessionsProofs` assumes only `ConstantsAssumption`. `Inv` (types, and the locals of a thread in
the phases that use them) is inductive by itself, and the other invariants are inductive relative to
it: `TableHoldsLiveHandlers`, `DisplacedAreClosed`, `TimersAreFiled` with `OnlineIsTakenBack`, and
`LivesOnce`, which strengthens `ArmsOnce` to the whole life of a connection (not yet in the table, in
it, taken out of it by one thread, timer armed). Each proof has one step per action. `OnlineIsTakenBack`
needs `TimersAreFiled` because arming a timer cancels the one filed under its MAC, which must not be
the only one to take back another device's "online". The refinement theorem maps `Register` to
`Claim`, the removals to `Release`, a refused greeting to `Reject`, a restart to `Crash`, and all else
to stuttering. Liveness is checked by TLC only: fairness and `ENABLED` are outside the prover.

## 4. HABridge

Models `start`, `save_config`, `restart`, `_restart`, `_stop_client` and the three callbacks of
`HAMQTTBridge`.

* **Threads.** `pc[t]` is a thread that restarts the bridge: `Main` runs `start()`, the others each
  save a configuration once `start()` has returned, as the web server starts after it. `net[c]` is the
  network thread of the client that thread `c` creates. Since a thread restarts once, it names its
  client. The publisher thread and `public_config` only read what is modelled here.
* **Locks.** `restartLock` is held over a whole save and restart. `lock` (`self.lock`) is taken for
  blocks that are one step each, except in `_on_connect`, which subscribes, reads files and publishes
  under it (`OnConnect`, then `Announce`).
* **Client library** (external). A started thread dials until it is told to quit; it fetches a
  callback when the event arrives and calls it later, so a callback may run after it was cleared; an
  exception in a callback ends the thread; `loop_stop()` returns when the thread has ended.
* **Failures.** An invalid port or unwritable file, `disconnect()`, the client's constructor,
  `connect_async` and `loop_start` may fail wherever they are called. `LoopStopRaises` adds a
  `loop_stop()` that raises and leaves the thread running, which the repository's own test injects.
* **Data.** A configuration is a value; `NoHost` is the one without a host, `Unusable` those whose
  topic prefix the client library refuses to subscribe to. An error is whether there is one.

| run | instance | what it shows |
| --- | --- | --- |
| `ha_bridge` | `start()`, 3 saves, 3 configurations, every failure but `LoopStopRaises` | "connected" is true, the last save runs, late callbacks are harmless |
| `ha_stops` | `start()`, 2 saves, 2 usable configurations, `LoopStopRaises` | never two network threads, and every restart ends |
| `ha_dead_thread` | `start()`, 1 save | counterexample, see below |
| `ha_failed_stop` | `start()`, 1 save, `LoopStopRaises` | counterexample, see below |

With three saves a third thread can enter while a second waits and the first cleans up after a
failure, and a client can fail twice in a row. The model rests when all threads are done, so deadlock
is not checked; a thread stuck in a restart violates `RestartsFinish`.

**Fairness.** Every step of a restart and of a network thread, of the callbacks it runs and of its end
is strongly fair; nothing is assumed of the network. Strong, because a network thread may take
`self.lock` again and again while another thread waits for it: it waits at least a second between two
connections, which lets the other one in.

**What the code does not keep.**

* `ConnectedMeansRunning`. `_on_connect` lists the device files, and one that is deleted between the
  listing and the reading makes it raise (store.py:69-71). `MQTT.command` sends on the device's socket;
  if that connection is broken it raises `OSError`, which `_on_message` does not catch. Either exception
  ends the network thread. `connected` stays true and the dashboard says so, while no command arrives
  until the next save. `ConnectedIsServed` shows that a thread dead in its own callback is the only such
  case.
* `NeverConnectedAfterFailedStop`. If stopping the old client raises with its thread alive, the client
  is made current again, and an `on_connect` fetched before passes the identity check.

**Proofs** (`HABridgeProofs`). `LoopInv` says who is inside the lifecycle lock (`Mutex`), that a client
not yet created is nobody's (`Uncreated`), what each thread stops (`Targets`) and which network
thread may exist at each point of a restart (`Loops`); it is inductive for both values of
`LoopStopRaises` and gives `OneLoop` and `OnlyCurrentReports`. `ServeInv` adds what needs a
`loop_stop()` that joins: a failed stop leaves no thread, so a client made current again cannot speak.
`ConfigInv` adds how far the new configuration has come. `ConnectedServes` and `LastSaveRuns` therefore
assume `LoopStopRaises = FALSE`; `NeverConnectedAfterFailedStop` shows they have to. `ListenInv` adds
what `ListensWhereConfigured` needs at every point of a restart: a client that is connected and has
announced itself is subscribed to the configuration in memory, except for a thread at the swap, which has
changed the memory and not yet the client (`ListensUntilSwap`). `ListensOnConfigured` follows, under the
same assumption.

## 5. CommandTracker

Models `MQTTServer.command`, `DeviceSession.control`, `_command_sent`, `_mark_unconfirmed`,
`_confirm_commands` and `_schedule_settled_status`.

* **Threads.** `pc[r]` is the web thread or network thread that sends command `r`: it looks up the
  connection (`Look`), writes to its socket (`Send`), records the command (`Record`), starts the timer
  that gives up waiting (`Arm`) and, after a switch, the one that asks for the state (`Settle`). Each is
  one lock region or one call; answers, timers and reconnections may fall between any two. The
  poller's own requests are sent untracked and do not come here.
* **Session table.** Any table that keeps the promises of `DeviceSlot`, which `DeviceSessions` was
  shown to implement: connections come (`Claim`) and go (`Release`).
* **Commands.** `commands` is the dictionary in its order, `status` what it says of each; "dropped"
  stands for a key that is gone. 500 and 400 are `Limit` and `Keep`. A command is `STATUS_GET` or a
  part with a value.
* **Answers.** `_confirm_commands` is called by a handler with the state it has just merged and written.
  Here that is any state at any time (`Confirm`), so late, early, repeated and stale answers are all
  in.
* **Histories.** `log` is everything ever recorded; `unasked` the switch commands sent to a device that
  has not been asked for its state since.

| run | instance | what it shows |
| --- | --- | --- |
| `commands` | 1 device, 2 connections, 2 commands, `Limit` 1, `Keep` 1 | all properties |

With a limit of one, the second command drops the first while it may still be waiting; the proofs are
for any limit, with `Keep` below it too. Two connections let one command be sent before and the next
after a reconnection. Devices share nothing but the dictionary. When all commands are sent and all
timers are through the model rests, so deadlock is not checked.

**Fairness.** Sending threads and timers are weakly fair: they wait for no one but short lock regions.
`Send` may fail, and then the command ends as "refused". Nothing is assumed of the device or the
table.

**What the properties say.** `VerdictIsFinal`: answer and timeout race, the first one counts.
`EveryCommandSettles` needs the timer because a device may answer between `Send` and `Record`, and that
answer confirms nothing. `AskedAfterSwitch` has two ways out. If the connection changes, the timer finds
another session and asks nobody (the new connection asks by itself two seconds after it subscribes).
And timers are filed by device: a thread that looked up the old connection, and comes to `Settle` only
after the new one has a command, cancels the timer of the new connection and leaves one that will ask
nobody. The state is then that of the next poll.

"Confirmed" means that the merged state has the wanted value, which may come from an earlier report
when the one at hand does not carry that switch; `Confirm` allows for that, and no document promises
more.

**Proofs** (`CommandTrackerProofs`). `CommandInv` is inductive: types; a command has neither status nor
place in the log before it is recorded (`Unrecorded`) and no settled timer before its thread is through
(`Unsettled`); what is recorded is the end of the log, at least `Keep` or all of it (`Kept`); a running
timer is the one filed (`Filed`). The four theorems follow for any number of devices, connections and
commands and any `0 < Keep <= Limit`. Liveness is left to TLC.

## 6. StateReports

Models the way of a device's state from `_status`, `_events` and `_set_online` through
`state/<mac>.json`, `EventBroker` and `send_events` to the page of `web/index.html`.

* **Writers.** `writerPc[w]` is a thread that has read the file (`Report`, `Mark`), then writes it
  (`Write`) and publishes (`Publish`). Only handlers have reports; pollers, timers and handlers alike
  call `_set_online`. The file and `view[w]` give for each field the number of the report that last
  set it; merging a report renumbers its fields. What `_set_online` changes (`online`, `ip`,
  `last_seen`) is left to `DeviceSessions`, as is the deletion of the file.
* **Streams.** `stream[p]` is the thread of `send_events` for page `p`: it tests the revision and goes to
  sleep under the condition's lock (`Check`), is woken by `Publish` or by its timeout (`Keepalive`), and
  sends (`Send`). A stream may break at any time with what is in it, and the browser opens another.
* **Pages.** An event restarts a 50 ms timer, the timer asks for the devices, and so does the page by
  itself every 30 s and after a command. A page may have several fetches under way; each is answered
  from the file, fails, or is shown, in any order.
* **History.** `reported` is what the device said last; `told[p]` the file when the stream was opened or
  last had an event sent, so that whatever the page fetches because of it is at least as new.

| run | instance | what it shows |
| --- | --- | --- |
| `reports` | 2 fields, 2 handlers, 1 page with 2 fetches, 1 report and 1 `_set_online` | no change is dropped, no wake-up is lost, changes are told and shown in the end |
| `lost_report` | 1 field, 1 handler and 1 other writer, 1 fetch | counterexample, see below |

Two writes are enough for one writer to publish while another has written and not published, and two
fetches can overtake each other. Pages share only the condition, devices only the revision (another
device's change is one more event); the proofs are for any number of pages. When reports are used up and all pages fail to connect the
model could rest, so deadlock is not checked.

**Fairness.** Writers and streams are weakly fair threads. The browser takes events, and starts its
periodic refresh. A fetch is answered and shown under strong fairness, that is, fetches may fail
any number of times but not all of them. Nothing is assumed of the stream being opened again, and
`ChangesAreTold` does without the 20 s timeout of `EventBroker.wait`.

**What the code does not keep.** `ReportsAreKept` (README_EN.md:405). `_set_online` reads the file, a
report is merged and written by another thread, and `_set_online` writes the older switches back. The
page has been told, and every refresh shows the old state, until the device reports those fields again
(the next poll's answer). The two threads are the poller or an offline timer and a handler, or the
handlers of a new connection and of the one it displaces.

The stream alone does not keep a page up to date, and the document does not say it does: a change
between a page's first fetch and the opening of its stream, or while the stream is broken, brings no
event, and an answer overtaken by a newer one leaves the older on the page. `PagesCatchUp` holds because
of the periodic refresh.

**Proofs** (`StateReportsProofs`). `ReportInv` is types with `ChangesAreOnTheirWay` and `NoWakeUpIsLost`; each is
inductive given that no stream has seen a revision that is yet to come (in `TypeOK`). It holds for any
number of writers, pages, fields, reports and fetches.

## 7. The parts around the table

`MCOutside` puts five specifications side by side for one run, `outside`. They share no state with each
other (what they share with the session table is the device file and the state file, which
`HAPublishing` reads as they come). A behaviour of the program is therefore one of each, and since no
property speaks of two of them, the order in which their steps alternate tells nothing: `turn` picks
the part that acts in a behaviour, the others stay at their initial state. All five behave as if they
were alone. Deadlock is not checked: requests, faults and messages are bounded, and a part at its bounds rests.

| part | instance |
| --- | --- |
| `HAPublishing` | 1 device, 2 requests, 1 write of the state file, 1 lost link, a reading with and one without extensions |
| `DnatManager` | 2 redirects, 2 addresses, any number of requests, 2 moves, 1 fault, 1 reboot |
| `FirmwareOta` | 2 web threads, 2 addresses, 2 requests, 3 issues of certificates, 1 failure or crash |
| `StatusDecoder` | 2 channels, 2 messages of 66 kinds, or of no kind at all |
| `MqttCodec` | lengths to base 4 with two digits at most, a limit of 14 bytes, connections of two or three packets, cut anywhere |

### HAPublishing

Models `set_link`, `remove_device`, `republish_device`, `_publisher`, `publish_discovery`,
`publish_state` and what `_on_connect` publishes, with `FileStore.list_devices`.

* **Threads.** `at[x]` for a web request, the publisher loop and the network thread. Each step is one
  file access, one publish or one access to `last_capabilities` or `last_states`: no lock is held over
  two of them, but `_on_connect` holds `self.lock` throughout, and `_publish` waits for it (`Announcing`).
* **Broker.** `topic` is what it retains. The discovery topics of a device, written in one loop with one
  value, are one; what paho queues while the link is down counts as lost.
* **Life cycle.** `Connect` and `Disconnect` stand for what `HABridge` models in detail: a connection
  comes and goes, also because a saved configuration replaces the client.
* **Failures.** `list_devices` reads files it has listed before; one that is gone, this device's or
  another's, raises. That ends the publisher or the network thread for good and makes a request fail
  halfway. The model lets it happen at any call.
* **Histories.** `raced` says that two threads were between reading the device and being through with
  it; `failed` that a request could not publish what it was to.

`DiscoveryFollowsLink` and `CatchesUp` state what the three unlocked threads keep, and name what they
do not: a removal without a connection is lost for good, a thread can announce a device again from a
copy older than its unlinking, and an older state can stay on the broker while `last_states` holds the
newer one. One lost link and two requests are enough for a link, an unlink and an announcement on
connect to overlap with a loop of the publisher; a third request finds what the second left.

**Fairness.** Each thread that has something to do goes on; so does the publisher's loop, whose sleep
ends. Nothing is assumed of the network (`Serving` is a premise of `CatchesUp`).

**Proofs** (`HAPublishingProofs`). `PubInv` is inductive: types; a step of a request fits its job
(`JobsFit`), and from its check to its write the device is linked (`RequestHasLink`); while a removal is at
its write, and as long as the device is not linked after it, no other thread is at work on the device
(`OthersRest`), so that nobody puts back what was withdrawn (`Withdrawn`); and a linked device's discovery is
on the broker, or somebody is still about to put it there (`Announced`). The last three except what
`DiscoveryFollowsLink` excepts. Any readings, and any number of requests, reports and lost links.

### DnatManager

Models `enable`, `disable`, the `status` that `enable` verifies with, `save_config` and the detected
address. `chain`, `hooks` and `rules` are the router (external); `doing` is the place of the request
that holds `self.lock`, `using` the configuration it has loaded, `done` the rules it is through with.
One step is a check with the command it decides. `Break` is a connection that breaks or a command that
raises, `Fault` one whose failure `_has` takes for "not there". `status()` by itself only reads, and
is modelled as part of `enable`; `test()` reads as well; connection tracking is left out.

`AnswersAreTrue` and `RulesLeadHere` hold of what the code promises by its answers. They do **not**
say that an enabled redirect leads to the server: `RulesLeadHere` needs `~moved`. When the server gets
another address while rules exist, `enable()` appends the new rules behind the old ones, iptables
follows the first match, and the answer is "on" although README_EN.md:35-42 has every destination
redirected to the server and README_EN.md:253-254 takes "Enabled" for that. `disable()` deletes only
the rules of the current address one by one, but then flushes the chain, so it leaves nothing behind.

**Proofs** (first part of `OutsideProofs`). `DnatInv` is inductive: types; a request uses an address from before
the last move only if `moved` says so (`SameAddress`), and with it `RulesLeadHere`; no answer stands
while a request is under way (`NotYet`); without a chain there are no hooks and no rules (`Bare`); what
a verifying request has found is still there, or a reboot took all rules and its next check fails
(`Found`); a disabling one that comes to flush has no hooks left unless a command was misread
(`Unhooked`). The theorems hold for any number of redirects, faults, reboots and moves.

### Certificates and FirmwareOta

`Certificates` is the directory: every run of a generator is an issue, and a file carries the number of
the issue that wrote it, so a certificate belongs to a key when the numbers agree. `FirmwareOta` extends
it by the web request that builds an image, writes the configuration, reissues the leaves and reloads the
services, one file or service per step with the locks of the code (`Building`, `Reloading`; none for the
certificates); by the services, which hold the issue they loaded; and by the MEF process and a device that
asks, fetches and installs. To start the MEF process, to load its pair and to answer the request are one
step; in the code the answer may be a moment ahead of the pair. An overlapping writer's temporary file,
which has the same name, and a stable image that is missing are left out. Writes fail, the command and the
container are killed between any two files.

`OneRoot` is the comment "keep the provisioned root CA unchanged" (certificates.py:85, README_EN.md:349).
`EnableHeals` says that whatever earlier requests, crashes and mixed pairs left, one undisturbed
"Enable & Build" puts image, configuration, files and services on one address. A server that finds a
torn pair at its start does not come up; only the files repair that. `TargetIsReached` is the promise
of README_EN.md:494 under a switch that may be flipped between the offer and the download.

Two web threads are the smallest number whose leaves can mix, three issues the root and two reissues;
a single crash or failure at every place is what the repair is for. Fairness: request threads go on,
and a device keeps asking and fetching; nothing makes anybody ask for a build or start the server.

**Proofs** (`FirmwareOtaProofs`). `CertInv` follows the directory through every writer: one that has files to
write has a number for them (`Numbered`); a web request writes leaves only, signed by the root on disk
(`WebWrites`); the command either makes a root and all else in an otherwise empty directory, or adds the
QMS pair (`CommandWrites`), the certificate of the root first (`RootFirst`); every leaf beside a complete set
is signed by its root (`SignedByRoot`). So a complete root is never among the files a generator replaces
or a failed one deletes, which is `OneRoot`. `ServerInv` adds that a running server has found every file and
no command has anything left to write, and that a request writes only at its step. `HealInv` is for
`EnableHeals`: while a request is undisturbed the others are idle (`AloneIsAlone`), so that what it has
brought to its address so far stays there (`AloneBrought`: image, configuration, leaf by leaf, service by
service), until it is through (`FinishedIsIdle`). Any number of web threads, addresses, issues, requests
and faults; at least one issue has to be possible.

### StatusDecoder

`_onem2m`, `_application_report`, `_status`, `_extended_status`, `_events` and `_energy` for one
connection. A message is a record of what its fields say; a conversion that fails yields no reading.
Reading the state file and writing it is one step (`StateReports` is about what comes between), the
response another, and the connection or the program may end at any point. `OneReport` excepts the report
of a single current, after which the other channels keep what they had (mqtt_server.py:612), and says of a
switched-off socket's current only what the last report settled: an event that switches it off leaves the
current. `AnsweredIsKept` is what the device relies on when it stops repeating a report. What raises ends
the connection where it stands: JSON that is no object before anything is written (`Misshapen`), an item
that raises after the energy of the items before it, a bootstrap that creates nothing after both files.
Two channels are enough: channels differ only in being in a report or not; the reports have no, one, two,
three or an unfitting number of currents.

**Proofs** (second part of `MessageProofs`). `DecoderInv` says of the message in hand that it is one of
the messages (`InHand`), that its status part shows in the files once it has been taken (`StatusFirst`) and
both parts from then on, answered or about to be (`AllShown`), and that the readings are of one report. "Shows" means
that for each channel the last item that sets it, and for the energy the last that meters it, stand in
the files; the work is in the lemma that taking one sequence of items after another shows their
concatenation. Any number of channels, and any messages whose fields are numbers or absent.

### MqttCodec

`remaining`, `read_packet`, `body_offset`, `mqtt_string`, `connect_identity` and `_publish` as operators on
sequences of bytes, `_handle` and `_packet` as the actions that use them on a stream which is malformed or ends anywhere.
128, four bytes and 1 MiB are `Base`, `MaxBytes` and `MaxPacket`; with a base of four a packet of a few
bytes already has a length of two digits, one above the limit and one that does not end.
A message whose handling raises ends the connection after its PUBACK (`MayRaise`).
`HandlerIsInStep` names one exception: a SUBACK has one byte for its length, so that one with more than
125 grants is read differently by the device. What a device sends is framed as the protocol has it, or
has a length that does not end; within the frame anything may be wrong.

**Proofs** (first part of `MessageProofs`). Writing a length in digits and reading it back are inverse to
each other, whatever the base, up to the limit and as long as the limit can be said in `MaxBytes` digits
(`LengthIsRead`, `FewDigits`): what has been counted and what is still to come always make up the length.
So `read_packet` takes exactly the packet its stream begins with, or all of it if the stream ends within
(`MadeInStep`), and every answer is taken as one packet (`FrameIsTaken`, `ReplyAnswers`). `WireInv` then
says that what has not been read is what is left of the device's packets after those in `inbox`
(`Remains`), up to where the stream ends. Any base from 3 to 128, any limit, packets and responses.

### Induction

The provers have no induction over the numbers that takes a property as a parameter. `SetInduction` of
`MessageProofs` gets it for a *set* of numbers from the pigeonhole theorem of the library: if some n were
missing from a set that has 0 and all successors, mapping each missing number to its predecessor would put
the missing numbers up to n into a smaller set one to one. On it rest the last and first place of a set,
and that a recursive function exists and has its type (`Recursion`, `Typing`), which is what the loops of
`remaining` and `read_packet`, the loop over the filters of a SUBSCRIBE, the sum of the currents and the
stream of a device's packets need.

### Side by side

`OutsideProofs` proves that a behaviour of `MCOutside` is one of each part (`EachPart`), so that the types
and the safety properties proved of the parts hold of what the run checks (`OutsideTypes`,
`OutsideIsSafe`).

## 8. What is checked how

Proved for any instance: the properties listed under "theorems" in `PROJECT.json`, that is every safety
property a passing run checks, the types of every module, and the refinement of `DeviceSlot`. The
assumptions are those that the modules name (`ConstantsAssumption` and the like, which TLC evaluates on
the instances of the runs) and, for three theorems of section 4, that `loop_stop()` joins.

Checked by TLC only: every liveness property (`CatchesUp` and `TargetIsReached` among them), since
fairness and `ENABLED` are outside the prover; and the counterexamples, which are about one instance
each.

## 9. Not modelled

* **Legacy certificate server** (`work/ap/mttl_cert_server.py`): serves one static file.
* **Android provisioner**: user interface and Wi-Fi calls on the phone; its protocol reaches this
  server only as the MEF announcement, which `DeviceSessions` models.
* **QMS requests**: a stateless responder that appends to the event log. Its certificate is in `FirmwareOta`.
* **Image patching** (`build`): fixed bytes at fixed offsets of one file whose hash is checked; the model
  keeps which address an image carries.
* **Rendering** of dashboard and cards, log clean-up, the migrations of the store at start: no
  concurrent reader or no state.
* **A store that raises** in the session table (mqtt_server.py:287) and **two dashboard requests at one
  time** in `set_link` (ha_mqtt.py:312): listed as hazards without a property.
