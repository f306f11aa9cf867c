# SerialKillerTermServer: a TLA+ verification project

SerialKillerTermServer is a Node.js console server: USB serial ports on a small
box, reachable over SSH, from a browser, through a reverse tunnel to a hub, and
by unattended batch scripts. The box reports to the hub with a heartbeat, takes
commands from it, updates itself, and is administered through a web page. All
of it runs in one process on one event loop, so nothing happens "in parallel";
what makes it hard is everything that happens *between* a call and its answer: a
device that is being opened, a stream that is closing, a connection that is
coming up, a request that waits for a child process, a file that is half moved.

This directory models those parts in TLA+, checks them with TLC on small
instances, and proves the safety properties of all of them but the uploads and
the browser's page, for every instance, with TLAPS.

## 1. Inventory

Paths are relative to `src/`. *M* = modelled, *P* = partly, *-* = not modelled
(section 5 says why).

| Component | State it keeps | Operations | Correct when | |
|---|---|---|---|---|
| Serial manager `lib/serialManager.js` | `openPorts`: entry (promise, refCount, ordered set of sessions) per port | `open`, `release`, device opened / failed / gone, `canSessionWrite` | the count is the holders, a port is open exactly for its holders, one keyboard per first-write port, seniority is kept | M |
| SSH server `lib/sshServer.js` | `sessions`, listener, per-shell menu/bridge | authenticate, shell, menu, connect, Ctrl+], start, stop, kick | whoever holds a port is connected; stop and kick take effect; the session list is true | P |
| Web terminal `lib/webTerminal.js` | `sessions` | connection, bridge, close | as above, and only as configured | M |
| Hub port sessions `lib/tunnelClient.js` | streams of the tunnel | `openPortSession` | as above | M |
| Hub channels `lib/tunnelClient.js` | one bridge, child or question per channel | `bridgeChannel` | every question is answered; nothing outlives its channel | M |
| Batch port stream `lib/localPortStream.js` | one stream per target | open, `canWrite()` check, destroy | a script can type into the port it holds | M |
| Session capture `lib/sessionCapture.js` | one file per session | start, stop | the sessions that are to be recorded are, and no others | P |
| Batch runner `lib/batchRunner.js` | `runs`, `queue`, `active`, `batches.json` | start, cancel, remove, pump, runTarget, save, load | no target stuck, no slot idle, verdicts true, final and kept | P |
| TFTP server `lib/tftpServer.js`, files page | transfers: window, block count, retries, temporary file | RRQ, WRQ, ACK, DATA, ERROR, timers; upload and delete in the browser | a file arrives whole or not at all; every transfer ends | P |
| Tunneled upload `lib/tunnelClient.js` | temporary file, answer to the hub | `receiveTftpUpload` | as for TFTP | M |
| Tunnel connection `lib/tunnelClient.js` | client, reconnect timer, backoff, trusted host key | start, stop, forceReconnect, enrolment, API channels | always one on the way while enabled; only to the pinned key | M |
| Fleet heartbeat `lib/fleetHeartbeat.js`, `lib/pinnedHttps.js` | timer, failure streak, pins | tick, verification, execution of commands | a managed box keeps reaching its hub; a command acts only under the pinned key | M |
| Self update `lib/selfUpdate.js`, `provisioning/rollback-update.sh` | staged tree, backup, busy flag | apply, rollback, prune | one whole version is always there; a finished update runs whole | M |
| Configuration store `lib/configStore.js` | `state`, the configuration file | ports, admins, users, import, reset, persist | somebody can administer the box; nobody removed stays in | P |
| Sign-in and API `lib/webServer.js`, `lib/totp.js` | sessions, setup and 2FA state | setup, login, second factor, idle timeout, admin routes | no second factor is skipped; who is removed is out | P |
| Login throttle `lib/loginThrottle.js` | failures, times and lockout per address and name | isLocked, recordFailure, recordSuccess | guesses are bounded; the lockout ends | M |
| Browser pages `webui/` | screen, CSRF token | boot, forms, polling, idle logout | who knows the password gets to an app that works | P |
| Baud detection `lib/baudDetect.js` | `inProgress`, a port of its own while probing | detectForDevice, detect, probe | one at a time on a device; the device is given back | M |
| Process start and stop `server.js` | | what it starts, in which order; SIGTERM | what was accepted survives | P |
| Privileged helper `provisioning/` | | `restart-service` and one-shot commands | | P |
| Log store, traffic debug, LLDP, keys and certificates, password policy, CSV, time stamps, syslog, system and network information, provisioning | little or none | | | - |

How they interact: SSH shells, browser terminals, hub sessions and batch targets
all call `serialManager.open(port, session)` and get a serial port and a
`release`; they share nothing else about a port. Baud detection opens the same
devices behind the manager's back and asks it only whether a port is in use. The
configuration store is read when a session *starts*; nobody who is attached hears
of a change. The web server starts and stops SSH, disconnects sessions, edits
ports, drives the batch runner, saves the fleet settings (which restarts the
tunnel and the heartbeat) and starts updates. The heartbeat goes over the tunnel,
or directly when it cannot; its answers carry commands that replace accounts,
restore a configuration or begin an update. The web console's sign-in and the
administrator's share one express session per browser.

### What is hard here

Every hazard is listed with its line under `hazards` in `PROJECT.json`. They are
of seven kinds:

1. *Between a call and its answer.* Several callers wait for one device; the
   client may leave, an administrator may stop SSH or cancel the batch; a sign-in
   waits for a password hash while its session ends.
2. *Two ends of one thing.* The stream and the device may both close; a
   connection that was given up still closes, and its listeners still act.
3. *Counting.* Reference counts, batch slots, the trimmed record, block numbers,
   failure streaks, attempts and lockouts.
4. *Stale configuration.* A menu drawn before an edit; a flag copied at sign-in;
   a pin read before it was set; a page that holds the token of a session gone.
5. *The end of the process*, before or during a write or a move of what is the
   only copy.
6. *Two owners of one device or one file name.*
7. *Being locked out*: of the box by its accounts, of the hub by a lost
   reconnect, of a device by a detection that never gives it back.

## 2. Modules

| Module | Models | |
|---|---|---|
| `PortSharing` | what the serial manager promises: a queue per port | abstract specification |
| `SerialManager` | `lib/serialManager.js` | implements `PortSharing` |
| `SerialManager_proofs` | theorems about `SerialManager` | TLAPS |
| `ConsoleSessions` | `sshServer`, `webTerminal`, `openPortSession`, `localPortStream`, `sessionCapture`, and the administrator, *over* `SerialManager` (which it extends) | implements `SerialManager!Spec` |
| `BaudDetect` | `lib/baudDetect.js` and the operating system's lock on a device, over `SerialManager` (which it extends) | |
| `HubChannels` | `bridgeChannel` of `lib/tunnelClient.js`, over `BaudDetect` (which it extends) | |
| `ManagerUsers_proofs` | theorems about `ConsoleSessions`, `BaudDetect` and `HubChannels`, over `SerialManager_proofs` | TLAPS |
| `BatchRunner` | `BatchManager` of `lib/batchRunner.js` and its file | |
| `BatchRunner_proofs` | theorems about `BatchRunner` | TLAPS |
| `TftpSend` | a TFTP read request: `sendFile` of `lib/tftpServer.js`, with a client and a lossy network | |
| `TftpSend_proofs` | theorems about `TftpSend` | TLAPS |
| `Uploads` | files that arrive under one name: `receiveFile`, `receiveTftpUpload`, and the files page's routes of `lib/webServer.js` | |
| `Uploads_proofs` | theorems about `Uploads` | TLAPS |
| `FleetLink` | the tunnel's connections and the heartbeat on it | |
| `FleetLink_proofs` | theorems about `FleetLink` | TLAPS |
| `SelfUpdate` | `applyUpdate`, `rollback` and the rollback script | |
| `SelfUpdate_proofs` | theorems about `SelfUpdate` | TLAPS |
| `LoginThrottle` | `lib/loginThrottle.js`, as operators on its table | |
| `AdminAccounts` | accounts, sign-in, second factors, sessions, and every route and hub command that changes them (extends `LoginThrottle`) | |
| `AdminAccounts_proofs` | theorems about `AdminAccounts` and `LoginThrottle` | TLAPS |
| `AdminPages` | the administration page `webui/app.js` in front of `AdminAccounts` (which it extends) | implements `AdminAccounts!TimedSpec` |
| `MC...` | instances for TLC | |

A **step** of every module is one event of Node's loop with all the callbacks
and promise continuations it triggers, up to the next event. Operators that are
commented *A slip* are not used by the specification: each is a plausible bug in
the definition it precedes, and substituting it breaks a property
(`mutants` in `PROJECT.json`), which shows that the property depends on the code.

### SerialManager

`entry[p]` is `openPorts.get(p)`: absent, registered with its open in flight, or
open. `open()` either is refused, starts the device, joins the promise
(`waiting`), or attaches at once. `DeviceOpened` attaches *all* waiting callers
in call order, `DeviceFailed` rejects all of them, `ReleaseAll(S)` is `release()`
of every session in `S` (one for a bridge, many for `stop()`), with the
`released` flag: whoever is not attached is left alone. The code's
insertion-ordered `Set` is a plain set and `elders[s]`, who was on the port
before `s` and still is: this states "oldest" without a sequence, which is what
makes the proofs short, and `Queue(p)` gives the sequence back for the
refinement.

A session that opens keeps the access mode it was given; the code captures
`portConfig` in a closure, so sessions of different modes meet on one port after
an administrator's edit. `Modes` is therefore a set chosen by every `open()`,
not a constant per port.

### ConsoleSessions

`at[s]` is where the session's handler is (away, menu, port, or ended by the
server), `stream[s]` the client's side (up, closing because the server ended it,
down). `shown[s]` is the port list a menu was drawn from, `checking` the batch
targets between `await open()` and `canWrite()`, during which no other event
can run (`Event`). `StreamClosed` of a session that waits for a port only leaves
the SSH session list, because nothing else listens yet; that is what the code
does, and the reason for `GhostWriter` below. `EarlyLeave = FALSE` forbids just
that step, to check what holds otherwise.

An SSH client may hold several shells; each would be its own `Ssh` session here,
and one shell per authenticated client is modelled.

### BatchRunner

`at[j]` is where `runTarget` of job `j` is: not running, opening its port, or in
a step of the script that waits. What a step waits *for* (text, quiet, a prompt)
is an outcome: done, failed, connection closed. `pump` and `finishIfDone` are
operators used in every step that calls them. `Flush` is the save timer, which
truncates and starts `writeFile`; `WriteDone` its end; `Restart` the end of the
process at any moment and `load()` at the next start. With `SlowWrites` a write
may still be going on when the next begins.

The port of a target is not composed with `ConsoleSessions`: the runner sees a
port only through open, failed and closed, which are all outcomes here.

### TftpSend

One transfer from `sendFile()` to `finish()`. `reading` is the block whose
`fs.read` is in flight; the code's `pumping` is `reading # 0`, because `step()`
chains one read after another. `pump()` is an operator in every step that calls
it, and returns before it arms the timer when it is at work already, as the code
does. Wire numbers are modulo `WireNumbers`, 2^16 in the code, and
`MAX_WINDOW_SIZE < WireNumbers` is all that is assumed of them; with a window as
large as the numbers TLC finds `AckedIsReceived` violated, so it is tight. The
client acknowledges what it has in order, at any time, which covers window ends,
gaps and its own timeouts. The channels lose and repeat datagrams but keep their
order: with arbitrary delays any protocol whose numbers come round again can be
broken, and a datagram 65536 blocks late does not happen. A file that shrinks
while it is read is not modelled.

When the timer fires during a read, `pump()` does not arm it again, and if the
client is gone the transfer keeps its socket and its file open for good. No
document promises otherwise, so `TransferEnds` excepts exactly that state. An
error of the transfer's socket closes it under the transfer; the next `send()`
throws, which is the outcome `crashed`.

### Uploads

Transfers of both kinds onto one name. `stream`, `fd`, `written`, `renaming` and
`unlinking` are what the operating system has been asked and has not done yet;
`tmp` and `target` are the two names, `contents[f]` the blocks of file `f` and
whose they are, with holes where a writer's offset passed a truncated end.
Everything a client or the server sent may arrive at any time, any number of
times. `Overlap`, `DiskErrors` and `SocketErrors` switch classes of trouble on.
`Spoiled(t)` says that an error struck `t` after its last block, the one case in
which something that is not whole is renamed; `TargetIsWhole` and `SureIsStored`
except it, `NeverTruncated` does not.
The callback of `end()` is called on success and on error alike (Node.js 14 and
later; the appliance installs 22). With `Overlap` a client that was told its
file arrived may find nothing: the first transfer's timeout removes the second
one's temporary file.

The files page's uploads (`/api/tftp`) are stored by multer under the real name
itself; a failed one removes whatever has the name. Each is made once and one at
a time here: two browsers that store one name at once would write into one file.
`TargetIsWhole` excepts the time in which the page is writing.

### FleetLink

A connection `k` is one ssh2 `Client`: `phase[k]`, whether its listeners are on
(`heard`), whether `end()` was called (`ended`) and the pin its host verifier
was made with (`told`). A connection outlives the variable that refers to it,
which is what the code's late `'close'` is about: `client`, `connected` and
`timer` are the variables of `TunnelClient`, `orphans` counts armed timers that
no variable refers to any more. A *stale* connection looks open and carries
nothing; nobody but the failure streak of the heartbeat finds out. `tick[t]` is
one heartbeat between its awaits: it opens a channel, waits for the answer, falls
back to a direct call where there is an API port, and finds in the answer
nothing to do, a backup to send in a second request, or another command; two
ticks may overlap, because the interval does not wait for the one before.
`enroll` is the enrolment request under way, with the pins it began with. What a
command *does* is left to `AdminAccounts` and `SelfUpdate`.

### SelfUpdate

`live`, `staging` and `backup` map each item to a version, or to *missing* or
*torn*. A step is one file operation of one call, or of the script, and may fail
or be cut by the power. The backup has a name, so that a rollback may hold a name
that was pruned since. `lapse` is a history variable: it becomes true at exactly
three steps, and `WayBack` says that without one of them there always is a whole
version in the live directory or in the backup: a rollback from a backup that
was cut short (nothing marks a backup as complete), an update begun over live
files that are not whole (it prunes the only whole backup first), and two calls
at once (`rollback` tests `updating` before it awaits).

### AdminAccounts and LoginThrottle

`admins`, `user` (the console user), `requireTotp` and `backup` are the
configuration; `sess[b]` is browser `b`'s session. Handlers without an `await`
are one step; a request that awaits something (a password hash, an upload) is
`late`, one at a time: it keeps the copy of the session it loaded, and the copy becomes the session when
it ends, which is what `express-session` does. Account ids are drawn anew unless
they are still known, so that a deleted account's id is never mistaken for
another's. `AdminNext` is what people and the hub ask for; wrong guesses and the
clock can only refuse or end what it grants, and `TimedNext` adds them. The
clock counts ticks; `LoginThrottle` is a table with ages and
remaining lockouts, so that no absolute time is kept.

### AdminPages

`page[b]` is the screen `app.js` shows and the token it holds, `token[b]` the
session's. A POST with another token has no effect on the accounts and is
shown as the code shows it. Everything else that can happen to the
accounts happens `Behind` the page. A login screen that was overtaken by a
restart of the service stays as it is until it is reloaded. Whatever the page does
is a step of `AdminAccounts` or none (`ImplementsAccounts`); its own idle timer logs
out as its user does.

### BaudDetect and HubChannels

`device[p]` is who the operating system has given the device to: the manager, a
detection, or a `close()` that has not finished. `call[x]` is where a detection
is and how many probes it has left; the in-use test is the code's (`isLocked`
and the port list), so an open in flight passes it and the operating system
decides. `HubChannels` adds the channels the hub opens, each of which becomes a
bridge to the admin pages, a shell, or a question; the hub may close a channel at
any moment. What the bridges carry is not modelled.

## 3. Runs

| Run | Instance | Question |
|---|---|---|
| `serial_manager` | 2 ports, 4 sessions, all 4 modes | is the bookkeeping true, has the keyboard one owner who keeps it, is sharing the queue of `PortSharing`? |
| `console` | 2 SSH (one with a port of its own), 1 web, 1 hub session; 1 port, exclusive or first-write, recorded | are the session list and the captures true, and is the manager used as it assumes? |
| `console_stay` | SSH, web, batch; all modes but shared-rw; fairness, nobody leaves while waiting | can a script type into the port it holds, are disconnects honoured? |
| `batch` | 3 runs of 2 targets, 2 slots, a record of 2, a script with each kind of step | no target stuck, no slot idle, verdicts final, cancelled scripts stopped? |
| `batch_record` | 2 runs, a file, restarts, a record of 1; fairness | does every run end and its verdict reach the file, and are the record and what is loaded consistent (`BatchInv`)? |
| `tftp_send` | up to 5 blocks, windows up to 3, 4 wire numbers, 2 datagrams in flight each way; slow reads and errors; fairness | does the client get the file from its beginning, does the server know what it has, does every transfer end? |
| `uploads` | 1 client, 2 TFTP transfers, 1 tunneled upload, one at a time, 1 page upload at any time, 2 blocks, errors of disk, socket and channel; fairness | is the real name always one whole file, does who was told so find it, does every upload end? |
| `fleet_link` | 4 connections alive, 1 tick, 2 hub keys, threshold 3, 2 saves or enrolments, 1 fault; fairness | is no reconnect lost, does a managed box keep reaching its hub, does a command act only under the pinned key? |
| `self_update` | 3 items, 2 versions, 2 calls at once, 3 in all, 2 faults; fairness | is there a way back, does every call end, does a finished update run whole? |
| `admin_accounts` | 2 names, 2 browsers, one with the web console; a box with two administrators, one with second factors everywhere, one whose accounts were deleted; 2 events | is a second factor never skipped, does who is synced away lose access, can somebody always sign in? |
| `sign_in` | 1 browser and its page, 3 guesses, attempts 2, lockout, window and idle time 1 tick, a new, a used and an edited box; fairness | are guesses bounded, does who knows the password get to a working app, does an unattended session end, and is what the page does a step of `AdminAccounts`? |
| `hub_channels` | 1 port, 1 session, 2 channels, 1 detection of the web page's, 2 probes, 1 fault; fairness | one detection at a time, is the device free again in the end, is every question answered, does nothing outlive its channel? |

The other configurations (`GhostWriter`, `StoppedSsh`, `UserCapture`,
`BatchLateCancel`, `UploadsOverlap`, `FleetStandalone`, `UserCode`) reproduce the
divergences of section 6: each checks one sentence of a document that the code
does not keep, and TLC prints the behaviour.

**Why the bounds are enough.** Four sessions give a queue with a first, a
middle and a last and let a session of each mode meet each other one; two ports
show that one port's traffic leaves the other alone. On one port, an exclusive
or first-write mode and an edit between them give every mixture that matters to
the session handlers, which treat modes only through `canSessionWrite`. Two
slots and six jobs let jobs wait while others run, of the same run and of
another; a record of two with three runs trims, with finished and unfinished
candidates. The script has a step that types and goes on, one that types and
leaves the waiting to the next, one that only waits and one that types and
waits. Runs are interchangeable (`SYMMETRY`, safety only); names of forgotten
runs come back, which is what makes the state space finite without a bound on
the number of runs. A TFTP file of five blocks uses every one of four wire
numbers and comes round; windows of one, two and three include lock-step; a
retry limit of one has a timeout that resends and one that gives up. Two blocks
have a first, which binds the client, and a last, which ends the stream.

Four connections are one in use, one given up by a save, one by a forced
reconnect and an enrolment's own; two saves with a fault between or after them
give every order of stop, start, close and timer. Two hub keys are the one
pinned and the one after a rebuild. The proofs of section 4 hold for any number
of all of these. Three items stand for the nine of `SWAP_ITEMS`: a first, a
middle and the one the script and the older version do not know. Two faults give
a failure and a power cut during what is done about it; the third call is the
rollback, or the retry, of the second. In `admin_accounts` the two events let
anything be done twice to an account, or one thing while another is late; no
time passes and nobody guesses, which is the business of `sign_in`. There,
three guesses are one more than a lockout takes, and one tick each is the least
with which ages differ. No web console is opened in these browsers: a repeated
sign-in there takes the administrator's session away each time, and
nobody could promise `OperatorGetsIn`. Two channels and a caller of
the web page's compete for one device with a session that comes and goes; a
second device would not be touched.

**Deadlock** is checked for sessions, batches and channels, where there is
always an event that can happen. Transfers are over at some time, and the bounds
on saves, calls, events and faults let `fleet_link`, `self_update`,
`admin_accounts` and `sign_in` come to rest, so it is not checked there.

**Fairness.** `ConsoleFairness`: the event loop drains its promise continuations
(`CheckCanWrite`); the operating system answers an open, with strong fairness
because other events may come between; a stream the server has ended closes in
the end, because the peer confirms or its connection times out. The action is
strongly fair as the event loop may be busy draining continuations when it is
due. `BatchFairness`: a port opens or fails (`openPort` has timeouts), every
waiting step has a timeout or a timer, timers fire, writes end. Nobody is
assumed to connect, type, leave, start, cancel or remove anything.
`SendFairness`, `UploadFairness`: timers fire and the operating system does what
it was asked for; clients and network owe nothing. `FleetFairness`: a handshake
ends in one way or another (ssh2 has a timeout), an ended connection closes,
timers and the heartbeat's interval fire, a request is answered or fails (each
has a timeout); a stale connection need never report anything. `UpdateFairness`:
a call goes on, the script goes on. `PagesFairness`: the clock goes on, pages
load and poll, requests end, and one operator keeps trying: he reloads what
refuses him and, some time before it expires again (strong fairness), fills in
the form he sees. `HubFairness`: the operating system answers, detections go on,
questions of the box itself are answered, children start, and somebody tries a
port again as long as nobody is on it; the hub need not close a channel.

## 4. Proofs

`SerialManager_proofs` holds, for **any** set of ports, any finite set of
sessions and any set of modes (`SessionsAssumption`, `ModesAssumption`):

| Theorem | Statement |
|---|---|
| `Invariant` | `Spec => []IInv` |
| `TypeCorrect` | `Spec => []TypeOK` |
| `CountsAreTrue` | `Spec => [](RefCountMatches /\ EntryMatchesHolders)` |
| `OneTypist` | `Spec => []OnlySharedRwShares` |
| `KeyboardIsNeverLost` | `Spec => []FirstWriteHasOneWriter` |
| `NobodyTakesTheKeyboard` | `Spec => KeyboardIsKept` |
| `SharingIsKept` | `Spec => ImplementsSharing` |

`IInv` is the conjunction of six facts that need one another. That the count is
the number of holders persists because a caller that attaches was not attached
before (`OnePortPerSession`). That an entry in flight has callers and no holder
(`EntryMatchesHolders`) is what makes the two ways of joining disjoint. That
`elders` is a strict total order on the members of a port (`SeniorityIsTotal`) is
kept because newcomers take *all* members as elders and those who leave are
taken out of everybody's. That an exclusive session has nobody ahead
(`ExclusiveIsOldest`) follows from the refusal of exclusive callers whenever an
entry exists, and with seniority gives `OnlySharedRwShares`. For
`FirstWriteHasOneWriter` a least element of a finite, non-empty strict order is
needed: the member with the fewest elders, by `WellFoundedInduction`'s minimal
elements of a set of naturals. TLC checks `IInv` in the run `serial_manager`.

`SharingIsKept` is the refinement, step by step. The mapping puts those attached to
a port into a sequence, each at the place that the number of its elders gives. That
this *is* a sequence needs that the ranks have no gap: seniority is a strict total
order on the attached, so the elders of somebody are ranked below him and differ in
rank, and `n` ranks below `n` fill them (`RanksAreDense`, by counting an injection).
Ranks order as seniority does (`RanksOrdered`), hence a set that leaves does not
reorder the rest (`SomeLeave`, where `PortSharing` says what remains of a queue by
its order, not by filtering), and callers whom the device's answer admits come after
all members (`SomeAreAdmitted`); every other step leaves the attached and the ranks
alone (`NothingHappens`).

What the proofs assume of the environment is the shape of `Next`: a session has
one `open()` at a time. That all four kinds of callers respect it is
`ConsolesUseTheManager` below.

`FleetLink_proofs` holds for any sets of connections, ticks and keys, any
threshold and any bounds on saves and faults (`FleetAssumption`: they are
naturals, and the names that mean *nobody* and *unset* are no connection or key):

| Theorem | Statement |
|---|---|
| `LinkIsKept` | `FleetSpec => []LinkInv` |
| `PinIsObeyed` | `FleetSpec => CommandsFollowThePin` |

`LinkInv` is `TunnelInv /\ WorkTypeOK`. `TunnelInv` says that a started tunnel is
connected, has a connection with listeners on the way, or has an armed timer that
will make one (`ReconnectIsPending`); that what it reports as connected can be
(`ConnectedIsPossible`); and that the tunnel runs and the heartbeat beats exactly
when the saved mode says so (`RunsAsConfigured`). It is inductive together with
the types of the work in flight: a late enrolment or save writes pins it took
along, so that the types of the configuration rest on theirs. There is one lemma per
kind of step, named for what the code does (`NewConnection`, `CloseKeeps`,
`StartKeeps`, `ErrorKeeps`, `RestartKeeps`, `StopKeeps`, `FiringKeeps`,
`ForceKeeps`), then one for the steps of a connection, of a tick and of a
request, which the invariance lemma `LinkKeeps` puts together. `PinIsObeyed` is
an action property: a tick begins to act only in the two steps that take an
answer, both of which test the host key pinned at that moment (`Verified`), and
neither touches that pin, the certificate the direct call may pin included
(`CertificateIsPinned`).

The part of `ManagerUsers_proofs` about detections holds for any ports (there is one),
sessions, channels and callers, and any numbers of probes and faults
(`CallersAssumption`, `ChannelsAssumption`):

| Theorem | Statement |
|---|---|
| `DevicesAreShared` | `BaudSpec => [](IInv /\ BaudInv)` |
| `ChannelsAreSound` | `HubSpec => []HubInv` |

A step of the manager is a step of `SerialManager!Next` here too, and a detection
leaves its variables alone, so that `IInv` comes from `StepInv`. What is new is
that the manager's entry and the operating system never disagree on who has a
device. On the manager's side it rests on `ReleaseCloses` and `GoneCloses` (the
release that closes a port is one of a port that was open; a device that goes
closes no other), on the detections' side on `CallMoves`, one lemma for every
step that moves one call, whose hypotheses are what `inProgress` and the device
must show. `HubInv` adds `ChannelsAgree`, that a channel waits for a detection
exactly while one runs for it and no bridge is without its channel;
`HubMoves` shows that the hub does nothing to devices that `BaudNext` does not.

Its part about the consoles holds for any ports, modes and sessions, of which each is
of one kind (`KindsAssumption`):

| Theorem | Statement |
|---|---|
| `ConsolesStayInOrder` | `ConsoleSpec => []ConsoleInv` |
| `CapturesFollow` | `ConsoleSpec => []CaptureFollowsSession` |
| `ConsolesUseTheManager` | `ConsoleSpec => ImplementsManager`, that is `Spec` |
| `ScriptsCanType` | `ConsoleSpec => []BatchCanType` |
| `ConsolesShareFairly` | `ConsoleSpec` has the sharing properties of `Spec` |

`ConsolesStep` shows that every console action is a step of `SerialManager!Next` or
leaves its variables alone; it needs that a session waits for one port at most and
is not attached while it waits, and that whoever holds or awaits a port is in its
bridge (`HoldersAreAtPort`), so that no menu, no browser and no batch calls
`open()` a second time. The refinement then carries every theorem of
`SerialManager_proofs` over (`ConsolesShareFairly`). The actions are taken apart
by what they do to the manager: open, settle an open, release, nothing
(`OpeningKeeps`, `SettleKeeps`, `ReleaseKeeps`, `QuietKeeps`), and `UnbridgeKeeps`
is about what every release does to the session lists and captures besides.

`BatchRunner_proofs` holds for any finite set of run names, any number of targets,
any script, any limits, with and without a file and slow writes
(`BatchAssumption`):

| Theorem | Statement |
|---|---|
| `RunsStayInOrder` | `BatchSpec => []BatchInv` |
| `SlotsAreUsed` | `BatchSpec => []NoSlotIsWasted` |
| `WhatCameStands` | `BatchSpec => VerdictsAreFinal` |
| `ScriptsStop` | `BatchSpec => CancelStopsScripts` |

`BatchInv` and `NoSlotIsWasted` are inductive together. That the slots are counted
right (`active = Cardinality(Running)`) and that the queue holds exactly the jobs
shown as queued, each once (`Driven`), is what `Pumped` keeps for every call of
`pump()`, whatever ended before it: its hypotheses say how the statuses and the
queue it is called with must fit. `Judged` is the same for `finishIfDone()`.
`PumpsKeep` joins the two, and start, cancel and the ends of jobs are instances of
it. `CancelledAreStopped` is needed in two places: a script that is cut short is
reported as cancelled only if its run was, and `pump()`, which in the code drops
jobs of cancelled runs, never meets one here. That the *file* and what is being
written are true records (`VerdictIsTrue`) makes the restart an ordinary step:
`LoadedIsTrue` shows that marking what was in flight as interrupted gives a true
record with nothing left to drive. `filter` counts places (`Ranks`, `Filtered`)
because the provers cannot use recursive definitions.

`TftpSend_proofs` holds for any length of file, window, retry limit and network
capacity, and any number of wire numbers larger than the largest window:

| Theorem | Statement |
|---|---|
| `ACopyIsTrue` | `SendSpec => []SendInv` |
| `SentIsReceived` | `SendSpec => []AckedIsReceived` |

Both rest on `WireTells`: two blocks with the same number on the wire that are less
than `WireNumbers` apart are the same block. `BlocksKeepClose` (a datagram is
within a window of every other and of what the client has) gives this for data,
`AcksInOrder` for acknowledgements; both are about every pair of datagrams in the
network, and are kept by loss and repetition because what is left is a subsequence
(`Thinned`). `ReadsInWindow` is what an asynchronous read adds: the block being
read may be one that was acknowledged meanwhile.

`SelfUpdate_proofs` holds for any list of items without repetition, any versions
and what each ships, any number of calls and faults (`UpdateAssumption`):

| Theorem | Statement |
|---|---|
| `ThereIsAWayBack` | `UpdateSpec => []UpdateInv` |
| `AnUpdateArrives` | `UpdateSpec => UpdateTakesEffect` |

`WayBack` alone is not inductive. `FilesFollow` says for every phase of a call which
of the three trees is whole and how far the copy or the swap has come
(`Copied`, `Swapped`), and `OneWorks` that no second call moves files meanwhile;
`BystanderFollows` is why the calls that do not work need not be looked at. After a
lapse nothing is claimed but types. There is one lemma per file operation.

`AdminAccounts_proofs` holds for any names, browsers and ids (more than the names
that can be in use), any configurations to start from that the code could have
written, and any lockout, window and idle times. Its theorems are about
`TimedSpec`, which has the clock and the wrong guesses as well as `AdminNext`;
`AdminSpec` implies it (`TimedToo`):

| Theorem | Statement |
|---|---|
| `AccountsStayInOrder` | `TimedSpec => []AdminInv` |
| `SomebodyRemains` | `TimedSpec => AdminsRemain` |
| `CodeIsAsked` | `TimedSpec => NobodySkipsTheCode` |
| `SyncSignsOut` | `TimedSpec => SyncEndsAccess` |
| `GuessingIsSlow` | `TimedSpec => []GuessesAreBounded` |
| `PagesUseTheAccounts` | `PagesSpec => ImplementsAccounts`, that is `TimedSpec` |
| `PagesArePromised` | `PagesSpec` has all five |

`AdminInv` speaks of the backup and of the late request's copy of a session too,
since both come back. For `GuessesAreBounded` a history `recent[k]` holds the wrong
guesses of a lockout's length with their ages; the strengthening `HistoryIsTrue`
says that the table's count knows all of them, until the count reaches the limit,
and that from then on the lock outlasts the youngest.

`PagesStep` shows that a step of `AdminPages` is one of `TimedNext` or leaves its
variables alone, whatever the screen shows by then: forms and tabs are requests whose
gates `AdminAccounts` has, loading is a poll, the idle timer a logout. It needs
`AdminInv` only for the type of the sessions.

`Uploads_proofs` holds for any clients, transfers and uploads of the page, any
length of the files and number of retries (`UploadsAssumption`):

| Theorem | Statement |
|---|---|
| `OnlyWholeFiles` | `~Overlap => (UploadSpec => []UploadInv)` |

`~Overlap` is the hypothesis that the code leaves to its users: two uploads to one
name do not overlap. With it, finding 5 below does not arise, and one transfer at a
time is at work (`OneAtATime`: all others are unused or have nothing under way).
The inductive invariant `Kept` says of it (`Fits`) that while its stream is open it
writes to the file that has the temporary name, which holds exactly what was
written, from its first block; that nothing is renamed or removed while a stream is
open; and that what is being renamed is whole, gone already, or *spoiled*: an error
struck after the last block had come, so that a tail of it was lost, and `end()`'s
callback renames all the same (`ChannelErrorKeeps`, `DiskErrorKeeps`; this is what
`TargetIsWhole` has to except). A tunneled upload needs one fact more, that its
stream is closed only when the rename is asked for, as its answer is. `Apart` keeps
the page's own uploads away from the temporary file: they hold files of the real
name, and a file has one name at a time. `NoFileTouched`,
`OthersStay` and `TargetStays` are shared by the actions.

**Only model-checked**: all liveness properties, which are outside what the proof
system does, as is anything with `ENABLED`. Every invariant, action property and
refinement that a passing run checks is stated by a theorem.

## 5. Not modelled

Bytes: what is typed or printed, prompts, regular expressions, formats.
Passwords, keys, codes and certificates: each is right or wrong. The device's own
exclusivity is in `BaudDetect`; in `SerialManager` alone a refusal of the
operating system is `DeviceFailed`.

- *`persist()`*: writing `config.json` is one step of every module. In the code
  it truncates and rewrites the only copy in place, so that a power cut inside it
  leaves a file that does not load; a model of it would be that sentence.
- *Log store*: lines are appended and trimmed, and nothing but the Logs page
  reads them back. *Traffic debug*: a bounded ring of recent bytes without
  interaction.
- *LLDP, system and network information, syslog*: they call a tool, read a file
  or send a datagram; no state. The one-shot questions of the hub about them are
  in `HubChannels`.
- *Keys and certificates*: generated or loaded once at start, by libraries.
- *Password policy, CSV, time stamps*: functions of text, without state, which a
  unit test reaches.
- *Browser pages*: the tabs of the app, the batch page, the dashboard and the
  terminal page show what the API returns and send what is typed. The vendored
  QR code is a library.
- *Routes* that only report, and those of Wi-Fi, time, network settings and
  certificates: each is one call of the privileged helper, whose only command
  with a consequence here, the restart, is in `SelfUpdate`.
- *Provisioning and release*: run once, by hand, on a fresh image.

## 6. Where the code and its documents differ

Each of these has a configuration that reproduces it.

1. **Ghost writer** (`GhostWriter.cfg`). A client that leaves while its `open()`
   is in flight is attached all the same, and nobody will ever release it: the
   `'close'` it would have needed came before anyone listened. On a first-write
   port it owns the keyboard; on an exclusive one it keeps everybody out, until
   the device goes.
2. **SSH while stopped** (`StoppedSsh.cfg`). `stop()` releases what is attached;
   an open in flight attaches afterwards, and connected clients may open another
   shell.
3. **User capture in the browser** (`UserCapture.cfg`). The signed-in user's
   `captureEnabled` is not carried into the cookie session.
4. **Late cancel** (`BatchLateCancel.cfg`). A target that is opening its port
   when its batch is cancelled types its first steps before it notices.
5. **Shared temporary name** (`UploadsOverlap.cfg`). Two transfers to one name
   write, rename and remove the same temporary file.
6. **Standalone is not offline** (`FleetStandalone.cfg`). After two saves in a row
   the late close of the first connection arms a timer beside the second, which
   begins a third; `stop()` ends only the connection `client` refers to, and the
   other stays up.
7. **An edit drops the second factor** (`UserCode.cfg`). The route that edits a
   console user (`lib/webServer.js:1716-1736`) builds the user anew without its
   `totp` fields, so that an unrelated edit ends two-factor sign-in
   (`HANDBOOK.html:690`, `webui/app.js:1838-1848`).

The following were met while modelling; the models contain the behaviour unless
it says otherwise.

*Files.*
- A finished run waits 300 ms for its write, which SIGTERM does not wait for and
  which truncates the only copy first, while `README.md:216` says that the
  last 50 batches are kept.
- The listener that is to keep an error of a transfer's socket from ending the
  process (`tftpServer.js:161`) closes the socket under the transfer, whose next
  send throws.
- A disk error in the last writes renames the truncated file before it is removed.
- An upload from the files page truncates the real name in place, and one that
  fails removes whatever has the name. A tunneled upload whose channel closes
  without an error leaves its temporary file, and its stream has no `'error'`
  listener.

*Tunnel and heartbeat.*
- Stop and start before the old connection's close: its late close arms a second
  reconnect, and there are two tunnels (number 6 above).
- `forceReconnect` removes the `'error'` listener of the client it gives up; an
  error that comes later ends the process, which `tunnelClient.js:118-121` calls
  harmless (not modelled as an end).
- A host verifier made while no pin was set writes the pin it learns, also over
  one that was set meanwhile (`HANDBOOK.html:531`).
- A tick in flight acts on its commands after the box was made standalone.
- `openAdminSession` writes what was left of the handshake in the connect
  callback, after bytes queued earlier (comment at line 387); keystrokes between
  the handshake and the shell, or the port, are lost; a handshake that is too
  long is ended but still listened to (bytes, not modelled).

*Self update.*
- A retry after a swap that failed prunes the only whole backup before it makes
  one of the broken files; `rollback` tests `updating` before an await; the
  comment "Keep only the single most recent backup" is above code that prunes
  all of them first.
- `rollback-update.sh` does not restore `HANDBOOK.html` and `QUICKSTART.html`;
  `rollback` leaves items the backup does not have.

*Accounts.*
- An administrator whose account was replaced by the hub gets
  `403 must_change_password` on every route (`HANDBOOK.html:539`, `:1044`), where
  `/api/admin-password` then fails.
- After a lockout has ended, a single failure within the window locks again
  (`HANDBOOK.html:926` says five).
- A late POST restores the session that a logout had ended. Signing in to the web
  console in the same browser signs the administrator out (`HANDBOOK.html:837`).
- A backup without accounts, restored, opens the setup page. Console sessions
  keep a snapshot of their user; an administrator's event streams outlive the
  sign-out. `replacePorts` accepts two ports with one id (not modelled).
- A login page left open across a restart holds a token of no session: the right
  password gets 403, shown as "Invalid username or password.", until it is
  reloaded; a lockout shows the same text. An account deleted meanwhile still
  sees the app, with every call refused, because only a 401 reloads. A comment
  (`webui/app.js:110-111`) promises the forced setup "on their very next request";
  the open app only shows errors until it is reloaded.

*Provisioning* (not modelled): `firstrun.sh` removes itself before it edits
`cmdline.txt`; a power cut between the two leaves a box that boots into the
first-run target without a script.

## 7. Plan

All modules of the plan are written, and every safety property is proved. What could
still be added, in this order:

1. What the liveness properties rest on, as invariants with proofs: whoever waits has a
   timer, an answer or a question under way (`TftpSend`, `Uploads`, `HubChannels`, the
   timers of `FleetLink` are part of `LinkInv` already).
2. `TftpSend` as an implementation of an abstract copy, block by block.
