# A verification project for `ip`

`ip` lets a server behind a NAT be reached from outside. A **proxy** runs on a
public host, a **client** next to the server. The client dials the proxy and
keeps that one TCP connection (the *session*). For each port the client asks
for, the proxy listens for **browsers**. A browser's connection gets a number
(`cID`), the client dials the **forward** address for it, and the two endpoints
carry the data of all such connections over the session in IPP messages
(`CONN_CREATE`, `CONN_CREATE_DONE`, `REQ`, `CONN_CLOSE`).

This directory holds TLA+ modules of that code, TLC configurations that check
them on small instances, and proofs that TLAPS checks for all instances.
Paths below are relative to the repository; the specification calls the
messages `CREATE`, `DONE`, `REQ` and `CLOSE`.

## 1. Inventory

| Component | Code | State | Operations | What makes it correct |
|---|---|---|---|---|
| Life cycle of an endpoint | `endpoint/client/client.go:39-162`, `endpoint/proxy/proxy.go:28-160` | fsm state, `stopSignal`, `destroySignal`, one session goroutine per start | `Start`, `Stop`, `Restart`, `Destroy`, three fsm callbacks, restart by a session that failed | no channel closed twice; channels agree with the state; destroy is final; a lost session comes back |
| Tunnel | `proxy.go:161-472`, `client.go:199-429` | `browserConnRID`, `forwardConnRID`, the session connection, one `IPConn` per end, readers, close triggers | accept, the handlers of the four messages, readers, close handlers | data arrives at its own connection, whole and in order; a close crosses after the data; nothing is left behind |
| `IPConn`, `IPListener` | `net/conn.go`, `net/listener.go` | close signal, socket, the channel `over` of `AddCloseTrigger` | `Read`, `Write`, `Accept`, `Close`, `AddCloseTrigger` | one signal is enough to run a handler and to release every waiter |
| Serial numbers | `proxy.go:499-503`, `client.go:478-482` | `seq` | `newSerialNo` | a number drawn later differs from those before |
| Session set-up | `client.go:137-206, 431-476`, `proxy.go:161-183, 282-323, 476-496` | `proxyConn`, `cliID`, the hello wait; per link the listener | dial, hello, time-out, listen, answer | an accepted client is listened for; a refused, late or lost one comes back; what it left is released |
| Heart beat | `client.go:484-516`, `proxy.go:513-522`, `net/conn.go:14-40` | a ticker, and a timer per link | send, reset, expire | a live peer is never cut off; a dead one is |
| Framing | `client.go:190-258`, `proxy.go:190-241` | 4-byte length and body | `Read`, `io.ReadFull`, `Write` | the receiver stays in step with the sender |
| Codec, message factory | `ipp/v1`, `ipp/v2`, `ipp/ippnew` | none | the constructors, `Marshall`, `UnMarshall`, AES and padding | what is read is what was written; noise costs the receiver no frame behind it |
| Client configuration | `progress/console/client` | the loaded `Config`, the running clients | parse, poll, `Diff`, live update | the client that the file asks for is served, its predecessor gone |
| Proxy configuration | `progress/console/proxy` | the running proxy | destroy and start when the file changes | clients come back |
| Boot, window client | `boot`, `progress/winui` | none of their own | read flags, start | - |

**How they interact.** All of an endpoint's goroutines hang on channels that are
closed once: `stopSignal` (life cycle), the close signal of the session's
`IPConn`, of the browser listener and of each application connection.
`AddCloseTrigger` ties them together: a stop closes the session, the loss of
the session closes the browser listener and every application connection, and
each closed application connection sends `CLOSE` to the other side. The maps from
`cID` to connection are `sync.Map`s that accept loop, receiver and close triggers
share without any further lock. `newSerialNo` is called by all of them. Below
that, a session begins with a hello and lives by heart beats; a client whose hello
is refused or unanswered, or whose link is lost, calls its own `Restart`, and a
change of the ini file destroys all clients and starts new ones, which meet the
proxy's listeners for the old ones.

**What is hard.** Nearly every step is a race of goroutines on channels and maps:
arming a close trigger and storing the connection (`proxy.go:343`, `374`); looking a
number up, unbinding it and closing its connection; a read piece of data against the
`CLOSE` of the same connection; two close signals at once; a stop, a destroy and
a session's own restart. Failures come at every point: a refused dial, a session that
breaks with messages in flight, a `Write` that fails after half of the work. The
numbers wrap around. A link can die without either end being told, so that the proxy
holds the ports of a client that is already back on another link. The length of a
message is read with one `Read`. A session has one receiver at either end, which writes to
the applications itself and waits when one does not read. `PROJECT.json` lists each such hazard at its line.

## 2. Modules

| Module | Models | Composition |
|---|---|---|
| `Lifecycle` | life cycle of a client or a proxy (the variable `role`) | - |
| `TunnelService` | abstract: what the tunnel promises to the two applications of a connection | - |
| `Tunnel` | one session: accept loop, receivers, handlers, readers, close triggers of both endpoints | implements `TunnelService` (`Service == INSTANCE TunnelService WITH ...`) |
| `CloseTrigger` | the goroutines of one `AddCloseTrigger` | the detail of `Tunnel`'s `Fires` |
| `SerialNo` | concurrent calls of `newSerialNo` | the detail of `Tunnel`'s `newSerialNo` |
| `Mapping` | parser and difference of `client_proxy_mapping` | used by `Session` |
| `Session` | dial, hello, listening, heart beat, restart and live update over successive links, in time | extends `Mapping`; between the steps of `Lifecycle`, before those of `Tunnel` |
| `Codec` | messages, their two encodings, padding, cipher | used by `Wire` |
| `Wire` | one direction of the byte stream and the receive loop | extends `Codec`; under `Tunnel` and `Session` |
| `LifecycleProofs`, `TunnelProofs`, `TunnelOrderProofs`, `TunnelServiceProofs`, `CloseTriggerProofs`, `SerialNoProofs`, `SessionProofs`, `WireProofs` | theorems | extend the modules they are about |
| `MCLifecycle`, `MCTunnel`, `MCCloseTrigger`, `MCSerialNo`, `MCSession`, `MCWire` | small instances | extend the modules they instantiate |

Definitions whose comment begins with *Variant* are not part of any
specification. Each is a plausible mistake in the definition that follows it, and the
properties are tried against it: a property that no mistake breaks would say nothing.

### `Lifecycle`
A stop channel is the number of the start that made it; `closed` is the set of closed
ones. `Transit` is `fsm.Event` finding a transition: it changes the state, takes the
fsm's event mutex, and the callback (`OnStart`, `OnStop`, `OnDestroy`) runs later under
that mutex; `Refuse` is the event without a transition. `Restart` is the stop event,
the wait (`pc = "waiting"`) and the start event as three steps, so that anything may
come in between. A session goroutine dials (`DialFails`, `Attach`); it reads
`p.stopSignal` only when the dial has returned and so may attach to its successor's
channel: two live sessions of one endpoint may then hang on the same channel, which tells
both. `SessionsInReach` says that there is never a session which no channel tells. A
client's session that is lost calls `Restart` (`LoseConn`; also a
refused or missing hello); the proxy's listener that fails is only logged
(`LoseListener`).

### `Tunnel` and `TunnelService`
An *end* is a pair of a side and a connection. Applications send numbered pieces of
data and may close at any time. `chan[s]` is what side `s` has written to
the session and the other side has not read. Each goroutine is a program counter or a
flag of its own: `accept` (accept loop), `recv[s]` (receiver), `readers` and `held`
(readers, and what they hold between `Read` and `Write`), `trigger` (close triggers).
Steps of the code between which another goroutine can be seen are separate actions:
`Accept` / `Store` / `sendBrowserConnCreateEvent`; `OnClose` / `OnCloseUnbind` /
`OnCloseClose`; `FireForward` / `UnbindForward` / `Notify` / `CloseAfter`;
`OnCreate` / `DialStore` / `ArmForward` / `sendCreateConnDoneEvent`; `OnReq` /
`OnReqWrite`; `Read` / `SendReq`. The faults are an explicit constant: a refused dial, a
session that breaks, a missed heart beat, a stop, a browser listener that fails, an
application that does not read (`stalled`, with all buffers towards it full, for a time or
for ever). Then `OnReqWrite` waits, and with it the only receiver of that side, until the
application reads again or one of the two closes the connection. A proxy's receiver that
waits reads no heart beats, so its timer fires (`BeatsMissed`, `checkClientHB`); the
client finds a lost session by its next heart beat (`sendHB`), whatever its receiver does.

`TunnelService` has neither messages nor numbers: an application receives the other
one's pieces in order, and its end is shut only if it closed itself, if the other
closed and everything was delivered, or if the connection was cut. The refinement
mapping takes a closed socket for shut, and cuts a connection when its dial was
refused, when its application had left while something was written to it, and all
connections once the session or the listener is down or an endpoint was stopped.

Assumptions of `Tunnel`, each with its reason:
- the session is established and serves one browser port (`Session` is how it gets
  there, and its ports);
- messages are whole and in order (`Wire` shows it of the receive loop);
- an application closes both directions at once; the code has no half-close;
- of the goroutines of a close trigger one wins (`CloseTrigger` has the choice, and the
  panic that two winners can cause);
- looking up and starting the reader are one step in the `DONE` handler: between them only
  the connection's own socket state could change, which the reader finds;
- a write to the session does not wait: `chan` has no bound. In the code it does once the
  other end's receiver waits for an application and TCP's buffers are full;
- only accepted connections draw numbers. In the code messages draw theirs from the same
  counter, so that it comes round sooner: "as many numbers as connections" below is to be
  read as "no number is given twice";
- what is in flight when a receiver stops reading is lost, as the socket is gone.

### `CloseTrigger`
One goroutine for the object's own signal, one for each outside signal. The Go `select`
with several ready cases is a choice (`Leave` or `Win`); the inner `select` and
`close(over)` are two steps (`Check`, `CloseOver`), as nothing holds a lock between them.
`Close` differs between a connection (always gives the own signal) and a listener (only
when it is closed already; the failing `Accept` gives it otherwise). `kind` and `closers`
(which handlers close the object themselves) are chosen at the start, so one run
covers every combination. `ran` counts how often each handler ran. The goroutine of the own
signal closes nothing after its handler, so `SocketReleased` promises a closed socket only
if that one did not run; what is left then is the garbage collector's (`Finalize` of
`Tunnel` and of `Session`).

### `SerialNo`
The compare-and-swap, the increment and the plain read of the result are three steps.
`last` and `floor` are history variables: the largest number handed out, now and when a
call began. The counter's `int32` overflow is left out: it is reset at 65535.

### `Session` and `Mapping`
A *link* is one TCP connection from a client to the proxy; its slot is used again when
both ends are over. `client[l]` and `proxy[l]` are its two ends, and a link in `silent`
loses everything without telling either. The client program is `phase`, `cur` and
`timer`: waiting in `Restart`, dialing, waiting for the hello, up. The proxy's state is
per link: the heart beat timer (`left`), whether `clientHelloHandler` runs (`serving`), the
browser listener (`lis`: none, open, failed in `Accept` with its port still bound, or gone
after the collector closed it). A listener that failed is not made again and the client is
not told (`AcceptFails`). The handler's loop over `strings.Split(port, ",")` runs once,
because the parser of the file splits at commas first (`clientmappingparse.go:33`) and
the client asks for one port (`progress.go:32`). `age[l][k]` is how long a message of
kind `k` has been under way. An edit of the client's file (`EditFile`, `Poll`,
`Replace`) destroys the running clients: their links are in `old` until the stop signal
closes them, and the dials that are out (`late` counts them by port) return later
(`LateDial`) and still say hello, as `listenProxy` looks at the destroy signal only
afterwards. `ProxyReplaced` is the proxy's own live update.

Time passes in `Tick`s. No tick passes while a fired timer, a close signal or a running
handler still has a step to take, nor beyond `Delay` for a message on a working link: the
goroutines are fast compared to seconds.

Abstractions: of the clients that a file asks for one is followed, any of them (the
others are among the `alien` owners of ports); the settings besides the mapping are one
value (`rest`), and they are such that client and proxy understand each other (`Wire`
has the other case); a replaced proxy has settings that fit. A goroutine is taken to run
within a round trip of its start, and a receiver to end with its link (section 5).

### `Codec` and `Wire`
A byte is a number below `Base`, a 16-bit field two of them; what travels are cells
`<<key, byte>>`, where the key says what can be read of the byte: in version 1
everything, in version 2 only by one that has the secret. Under another secret, or
another version, the code reads noise, and it has nothing to tell noise from a message:
`v1/message.go:148-199` compares no version and `aes.go:74-100` authenticates no text. So
what a reader with another key finds is any of a constant set of texts (`Noise`), unpadded
and parsed like any other: `AesCBCDncrypt` and `UnMarshall` are the sets of possible
results, `Error` (a panic that `UnMarshall` recovers from, or its error) among them. `U16`,
`Attr` and `ReadAttr` keep the widths of the code, so that the three bytes which a length
counts of its own header wrap as they do there. `Wire` is the byte stream from one end
to the other: `Write` appends a frame as a whole (one `Write` call, and the socket's own
lock), `ReadLength(n)` is the `Read` of four bytes that returns `n`, `ReadMessage` is
`io.ReadFull`, `UnMarshall` and the handler. The bytes of the length that a short `Read`
did not fill stay 0, as in the fresh slice of the code.

## 3. Runs

| Run | Instance | Question | Result |
|---|---|---|---|
| `lifecycle` | client and proxy, 2 callers, 2 starts; fair | `TypeOK`, `NoPanic`, `SignalsMirrorStatus`, `SessionsInReach`, `DestroyIsFinal`, `RestartBringsBack`, `DestroyEndsSessions`, `StartedHasSession` | hold |
| `tunnel_two` | 2 connections, 2 numbers, a piece of data from each browser; refused dials; constraint `OneSlow`: the applications of one connection stop reading for a time, those of the other close; fair | `TypeOK`, `InOrder`, `LiveIsBound`, `CloseCrosses`, `DataFlows` | hold |
| `tunnel_faults` | 1 connection, every fault but "stall", constraint `Short` | `Promise` (refinement), `ForwardUnbound` | hold |
| `tunnel_live` | 1 connection; refused dial, break; constraint `OneWay`: 1 piece from either side, whose receiver may stop reading; fair | `CloseCrosses`, `SessionEndReleases` | hold |
| `tunnel_wrap` | 3 connections, 2 numbers | `RightBrowser` | **violated** |
| `tunnel_stale` | 1 connection, a stop | `BrowserUnbound` | **violated** |
| `trigger_live` | connection and listener, 3 outside signals; fair | `TypeOK`, `SomeoneHandles`, `AllReleased`, `SocketReleased` | hold |
| `trigger_panic` | 2 outside signals | `OverClosedOnce` | **violated** |
| `serial_fresh` | 3 callers, numbers to 5, 8 draws | `TypeOK`, `Fresh` | hold |
| `serial_twins` | 2 callers | `NoTwins` | **violated** |
| `session` | 2 links, messages take up to a tick of 2.5 s; a silence or failed listener, an edit, a port possibly held by another program, constraint `Short`; fair | `TypeOK`, `LivePeerKept`, `UpIsListening`, `Served`, `PortsReleased` | hold |
| `wire` | 2 messages of all seven kinds, every pair of version and secret, three noises | `TypeOK`, `InStep`, `FramesKept`, `VerdictSurvives` | hold |

**Bounds and why they are enough.**
- `lifecycle`: two callers and the sessions' own goroutines give every pair of
  concurrent events on the state machine, two starts a `Restart` that overlaps a later
  generation; the safety theorems hold for any number.
- `tunnel_*`: connections meet only in the maps, the numbers and the shared goroutines,
  so two show any interference of a pair; `tunnel_wrap` needs a third to let the counter
  come round. Two pieces of data are what loss, duplication and reordering need. Under
  the state constraint `Short` (`tunnel_faults`) the two sides send at most two pieces together, the
  proxy's side at most one of them; in a behaviour with a stop or a failed `Accept` only
  the client's side sends, at most one: there the session ends, as it does by a break,
  which has the larger bound. `MaxCID` stands for 65535: in the passing runs it is at
  least the number of connections, so a number is not given twice (`tunnel_wrap` shows
  what happens otherwise). "stall" is left out of
  `tunnel_faults`: it only takes steps away, and the proofs have it. One piece is enough to
  block a receiver; under `OneWay` (`tunnel_live`) it comes from either side, so each of the
  two receivers may be the one that waits, in the middle of a loss of the session or of a
  close. Under `OneSlow` (`tunnel_two`) there is a bystander: one connection whose
  applications stop reading and do not close, another whose applications close and read.
- `serial_fresh` draws more often than there are numbers.
- `session`: the waits of 5, 5, 10 and 15 seconds (`wait_server_hello_time_sec`,
  `restart_interval` and both `hb_interval_sec`) are 2, 2, 4 and 6 ticks of 2.5 seconds, with
  messages that take up to one tick (`Delay` = 1), so that a hello and its answer may arrive
  after the client gave up; the theorems have any `Delay`. Two links are a lingering one and
  its successor; one edit replaces a client in any phase, or the proxy; `MaxBreaks` counts
  silent links and failed listeners together. The files are one port, two ports (two
  clients, of which either may be the one that is followed), and one that does not parse;
  another program may hold the first one's port. Under the state constraint `Short` nothing
  is edited or fails while it does, and with the two ports nothing fails; the theorems
  `LivePeersKept` and `AcceptedIsListening` have no such bounds.
- `wire`: bytes below 16 and blocks of 4 keep the shape of all fields (16 bits are two
  bytes, a text fills its last block or not). The three noises are a message without
  attributes, one with attributes, and one that cannot be unpadded. Two messages are what a
  receiver needs to fall out of step. All but `TypeOK` are claimed as long as no `Read` returned a part of
  a length: what comes after is in the model, and is wrong (see the hazard at `client.go:220`).

Deadlock is not checked except in `session`: an endpoint that is destroyed, a trigger
that ran, a session or a stream that is over rightly stop. In `Session` time goes on.

**Fairness and why the code justifies it.** Every goroutine that stays runnable runs
(weak fairness, one conjunct per goroutine: the Go scheduler). The fsm's event mutex is a
Go mutex, which hands itself to a waiter in the end (strong fairness of `Refuse` or
`Transit`). A dial returns with one outcome or the other; the timer of `Restart` fires; a
read of a broken or closed connection fails in the end; a loop over a closed socket
fails. A write to an application returns when that application reads again and again (strong fairness of
`OnReqWrite`: what it reads makes room for the write); nothing makes it read.
`CloseCrosses` and `DataFlows` say so in their premise `ReadOn`, `SessionEndReleases` has
none. The heart beat's timer fires when beats are missed for good, its ticker goes on, and
writes to the session are taken not to wait. `Session` adds that time passes, that a dial
which is tried again and again succeeds at last (strong fairness of `Connect`), that an
acceptance which arrives again and again just as the hello wait ends is taken at last
(strong fairness of `proxyHelloHandler` with "ok"; no link is that slow for ever), that the
program which holds a port leaves in the end, that the collector runs (Go forces it every
two minutes), and that an operating system which has data to send gives up a silent link
(the client's `LoseLink`). The proxy may wait for a silent link's end of file forever: only
its heart beat timer is fair there. Nothing is assumed of applications, callers, faults,
edits, accepted connections, or of the collector in `Tunnel`.

### Findings
- `tunnel_wrap`: `cID` comes from a counter that wraps at 65535 and is not compared with
  the numbers in use (`proxy.go:339`). A connection that outlives a round shares its
  number with a new one; the reply of its server goes to the other browser.
- `tunnel_stale`: the close trigger of a browser connection is armed before the
  connection is stored (`proxy.go:343`, `374`). Fired in between, its `Delete` comes first
  and the entry of a closed connection stays in `browserConnRID`.
- `trigger_panic`: two signals at once can both find `over` open and both close it
  (`net/conn.go:106`, the same in `net/listener.go`), which panics.
- `serial_twins`: `newSerialNo` returns a plain read after the atomic increment, so two
  accept loops of a proxy that serves several ports may draw the same `cID` (`proxy.go:502`).

## 4. Proofs

All proofs are checked by TLAPS with SMT, Zenon and the temporal prover. Each
module's theorems are at its end or after the lemmas they rest on.

- **`LifecycleProofs`** (`TypeCorrect`, `NeverPanics`, `SignalsFollowStatus`,
  `NoSessionUntold`, `DestroyedForGood`): for any callers, any bound on starts and either
  role, from `StartsAssumption` and `CallersAssumption`. `NoPanic` is not inductive: that
  the stop callback closes an open channel depends on what the fsm's mutex guarantees. The
  invariant is `MutexHeld` (who is in a callback holds the mutex, and it is one
  goroutine), `Settled` (no callback running: the channels mirror the state), `Pending`
  (callback running: the channels still mirror the state before the event) and
  `ChannelsMade` (earlier channels closed, later ones not made), with `Attached` (a session
  hangs on a channel that was made), which `SessionsInReach` needs.
- **`SerialNoProofs`** (`TypeCorrect`, `FreshNumbers`): for any number of callers and any
  width. The invariant `Counts` says that before the counter has been advanced past its
  maximum it equals the number of draws, and bounds what was handed out and what each call
  may read.
- **`TunnelServiceProofs`** (`Delivery`): the abstract tunnel delivers in order and
  truncates nothing, for any connections and any amount of data. `NothingTruncated`
  (below) carries it over to `Tunnel` by the refinement.
- **`TunnelProofs`** (`TypeCorrect`, `NoStaleForward`): for any connections, amounts of
  data and faults, and any `MaxCID`, so also when numbers come round while they are in
  use. `ForwardUnbound` is not inductive: a close handler removes the entry under
  its connection's *number*, so the invariant says that a map holds a connection only
  under its own number (`Bound`), and that the messages in flight, the accept loop and
  the receivers carry the numbers of their connections (`Messages`, `Accepting`,
  `Handling`). That no entry is made after the close handlers ran needs `Once`: a
  connection is announced to the client once, and before its close trigger there
  exists. `Counted` and `Numbered` are what the types need: a reader that ends was
  counted, and a message carries a number that was drawn. A `REQ` stays at the head of the
  stream while its handler waits to write it (`Writing`, kept apart from the invariant,
  which needs it in that one step). There is one lemma per action.
- **`TunnelProofs`** (`LiveReachable`): the opposite direction, a connection that nobody is
  closing *is* in its maps. It fails once a number is given twice (that is `tunnel_wrap`),
  so it assumes `FewConns`: not more connections than numbers, to be read as
  "no number is given twice". From it follows that the counter never wraps (`Drawn`: it has counted the accepted connections) and that numbers
  differ (`Unique`); then a `Delete` under a number can only be of the connection's own
  entry. `Dialled` covers the client's two steps between dial and close trigger.
- **`TunnelOrderProofs`** (`DeliveredInOrder`): an application receives what its own
  peer sent, in order, each piece once; for any connections, pieces and faults, under
  `FewConns` (without it `tunnel_wrap` shows the opposite). `InOrder` says nothing of what
  is still on its way, so the invariant `Order` follows each piece through reader, link and
  receiver. `Pieces`: the requests in flight continue what was received for as long as the
  application can be reached, and the last of them is the last piece that was passed on
  while the session is up; once the application cannot be reached, or the session is down
  (`Downed`), only the rest is lost. A reader holds a piece between `Read` and `Write`, so
  two readers of one end could swap two pieces: `ReadOnce` says that one DONE is sent for a
  connection, hence one reader started. `Untouched` says that an end becomes reachable
  only before anything is read for it. That a number found in a map belongs to the right
  connection is `Unique`, `Drawn` and `Bound` of `TunnelProofs`.
- **`TunnelOrderProofs`** (`KeepsPromise`, `NothingTruncated`): `Tunnel` implements
  `TunnelService`, under `FewConns` too. The order is the proof above; what is left is why
  an end may be closed, the invariant `Endings`. `Ending`: where nothing failed, an end is
  closed, or about to be, only when it rests (nothing more is to be passed on for it, and
  it left or has received all), and a CLOSE is sent only by an end that rests, behind all
  its data, so that who takes the CLOSE from the link has taken the data before. `Made`:
  the client's end is dialled once. Then each step is mapped: `AppSend`, `AppClose` and a
  delivering `OnReqWrite` are `Send`, `Close` and `Deliver`; whatever closes an open socket is
  `Shut`; a lost session, a stop, a failed listener, a refused dial and a write to an
  application that left are `Cut`; every other step changes nothing that an application
  sees. `NothingTruncated` instantiates `Delivery` with the same mapping.
- **`CloseTriggerProofs`** (`TypeCorrect`, `NoSignalSwallowed`): for any
  number of outside signals and both kinds of object. The invariant adds that `over` is
  closed only by one that handles, and that who found it closed ran past one that does.
- **`SessionProofs`** (`TypeCorrect`, `LivePeersKept`, `AcceptedIsListening`): for any
  links, files, ports and waits, from `TimeAssumption` (a heart beat, and the hello with its
  wait, fit into the proxy's timeout with the delay), `FileAssumption` and
  `LinkAssumption`. The invariant has three parts. `Ends` says which ends the client
  program holds open. `Hello` follows one link from its hello to the answer: an answer of
  "ok" under way means that the port asked for was bound, and an accepted client asked for
  its own. `UpIsListening` excepts a listener whose `Accept` failed, which nothing makes
  again. `Beat` is an
  account of time: while a heart beat is under way, what is left of the proxy's timer and
  the heart beat's age together exceed the delay; while none is, the timer outlasts the
  client's ticker by more than the delay; during the hello exchange it has lost no more
  than the hello wait has.
- **`WireProofs`** (`FieldRead`, `LengthRead`, `PaddingUndone`, `UnMarshalled`): for any
  base and block size within the assumptions. A field is read as it was written; a length
  survives its three extra bytes, also where they wrap; the padding comes off as it was put
  on, and a text is deciphered with its own secret (`CipherUndone`). From these follows
  that an end of the same version and secret gets the message field by field, for any
  number of attributes of any length. Of what other ends make of it nothing is claimed:
  the code does not exclude that noise is read as a message. The loops over the attributes
  are recursive functions of the number of rounds. That such a function exists is shown
  once (`Recursion`), and what it yields by comparing it with the expected value of each
  round (`OneRun`); both are inductions, for which `Induction` is derived from the fact
  that `<` is well-founded on the natural numbers, as a statement about sets and not about
  predicates, which the provers can instantiate.
- **`WireProofs`** (`TypeCorrect`, `MessagesInStep`, `BoundariesKept`,
  `VerdictsSurvive`): all four invariants of `Wire`, for any endpoints, messages and
  number of messages, from the assumptions below. `InStep` says nothing of what is
  under way, so `Framed` says where the receiver stands: what has been written and not
  read would be, had nothing been lost, the frames of the messages after the first
  `Taken` ones (or, between a length and its message, that message and the frames after
  it), and the stream is a beginning of that, the whole of it unless the connection is
  lost. `Handled` says that each message taken off has been handed on as `Decoded`, or that
  all were left out. A length fits its four bytes because `PlainLength` bounds the
  message, so it reads back as it was written; `Split` then takes it, or a message, off
  the front of the stream.

  `InputsAssumption` (`Fits`) is what the constructors and the endpoints guarantee of a message: fields
  of their width, one attribute of a type, and values below 65536 bytes (a body is one
  `Read` of 4096). `Answers` is what `sayHello` sends. `PortAssumption` says that the
  mapping names a port: the parser takes `->addr` too, for which the proxy listens on
  some port and answers with the error code and the port that was asked for, an empty one;
  version 1, which drops the error code, takes this for an acceptance.
- **`SessionProofs`** (`SameIsNoDiff`, `NoDiffSamePorts`, `SwapUnseen`): for any number of
  mappings. `Diff` compares ports and addresses as two separate sets; counting shows that
  distinct ports nevertheless stay the same ones, while two ports that exchange their
  addresses go unseen, so that the running clients keep the old addresses.

Every safety invariant and every safety property of the passing runs is stated by a
theorem. Only model-checked is liveness, which, like `ENABLED`, is out of this
prover's reach: `RestartBringsBack`, `DestroyEndsSessions`, `StartedHasSession`,
`CloseCrosses`, `SessionEndReleases`, `DataFlows`, `AllReleased`, `SocketReleased`,
`Served` and `PortsReleased`. Nothing is proved of `Digits` and `ParseInt`, the standard library's
conversions: `VerdictsSurvive` says that both ends convert the same digits. No module
declares a `RECURSIVE` operator.

## 5. Not modelled

- `proxyHelloSignal` is made by one goroutine (`client.go:172`) and closed by another
  (`434`), which would close nil if the first had not run for the hello's whole round trip.
  `Session` takes a goroutine to run within such a time.
- `receiveProxyMsg`, `hb` and the hello time-out read the field `p.proxyConn` again, and the
  receiver runs `Restart` with its wait (`client.go:438`, `67`) and the dial of the forward
  address (`292`) itself. When it comes back from either, the field may hold the next
  session's connection, which it then reads beside that session's own receiver. `Session`
  takes a receiver to end with its link, and `Tunnel` has one session.
- A write to the session that waits because the other end's receiver does, with TCP's
  buffers full: `chan` has no bound.
- The empty secret that panics and the unknown version that yields no message
  (`ipp/ippnew/ippnew.go`): no property of a running system depends on them.
- The counter's `int32`: `newSerialNo` resets it at 65535. Two overlapping increments can
  pass that value, after which it grows until it overflows, 2^31 draws later;
  what is read of it is cut to 16 bits all the while (`TypeCorrect` of `SerialNoProofs`).
- AES, the random vector and the derivation of the key: the standard library's. `Encrypt`,
  `Dncrypt` (base64) and `GetClientProxyForwardAddrByPort` are not called by the program.
- Flags, ini syntax, logging, the empty window client.
