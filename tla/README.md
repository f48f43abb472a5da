# TLA+ models of multi_process_server

multi_process_server takes JT/T 1078 audio and video of cars, sends it to the
programs that somebody watches it with, and tells the 808 platform (over a
Redis list) which cars are to stream.  This directory holds TLA+ models of its
programs, the TLC runs that check them on small instances, and TLAPS proofs of
the most important results for every size of instance.

Paths below are relative to `src/`.  `PROJECT.json` lists, for each definition
that models code, the file and lines it models, and for each hazard of the code
the properties that look after it.

- [The system](#the-system)
- [Inventory](#inventory)
- [The modules](#the-modules)
- [Runs](#runs)
- [Fairness](#fairness)
- [Proofs](#proofs)
- [Where the code and its documents differ](#where-the-code-and-its-documents-differ)
- [What is not modelled](#what-is-not-modelled)
- [Plan: done and left](#plan-done-and-left)

To check: `tlc -config MCForwardServer.cfg MCForwardServer` and so on for each
`MC*.cfg` (`MCWebServerReconnect.cfg` goes with `MCWebServer.tla`,
`MCTcpClientRetry.cfg` with `MCTcpClient.tla`); `tlapm Ipc_proofs.tla` and so on
for each `*_proofs.tla`, and for `SequenceInduction.tla`.

## The system

```
 cars --JT1078/TCP--> jt1078_server --ipc/TCP--> pc_server ------TCP--------> PC viewers
                           |   \----ipc/TCP----> web_server ----RTMP--> SRS --> browsers
                           |    \                     ^---HTTP callbacks-/
                           |     \--ipc/TCP----> new_web_server --WebSocket--> browsers
                           \--commands--> Redis (a list) --> 808 platform --> cars
```

| program | execution | what it keeps |
| --- | --- | --- |
| jt1078_server | one libevent loop | a real-time and a history pair of Jt1078Server (cars) and ForwardServer (subscribers), one RedisMqServer |
| pc_server | one libevent loop | viewers and the device each watches, one connection to jt1078_server |
| web_server | one libevent loop, and one RtmpThread for each of two WebServers | browsers per device, wanted devices, a connection to jt1078_server; in the thread, an RTMP client per device |
| new_web_server | one asio `io_context`, one thread | WebSocket topics, one connection to jt1078_server |

In a libevent program one handler runs at a time, with everything it calls: a
handler is one action, and what interleaves is the events.  In new_web_server a
completion that has been queued belongs to the socket's past.  Only web_server
has two threads with something in common, the task queue.

What makes these programs hard is

- the life of a *subscription*, which is spread over programs that fail
  separately: a browser's or viewer's wish, the requests on the present
  connection, jt1078_server's channel, the platform's open and close commands;
- connections that break while a handler holds on to them, and failures that
  are noticed late (a write that fails, a read error that comes after it);
- reconnecting: who starts the timer, and what is sent again afterwards;
- byte streams cut anywhere, partial writes, buffers of limited size;
- the thread that pushes to SRS, always some tasks behind the loop;
- time stamps of devices whose clock does what it likes.

## Inventory

For every component: state, operations, what it interacts with, what is hard,
and what makes it correct.  The status and module of each is in the heading.

**jt1078_server: ForwardServer, Publisher, Channel** (modelled: ForwardServer).
State: `m_mapSubscriber`, `m_mapChannel`, each channel's subscribers, each
subscriber's `m_bFdCanWrite`.  Operations: connection, subscribe, unsubscribe,
read error, publish, the scan for empty channels.  A subscription may send an
open command through Jt1078Service, the release of a channel always sends a
close command and disconnects the device's cars.  Hard: a subscriber whose
write fails leaves the channel in `Channel::SendMsg`, the channel itself stays,
and the session is only dropped by its own read error.  Correct when no channel
is left behind, nobody is cut off by another's leaving, and the platform's last
command agrees with the channels.

**jt1078_server: Jt1078Server, CarManager, CarSession** (modelled:
ForwardServer, Jt1078Decoder).  State: cars, the device each named itself in
its first packet, the decoder.  Operations: connection, bytes, error,
disconnection by device.  Hard: a header in two parts, of three sizes, cut
anywhere.  Correct when the packets that have arrived whole are exactly the ones
handed on, at once, and a car is dropped only for an invalid packet.

**jt1078_server: Jt1078Service** (partly: ForwardServer).  Connects the two
servers and writes the commands; only the real-time side has an open command.

**core: RedisMqServer, RedisClient** (modelled: RedisMq).  State: the hiredis
context, `m_bConnected`, the timer.  Operations: connect, AUTH, SELECT, push,
replies, disconnect, timer.  Hard: three callbacks and a timer that may each
start the next attempt; a context that hiredis has freed.  Correct when there is
always exactly one attempt, connection or timer, and being connected means that
the configured database is selected.

**Sending: Subscriber, PcSession, TcpSession** (modelled: FramePath).  State: a
list of pending buffers, `m_bFdCanWrite`.  Operations: `SendMsg`/`SendPacket`
with one `send`, the flush of the list.  Hard: partial writes, EAGAIN, a buffer
half gone.  Correct when the stream a receiver sees is the packets, whole, in
order.

**core: ipc_packet decoder, buffer** (partly: IpcDecoder, used by FramePath and
CarFeed).  State: buffer, header while waiting for its body.  Hard: several
packets in one read, one packet in several, a buffer with a limit.

**pc_server: PcServer, PcPublisher, PcManager, PcSession** (modelled:
PcServer, Subscription, ViewerRequests).  State: sessions and their device, lists of watchers, `m_client`, the
connect timer.  Operations: subscribe (which moves a viewer), unsubscribe,
errors of viewers and of the client, the timer, frames.  Hard: the client is
null between an error and the timer; requests meanwhile are dropped; a watcher
is dropped by a frame and its session later; requests and the end of a
connection reach jt1078_server when they do, or never.  Correct when what is
asked of jt1078_server is what is watched, when jt1078_server comes to list
exactly that, and when what is watched is served in the end.

**jt1078_client: Jt1078Client** (partly: TcpClient, PcServer, WebServer,
Subscription, FramePath).  The client end of the ipc stream: its life is the
TcpClient's, its requests Subscription's, what it receives FramePath's.

**web_server: WebServer, HTTP handlers, DeviceIdMgr, HttpSessionStat**
(modelled: WebServer).  State: browsers per device, wanted devices, client,
timer.  Operations: on_play, on_stop, web_on_play, the client's callbacks.
Hard: SRS outlives the program; callbacks of several browsers and of the site
for one device; a queue that blocks.  Correct when a device is wanted while it
is watched, asked for once and withdrawn at the end.

**web_server: RtmpThread, RtmpMgr, WorkThread, SafeQueue** (modelled:
WebServer, SafeQueue).  State: the queue, its lock and condition variables, the
RTMP clients.  Hard: the thread is behind the loop, pushes fail, `notify_one`
with two kinds of waiters.  Correct when nothing waits for ever and the clients
agree with what is wanted once the queue is empty.

**web_server: RtmpClient, CRtmpStream** (partly: FrameAssembly, IdrFrame,
RtmpTimeline).  State: two packet buffers, first and last times, slots of
silence, PCM.  Hard: packets missing at any place; clocks that jump; unsigned
differences; marking key frames in bytes that may begin and end anywhere.

**new_web_server: CarWebServer, CarTopicManager, CarTcpClient, TcpClient,
TcpConnection, AsioTimer** (modelled: CarWebServer, CarFeed).  State: topics and
members, the socket, outstanding reads, the timer, the decoder.  Hard: queued
completions of a socket that was closed and connected again; requests written
from memory that is gone when the connection is made; a decoder that outlives
its connection; reads of a fixed size.  Correct when it never stops trying,
never closes a working connection, and asks for what is watched.

**core: TcpClient, Listener, Socket** (partly: TcpClient).  State: the
descriptor watched for the connect's outcome, `m_fd`, and what becomes of the
descriptors when the owner drops the client.  Operations: `AsyncConnect` with
its three results (pending, answered at once, failed), `write_cb` with its three
(connected, an error, a timeout), an error of the connection.  Hard: who closes
a descriptor, whose number another thread may be using a moment later; a failed
attempt that answers inside the caller.  Correct when the client's owners get
the one answer they count on, and no descriptor but its own is ever closed.

**jt1078: device ids (Jt1078Util)** (partly: DeviceIds).  No state; a device id
is a string a viewer types, a number, that number printed, the SIM and channel
of a command, and the header of the car's packets.  Correct when the car opened
for a viewer publishes under the id the viewer is listed with.

**core: EventLoop, EventWatcher, timers** (partly): what the programs rely on is
in every module: one handler at a time, and a timer that is one-shot.

Not modelled: HttpServer and HttpHandler (no state), MasterServer, WorkServer
and PipeChannel (no program starts one), MysqlClient (unused), logging, time
formatting, traffic counters, configuration, the prototype in `jt1078/pub_sub`, the audio codecs, benches,
vendored code.  See [below](#what-is-not-modelled).

## The modules

| module | models | used and checked by | proofs |
| --- | --- | --- | --- |
| `StreamDemand` | what jt1078_server promises: abstract | implemented by ForwardServer | `Jt1078Server_proofs` |
| `ForwardServer` | subscribers, channels, cars, commands | `MCForwardServer`, Subscription | `Jt1078Server_proofs` |
| `PcServer` | viewers, requests, reconnection | Subscription, ViewerRequests; implemented by TcpClient | `Subscription_proofs` |
| `Subscription` | PcServer and ForwardServer with the connections between them | `MCSubscription` | `Subscription_proofs` |
| `ViewerRequests` | PcServer with what its viewers asked for last | `MCViewerRequests` | |
| `WebServer` | SRS callbacks, reconnection, RtmpThread | `MCWebServer` | `WebServer_proofs` |
| `SafeQueue` | the bounded queue, its mutex and condition variables | `MCSafeQueue` | `WebServer_proofs` |
| `FrameChannel` | an ordered gapless delivery: abstract | implemented by FramePath | `Ipc_proofs` |
| `IpcDecoder` | the decoder of the ipc stream: operators | FramePath, CarFeed | `Ipc_proofs` |
| `FramePath` | Subscriber -> Jt1078Client -> PcSession -> viewer, bytes | `MCFramePath` | `Ipc_proofs` |
| `Jt1078Decoder` | a car's bytes to packets | `MCJt1078Decoder` | `Jt1078Server_proofs` |
| `DeviceIds` | a device id's forms from the viewer to the car and back | `MCJt1078Decoder` | `Jt1078Server_proofs` |
| `RedisMq` | the connection to Redis | `MCClients` | `Clients_proofs` |
| `TcpClient` | the descriptors of the connection to jt1078_server | `MCClients`, `MCTcpClient` | `Clients_proofs` |
| `FrameAssembly` | packets to frames | `MCRtmp` | `Rtmp_proofs` |
| `IdrFrame` | which frames are key frames | `MCRtmp` | `Rtmp_proofs` |
| `RtmpTimeline` | presentation times, silence | `MCRtmp` | `Rtmp_proofs` |
| `CarWebServer` | topics, requests, connection, completions | `MCCarWebServer` | `CarWebServer_proofs` |
| `CarFeed` | blocks, decoder and topics of the same program | `MCCarWebServer` | `Ipc_proofs` |
| `SequenceInduction` | induction over the numbers, recursive functions, flattened sequences: lemmas only | the modules of proofs | in it |

`MCClients`, `MCRtmp`, `MCJt1078Decoder` and `MCCarWebServer` check several
specifications that share no variable in one run: a behaviour chooses at the
start which of them moves (`moving`; in `MCJt1078Decoder` by whether the car
sends anything), so that the states are the sum and not the product of the
parts', and every property is about one of them.

Operators marked "Faulty variant" next to a definition are what a plausible
slip in that code would make of it.  No specification uses them: they show for
each property that it can fail (`mutants` in PROJECT.json).

### ForwardServer and StreamDemand

One half (real-time or history) of jt1078_server.  `Subscribe`, `Unsubscribe`
and `OnPacketError` are the handlers with everything they call, in particular
`ReleaseChannelIfEmptySubscriber`, which scans every channel, closes the empty
ones and disconnects their cars.  `CarPacket` includes `Channel::SendMsg`: any
of the listed subscribers whose connection is broken may fail, and leaves the
list.  `ConnectionBreaks` is the environment; `broken` is what the loop has not
noticed.  `wants` is a history variable.  A name stands for an id nobody holds:
it is used again once every trace of the former holder is gone.

The promise, StreamDemand, knows no sockets: a device streams from the first
demand, stops only when nobody demands it, and the platform is told "open" only
of a device that was not streaming and "close" of each that stops.  The
refinement maps demand to the pairs of a session and a channel that lists it.

### PcServer

Viewers and the devices asked for on the *present* connection (`asked`), since
jt1078_server keeps subscriptions per connection.  `SubscribeDeviceId` has
`TryUnsubscriberOldDeviceId` and the request for the first watcher;
`OnClientConnect` asks for all watched devices again.  A request that arrives
while the client is not connected is dropped, as in the code.
`ReleasePcSessionDeviceId` uses `m_client` without asking whether it is null:
then the process ends (`Crash`) and is started again (`Restart`).  The client
state "dead" is one whose `AsyncConnect` returned false: it is kept, and no
timer runs; TcpClient shows how a process gets there.

### Subscription and ViewerRequests

Subscription composes PcServer with an instance of ForwardServer whose sessions
are the connections pc_server has made, numbered as they come.  Between them are
a FIFO of requests per connection (`requests`) and the two ends' views of a
connection that has ended: `down` is the network's, `link` pc_server's,
ForwardServer's `broken` what has reached jt1078_server's loop.  A step of
pc_server is its action in PcServer together with the requests that handler
writes (`MoveRequests`, `LeaveRequests`, `Resubscriptions` in any order of the
unordered map); a step of jt1078_server takes one request or notices an end.
A broken connection loses a suffix of what was under way.  jt1078_server may
stop, which ends all connections and forgets everything but what it has told
the platform, and starts again empty.

ViewerRequests adds to PcServer only a record of what each viewer last asked
for, whether the packet was handled or dropped.

### WebServer and SafeQueue

WebServer has the HTTP handlers of the loop (`SessionPlay`, `SessionStop`,
`WebOnPlay`), the client (as in PcServer, except that nothing is sent after a
reconnection), and `Run`, the thread's step.  The two share the queue only.
`flow` is what may still arrive of a device that was withdrawn.  A push fails
whenever it likes.  SRS is modelled by what it plays (`players`), it outlives a
`Restart`, and its on_stop callbacks meanwhile are lost.

SafeQueue takes the queue apart: waiting releases the mutex, a notified thread
competes for it again, notification comes after the unlock, wake-ups may be
spurious.  WebServer's atomic `PostTask`, which waits for room, stands for it.

### FramePath, FrameChannel and IpcDecoder

Bytes are pairs of a packet and a position, so that a byte in the wrong place
is seen.  `Written` is `SendBuffer`: as much as the socket takes, in order;
`SendMsg` and `SendPacket` are the two senders, alike but separate in the code.
What pends is kept as the bytes still to be sent: the code sends its list's
buffers one after the other until the socket takes no more of one, and keeps the
rest of that at the front.
`ClientReads` and `ViewerReads` take any number of bytes.  In IpcDecoder a
`Turn` is one round of a caller's loop (`Decode`, and `GetPacket` if a packet is
complete), and `Turns` the state after each of them; a decoder has no more turns
than bytes, and one in which it finds that nothing is left to do.  The abstract
FrameChannel says what a viewer may rely on.

### Jt1078Decoder

`Step` has the decoder's three states, a `Turn` is one round of the loops around
it, and `Turns` what there is after each; `ParseBuffer` is the last of them.
`m_howmuch` is modelled as the code uses it: set by one step for the next.
Headers are shorter than the code's; their proportions (a minimum, then more
for audio, then more for video) are kept by assumption.

### DeviceIds

`GenerateDeviceId` reads base 16 (`Number`, which has the platform's base 10
too), `GenerateDeviceIdStrByDeviceId` prints 14 hexadecimal digits, from the last
to the first (`Left` is what is left of the number after each) (the SIM's and two of the channel), the command takes them
apart and drops a leading zero of the channel, and the car's header has the
channel as a byte.  The platform's part (it reads decimal numbers) is external.
Everywhere else a device is a model value; this module says for which ids that
is sound: channels below ten.

### RedisMq and TcpClient

hiredis and the server are part of the model, from how the code uses them: a
queue of commands sent in order, replies, a context freed after a failure.  The
code does not ask whether it is connected before it pushes, so that a command
is lost, or goes to the database a connection starts in, or uses a freed
context, which may end the process: `fate` keeps what became of each.

TcpClient is the client under PcServer's and WebServer's `client`, with the
table of the process's descriptors (`owner`), the descriptor the write event
waits on and `m_fd`.  `ConnectFails` closes the descriptor before
`ReportsFailure` tells the owner, and other threads open and close descriptors
in between.  An attempt that is refused at once, and one that times out, leaves
its descriptor open: `m_fd` is not set yet, and `Clear` closes only that.
`ClientState` reads PcServer's four client states off the descriptors, and with
it TcpClient implements PcServer's connection.

### FrameAssembly, IdrFrame and RtmpTimeline

FrameAssembly: packets of audio and video frames reach the client, or are
missed, or fail; `gap` is the history of what was missed.  IdrFrame: the loop of
`isIdrFrame1`, a turn a step, over any bytes.  RtmpTimeline: the times
`CRtmpStream` gives and the slots of silence `AddFakeAudioPcm` adds, with the
code's unsigned subtraction (`Width`); its unit is 128 bytes, which divides all
amounts of the code (640, 2048, 2048 bytes are 5, 16, 16).  An audio frame has as
many bytes as a slot.

### CarWebServer and CarFeed

CarWebServer keeps the queue of completions (`completions`): a handler is run
from its head and may find another socket than the one it is about.  Two
`async_write`s of a request succeed or fail together; on a socket that is still
connecting, they are written later from memory that was on the stack, and may
be anything (`ConnectCompletes`).  Assumed: one endpoint (the configured address
is numeric), room in a connected socket for a request, a resolver that does not
throw.  CarFeed has the data: blocks of fixed size, the decoder that is kept
over a reconnection, and the topics' members.  In its run the unit is a word of
16 bytes, `sizeof(packet_t)`, so that headers are not cut, and `m_uHeadLength` is
taken not to look like another word of a packet; where connections end between
packets, which the proofs are about, any unit will do.

## Runs

All numbers are distinct states.  Deadlock is checked except where a model ends
by its own bounds or, in RedisMq, when the process has ended.

| run | instance | states | shows |
| --- | --- | --- | --- |
| `forward_server` | a pc_server and a web_server session, 2 devices, 2 cars | 46,064 | an empty channel always has a broken session whose read error will find it (`NoIdleChannel`), and is released in the end (`IdleChannelReleased`); a session that can be written to is listed wherever it asked (`HealthyServed`); no step cuts a car a healthy subscriber wants except the car's own error (`NoCutWhileWatched`); StreamDemand is implemented (`ImplementsDemand`) |
| `subscription` | 2 viewers, a device, a car, 2 connections, 2 requests under way, 1 stop of jt1078_server | 304,395 | `WatchedIsAsked`, `AskedIsWatched`: pc_server's requests and watchers agree, through reconnections, moves, failed writes and crashes; `ServerFollows`: jt1078_server lists what was asked for, or will once it has handled what is under way; `ServedInTheEnd`, `ReleasedWhenUnwatched` |
| `pc_server_requests` | 2 viewers, a device | - | *violated*: a request made while jt1078_server is away is kept (`RequestsKept`) |
| `web_server` | 2 devices, 2 browsers, a queue of 3 | 204,075 | RTMP clients agree with what is wanted once the queue has drained (`UnwantedIsReleased`, `WantedIsPushed`); `WatchedIsWanted`; `AskedIsWanted`; nothing is subscribed to twice (`StartedOnce`); `ReleasedInTheEnd` |
| `web_server_reconnect` | 1 device | - | *violated*: after a reconnection what is wanted is asked for (`WantedIsAsked`) |
| `frame_path` | 2 viewers of different devices, 3 frames of 2 or 4 bytes, 3 bytes between two processes | 92,810 | `NothingLost` accounts for every byte on both hops; no receiver sees an invalid header or keeps a whole packet (`NeverMisframed`); FrameChannel is implemented (`ImplementsChannel`); frames arrive unless bytes are left pending (`ArrivesInTheEnd`) |
| `jt1078_decoder` | up to 3 packets of every kind, valid or not, in every cut; every id of up to 6 digits out of 0, 1, 9, a | 74,723 | `GotWhatArrived`, `DroppedForCause`; the car opened for an id publishes under it exactly when the channel is below ten (`ServedBelowTen`) |
| `safe_queue` | 2 producers, 2 consumers, room for 2, 5 tasks | 43,917 | no lost wake-up (`ConsumersNotified`, `ProducersNotified`); `EveryTaskTaken` |
| `clients` | Redis: 3 commands, a passport; TCP: 4 descriptors | 5,959 | `OneAttempt`, `ConnectedMeansReady`, `ReadyInTheEnd`; the client is what its owners take it for (`ImplementsOwner`) and never closes a descriptor of somebody else (`OthersUntouched`) |
| `tcp_client_retry` | 4 descriptors, every attempt can be made while there is one | - | *violated*: there is always a connection, an attempt or a timer (`AttemptOrTimer`) |
| `rtmp` | 3 frames of each medium, up to 3 packets; frames of up to 7 bytes of 4 values; 5 frames on a clock of 18 half slots | 2,795,203 | missing packets damage one frame only (`OneDamagedFramePerGap`); key frames are marked exactly (`KeyMarked`); what is pushed is at its distance from the first frame (`PushedAtElapsed`); silence neither runs ahead nor falls behind on a steady clock (`FakePaced`) |
| `car_web_server` | 2 browsers, 2 devices, 8 visits, 6 failures; blocks of 3 words, packets of 2 or 4, 3 a connection, 2 breaks | 261,870 | `AskedIsWatched`, `NeverStuck`, `TimerSparesConnection`, `ConnectedInTheEnd`; a frame is late by less than a block while connections end between packets (`NothingWithheld`) |

The type invariants (`TypeOK`, `LinkTypeOK`, `TcpTypeOK`, `TimelineTypeOK`,
`QueueTypeOK`, `DecoderTypeOK`, `FeedTypeOK`) are proved, and therefore not
repeated in the runs; TLC finds them true when they are added to the
`INVARIANTS` of the run of their module.

Why the bounds are enough:

- *forward_server, web_server.*  Two devices let one be released while another
  is in use, and let the scan find a channel other than the handler's own; one
  session of each kind shows both ways an open command is or is not sent, and
  each can leave while the other stays.  A queue of three holds start, frame and
  stop of one device, and blocks the loop.  The invariants are proved for every
  size besides.
- *subscription.*  Two viewers are one that leaves while another stays, or whose
  write fails while another asks; two connections let jt1078_server hold the
  session of the old one and pc_server use the new; one stop falls anywhere,
  also between the two; two requests under way are a withdrawal and the
  subscription behind it.  The last connection does not break, which
  is the liveness properties' premise that connections do not fail for ever.  A
  second device would only add viewers that move between devices, which the
  proofs of the invariants cover for every number of viewers, devices, cars,
  connections, stops and pending requests.
- *frame_path.*  The socket's room (3) is less than the longest frame (4) and
  more than a header (2): a frame is cut in its header, at its end and in its
  body, and pending lists grow to two buffers.  A decoder buffer of 8 could
  overflow, if a whole packet ever stayed.
- *jt1078_decoder.*  Reads of up to 5 against packets of 3 to 7 bytes: a read
  ends in each part, and spans two packets.  Ids are four digits of a SIM and
  two of a channel: shorter ones get zeros in front; 9 and a are the two sides
  of the decimal digits, 0 and 1 make channels with and without a leading zero.
- *safe_queue.*  Two threads on each side for a notification that goes to the
  wrong one; five tasks fill a queue of two with both producers waiting.
- *clients.*  Four descriptors: one connected, one left open by a failed
  attempt, one of another part of the process, and one to reuse; with the fourth
  lost too, attempts fail outright.
- *rtmp.*  Three packets give a first, a middle and a last; three
  frames give one damaged, one whole after it and one to begin within.  Seven
  bytes hold a start code with a unit and another start code with an
  overlapping zero.  One step of the clock can exceed the cap of 16 units, and the clock can
  go back below the first frame (where the difference wraps around at `Width`).
- *car_web_server.*  Visits and failures are counters; eight and six let the
  connection be lost twice with requests on both and a stale completion of
  each.  The five seconds of the timer are not measured: see the next section.
  The block (3) divides no packet length: words of the next packet
  are always read with the last.

## Fairness

| specification | fairness | why the code has it |
| --- | --- | --- |
| ForwardServer | weak, of a broken session's read error | the read event is level-triggered and persistent: libevent reports it on every turn until the handler removes the session |
| Subscription | weak, of a connection's acceptance, each request's handling, each session's noticing a reported end, pc_server's noticing its connection's end, the read errors of broken viewers, and jt1078_server's start | each loop runs what is due; pc_server's heartbeat writes make it notice; a stopped jt1078_server is started again |
| | strong, of a successful attempt to connect | the timer tries every two seconds; attempts may fail as often as they like, but not for ever while jt1078_server runs |
| WebServer | weak, of the thread's `Run` | the thread runs while the process does; a push to SRS ends in success or an error |
| FramePath | weak, of every read while there is something to read | as for ForwardServer; written with the reads' guard instead of ENABLED |
| SafeQueue | weak, of each thread that is not blocked | the operating system's scheduler; posting and spurious wake-ups are not forced |
| RedisMq | weak, of the connect's outcome, the timer, replies and the server | connecting has a timeout, the loop runs what is due |
| CarWebServer | weak, of the queue's handlers, the read that fails, the timer and the connect | `io_context::run`; a connect that does not fail completes |

Nothing assumes that connections hold, that a browser leaves or a car sends.
That the end of a connection *reaches* jt1078_server (`EndReachesServer`) is not
fair: it has no heartbeat of its own, and a peer that has vanished is never
reported, which is why `ReleasedWhenUnwatched` excepts a device listed for such
a session.  In `clients` and `car_web_server` the fairness is RedisMq's and
CarWebServer's; behaviours in which the other part moves satisfy it because the
fair actions are not enabled there or nothing has to happen.
`ReadyInTheEnd` and `ConnectedInTheEnd` state such things as their premise.  The
latter also supposes that the process gets through its queue before the
reconnect timer of five seconds expires, after some time: without it TLC finds a
run in which an old read error closes each new connection.

## Proofs

Each `*_proofs` module shows for every value of the constants that an inductive
invariant holds initially and is kept by each action, then draws the properties
from it.  (Eight modules hold proofs; one of them may serve several small
specifications.)  The assumptions are the named `ASSUME`s of the modules, which
say what the constants are, that a marker such as `NoDevice` or `NoHeader` is not
one of the things it marks the absence of, and how the sizes of the code's
buffers relate:

- FramePath and CarFeed: a decoder's buffer takes a header or a body and one read
  (`MAX_BUFFER_SIZE` is 500 kB; a read is 5 kB or a block, and the length of what
  follows a header has 16 bits).
- Jt1078Decoder: the buffer takes a whole packet and one read; what a packet has
  more of than the first part is least for the transparent kind, then audio, then
  video.
- DeviceIds: a SIM number has a digit at least, and digits are below 16.

| specification, in | the inductive invariant, and why the parts are needed | theorems |
| --- | --- | --- |
| ForwardServer, `Jt1078Server_proofs` | `TypeOK`; list members are registered and lists belong to channels; subscriptions belong to sessions (else a reused id would inherit them); a session that cannot be written to is broken; `NoIdleChannel`; an open command has a channel; `HealthyServed` | `IdleChannelHasReaper`, `OpenIsClosed`, `SubscriptionKept`, `WatchedCarKept` (action property), `NoDanglingMember`, `ForwardServerImplementsDemand` (refinement) |
| Jt1078Decoder, `Jt1078Server_proofs` | `DecoderInv`: some number of packets has been given, all valid; the buffer is the part of the stream from the decoder's place in the next packet to what has been read, its state says which part of that packet it is at, and it waits for more than it has, or the next packet is invalid and as much of it as shows that has been read | `WhatArrivedIsGot`, `SessionsAreDroppedForCause`, `DecoderTypeCorrect` |
| DeviceIds, `Jt1078Server_proofs` | `IdInv`: a request that was subscribed is listed under the number that was typed, its command is what `CommandFor` makes of that number, and the car publishes under the number exactly if its last two digits are below ten | `OnlyBelowTenIsServed` |
| PcServer, `Subscription_proofs` | `TypeOK`; requests need a connection; a crashed process is empty; a session is on the list of its device only and its device is what says so (both ways for healthy ones); then `WatchedIsAsked` and `AskedIsWatched` follow step by step | `NoLostRequest`, `NoLeakedRequest`, `HealthyViewerListed`, `SessionsHaveOneDevice`, `TimerReplacesClient` |
| Subscription, `Subscription_proofs` | `LinkTypeOK`, the types of both sides; PcServer's `IInv`, since every step of the composition is one of PcServer's or leaves it alone; `m_client` has a connection exactly while it is connected; connections not made yet carry no request and those not taken yet are no session; jt1078_server lists only sessions and gives up writing only to connections that have ended; with these nobody else changes what the present connection's session is listed under, and `ServerFollows` is inductive, over the requests under way | `LinkTypeCorrect`, `ServerFollowsPc`, `WatchedIsAskedHere`, `QuietMeansServed` |
| WebServer, `WebServer_proofs` | `TypeOK`; requests need a connection and wanted devices; counted browsers play; the last start or stop task of a device in the queue is a start exactly for wanted ones (`WantedStartsLast`) - that is what makes the statements about the drained queue inductive | `UnwantedReleased`, `WantedPushed`, `WatchedWanted`, `AskedWanted`, `OneStart` (action property), `CountedPlay`, `TimerReplacesClient` |
| SafeQueue, `WebServer_proofs` | `QueueTypeOK`; a thread that waits or is about to notify has a task; the two counting invariants, which are inductive together: a push or a pop changes the length and the number of notifiers at once | `ConsumersAreNotified`, `ProducersAreNotified`, `QueueTypeCorrect` |
| FramePath, `Ipc_proofs` | `PathInv`: what the cars sent is what has passed pc_server (`done`) and what is under way to it (`left`), and of `done` each viewer has got its packets but for those under way to it; on a link that is not lost, the bytes the decoder holds, those in the kernel and those pending are, in this order, the bytes of the packets under way | `PathNothingLost`, `PathNeverMisframed`, `PathImplementsChannel` (refinement), `PathTypeOK` |
| CarFeed, `Ipc_proofs` | `FeedInv`: the same for one hop, while connections have ended between packets (`clean`); after another end only the types are kept | `FeedNothingWithheld`, `FeedTypeOKHolds` |
| RedisMq, `Clients_proofs` | `TypeOK` with "one set-up command at a time"; set-up commands only on an open context; replies tell the truth about the server's state; SELECT only after AUTH | `OneAttemptAtATime`, `SelectFollowsAuth`, `ReadyWhenConnected` |
| TcpClient, `Clients_proofs` | `TcpTypeOK`; the write event, `m_fd` and a failure to be reported exclude each other, each has a client and no timer, and its descriptor is the client's (`OneUse`) | `TcpTypeCorrect`, `ClosesItsOwn` (action property), `ImplementsItsOwner` (refinement of PcServer's client) |
| FrameAssembly, `Rtmp_proofs` | `TypeOK`; the car sends within a frame; unless packets were missed the buffer is the beginning of the frame being sent | `GapsDamageOneFrame` (action property) |
| IdrFrame, `Rtmp_proofs` | the present unit follows the last start code before the loop's place; no unit before it is a key unit; the loop is only left with true at one | `KeyFramesMarked` |
| RtmpTimeline, `Rtmp_proofs` | `TimelineTypeOK`; a medium's offset is the distance of its last time from its first (`Elapsed`), so what is pushed was given it; on a steady clock the slots counted are those elapsed since the first frame, rounded up, and the silence is one slot more (`Paced`); how slots grow and that the difference neither wraps around nor reaches the cap are lemmas of their own | `TimelineTypeCorrect`, `PresentedAtElapsed`, `SilenceKeepsPace` |
| CarWebServer, `CarWebServer_proofs` | topics are what is watched; what the queue of completions can hold in each state of the socket, the read and the timer (`QueueInv`, `LinkInv`); requests within topics | `TopicsWatched`, `NothingElseAsked`, `ClientNeverStuck`, `TimerSparesLiveConnection` |

Each of the state machines but IdrFrame's and DeviceIds' also has a theorem of
its type invariant (`TypeCorrect`, or the name in the table).  PcServer's
`HealthyViewerListed` and Subscription's `QuietMeansServed` (when nothing is under
way and everything that ended has been noticed, jt1078_server lists the present
connection for the watched devices) are proved without a run: they say in one
state what the runs' properties say over the requests under way.

**Induction over data.**  The decoders work in loops over as many bytes as there
are, ids are numbers with as many digits as a SIM has, and what arrived is a
flattened sequence of sequences.  The modules have these as recursive functions
over an initial piece of the numbers, and SequenceInduction proves what is needed
of such: `Induction` over a *set* of numbers (from the library's theorem that a
non-empty set has a minimal element, which has no operator for a parameter),
`Recursion` (a step function has exactly one course), `FlattenSteps`,
`FlattenUnique` and `FlattenConcat` (what `FlattenSeq` gives, piece by piece), and
`CutAt` and `SameBeginning` (two streams that agree as far as one goes).  On them
rest

- `DecodeInStep`: from a decoder that is in step with a stream, meaning that what
  it holds and what is still to come are the bytes of some packets one after
  another, `Decode` gives away the packets that are complete and leaves a decoder
  in step with the rest, that waits for more than it has.  `Turns` is followed
  turn by turn; there are more turns than bytes, and the last finds nothing to do.
- the same for Jt1078Decoder, whose stream may also go wrong: `Work`, twice the
  bytes in the buffer and one for a body that is waited for, falls with every
  turn that does something, an empty body's included, so that the loop ends.
- `NumberUnique` and `ReadBack`: the values of the beginnings of a string of
  digits are determined by what each digit does to the value before; printing
  makes the same values from the other end; hence a number below 16 to the length
  of an id is read back as it was printed.  `OwnId` then compares the decimal and
  the hexadecimal value of the two digits of the channel.

**Only model-checked** are the liveness properties, whose fairness is out of the
prover's reach: `IdleChannelReleased`, `ServedInTheEnd`, `ReleasedWhenUnwatched`,
`ReleasedInTheEnd`, `ArrivesInTheEnd`, `EveryTaskTaken`, `ReadyInTheEnd` and
`ConnectedInTheEnd`.  Every invariant, action property and refinement that a
passing run checks is the subject of a theorem.

## Where the code and its documents differ

Three runs each show that the code does otherwise than its documents say:

- `web_server_reconnect`: the comment at `web_server/http/WebServer.cpp:136` and
  README.md:45 say that subscriptions are sent again after a reconnection.
  web_server sends nothing, and `NotifyStart` filters out the devices that are
  still in `m_device_id_mgr`.
- `pc_server_requests`: README.md:45 says that what users subscribe to or
  withdraw while jt1078_server is away is kept and sent after the reconnection.
  `pc_server/PcServer.cpp:86` drops every packet of a viewer meanwhile.
- `tcp_client_retry`: the comment at `pc_server/PcServer.cpp:45` has a timer that
  connects again after a failed attempt.  A refused attempt
  (`core/tcp/TcpClient.cpp:62`, `:98` for a timeout) leaves its descriptor open;
  while jt1078_server is away one is lost every two seconds, and when none is
  left `AsyncConnect` returns false, which is only logged: no timer is started.

Met while modelling, and part of the models as the code has them:

- `pc_server/PcServer.cpp:261`: the last watcher of a device leaves while the
  client is null, and the null pointer is used (`Crash`).
- `pc_server/PcServer.cpp:161`, `web_server/http/WebServer.cpp:169`: an
  `AsyncConnect` that fails at once is logged and never tried again ("dead").
- `jt1078/Jt1078Service.cpp:119`: a channel of ten or more is printed in
  hexadecimal and, if the platform reads a decimal number there, another channel
  of the car is opened or none (`ServedBelowTen`).
- `jt1078/Jt1078Service.cpp:22`: a jt1078_server that stops tells the platform
  nothing; what it had opened stays open until it is asked for and left again.
- `new_web_server/CarTcpClient.cpp:135`: no topic is asked for after a
  reconnection.  `CarTcpClient.cpp:90`: the decoder keeps part of a packet
  over it, which is why `NothingWithheld` is about connections that end
  between two packets.
- `web_server/http/HttpSrsOnSessionHandler.cpp:166`: after a restart on_stop
  stops a device for a browser that was not counted while others still play it.
- `core/database/RedisClient.cpp:157`: commands are given to a context without
  asking whether it is connected; some are lost, some land in database 0.
- `web_server/rtmp/RtmpStream/RtmpClient.cpp:187`: with a clock set back below
  the first frame the slots wrap around and silence ends for good, which is why
  `FakePaced` is about steady clocks.  `RtmpStream.cpp:607`: audio and video
  each count from their own first frame, so that the two are shifted against
  each other by the difference.
- `jt1078/forward_server/ForwardServer.cpp:105`: when web_server has opened a
  channel, pc_server's later subscription sends no command to the platform.
- `web_server/http/HttpWebOnPlayHandler.cpp:74`: a device the web site starts
  and no browser plays is never stopped.

## What is not modelled

- Sizes as such: headers, bodies, buffers and queues are shorter than the
  code's, related as the code's are.
- `m_pending_buffer_list` has no limit in the code and SIGPIPE is not ignored;
  the models neither run out of memory nor end on a write.
- Jt1078Client's own requests are taken to be written whole; a partial write
  is not completed by the code.
- Opening and closing of RTMP streams, codecs, FFmpeg: outcomes only.
- Destructors, shutdown, configuration, logging; the unused parts of core.
- The audio codecs: sample arithmetic.  Of their control only this matters
  outside: `CCodec` decides on a device's first frame whether its frames have a
  HaiSi header; RtmpTimeline takes the length of what comes out.
- MasterServer, WorkServer and PipeChannel: no program starts one, and nothing
  says what one would promise; a model would have no use to be faithful to.
- Device ids are model values outside DeviceIds; what a viewer types that is
  longer than an id is left out there.
- web_server in the place of pc_server in Subscription: it asks for nothing
  after a reconnection (`web_server_reconnect`), so that the agreement
  Subscription states ends with the first connection; until then it is
  ForwardServer's and WebServer's.

The hazards of PROJECT.json that have no property are of two kinds: behaviour the
models have and the code promises nothing about (who subscribed first decides
about the open command, a car that ends while it is watched, a device the web
site starts, the null client), and behaviour of the platform below the models
(SIGPIPE, the memory of pending lists, partial writes of requests).  Each has its
reason there.

## Plan: done and left

The order was: the subscriptions (ForwardServer with its contract, PcServer,
WebServer), what they carry (FramePath, Jt1078Decoder, FrameAssembly), what they
rest on (SafeQueue, RedisMq), new_web_server (CarWebServer, CarFeed), the
numbers (RtmpTimeline, IdrFrame); then the composition of pc_server and
jt1078_server with failures on both sides (Subscription), the client below it
(TcpClient, refining PcServer's client), the device ids (DeviceIds); then the
proofs of every safety property of the runs, the decoders' and the ids' last,
with the induction they need (SequenceInduction).  That is here.

Left:

1. A proof of Subscription's agreement from the two components' theorems alone,
   as far as the FIFO between them permits, instead of its own invariant.
2. FramePath's decoder under Subscription's connections: what a viewer gets
   across a reconnection of pc_server, which the two modules each have half of.
3. jt1078_server's stop and the platform's view after it: what a platform would
   have to do about streams that nobody closes.
