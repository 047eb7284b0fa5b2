# TLA+ models of the WisCam RTSP server

WisCam is an IP camera. Most of the repository is vendored (a Linux kernel, busybox, boa,
ser2net, mongoose, an MQTT client). The firmware's own main program is the RTSP server under
`sources/applications/RTSPServer/src` (paths below are relative to that directory), and
this directory models it: the way of a frame from the encoder threads to the network, the
sessions and connections of the clients, and the event loop everything runs in. The second
program with a state of its own is the pair that changes the camera's configuration files,
the restful server (`../../restful_server`) and the CGI program `param` (`../../httpd-cgi`).

## Inventory

| Component | State | Operations | Talks to |
|---|---|---|---|
| Frame heap, exchangers (`frame.c`) | ring of free frames, ring and pipe per encoder, reference counts, two mutexes | `new_frame`, `ref_frame`, `unref_frame`, `deliver_frame`, `exchanger_read` | encoder threads on one side, event loop on the other |
| Encoder threads (`encoder-jpeg.c`, `encoder-alaw.c`) | `running`, the frame in hand | `jpeg_loop`, `alaw_loop`, `set_running` | heap and exchanger; `running` is written by the event loop |
| Streams (`stream.c`) | destinations and their `waiting` flags | `set_waiting`, `deliver_frame_to_stream` | calls `process_frame` of each destination |
| Live source, sessions (`live.c`, `session.c`) | session list, playing flags, endpoints, connection count | open, setup, play, teardown, `next_live_frame` | called by rtsp.c and by streams; deletes endpoints |
| RTSP handlers (`rtsp.c`) | session table, channel table per connection | DESCRIBE, SETUP, PLAY, TEARDOWN, disconnect, `interleave_send` | live source, TCP connection |
| RTP endpoints (`rtp.c`) | transport, sequence number, RTCP timer, times of the last reports | creation, UDP port search, `send_rtp_packet`, `rtcp_send`, reads | sockets, or channels of a connection; tears down its own session on errors |
| Payload formats (`rtp-jpeg.c`, `rtp-rawaudio.c`) | what the last JPEG markers said, current frame, offset | `jpeg_send`, `rawaudio_send`, `*_process_frame` | `send_rtp_packet` |
| TCP connections (`tcp.c`) | request buffer, send ring, protocol, `drop_after`, tunnel cookie, second descriptor and its event, base64 leftover | accept, `do_read`, `parse_client_data`, `conn_write`, `drop_conn`, HTTP tunnel | event loop, RTSP and HTTP handlers |
| Event loop (`event.c`) | lists of timer and descriptor events with flags | add, remove, enable, reschedule, `event_loop` | calls back into everything above |
| RTCP parser, rate control (`rtcp-parse.c`, `qos-analyzer.c`) | jitter and loss counters | `ProcRTCPPacket`, `QOSAnalyser_*` | commands to encoders |
| Configuration, messages, authentication, logging, devices | | run once, or text and I/O | |
| Restful server (`wiscam-server.c`, `wiscam-config.c`), CGI program (`param.c`) | configuration files, one temporary name each | `configs_update`, `WriteParamStr` | each other, through the file system |
| MQTT and GPIO demos | | | |

What is hard in this code:

* two encoder threads and the event loop share the heap; a pipe byte is visible to the loop
  while the encoder is still inside its critical section; `unref_frame` has a path that
  leaves with the mutex locked;
* everything in the event loop may delete everything else: a send error inside
  `next_live_frame` frees the session being visited, a callback removes events of the list
  being walked, a dropped connection takes endpoints with it;
* several tables describe one thing (`ichan` and transports, two session lists, `waiting`
  and the playing sessions, `u32CurConn`);
* rings at their limits, in frames and in bytes; blocking loops around `write()`;
* timers that are armed late, timeouts that are tested only when something else happens;
* stream input that TCP splits and joins at will; datagrams that are lost;
* a tunnelled connection has two sockets, which end and are replaced independently;
* a configuration file is rewritten by two processes without a lock, in a camera whose
  power may fail between any two steps.

`PROJECT.json` lists these as hazards, each at its line and with the properties that
address it. Not listed there, because the code makes no promise a property could state: the
connection limit is compared when a session is opened and counted when it plays
(`live.c:190`); a session torn down before the first frame stops the encoder that was to make
its track ready (`live.c:169`); `interleave_recv` presumes a state that only an interleaved
SETUP allocates (`rtsp.c:228`); timeouts are differences of the wall clock (`rtp.c:177`);
results of `fprintf` and `fclose` are not looked at and handles of failed updates stay open
(`wiscam-config.c:170`, `183`).

Some properties except a defect the code is known to have, and say that nothing else goes
wrong: `CopySurvives` the truncated last copy (`wiped`), the three of `RtpEndpoint` the
overflow of `time_diff` (`wrapped`), `SessionsConsistent` the sessions of refused DESCRIBEs
(`orphans`), `CountCoversPlayers` repeated PLAYs (`extraPlays`), `StreamsFollowPlayers` and
`PlayersServed` a PLAY before the first frame (`fed`), `DescriptorsOwned` the sockets of a
search that ran out (`failed`), `ItemDispatched` what a second socket left behind
(`Orphaned`), `SuccessMeansDone` what stands behind a key that cuts the request off. They do
not catch these defects; the hazards in question carry a note, and "Findings" describes them.

## Modules

| Module | Models | Kind |
|---|---|---|
| `FrameChannel` | what heap and exchangers promise: a pool and a bounded FIFO per encoder | abstract specification |
| `FramePipeline` | `frame.c`, the control of the encoder loops, `stream.c` | detailed; refines `FrameChannel` |
| `FramePipelineProofs` | | inductive invariant and proofs |
| `LiveSessions` | `live.c`, `session.c`, handlers and channel table of `rtsp.c`, endpoints of `rtp.c`, accept and drop of `tcp.c` | composition of the session layer |
| `EventLoop` | `event.c` | callbacks arbitrary |
| `SendRing` | `conn_write`, `send_data`, `tcp_send_pmsg` of `tcp.c`, `interleave_send` of `rtsp.c`, `http_send_error` | |
| `RequestBuffer` | `do_accept`, `do_read`, `parse_client_data`, `handle_request`, `unbase64`, `handle_QT_tunnel`, `drop_conn` of `tcp.c` | all connections and their sockets |
| `RtpEndpoint` | RTCP timer and timeouts of `rtp.c`, `time_diff` of `event.c` | |
| `UdpPorts` | `connect_udp_endpoint` of `rtp.c` | |
| `RtpPackets` | `jpeg_process_frame`, `jpeg_send`, `rawaudio_send`, numbering in `send_rtp_packet` | |
| `ConfigFiles` | `configs_update`, `WriteParamStr` of `wiscam-config.c` and `param.c` | processes, file system and power failures |
| `Lists` | the linked lists of sessions and of events as sequences | used by `LiveSessions` and `EventLoop` |
| `ListsProofs` | | lemmas about lists, induction and recursion over the naturals |
| `LiveSessionsProofs`, `EventLoopProofs`, `SendRingProofs`, `RequestBufferProofs`, `ConfigFilesProofs` | | inductive invariants and proofs |
| `RtpProofs` | | the same for `RtpEndpoint`, `UdpPorts` and `RtpPackets` |

Each has an `MC` module and one or more `.cfg` files. `PROJECT.json` maps every definition
to its lines. Definitions marked "(Faulty: ...)" in the comments are not used by the
specifications: each is a variant of the definition next to it, with a bug one could make
there, and is known to break a property.

### FramePipeline

One variable per field of `frame.c`: `heap`, `take`, `put`, `ref`, and per exchanger
`ring`, `slaveCur`, `masterRead`, `pipe`. A thread has a position `pc` and a frame pointer
`frm`. Steps are critical sections. `deliver_frame` is split into `DeliverStore` (store and
write the pipe byte) and `DeliverAdvance`, because the event loop can see the byte between
the two; what keeps it from taking the slot is `ex->mutex` (`exHeld`). The atomic section of
`unref_frame` (decrement) and its return to the heap are two steps, as in the code.
`heapMutexHeld` is the mutex that the occupied-slot path leaves locked: every heap
operation waits for it. `GiveUp` stands for every early `continue` of the encoder loops.
`ProcessFrame` allows a destination to lose its listeners while it sends, which
`LiveSessions` shows to happen.

### LiveSessions

Runs inside the event loop, so a handler is one step with everything it calls (teardown
includes `track_check_running`, `del_rtp_endpoint`, the unlinking and the count). Only
`next_live_frame` takes one step per session: that is where sends fail and delete.
`fed`, `owed` and `extraPlays` are history variables. `DescribeUnauthorized` is the path of
`handle_DESCRIBE` that returns after a failed authentication without tearing the session
down; that session stays in `sess_list` for ever, which is why `SessionsConsistent` sets
such `orphans` apart. `StreamsFollowPlayers` has the other known exception: a session that
plays before the first frame of its track is not owed anything, because `next_live_frame`
then calls `set_waiting(0)` (`live.c:223`).

### EventLoop

`phase` and `at` are where `event_loop` is: in `select()`, in the walk of the timers or in
the walk of the descriptors. A callback is a non-empty run of arbitrary operations on
events (remove, add, enable, disable), so the result holds for the callbacks of all other
files. Removed events keep their place until `strip_events`; `dead` remembers on which
events `remove_event` was called.

### SendRing

Bytes carry their message and position, so that a torn or overwritten message differs from
a whole one. The loops around `write()` take one step per turn; EAGAIN means "no step until
the client reads".

### RequestBuffer

A connection is a record of the fields of `struct conn` that receiving needs (`buf` is
`req_buf` up to `req_len`), `list` is `conn_list`, and `events` the read events. A read
brings any number of pieces, and a piece is the granularity at which `parse_client_data`
looks at its input: first line, rest, empty line. `polite` clients wait until their item was
dispatched before they send another; a POST of a tunnel has no reply, but its client waits as
well. The kernel hands out the lowest free descriptor.

The tunnel: `Tunnelled` is the GET's half of `handle_QT_tunnel`, `Adopt` the POST's, together
with the `drop_conn` of the POST's own connection that its return value causes. `SocketEnds`
drops a connection when its first socket ends (the drop after a last reply included) and gives
up only the second socket otherwise. Base64 is four characters for three pieces; a group that
is made of characters of two items decodes to something else (`Junk`), which is taken not to
contain an empty line. What a second socket leaves in the buffer when it ends is kept as
`Orphaned`: no property promises anything for the item it is joined to. Base64 that follows on
the connection of a POST that was refused (no GET has its cookie) is taken for a request and
counts as dispatched; in the code `drop_after` closes that connection (`tcp.c:216`). Either
way nothing waits for it.

### RtpEndpoint, UdpPorts, RtpPackets

`RtpEndpoint` counts seconds, like the comparisons of `tv_sec`, with the code's 5, 10 and 20.
The timer's remaining time goes through `Wrap`, the overflow of `time_diff`'s `int`; `wrapped`
remembers that the fire time was passed by more than half of its range, after which the timer
stands still for as long again.
`UdpPorts` runs the loop of `connect_udp_endpoint` step by step while other programs bind
and release ports. `RtpPackets` walks over the markers of an image (`Marker` is one turn of
the loop of `jpeg_process_frame`), cuts the frame into packets as the two send loops
do, loses any of them, and keeps what a receiver can conclude. `out` says of each part of
`struct rtp_jpeg` whether it is of this frame or of an earlier one. The specifications of
`UdpPorts` and `RtpPackets` are called `PortsSpec` and `PacketsSpec`, so that one module of
proofs can extend all three.

### ConfigFiles

Names, inodes and contents: `dir` leads from the two names to inodes, an open file keeps its
inode when the name is removed or renamed, and what is written reaches the inode at `fclose`
(the files are smaller than a stdio buffer, and their lines than the 256 bytes of `ReadLine`).
A content is the sequence of its lines, each with a name and a value. `disk` is what a power
failure leaves: the state at the last `sync()` or at some later moment (`Writeback`), which
supposes a file system that recovers to a state it was in; the camera's images are JFFS2,
which keeps a log. Every system call of `WriteParamStr` is a step.

A request says whom it is for (`by`: the server's groups `wifi`, `stream` and `nabto`, or the
program `param`) and has tokens `name=value`, with the number of characters of the value as it
stands in the request (`size`). `CallsOf` gives its `WriteParamStr` calls and `VerdictOf` the
answer if all of them succeed:

* the groups `wifi` and `stream` have names of their own (`ApiNames`) and refuse all others;
  `nabto` and `param` take any name (`Known`);
* the server refuses a value it cannot unescape, `param` stores it as it is (`Accepted`);
* an `ap_key` is three updates, the mode and the encryption before the key (`KeyCalls`);
* the server copies the parameter's name over the name in the request (`wiscam-config.c:346`).
  `AP_AUTH_KEY` with its NUL is twelve bytes, five more than `ap_key=`, and `strtok_r` goes on
  behind the key (`Resumes`). If that is where the NUL is, the loop ends as if the request did
  (`Cuts`: a key of three characters before another token, or of four at the end); if it is
  before the NUL, the next token is the tail of `AP_AUTH_KEY`, which is refused (`Overwrites`);
* `WriteParamStr` replaces every line that begins with the name, and changes nothing if there
  is none (`StartsWith`, `Replaced`). Which name begins which is the constant `Starts`.

`found` and `asked` are history: the content a request found and the updates it asked for, up
to a token that cuts it off.

## Runs

| Run | Properties | What it shows |
|---|---|---|
| `frames` | `TypeOK`, `HeapMutexReleased`, `NoLostFrame`, `FramesOwned`, `ImplementsChannel`, `FramesReturn` | no interleaving meets the locked-mutex or the lost-frame path; a frame has one owner and the right count; `FramePipeline` refines `FrameChannel`, so no frame is lost, duplicated or reordered; every frame comes back to the heap |
| `sessions` | `TypeOK`, `ChannelsMatch`, `SessionsConsistent`, `StreamsFollowPlayers`, `CountCoversPlayers`, `WalkSafe`, `FrameReachesAll`, `PlayersServed` | the tables agree after any sequence of requests, failures and disconnects; encoders run for those who play and for nobody else; deleting sessions during the walk is harmless, and players keep being served |
| `events` | `TypeOK`, `ListsSound`, `PassServesReady`, `OnlyLiveCalled` | callbacks may change the lists under the loop: what was removed is not called and leaves, a descriptor number that is reused during a pass misleads nobody, and each pass serves all that `select()` found |
| `send_ring` | `TypeOK`, `RingHoldsQueue`, `WriteEventArmed`, `QueueDrains`, `DropHappens` | messages whole and in order in the ring; nothing waits without the write event; the ring drains while the client reads; `drop_after` takes effect |
| `requests` | `DispatchedInOrder`, `SocketsOwned`, `EventsWatchSockets`, `ItemDispatched` | with plain connections and tunnels side by side, every descriptor has one owner and one read event, what is dispatched keeps its order however TCP splits it, and a client that waits for its answers has everything dispatched |
| `pipelined_loss` | `OnlyRequestDeleted` (violated) | finding 1 |
| `rtcp_clock` | `SilentClientDropped`, `ReportsFlow`, `RateCutOnlyWhenLate` | the three intervals work together: silent clients are dropped in time, reports flow, and the rate is cut only when the loop is late, unless `time_diff` has overflowed |
| `udp_ports` | `PairsOwned`, `WholeRangeSearched`, `DescriptorsOwned` | pairs, search and descriptors are right while ports come and go |
| `packets` | `LossIsVisible`, `HeadersOfThisFrame`, `LoopEnds` | the receiver can tell a whole frame from a damaged one, and no header is made of another frame's tables |
| `packet_maximum` | `WithinMaximum` (violated) | finding 2 |
| `config` | `ConfigPrecise`, `CopySurvives`, `KeyNeedsMode`, `SuccessMeansDone` | with updates that do not overlap, and power failures: no partial file is ever read, a whole copy survives, a key comes with its mode, and after an answer of 0 the file is, for good, exactly what the updates of the request make of it |
| `config_success` | `SuccessMeansStored` (violated) | finding 3 |

### Findings

1. `parse_client_data` empties the request buffer after each request, so a second one that
   arrived in the same read is lost. The comment at `tcp.c:371` says the code "should really
   just delete the request from the buffer, not the entire buffer".
2. With a restart interval in the JPEG data, `jpeg_send` keeps the restart header in every
   packet but counts 8 header bytes from the second packet on (`rtp-jpeg.c:366-371`): those
   packets exceed `max_data_size` by 4 bytes. The comment there says "Done with all headers
   except main JPEG header".
3. The restful server and the CGI program rewrite a configuration file through the same
   temporary name, without a lock and without looking at the results of `fclose`, `remove`
   and `rename` (`wiscam-config.c:182-185`). When they overlap, one truncates the file the
   other has closed and is about to rename; the other answers 0, and its parameter is not
   stored. `wiscam-server.c:241` says of the answer "0: success, -1: fail".

Behaviour that the models show and no comment contradicts: a failed authentication of
DESCRIBE leaves its session in the list (`rtsp.c:370`); repeated PLAYs of a session are
counted and never discounted (`live.c:135`); when the port search runs out of ports its
sockets stay open (`rtp.c:301`); the report timer runs from SETUP although it is enabled
with the first packet, so a late PLAY is followed by a burst of reports (`rtp.c:69`), and if
more than 2147 seconds lie between the two, `time_diff` overflows and there are no reports,
and no client timeout, for about as long (`event.c:35`); when the second socket of a tunnel
ends in the middle of an item, what it left in the buffer is joined to the next socket's data
(`tcp.c:447-452`); when the power has failed between `remove` and `rename`, the next update
truncates the only copy of the file before it fails (`wiscam-config.c:165`).

An answer of 0 is weaker than "stored" even when no two updates overlap, which is why the
`config` run has `SuccessMeansDone` (what `WriteParamStr` can do was done, all of it) and
`SuccessMeansStored` serves finding 3 alone. Four ways in which they differ, or the answer
is not what one would expect:

* a name without a line is answered 0 and not added. The groups `wifi` and `stream` of the
  server refuse unknown names, `nabto` and `param` do not (`wiscam-config.c:341-397`,
  `param.c:255`); the Android client of the repository sends `sta_ssid` and `sta_auth_key`
  for the group wifi (`ParametersConfig.java:215`), which are no names of `param`'s files;
* a name that is the beginning of others replaces all their lines, their names included;
* `ap_key=abc&ap_ssid=x` stores the key and not `ap_ssid`, and is answered 0
  (`wiscam-config.c:346`, `Cuts`);
* a key of three characters or fewer at the end of a request, or of two or fewer before another
  token, is stored, and answered -1 (`Overwrites`).

### Bounds

* `frames`: two frames for two encoders with rings of two and one: the heap runs dry, the
  audio ring fills, the video ring holds two whose order matters, positions wrap, and
  liveness is checked with everything at its limit. More frames and slots are the matter of
  the proofs.
* `sessions`: two sessions, two tracks, one connection with four channels: channels and
  sessions are shared, exhausted and handed over; a session can have one track on the
  connection and one on UDP, and outlive the connection. The first and the last session of a
  walk can be deleted. `MaxCount` caps `u32CurConn`.
* `events`: one timer, three descriptor events on two descriptors: two events can be removed
  while a third is called, and a descriptor can change hands. `MaxLate` caps a timer's delay.
* `send_ring`: five bytes, messages of two to four: every offset of the wrap, the full ring
  and refused messages occur. The socket takes three bytes, less than a full ring. Message
  numbers are reused after two, as many as fit at a time.
* `requests`: three sockets, so that a GET can adopt one POST and then another; two items
  per socket (`MaxItems`) and two in flight (`MaxPending`); a buffer of five pieces, which an
  item of three and the leftover of another can fill. All tunnels use one cookie, the case in
  which they can be confused. `pipelined_loss` needs one socket.
* `rtcp_clock`: the code's own intervals; the loop is up to 6 s late, the first value at which
  the server timeout can strike. `Half` is 30 seconds in place of 2147, more than all the
  intervals together need. Ages are not counted beyond the largest the properties compare.
* `udp_ports`: ports 2 to 8, three pairs and a last even port without a partner, as in the
  code's 50000 to 60000.
* `packets`: up to three packets per frame; sequence numbers modulo 8, so that they wrap
  inside a frame; eight images, of which two are good and six are refused at each of the
  places where the walk can give up.
* `config`: one file with the four lines an `ap_key` and an `ap_ssid` change. Requests for the
  group wifi: keys of three, four and eight characters alone, of two, three and four before
  another token, a key behind another token, unknown names first and last, a value that cannot
  be unescaped. Requests for `param`: names with a line, without one, and a beginning of one.
  They come one at a time, any number of them, with any number of power failures. The groups
  `stream` and `nabto` differ from `wifi` and `param` in their names only and are left to the
  proofs. `config_success` has the two processes with one request each, again and again.
  `Inodes` is two names and two open files per process.

### Fairness

Safety needs none. `frames` assumes that each encoder thread and the event loop keep
running (weak fairness): system calls return, and the mutexes are held for a few
instructions. `sessions` assumes strong fairness of the arrival of frames, since a running
encoder delivers again and again and each pass of the event loop serves every ready
descriptor, which is what `PassServesReady` says. The `events` run needs no fairness, but a
pass ends only if callbacks return, and that is not a matter of course: `conn_write` and
`tcp_conn_flush` retry EAGAIN in a loop, so they return only when the client reads.
`send_ring` states this as weak fairness of `ClientReads`, together with strong fairness of
the loop's call of `conn_write` (other callbacks come in between) and of the turns of the
write loops. Without a client that reads, `QueueDrains` does not hold, and the server stops
with it. `requests` assumes that the loop calls `do_read` for every descriptor while its
socket has something (weak fairness per descriptor), `packets` that the send loops run on.

## Proofs

The theorems hold for every value of the constants that satisfies the named assumptions of
the component's module, where the runs have small instances. Each proof has an inductive
invariant (checked by TLC before it was proved), one lemma per action, and under it one step
per part of the invariant the action can disturb.

| Module | Theorems | Inductive invariant | For any |
|---|---|---|---|
| `FramePipelineProofs` | `TypeCorrect`, `NoHeapDeadlock`, `NothingLost`, `Ownership`, `Refinement` | `IInv` | frames, encoders, destinations, slots |
| `LiveSessionsProofs` | `TypesHold`, `ChannelsAlwaysMatch`, `SessionsStayConsistent`, `StreamsFollow`, `CountCovers`, `WalkIsSafe`, `FramesReachAll` | `LiveInv` | sessions, tracks, connections, even number of channels |
| `EventLoopProofs` | `TypesHold`, `ListsStaySound`, `PassesServeReady`, `OnlyLiveAreCalled` | `LoopInv` | timers, descriptor events, descriptors |
| `RequestBufferProofs` | `SocketsAreOwned`, `EventsAreRight`, `DispatchIsInOrder` | `TcpInv`, `OrderInv` | sockets, kinds of input, buffer size |
| `SendRingProofs` | `RingInvariant`, `TypeCorrect`, `QueueKept`, `WritesAsked` | `RingInv` | ring size, lengths of messages, writes |
| `RtpProofs` | `ReportsKeepFlowing`, `SilentClientsGo`, `RateCutNeedsLateness` | `ClockInv` | interval, timeouts, lateness, width of `time_diff` |
| `RtpProofs` | `LossesAreVisible`, `HeadersAreOfThisFrame`, `ExcessBounded` | `PacketsInv`; `HeadersCounted` | packet and header sizes, frame lengths, images, width of `seqnum` |
| `RtpProofs` | `PairsAreOwned`, `WholeRangeIsSearched`, `DescriptorsAreOwned` | `PortInv` | range with an even first port, finite set of endpoints |
| `ConfigFilesProofs` | `ConfigIsPrecise`, `ACopySurvives`, `KeysComeWithMode`, `SuccessIsDone` | `FileInv`, `KeyInv`, `DoneInv` | lines and requests, updates that do not overlap |
| `ListsProofs` | lemmas only | | |

The assumptions on constants say that numbers are numbers and that the values standing for
"none" are none of the things they stand beside (`NoEp`, `NoFd`, `NoFile`, `NoSession`).
Those with content: as many frames as heap slots and at least one slot per exchanger
(`frame.c` makes them so); an even number of channels and an even first port; `Half` larger
than the report interval; requests are sequences of tokens (`ContentAssumption`); a reply
fits an empty send ring (`ReplyAssumption`); a packet has room for more than its headers, and
a frame does not need more packets than there are sequence numbers (`PacketAssumption`,
`FrameAssumption`: 2^16 numbers of packets of 8192 bytes, half a gigabyte); the encoder is a
baseline one, which writes a frame header before the scan (`ImageAssumption`).

### FramePipelineProofs

That `frame_heap_put` is empty when a frame returns is a matter of counting, which the
provers do badly; the invariant `IInv` replaces it by shape:

* `HeapShape`: the full slots of the heap are those from `take` up to `put`, cyclically.
  If the slot at `put` is full, so is every slot; the frames in them are distinct and as
  many as there are frames, so no thread can hold one (lemma `PutSlotEmpty`);
* `RingShape`: the full slots of a ring are those from `masterRead` up to `slaveCur`, and
  the one at `slaveCur` while the encoder is inside its critical section;
* `PipeBytes`: bytes in the pipe, plus the one the loop has just read, are the queued frames,
  which gives `NoLostFrame` (lemma `FrameAtMasterRead`);
* `Positions`: what a thread's `pc` says about its frame pointer and its mutex.

Four lemmas (`MoveHeapToThread` and its siblings) say that moving a frame from one place to
another keeps `OneOwner` and `NoFrameLeaks`, so that an action only has to say which move it
makes.

`Refinement` is the refinement of `FrameChannel` (`ImplementsChannel`). The queue of an encoder is
read off its ring from `masterRead` on; `QueueForm` gives its length and elements from
`RingShape`. Five actions move a frame (`new_frame`, the store into the ring, `exchanger_read`
and the two returns to the heap) and each maps to one action of `FrameChannel`. The
others are stutters: all but one because they move nothing (`NoMove`), and `DeliverAdvance`
because the frame it passes over counts as queued from the store on. The fairness of `FramePipeline` plays no part:
`FrameChannel` promises safety.

### LiveSessionsProofs

`LiveInv` is the conjunction of the properties and what they need to be inductive: the pair of
an interleaved transport lies inside `ichan` (`PairsInside`), a channel in use belongs to an
endpoint that exists (`UsersExist`), whatever is fed exists and plays on a ready track
(`FedInv`), the players are finitely many (`CountInv`), and what a frame must still reach lies
ahead of the walk (`Ahead`). Everything that deletes (TEARDOWN, a dying UDP client, a dropped
connection, a send error inside the walk) goes through `Teardown`, so most of the work is one
group of lemmas about it.

### EventLoopProofs

`DeadInv`: a removed event that is still linked carries `EVENT_F_REMOVE` and does not run.
`OwedInv`: what `select()` found ready is linked at or behind the walk's position, runs and is
in `isset`. New events are put in front of the list and `strip_events` runs between two
passes, so neither moves an event from ahead of the walk to behind it: these are the list
lemmas `PrependList`, `WithoutList` and `NextInList`.

### RequestBufferProofs

`SocketsOwned` is nearly inductive: it needs the types, that only an RTSP connection of a
tunnel has a second socket (`TunnelsOnly`), and the exact set of read events
(`EventsExact`). For the order of dispatch, `OrderInv` compares what is still on the
wire and in the buffer of a socket with what was handed over: a piece in the buffer that was
not mixed with another socket's is later than the last dispatched item and earlier than all
that is on the wire.

### SendRingProofs

`Positions` and `ModOneTurn` replace `%` by positions that are at most one turn apart
(`Filled`, `At`), and `Holds` says that a sequence lies in the ring from one position to
another. With it there is one lemma for each way the ring changes: `StoredHolds` (a piece is
stored behind what is there and overwrites nothing of it), `SendBothHolds` (two pieces make a
whole message, since room for both was there before the first), `AdvanceHolds` (a write takes a
prefix). `RingInv` adds to the properties that a closed connection has nothing queued and is
in no write loop (`OnlyWhenOpen`) and that the write event is on whenever anything waits, inside the
loops too (`Waiting`). The delicate step is a last reply that is refused: `drop_after` is set
and nothing turns the event on. `MessageKeeps` shows that the ring cannot be empty then,
because a reply fits an empty ring (`ReplyAssumption`), so the event is on already. After a
reply larger than the ring the connection would stay until the client closes it.

### RtpProofs

`ClockInv` measures the ages of the last reports against the remaining time of the timer
(`SendAge`, `RecvAge`), which is near the present as long as `time_diff` has not overflowed
(`FireTimeNear`). `PortInv` describes the set of pairs already tried as those behind the
current port, cyclically (`Searched`, `Behind`), so that after `MaxTries` it is the whole
range; `Accounted` counts descriptors.

`PacketsInv` compares what the client has with what was sent. While it has a chain, the
number it expects lags `Missing` numbers behind `seqnum`, and since every packet but the last
is full, at least `Missing * LeastRoom` bytes are missing (`ChainCounts`). A frame has at most
`SeqCount * LeastRoom` bytes, so the gap cannot come round to nothing before the frame ends
(`GapGrows`): this is where `FrameAssumption` is needed. Without a bound of that kind the
theorem is false: a client misses exactly `SeqCount` packets and takes the next for its own.
For the headers, `KnownAfter` says what is known after the first k markers of an image: as
long as the walk goes on, a frame header that was seen has been taken over, with tables of this
frame; `WalkedKnown` carries it to the end by induction. `jpeg_process_frame` itself does not look
whether there was a frame header, so an image without one would be sent with the dimensions
of an earlier one; `ImageAssumption` excludes it. `ExcessBounded` completes finding 2: the
restart header is all that a packet can exceed the maximum by.

### ConfigFilesProofs

All four theorems have the hypothesis `Writers = {w}`, one update at a time, be it the
server's or `param`'s: when two overlap they do not hold (finding 3). Otherwise the file may
have any lines, and the requests any names, values and sizes. `FileInv` says, step by step of
`WriteParamStr`, which of the two names leads to which content (`NamesInv`), that what is
written out is the settled content or the one a finished rename made of it (`DiskInv`), and
where the surviving copy is (`CopyInv`).

`KeysComeWithMode` also supposes that key, mode and encryption are not set by their own names
through `nabto` or `param` (`KeysByApi`), which could well set a key alone. Its invariant says
that the calls that are left set what the settled content still lacks before they set a key:
a request that is cut off or refused leaves whole groups of three or a beginning of one
(`CallsInOrder`), and a beginning is without the key.

`SuccessIsDone` needs no hypothesis about lines. `DoneInv` says that while a request that is to
be answered 0 is under way, the calls made so far are the first of those asked for and the
settled content is what they make of the content it found; and that once 0 was answered, the
file and the disk hold what all of them make of it. That the calls are all that was asked
for, whenever the verdict is success, is lemma `CallsFacts`. `After` is a recursive function,
whose equations `AfterFacts` gets from `RecursionExists`.

### Recursive definitions

`Without` (in `Lists`), `Walked` (in `RtpPackets`), `After` (in `ConfigFiles`) and `FlattenSeq`
are recursive functions, and the libraries' induction
theorems cannot be used, since they take an operator as parameter. `ListsProofs` derives what
is needed from the least-number principle: `LeastIndex`, induction over a set of naturals
(`InductionSet`), and the existence of a function that follows a step function from a value
(`RecursionExists`).

### Only model-checked

* Liveness (`FramesReturn`, `PlayersServed`, `QueueDrains`, `DropHappens`, `ItemDispatched`,
  `LoopEnds`): the prover handles neither fairness nor `ENABLED`.

Every invariant and every action property of the runs that is expected to hold is also a
theorem. The four of `ConfigFiles` are proved for updates that do not overlap, since they fail
for two that do.

## Not modelled

Configuration parsing runs once, before the loop starts, and appears as constants. Message
parsing, SDP and reply texts, digests and logs are formatting. Capture devices, the JPEG
engine and overlays are ioctl wrappers and pixel arithmetic, seen as success or failure.
The A-law conversion is a search in a table, sample by sample, without state. The rate controller (`qos-analyzer.c`)
takes decisions that have no effect in this build, since the commands to the encoders are
compiled out; what is modelled is when it is asked. Encoders and payload formats that are not
among the Makefile's objects (H.264, AAC, ADPCM, G.726, MP3, u-law, MPEG-4) are left out, as
are functions without a caller (`clone_frame`, soft queues, always and alarm events). Of the
restful server and the CGI programs the parts that only read, print or run a shell command
are left out; the HTTP server below is mongoose, vendored. A full file system, a wall clock
that is set and cookies of different tunnels are outside the models. The MQTT and GPIO demos
are one-shot programs around vendored libraries. The rest of the repository (the kernel and
its drivers, busybox, boa) is third-party code.
