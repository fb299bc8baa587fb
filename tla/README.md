# A verification development for poopilot

`poopilot run -- <program>` runs a command line program under a pseudo terminal
on a host and mirrors it to a phone over a WebRTC data channel: the phone sees
the output, can type, and gets a card with Approve and Deny when the program
asks for permission. This directory holds TLA+ modules that model the
concurrent core of the host, the way to the phone and the phone's page, TLC
configurations that check them on small instances, and proofs that TLAPS checks
for every value of the constants.

Contents: 1 the system, 2 the modules and the code, 3 the runs, 4 fairness,
5 the proofs, 6 where the code departs from what it says, 7 what is not
modelled, 8 the plan.

## 1. The system

| Component (source) | State it keeps | Operations | What makes it hard |
|---|---|---|---|
| Scrollback ring (`internal/pty/session.go`, `RingBuffer`) | `buf`, `pos`, `full` under `mu` | `Write`, `Bytes`, `Len` | wrap-around arithmetic, writes of 0, exactly to the end, larger than the ring |
| PTY session (`internal/pty/session.go`) | status, process, ptmx, ring, callbacks `onOutputs` and `onExit`, `done` | `Start`, `Write`, `OnOutput`, `OnExit`, `ScrollbackSnapshot`, `Info`, `Close`; goroutines `readLoop`, `waitLoop` | callbacks copied under a lock and run outside it; two loops that do not wait for each other |
| Manager (`internal/pty/manager.go`) | map of sessions, limit | `Create`, `Get`, `List`, `Close`, `CloseAll` | called by the handlers of several bridges at once |
| Approval detector (`internal/approval/detector.go`) | set of contents seen, under `d.mu` | `Scan` | one detector for all sessions and bridges; given one read at a time |
| Bridge (`internal/bridge/bridge.go`) | peer, cancel functions of streams, pending approvals | `Start`, `AttachSession`, `DetachSession`, message handlers, `sendApprovalRequest`, `sendSessionList` | runs on readLoop's, waitLoop's and the channel's goroutines; a failing Send is often ignored |
| Peer (`internal/webrtc/peer.go`) | connection, channel, callbacks | `CreateOffer`, `AcceptAnswer`, `Send`, `Close`, `WaitDisconnect` | the channel opens after the connection; a lost connection still takes messages |
| Peer manager, `runCommand` (`internal/cli/run.go`) | current peer and bridge under `pm.mu` | `newOffer`, `acceptAnswer`, HTTP `/offer` and `/answer`, relay loop | replaces peer and bridge while threads of the old one run on |
| Relay (`internal/relay/client.go`, `relay/worker.js`) | offers and answers in a KV store, 300 s | `PostOffer`, `PollAnswer` | expiry, eventual consistency, retries |
| Codec (`internal/protocol`, `web/js/protocol.js`) | none | encode, decode | 16-bit lengths, a limit on one side only, two implementations |
| Phone (`web/js/*.js`) | hosts, sessions, cards, terminal | pairing, showing, typing, switching, answering | several hosts, awaits between reading and using state, one timer for all |
| Command line, QR, setup, service worker | none that matters | | sequential input and output |

How they interact. The process writes to the pseudo terminal. `readLoop` reads a
chunk, stores it in the ring, copies the list of callbacks under `s.mu` and runs
them one after the other. One is the local terminal; the others were registered
by `AttachSession` of each bridge there has ever been, for a callback cannot be
removed, only cancelled. A bridge's callback scans the chunk with the shared
detector, enters a request among its pending approvals, sends it and then the
output. The phone's answer arrives on the goroutine of the data channel; the
bridge looks the request up, removes it and writes `y` or `n` to the terminal of
its session. `waitLoop` notices the end of the process, runs the exit callback
(there is one per session, the last registered) and closes `done`. When the phone comes back,
`newOffer` closes the old peer, makes an offer, creates a new bridge and attaches
every session to it.

The hazards this makes for are listed with their lines in `PROJECT.json` under
`hazards`; each names the properties that cover it or says why none does.

What makes each part correct: the ring is the last bytes written, in order; a
subscriber that registers and takes a snapshot has no gap; live output has no
hole and no repetition; an exit is not missed; a matching text that is new is
reported; a prompt is requested once; an approval is written once, to the session that
asked; a card works while its connection is open; one peer is open at a time; no process is unlisted and
the limit is kept; host and page understand each other's frames; between
scrollback and live output nothing is missing; what is typed reaches the session it
was typed into; what is one host's is never taken for another's; and, under fair
scheduling, output and prompts reach the phone.

## 2. The modules and the code

| Module | Models | Uses |
|---|---|---|
| `Scrollback` | abstract: a window over the last `Size` bytes of a stream | |
| `RingBuffer` | `RingBuffer` of `session.go`, byte for byte | refines `Scrollback` |
| `Session` | a PTY session, its two loops and its subscribers | |
| `Detector` | `Scan` as an operator of a chunk and the set seen | |
| `Terminal` | lines cut into reads and scanned | `Detector` |
| `Approvals` | abstract: each prompt is requested once at most, a request shows on one phone at most and is answered once at most, where it was asked | |
| `Bridge` | manager, sessions, detector, bridges, peers, `newOffer` | `Detector`; refines `Approvals` |
| `Signaling` | pairing: `peerManager`, relay loop, relay, HTTP handlers, phones | |
| `Codec` | the wire format, `codec.go` and `protocol.js`, as operators | |
| `Pipe` | abstract: what is put in at an end comes out there, once and in order; of a piece beyond the limit the end may be left out | |
| `Mirror` | output, scrollback, list, keys and requests between sessions and page over one channel | `Codec`, `Scrollback`; refines `Pipe` |
| `PhoneApp` | the page with several hosts: calls of `connect`, timers, the active host | |
| `MC_*` | instances for TLC | |
| `RingBufferProofs`, `SessionProofs`, `TerminalProofs`, `BridgeProofs`, `SignalingProofs`, `CodecProofs`, `MirrorProofs`, `PhoneAppProofs` | the theorems | |

**RingBuffer.** `Write` is one action (it holds `mu` throughout), translated with
its three cases: the data exceeds the ring, it wraps, it does not. The test that
decides `full` recomputes the old position as the code does. Bytes are numbered
by their place in the stream, so that the model can tell which byte is where;
`Bytes` and `Len` are the operators of the same name.

**Session.** An action is what a goroutine does between two points where another
can interfere. `readLoop` is five of them: `Read` returns, the chunk is stored in
the ring (the ring has a lock of its own), the callbacks are copied under `s.mu`,
each is run, back to `Read`. `waitLoop` is `MarkExited` (status and capture of
`onExit` under one lock), `RunOnExit`, `CloseDone`. `Close` closes the terminal
and kills the process. A subscriber registers its output callback, then its exit
callback, may take a snapshot and read the status, at any time after the session
exists; the local terminal registers for output only. The ring is the number of
chunks in it, as `RingBuffer` shows what its bytes are.

**Detector and Terminal.** A line is the text that is left when escape sequences
and blanks are stripped; which texts match a pattern is the constant `Prompts`.
`Scan` reports the lines that match and were not seen, each content once, and
`SeenAfter` is `d.seen` afterwards. `Terminal` prints lines and cuts them into
reads at every place, in the middle of a line as well (`Left` and `Right` say
what its two pieces look like).

**Bridge.** The composition. State: the manager's map (`managed`), the sessions'
status and callbacks, the terminals (prompts asked, drawn, answers written and
not yet read), where each `readLoop`, `waitLoop`, channel handler and announcer
is, the detector's `seen`, per bridge the state of its connection, its streams
and its pending approvals, `newOffer`'s progress, and per phone the cards and the
session list it was sent. `reqs`, `asks` and `answers` are histories, used by
properties and as names of requests and prompts.

| Code | Actions |
|---|---|
| `readLoop` with the callback of `AttachSession` | `ReadChunk`, `CheckCancelled`, `ScanChunk`, `RecordRequest`, `SendRequest` |
| `waitLoop` with the exit callback | `MarkExited`, `ExitList`, `ExitSend` |
| `handleApprovalResponse` | `ApprovalResponse`, `WriteInput` |
| `handleTermInput` | `TermInput`, `WriteInput` |
| `handleSessionCreate` | `SessionCreate`, `Create` or `CreateFails`, `SessionCreated`, `HandlerList`, `HandlerSend` |
| `handleSessionClose` | `SessionClose`, `SessionClosed`, `HandlerList`, `HandlerSend` |
| goroutine of `Start` | `AnnounceList`, `AnnounceSend` |
| `newOffer` | `OfferBegin`, `OfferFails` or `OfferReady`, `OfferAttach`, `OfferEnd` |
| pion, the network | `Connect`, `ChannelOpens`, `Lose` |
| the program, the person at the host | `Show`, `Redraw`, `Consume`, `Leave`, `Keyboard` |

What `Bridge` abstracts: a chunk of output is one prompt (other output changes no
state of the host besides the ring, and `Terminal` treats several lines in one
read); `AttachSession` is one step, its registrations being interleaved in
`Session`; the approve and the deny answer are not told apart. Bridges are numbered in
the order they are created. `Create` may choose any session id not used before,
which abstracts `uuid.New`, and `CreateFails` is always possible, since a program
may fail to start.

`Approvals` is what `Bridge` implements of approvals. Its `asked` are the prompts of
`asks`, drawn once or more; its `requests` are `reqs` with the prompt each was made for,
its `cards` and `given` are `cards` and `answers`: `Show` asks, `RecordRequest` makes a
request, at most one for a prompt, `SendRequest` delivers it or fails, `WriteInput` gives an
answer or finds the program gone, and no other step of the host shows.

**Signaling.** How a phone and the host find each other. An offer is the number of
its peer, an answer the number of the phone's attempt (call of `connect`) that made
it. State: each peer's connection and the answer it accepted, `pm.peer`, the two
entries of the room in the relay, where the relay loop is with its locals, the
attempts of the phones and which of their `RTCPeerConnection`s are open.
`disturbed` is a history of what has gone wrong, used by properties only.

| Code | Actions |
|---|---|
| relay loop of `startRelaySignaling` | `LoopNewOffer`, `DeleteAnswer`, `PutOffer`, `PollAnswer`, `LoopReadPeer`, `LoopSetAnswer` |
| `WaitDisconnect` | `SeeUp`, `SeeEnd`, `Deadline` |
| `worker.js`, expiry | `Expire`; the reads and writes are in the callers |
| `/offer`, `/answer` | `GetOffer`, `HandlerReadPeer`, `HandlerSetAnswer` |
| `app.js` `connect` to `startPairing` | `Connect`, `FetchOffer`, `GetOffer`, `PutAnswer`, `PostAnswer`, `GiveUp` |
| ICE | `ComesUp`, `GoesDown` |

Here `newOffer` is one step, for every other user of `pm.peer` takes `pm.mu`;
`acceptAnswer` is two, as it uses the peer after the unlock. A call of `connect`
may begin at any time, by a tap, a timer or after an error, and an earlier call
goes on, as its awaits do in the page. Time is left out: an entry may expire and the
30 seconds of `WaitDisconnect` may pass at any moment. A PUT or DELETE is seen at
once, which the relay's KV store does not promise.

**Codec.** A frame is a type, two length bytes and a body. The bytes of a terminal
message are kept; of a control message the JSON text is one element, the object
with its field names, since what matters is under which names the receiver looks.
`Encode` and `Encodable` are `codec.go`, with the limit of 65535 on id and data
together; `JsEncode` is `protocol.js`, which has no limit, keeps the low 16 bits of
the length and cuts or pads the id. `Decodable` and `JsDecodable` say when a decoder
returns a message. `Base` (256) and `IdLen` (16) are constants.

**Mirror.** One connection, from the moment `newOffer` returns with the sessions
attached; what attaching races with is in `Session`. Frames are in two queues,
`wire` to the page and `inbox` to the host: the channel is reliable and ordered, and
moves only while ICE is up. `stored` counts the bytes a ring was given; what the ring
holds is the window of `Scrollback`, which `RingBuffer` is proved to implement.

| Code | Actions |
|---|---|
| `readLoop` with the output callback | `ReadChunk`, `SendOutput` |
| goroutine of `Start`, one each time ICE connects | `AnnounceList`, `AnnounceSnapshot`, `AnnounceScrollback` |
| `handleTermInput`, `Session.Write` | `TakeInput`, `WriteInput`, `WriteFails` |
| `handleMessage`, a frame that does not decode | `TakeBad` |
| `handleTermResize` | `TakeResize` |
| `handleSessionSwitch`, `SendScrollback` | `TakeSwitch`, `SendSwitched` |
| `handleSessionCreate`, failing | `TakeCreate` |
| pion, the network, `Peer.Close` | `IceUp`, `ChannelOpens`, `IceDown`, `PeerClose` |
| `handleMessage` of the page | `ShowBytes`, `ShowList`, `ShowError` |
| the person at the phone | `Type`, `Resize`, `SwitchSession`, `NewSession` |

`SendScrollback` is two steps, the snapshot and its sending: the session's `readLoop`
may store and send between them. A request of the page for a new session always
fails, since the page says `command` and the host looks for `cmd`; a request the host
could fulfil is in `Bridge`. A piece of input may be of any length, as `terminal.js` and
`protocol.js` bound none: beyond the payload limit its frame says a length modulo
65536, and the host refuses it or keeps a beginning; or the channel, which may have a
limit of its own, refuses it (`Type`, `TakeBad`). `kept` is a history of the keys the
host can find in the frames it was sent. `from` is one too: the first byte of the first
scrollback sent. A ring that has wrapped is never sent (section 6), so that it is
always 1.

**PhoneApp.** The page has one thread, and another call goes on at each await.
Methods find their host through `_activeKey`; `init`, the pair timeout and
`onMessage` set it to another host for the length of a call. A call of `connect` is a
record: where it is, the room it fetches the offer from and, once `startPairing` has
read `_activeKey`, the host it pairs with, which need not be the host of that room.
The call's number is also its `RTCClient`'s and its timer's.

| Code | Actions |
|---|---|
| `init` | `Init`, `ConnectOthers` |
| a tap on the status line | `Tap` |
| `connectViaRelay` | `FetchFails`, `RetryFires` |
| `startPairing` | `StartPairing`, `SendAnswer`, `AnswerTaken`, `PairingFails`, `AgainFires` |
| the pair timeout | `TimerFires` |
| `onStateChange` | `StateChanges` |
| `handleMessage`, `getOrCreateSession` | `Output`, `List`, `Keys` |
| `switchHost`, `_removeHost` | `SwitchHost`, `RemoveHost` |

`Connect` is `connect` with `cleanup` up to its first await, for one host or, in
`ConnectOthers`, for one after the other. A connection comes up only if the answer
went to the host whose offer it answers, as its keys must fit. `strays` is a history
of what was taken for another host's. `listed` are the hosts whose session list was saved:
`switchHost` draws the tabs from it and so makes the terminals that `cleanup` removed,
with the client of that moment, which may be none or one still pairing (`TermsFor`). ICE
may also be "completed", which `ctx.state` records and the page otherwise ignores. A
removed host leaves `known`; closures go on with
its context, which is in no map then: `Begins` and `TermsFor` say what that comes to.

Most modules hold variants of an operation, each with a comment that says which slip
it contains (`ApprovalResponseKeeps`, `CreateOverLimit`, ...). They are not
used by any specification: substituted for the operation they vary, they make a
property fail, which shows that the property depends on that line of the code
(`mutants` in `PROJECT.json`).

## 3. The runs

| Run | Instance | Properties | Distinct states |
|---|---|---|---|
| `RingBuffer` | ring of 5, writes of 0 to 7, 40 bytes | `TypeOK`, `Layout`, `ImplementsScrollback` | 175 |
| `Session` | one bridge, the local terminal, 3 chunks, fair | `TypeOK`, `NoGap`, `LiveContiguous`, `ExitNotMissed`, `EveryChunkArrives` | 57 thousand |
| `Terminal` | up to 4 lines of 4 texts, reads of up to 3 pieces | `TypeOK`, `NewTextsReported` | 2 332 |
| `Host` | three session ids, limit 2, two connections, two prompts and two messages | `TypeOK`, `AnsweredOnce`, `CardsWork`, `OnePeer`, `SessionsAccounted`, `ImplementsApprovals` | 1.6 million |
| `BridgeLive` | one session, one connection, two prompts, one announcement, fair | `PromptReachesPhone`, `ExitReported` | 308 thousand |
| `BridgeReconnect` | one session, two connections, one prompt, fair | `PromptReachesPhone` (violated) | |
| `BridgeStale` | one session, one connection, two prompts | `ApprovalAnswersItsPrompt` (violated) | |
| `Signaling` | one phone with the room, one on the LAN or two of a kind, two attempts, three offers, every fault, fair | `TypeOK`, `RelayOfferLives`, `AnswerUsedOnce`, `RelayPeerWatched`, `MismatchHeals`, `ReofferAfterDrop` | 138 thousand |
| `Mirror` | two sessions, ring of 4, reads of up to 2, pastes of up to 5, 3 bytes of output, ICE up twice, 2 messages | `TypeOK`, `NothingMissed`, `LiveInOrder`, `WireFaithful`, `InputImplementsPipe` | 750 thousand |
| `MirrorLive` | two sessions, 2 bytes of output, ICE up once, 1 message, fair | `OutputArrives`, `CreateAnswered` | 101 thousand |
| `MirrorFull` | one session, 4 bytes of output, fair | `OutputArrives` (violated) | |
| `PhoneApp` | two hosts of which one or both are known, three calls of `connect`, one host removed | `TypeOK`, `NoCrossTalk`, `KeepsTrying` | 1.9 million |

What the properties say, and of which code:

* `ImplementsScrollback`: whatever is written, `Bytes` is the last `Size` bytes of
  the stream. `Layout` is the slot by slot statement it follows from.
* `NoGap`: a bridge that registers for output and then takes a snapshot gets every
  chunk, in one or the other. It needs both the store before the copy in `readLoop`
  and the registration before the snapshot in the bridge.
* `LiveContiguous`: the chunks a callback is given are consecutive.
* `ExitNotMissed`: a bridge with its exit callback in place that reads "running"
  will be told.
* `NewTextsReported`: what `Scan` reports matches, and of the texts scanned each matching
  one is reported where it first comes, several of one read included.  It says nothing of
  a text that comes again, nor of a line that two reads bring (section 6).
* `AnsweredOnce`: an approval reaches a terminal at most once and it is the one
  that asked.
* `CardsWork`: while a connection is open, a tap on a card that came by it finds its
  request, however early, or was answered, or the program is gone. It is not stated for a
  connection that is lost or closed: the card stays on the page, the tap goes to a closed
  client and is thrown away.
* `ImplementsApprovals`: each step of the host is one of `Approvals` or does not show:
  a prompt that is drawn again or heard by two bridges is requested once, a request shows on one phone at most, and an answer comes from the phone it shows on.
* `OnePeer`: every peer but the current one is closed, also after a failed offer.
* `SessionsAccounted`: each process belongs to a listed session; the limit holds.
* `RelayOfferLives`: while the loop waits for an answer, the offer in the room is
  that of the current peer and can be accepted.
* `AnswerUsedOnce`: the answer that stays in the room is given to no second peer.
* `RelayPeerWatched`: a peer that has the relay's answer and is not closed is the current
  one, and the loop waits for its end, or for a peer that has ended, or is about to make
  the offer that closes it: what `MismatchHeals` builds on.
* `MismatchHeals`: a peer that took an answer to another offer (a phone may be late,
  or `/offer` may come between) is given up, whatever fails.
* `ReofferAfterDrop`: a lost connection leads to a fresh offer in the room.
  Of these five, `RelayOfferLives`, `AnswerUsedOnce` and `ReofferAfterDrop` are stated for
  as long as nothing is `disturbed`.
* `NothingMissed`: from the first byte of the first scrollback on, each byte stored is
  on the phone's screen, on the way, or in the hands of `readLoop`. It needs the store
  before the send, the snapshot taken after the channel was seen open, and that a
  `Send` while ICE is down is kept.
* `LiveInOrder`: behind a live chunk on the way comes every later byte, none earlier.
* `WireFaithful`: the receiver accepts each frame within the limit, takes all of it, and
  finds in it what the sender may say; only a paste may be longer, and the host then
  refuses it or finds less of it, for the same session.
* `InputImplementsPipe`: `Mirror` implements `Pipe`; keys reach the session they were
  typed into, in order and once, however writes are cut; only of a paste beyond the limit
  is the end, or the whole, left out.
* `NoCrossTalk`: output is shown under the host it comes from and keys go to the host
  on display, or nowhere, whichever host was active when a call went on and whichever
  client a terminal was made with.
* `KeepsTrying`: a page that has only had one host, not connected, that says it is trying is: a call
  is under way or a timer will make one.
* `PromptReachesPhone`, `ExitReported`, `EveryChunkArrives`,
  `OutputArrives`, `CreateAnswered`: liveness.

Why the bounds suffice. The ring's behaviour depends on how a write's length
compares with the size and with what is left to the end: a ring of 5 has every
case, at every position. In `Session` a bridge and the local terminal are two
subscribers of which one registers while the other is called; that a second bridge
takes over `onExit` is left to the proofs, which allow any number of bridges, and
to the runs of `Bridge` with two connections. Three chunks are the
fewest of which a middle one can be missing. Two connections are an old one and a new one; a third behaves like
the second, since `newOffer` knows only the current peer. Two prompts are one
answered and one that follows. The constraint `Apart` of `Host` keeps messages that
create or close sessions out of behaviours with prompts, except up to two of both on
the first connection; the two sessions that phones create are interchangeable (symmetry).
In `Signaling` two attempts are a phone whose late or
lost answer is followed by another, or two phones at once; three offers are one that is
lost, its replacement and the one after that. At the bound `newOffer` fails, which it
may do anyway. The kind of each attempt's phone is chosen at the start, so the run
covers two calls of one phone and one of each. In `Mirror` a byte has two values and an
id one character, so a frame carries up to three bytes and the ring, as in the
program, has one more than the payload may be: every relation between the limit, the
ring and a message occurs. Pastes of up to 5 bytes cover the lengths
that matter with a payload of 3: with the id, 1 and 2 fit; of 3 the length bytes say 0, and
the host refuses the frame; of 4 they leave the id alone; of 5 one byte is kept. The constraint `Apart` of `Mirror` keeps
pastes that are cut out of behaviours with output or with interruptions. `MaxAll` bounds output, messages and connections
together, so that each of them gets to its own bound. In `PhoneApp` the hosts are
interchangeable (symmetry), three calls are one whose client, timer or answer is late
and the two that overlap it, and `Few` leaves two under way at a time, or, with two hosts,
one once all three have begun; a host is removed, and ICE is "completed", only in
behaviours with two calls, and not both. At
the bound no further call begins, which a page
without taps may do anyway, but a timer or a retry then waits. Each safety property of
these runs is also proved, for any number of bridges, sessions, chunks, prompts, lines,
phones, attempts and offers.

`CHECK_DEADLOCK FALSE` stands where a system may stop: the process has ended and
the bounds on what phones and programs do are used up. `RingBuffer` checks
deadlock.

Bounds are constants: `MaxTotal` and `MaxWrite` (bytes), `MaxChunks`, `MaxLines`,
`MaxChunk`, `MaxOffers`, `MaxAsks`, `MaxMsgs`, `MaxPeers`, `MaxTries`, `MaxPaste`,
`MaxBytes`, `MaxUps`, `MaxAll`, `MaxCalls`. `MaxSessions` (8 in the program),
`Tries` (10) and `Size` (65536) are the program's own limits. `InputCap`
stands for the kernel's buffer, of which the code knows only that a
write may block. A prompt is redrawn when the previous drawing has been read.

## 4. Fairness

`FairSpec` of `Session` has weak fairness of `readLoop` and of `waitLoop`, that of
`Bridge` of each `ReadLoop(s)`, `WaitLoop(s)`, `Handler(b)`, `Announcer(b)` and of
`NewOffer`. Each is one goroutine that the Go scheduler runs when it can run, and a step
of each is finite: callbacks and sends return. A step that may block is guarded by
what it waits for (`WriteInput` by room in the terminal), so weak fairness forces
nothing the program would not do. Nothing is assumed of the processes, of the
person at the host, of phones and of the network: `Show`, `Leave`, `Keyboard`,
`Message`, `Connect`, `ChannelOpens`, `Lose` and `OfferBegin` may never happen.
`Signaling` has weak fairness of the relay loop, whose requests have a timeout of 15
seconds, and of each call of `connect`, which goes on asking and answering by itself; nothing is
assumed of `Connect`, `ComesUp`, `GoesDown`, `GiveUp` and `Expire`.
`Mirror` has weak fairness of `SendOutput` of each session, of each announcer, of the
handler and of the page: `Page` stands for the channel, which SCTP makes reliable while
ICE is up, and the handling of what arrives. A terminal need not take its input
(`WriteInput`, `WriteFails` are not fair), ICE need not come or stay, and nobody has to
type; `CreateAnswered` says so in its premise. `PhoneApp` has safety properties only.
The liveness properties therefore name what releases the host from its duty: the
connection goes, the session is detached, the program stops waiting.

## 5. The proofs

TLAPS proves, with SMT, Zenon and LS4, for every value of the constants that satisfies the named
assumptions (`RingAssumption`, `SubsAssumption`, `ChunksAssumption`, `BlankAssumption`,
`BoundsAssumption`, `BridgeAssumption`, `SignalingAssumption`, `CodecAssumption`,
`MirrorAssumption`, `PhoneAssumption`: sizes and bounds are naturals, an empty line
matches no pattern, a nil value is none of the real ones, the
first session is a session, there are finitely many, no phone is on both ways, a byte has at least two values, and
a read fits into a frame; nothing is assumed of the length of a paste):

* `RingBufferProofs`: `RingTypeOK`, `RingLayout`, `RingRefinesScrollback`.
  `Layout` states for each slot which byte of the stream it holds, by its distance
  from `pos`; it is inductive. The remainders of the code are replaced by a case
  split first (`pos + n` is below `Size`, or below `2 * Size`). From `Layout` the
  refinement follows since `Bytes` reads the slots in that order.
* `SessionProofs`: `SessionTypeOK`, `SessionNoGap`, `SessionLiveContiguous`,
  `SessionExitNotMissed`. None of the last three is inductive alone. `RingKeepsUp`
  says that the ring is behind only while `readLoop` is about to store;
  `Registered` that whoever took a snapshot had registered; `RoundOnce` that a
  round of callbacks calls everyone once; `LiveUpToDate` that the last chunk of a
  subscriber is the one in hand or the one before; `ExitHandedOn` follows the exit
  callback from the status to the call.
* `TerminalProofs`: `ScanSplits`, `TerminalTypeOK`, `TerminalNewTextsReported`. The first
  is about the detector alone: scanning two runs of lines one after the other leaves in
  `d.seen` what scanning them at once leaves, and reports the same lines. The inductive
  invariant is then `ScannedWhole`: whatever the reads were, `seen` and `found` are what
  one `Scan` of everything that arrived gives.
* `BridgeProofs`: `BridgeTypeOK`, `BridgeOnePeer`, `BridgeSessionsAccounted`,
  `BridgeAnsweredOnce`, `BridgeCardsWork`, `BridgeImplementsApprovals`, all from the inductive
  invariant `IInv` of `Bridge` (theorem `BridgeInv`). Its parts: `Busy` and
  `PeerBusy` (a thread at work has something to work on), `NoPeerYet` (while an
  offer is made every peer is closed, hence one after it), `Known` (a request is for a
  session that exists, so a new session is not one that a card is for), `OneStage`
  (a request is pending with its bridge, or in its handler's hands, or answered,
  and only one of these), `Sending` (a request about to be sent is pending and on
  no phone), `CardsPending` (what `CardsWork` says, of every connection),
  `OwnPrompts` (what a session shows and is read for its own program asked), `OneOwner`
  (a detected text is seen and belongs to one reader or one request), `Tapped` (what a handler answers is a card of its own phone). A lemma for
  each thread says what it leaves alone; the preservation proofs have a step for each
  action or thread that is left. The refinement has a lemma for each of the three steps
  that show: `RecordAsks` needs `OneOwner` and `OwnPrompts`, `SendDelivers` needs `Sending`, `WriteGives`
  needs `Tapped` and `OneStage`.
* `SignalingProofs`: `SignalingTypeOK`, `SignalingOfferLives`, `SignalingAnswerUsedOnce`
  and `SignalingPeerWatched`, from `IInv` of `Signaling`. `OfferStands` follows the
  offer from `newOffer` into the room and up to the acceptance, which needs
  `LanAsked`: no handler of `/answer` is at work unless `/offer` was used.
  `NotYetSent` says that an answer still on the phone is nowhere else, so that the one
  in the room since the last DELETE is new (`AnswerIsNew`). `RelayPeerWatched` is
  inductive together with `IInv`, `PeersInTurn` (older peers are closed, later ones do not
  exist yet) and `LanPosts` (only phones on the LAN use `/answer`): an answer of the relay
  is accepted by the loop alone, in the step in which it begins to wait, and a peer is
  replaced only by `newOffer`, which closes it.
* `CodecProofs`: `HostToPage` and `PageToHost` (what one side encodes within the limit
  the other decodes, for every id and payload), `LongInputIsCut` (longer input is refused
  or cut to a proper beginning, for the same session), `FullRingNeverFits`. They rest on
  the lemmas that the two length bytes of a frame give back a length up to the limit and
  never say more, and on `CutInside`, what a cut leaves of an id and its data.
* `MirrorProofs`: `MirrorTypeOK`, `MirrorNothingMissed`, `MirrorWireFaithful`,
  `MirrorLiveInOrder`, `MirrorInputImplementsPipe`, from `IInv` of `Mirror`. `HandIsNewest` says that the chunk in
  the hands of `readLoop` ends with the last byte stored; `OpenBefore` that whoever
  holds a snapshot has seen the channel open, so that a later `Send` is not lost;
  `SnapshotsSound` that a snapshot not yet sent encodes and what came after it is
  covered, so that sending it opens no gap; `HandAfterLive` that the chunk in hand is
  later than every live one on the way. `InputInOrder` is about the other direction: for
  each session, what was written, what the handler holds and the keys in the frames of
  `inbox` are, one after the other, what was kept, or a beginning of it once the peer is
  closed. `kept` grows with each paste by a beginning of it, by all of it when it fits
  (`PersonAdds`); with a long paste `LongInputIsCut` gives that beginning. A short write moves the cut between the first two, taking a frame the one behind
  them. After a write that failed only what was written is a beginning of what was kept,
  which is all `Pipe` asks. Frames are decoded by the theorems of `CodecProofs`. There is a
  lemma for each thread and each part of the invariant.
* `PhoneAppProofs`: `PhoneTypeOK`, `PhoneNoCrossTalk`, `PhoneKeepsTrying`, from `Placed`
  (a call has its host exactly from `startPairing` on), `Wired` (a host's client, and the
  one its terminal writes to, were made for it) and `Matched` (a connection that is up
  belongs to the room its call fetched the offer from). `SwitchHost` keeps `Wired` since
  the client it gives a terminal is the host's own. `ConnectKeeps` treats `connect`
  for any number of hosts once; each other task of the page has a lemma.

Each inductive invariant was model-checked first. Only model-checked are the liveness
properties (`EveryChunkArrives`, `PromptReachesPhone`, `ExitReported`,
`MismatchHeals`, `ReofferAfterDrop`, `OutputArrives`, `CreateAnswered`), for which the
provers have no rule, and the disagreements of the next section.

## 6. Where the code departs from what it says

Each is a run with the expectation `violation` and a finding in `PROJECT.json`.

* `BridgeReconnect`: after a reconnect a new prompt may not reach the phone. The
  old bridge's callback stays registered and comes first, so it takes the
  detection and sends it to the closed peer.
* `BridgeStale`: a card left from a prompt that was answered at the keyboard
  answers the next prompt.
* `MirrorFull`: a session that has printed 65520 bytes or more sends no scrollback:
  snapshot and id exceed the payload limit, `Encode` returns an error and
  `SendAllScrollback` drops it (`bridge.go:153`). `ARCHITECTURE.md:202` says "RingBuffer
  preserves last 64KB. CLI re-shows QR on disconnect. Phone reconnects, gets
  MsgScrollback."

Four more properties are stated at the end of their modules as what the repository says
and the code does not do. TLC finds each violated, within a minute or so, when it takes the
place of those in the configuration named:

* `CutLinesFound` of `Terminal` (`Terminal.cfg`): a line that asks and that two reads bring
  is not detected, as each read is scanned on its own (`detector.go:80`).
  `ARCHITECTURE.md:192` says "Scans last 512 bytes of output."
* `EveryPromptReachesPhone` of `Bridge` (`BridgeLive.cfg`): a question asked again gets no
  request, as the detector remembers the contents of lines, for good and for every session
  (`detector.go:90`). `ARCHITECTURE.md:192` says "Deduplicates by line offset",
  `README.md:85` that the phone shows buttons "When Claude asks";
  `detector_test.go:106-117` agrees with the code. No property here asks for the
  suppression: `Approvals` leaves open whether a prompt is requested, and
  `PromptReachesPhone` speaks of texts not seen before.
* `TerminalsWired` of `PhoneApp` (`PhoneApp.cfg`): `switchHost` draws the terminals of a host
  that has no client yet, which then keep null; when the host is connected, what is typed
  goes nowhere (`app.js:173`, `498`).
* `BackgroundConnects` of `PhoneApp` (`PhoneApp.cfg`): `init` connects the hosts in the
  background, but the call goes on when `_activeKey` is restored, and is paired with the
  host on display (`app.js:338`).

What else the models show, without a run of its own; most of it is among the hazards:

* `done` may be closed with output unread (`session.go:205`).
* A session the old bridge creates after `newOffer` listed the sessions is not
  attached to the new one (`run.go:101`).
* The relay loop closes the connection of a LAN phone that took over from a relay phone
  (`run.go:314`); a failed re-offer is not repeated (`run.go:319`); an offer that has
  expired is not posted again while nobody answers (`run.go:284`).
* The page asks for a session with `command`, the host reads `cmd`: the button "+"
  only ever shows an error (`app.js:552`). A resize names no session and is dropped
  (`bridge.go:212`).
* The phone repeats on its screen what scrollback brings again (`terminal.js:81`).
* A card stays on the page when its connection goes, and a tap on it is lost; the answer
  to an approval goes to the host that asked last (`app.js:38`); the list of a background
  host draws its tabs (`app.js:459`) and its first terminal is made visible
  (`app.js:514`).
* With several hosts, the cleanup of one stops the timer of another, whose status line
  may then say for good that it is connecting (`app.js:308`).
* `ARCHITECTURE.md:205` speaks of coalescing and of dropping under backpressure; the
  code has neither.

## 7. What is not modelled

* The delay with which the relay's KV store shows a write; the end of the program
  in the middle of pairing (`ctx`).
* Ping, whose answer the page ignores; window sizes.
* On the page: local storage, the approval cards, the tabs and panes of background hosts,
  the debug log; the mode without a relay is in `Signaling` only.
* Regular expressions, context lines, escape sequences: which texts match is a
  parameter. Allowing any set, the results hold for any patterns.
* `CloseAll`, which runs once when the program ends; `Count`, `AddPattern`, `Reset`,
  which the program does not call.
* ICE, DTLS and SCTP (pion) and the kernel's terminal are external and modelled by
  what the code sees of them.
* SDP compression, TURN credentials, QR codes, flags, the LaunchAgent, the service
  worker: sequential transformations or input and output.

## 8. The plan

Order, the most important behaviour first; 1 to 8 are done.

1. `Scrollback`, `RingBuffer` and the refinement proof.
2. `Session`: callbacks against snapshots, exit against registration; proofs.
3. `Detector`, `Terminal`.
4. `Bridge`: approvals, sessions and reconnects; liveness; proofs of the safety
   properties and of the refinement of `Approvals`.
5. `Signaling`: peer manager, relay loop, worker with expiry, HTTP handlers, phone
   pairing; proofs of the safety properties.
6. `Codec`: both implementations with their lengths and field names; round trips proved.
7. `Mirror`: output, scrollback and input over one channel; proofs.
8. `PhoneApp`: several hosts and the awaits of `connect`.
9. The approval cards on the page, and the tabs and panes of several hosts.
10. That the session part of `Bridge` implements an abstract session.
