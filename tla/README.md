# TLA+ models and proofs of lightvideo

lightvideo streams a screen from a server to a client over UDP, protects the
stream with Reed-Solomon blocks, adapts the bitrate to the client's reports, and
carries the user's input back.  This directory holds TLA+ modules translated from
the Rust sources, TLC configurations that check them on small instances, and
TLAPS proofs for all values of their constants.

    tlc -config MCLVPackager.cfg MCLVPackager      # one run
    tlapm LVPackagerProofs.tla                     # one proof module

`PROJECT.json` lists the components, the runs, the source lines of every
definition, the hazards of the code with the properties that watch them, the
disagreements found between code and comments, and the theorems.  A definition
whose comment begins with "Faulty:" is a plausible bug, used to see that a
property notices it; no specification refers to it.

## 1. Inventory

| part | source | state | operations | talks to |
|---|---|---|---|---|
| packager | `server/src/packager/mod.rs` | RTP queue | `process_frame`, `send_next_pkt` | send loop (caller), erasure manager |
| erasure manager | `server/src/packager/packet.rs` | encoder, block id, fragment indices, sizes | `send_lv_packet` | UDP socket |
| packet format | `net/src/packet.rs` | none | `to_bytes`, `from_bytes` | both sides |
| network thread | `client/src/decoder/network.rs` | 1000-slot channel | `socket_loop` | starts feedback and input threads |
| decode thread | `client/src/decoder/video.rs` | shard decoder, slots, indices, counters | `decode_loop`, `depacketize_decode` | channel, feedback packet, double buffer |
| feedback, client | `client/src/decoder/feedback.rs` | shared `(LVAck, LVFeedbackPacket)`, one accepted connection | one round per quantum | TCP, decode thread |
| feedback, server | `server/src/server/feedback_server.rs` | bitrate, clean quanta, accumulators | `handle_feedback` | TCP, mutex |
| send loop | `server/src/server/streaming_server.rs` | `old_bitrate`, capture queue | `start_send_loop` | mutex, packager, encoder |
| encoders | `server/src/encoder/*` | encoder session | `encode_frame`, `set_bitrate` | send loop |
| double buffer | `client/src/double_buffer.rs` | two locked buffers | `initialize`, `back`, `swap`, `front` | decode thread, UI thread |
| window | `client/src/ui/*` | GPU texture, input sender | `render`, `input`, `run` | double buffer, input channel |
| input, client | `client/src/decoder/input.rs` | one datagram buffer | input thread | channel of 10, UDP |
| input, server | `server/src/server/input_server.rs`, `server/src/input/x11.rs` | one X11 request | `start_receive_loop`, `write_event` | UDP, X server |
| capture | `server/src/capture/*` | library handles | `capture` | capture queue of 2 |
| statistics | `statistics/src/*` | unbounded channel, tables, files, quit channel | `register_data`, `update_data`, `quit`, `aggregate` | every thread, ctrl-c handler, both main threads |
| main threads | `client/src/main.rs`, `client/src/ui/mod.rs`, `server/src/main.rs` | event loop or send loop | start the threads, leave at the quit signal | statistics |

What is hard, and what each part owes:

* **Packager.**  The recovery shards of a block are computed one call late, from
  labels, sizes and an encoder that different lines advance, and any `send_to` may
  fail in between.  It owes: one label per datagram, labels in order, shards that
  cover exactly the fragments of their label, all shards of every block.
* **Decode thread.**  Datagrams are lost, reordered and repeated; slots and sizes
  survive from block to block; any error return ends the thread.  It owes: an
  ordered, genuine part of the RTP stream, everything from a block with 4 of its 6
  datagrams, and its own survival.
* **Feedback exchange.**  Two threads zero the same counters at different times
  under a lock that one of them only tries.  It owes consistent reports that count
  things once and lose none.
* **Bitrate loop.**  An equality test on a counter whose target moves, arithmetic
  of three widths, a mutex shared with the main thread.  It owes a bitrate that
  failures keep above a floor, that can always rise again, and that reaches the encoder.
* **Feedback connection.**  Two messages of different length on one TCP stream, without
  framing, read into a buffer that is never cleared.  It owes: nothing but the client's
  own messages is acted on, each once, and order again after a misread.
* **Send loop and capture.**  A queue of two between a producer that drops and a consumer
  that may be slow; the quit signal is looked at between two frames.  It owes a bounded
  lag, and an end after ctrl-c.
* **Statistics.**  Registrations, points and requests to quit of many threads in one
  channel; the process ends with its main thread.  It owes: no point refused, the files
  before the signal, and the signal whatever goes wrong with the files.
* **Display.**  `back()` is a `try_write` that is unwrapped; `swap` takes two locks.
  It owes whole frames that never go back.
* **Input.**  A bounded channel that drops, a buffer and a request that are filled
  in again and again, pings that are sent once.  It owes requests that are the
  user's, in the user's order.

## 2. Modules

| module | models | checked by |
|---|---|---|
| `LVPacket` | header and payload of a datagram | (extended) |
| `LVPackager` | packager and erasure manager | `MCLVPackager` |
| `LVDecoder` | block protocol of `decode_loop` | `MCVideoStream` |
| `VideoStream` | `LVPackager`, the network, a restarted server and `LVDecoder` composed | `MCVideoStream` |
| `RtpStream` | abstract: what the transport promises | `ImplementsRtpStream` |
| `BitrateControl` | `handle_feedback`, the mutex, the send loop's poll, `set_bitrate` | `MCBitrateControl` |
| `FeedbackExchange` | decode thread's counters and feedback thread | `MCFeedbackExchange` |
| `FeedbackConnection` | both ends of the feedback connection, byte by byte | `MCFeedbackConnection` |
| `StatisticsCollector` | statistics thread, its channel, ctrl-c | (extended) |
| `StreamingServer` | capture, send and feedback threads with `StatisticsCollector` | `MCStreamingServer` |
| `DoubleBuffer` | decode thread and UI thread around the two buffers | (extended) |
| `FrameRegister` | abstract: what the display promises | `ImplementsFrameRegister` |
| `ClientWindow` | event loop and end of the client: `DoubleBuffer` and `StatisticsCollector` composed | `MCClientWindow` |
| `InputPath` | window handler, input thread, network, input server | `MCInputPath` |
| `LVPackagerProofs`, `FeedbackExchangeProofs`, `StatisticsCollectorProofs`, `StreamingServerProofs`, `InputPathProofs` | theorems about the module each is named after | tlapm |
| `VideoStreamProofs` | theorems about `VideoStream` and, in it, `LVDecoder` | tlapm |
| `FeedbackServerProofs` | theorems about `BitrateControl` and `FeedbackConnection` | tlapm |
| `ClientWindowProofs` | theorems about `DoubleBuffer` and `ClientWindow` | tlapm |

Variables have the names of the fields and locals they stand for; variables called
history in a comment exist only for properties and guard nothing (the counts of
injected failures also bound them).

**LVPacket.**  An RTP packet is its number and its marshalled size.  A recovery shard
is the codeword it was computed from and the number of its bytes that were sent.
`send_timestamp` and `min_fragment_size` (a constant) are not fields.

**LVPackager.**  `ProcessFrame` is `process_frame` (any number of packets of any
sizes), and each way through `send_next_pkt` and `send_lv_packet` is one action:
`EncodeFails` (l. 81), `RecoverySendFails` (l. 119), `SendFragment` (success, or
failure at l. 178), `AddShardFails` (l. 171), `BlockIdOverflow` (l. 130 in a dev
build; `Builds` is the set of builds a run looks at).  A call is atomic because one
thread owns the packager.

**LVDecoder.**  One pass of the loop is at most three steps: `Receive`, then one of
`SkipRecovery`, `RecoverBlock`, `RecoveryFails` if the datagram opens a block
(l. 304-370), then one of `DuplicateShard`, `TakeRecoveryShard`, `QueueFragment`,
`LostCountPanics`, `DeliverFragment` (l. 372-444).  The shard decoder is a library;
of it the model assumes that `decode` succeeds with 4 shards of either kind, that it
restores the originals when all shards are of one codeword, and that the code works
byte by byte, so that a shard cut to n bytes restores the first n bytes.  Shards
of different codewords, wrong sizes or cut bytes give the value `Damaged`.

**VideoStream.**  `udp`, all the server has sent, is what the network may deliver.
`Window` says how far behind the newest datagram a late one may come (0: FIFO with
loss), `MaxDuplicates` how many may come twice.  The client's socket buffer and its
channel keep the order and lose when full, and so are part of the network.
`RestartServer` is a server that crashes between two datagrams and is started again:
block 0, an empty encoder, while the network still carries the old datagrams and the
client goes on.  `RecvFails` is a `recv_from` that fails: the network thread ends with a
slot taken, and the decode thread reads it empty.  `MaxFaults` bounds all faults together.

**RtpStream.**  A subsequence of the produced packets, in order, as long as no datagram
came late or twice (`disordered`); genuine packets, in whatever order, until a block was
put together from datagrams of two runs of the server (`mixed`); nothing afterwards.

**BitrateControl.**  `HandleFeedback` or `FeedbackPanics` is one report handled under
the mutex, in a release build, where a raise past the largest u32 and the u16 accumulators
wrap, or a dev build, where both panic; `UpdateBitrate` is the poll of the send loop with an encoder that accepts
or refuses (`SetBitrate`); `SenderPanics` is `lock().expect()` on the poisoned mutex.  The f32
arithmetic is that of the integers: the module's head says for which values.

**FeedbackExchange.**  What the block protocol decides about a datagram is a free
choice here.  `CountOnly` is a datagram after which nothing is copied (a shard, out of
order, or the lock is taken), `Publish` one after which the counters are copied and
perhaps zeroed; `Lock`, `SendReport` and `SendAck` are a round of the feedback thread,
which holds the lock through the last two.

**FeedbackConnection.**  The bytes written and not yet read, each known by its message
and its place in it.  `Write` is a `write` that may take a part; `Read` a `read` that
returns any number of bytes over what the buffer held, and the handling of the buffer
as one message; `ReadEnd` is the `Ok(0)` of a client that has gone.  A byte that is not a
type may be taken for any type, and a message put together from other bytes may panic
the thread in a dev build.  What a report does is in `BitrateControl`, what it says in
`FeedbackExchange`: all three agree on one write of a report and of an ack per quantum.

**StatisticsCollector.**  `HandleRegister`, `HandleUpdate`, `HandleQuit` and `SignalQuit`
are the arms of the thread's loop; `SendAll` and `CtrlC` are for those who send to it.
Of a time series only what `aggregate` tells apart is kept.

**StreamingServer.**  A frame in the queue is the number of frames taken since it was
captured.  `Setup`, `LookForQuit`, `EncodeFrame` or `NoFrame`, `TakeBitrate` and
`SendPackets` are the send loop; `StartCapture`, `CaptureFrame` and `CaptureBreaks` the capture
thread, `Connect` and `HandleFeedback` the feedback thread, which may store a bitrate and send
points at any time.

**DoubleBuffer.**  The decode thread's way from a decoded frame to the end of `swap`, a
step for each lock it takes, a conversion in two steps with a torn buffer between, and
the UI thread's upload in two steps under the read lock.  `screen` is the frame presented
last: a surface that gives no texture (`wgpu_state.rs:395`) leaves it as it is.

**ClientWindow.**  Every event begins with `LookForQuit`; `Redraw`, `RedrawEnds`,
`OtherEvent` and `CloseWindow` are events, `LeaveLoop`, `AskForStatistics` and `Return` the rest
of main, `LoopFails` the error of the event loop or of the making of the window, with which
main returns and asks for nothing.  `DecodeStep` is a step of `DoubleBuffer` with the point it sends, `DecodeFails` a
packet the video decoder refuses.  When the window is "gone" the process is, in
whatever state its other threads were.

**InputPath.**  Events are numbers with a kind; the ping is the press of the left button
its bytes spell.  `UserInput` is the handler with `try_send`, `ReceivePing`,
`SendEvent` and `ResendBuffer` are the input thread, `HandleDatagram` is the receive
loop with the whole of `write_event`.  `ProcessEnds` is the return of main after the event
loop, which ends the input thread with what the channel still holds.

## 3. Runs

Every cfg says `CHECK_DEADLOCK FALSE`: these models stop when their bounds are used up,
and the programs stop when their main thread has ended.

| run | bounds | shows |
|---|---|---|
| `packager` | ratio 2:2, 2 sizes, 12 packets (6 blocks), frames of 1 or 2, block id limit 3, both builds, one failed send of each kind | `EncoderInStep`, `RecoveryCoversBlock`, `WireOrdered`, `EarlierBlocksComplete`; `WrapConfined`: a wrap of the block id spoils the shards labelled 0 and no others |
| `packager_payload` | ratio 4:2, frames of 1 or 2, one failed send of each kind | violation of `GivesPayload` |
| `stream_loss` | ratio 4:2 as in the code, 9 packets (2 blocks and the first of a third), any loss, one repeated datagram, dev build, fairness | types, `DecodedFromMinimum`, `DecoderSurvives`, `ImplementsRtpStream`, `EventuallyDelivered` |
| `stream_faults` | ratio 2:1, 2 sizes, 5 packets, any loss, two of: late datagram, repeated datagram, restart of the server, failed send, failed `recv_from`; release build | `DecodedFromMinimum`, `DecoderSurvives`, `ImplementsRtpStream` |
| `stream_reorder_minimum` | ratio 4:2, reordering by 1, 6 packets | violation of `MinimumSuffices` |
| `bitrate` | 12 reports of 5 kinds, both builds, bitrates below 1095000, accumulators of 3, target up to 12, one refused reconfiguration, fairness of the send loop | `TicksBelowTarget`, `FailuresNeverAccumulate`, `BitrateFloor`, `EncoderCatchesUp` |
| `feedback` | 5 datagrams, 3 quanta, counter limit 4, one failed write, dev build | `ReportConsistent`, `ReportedAtMostTwice`, `CountersSpanTwoQuanta` |
| `feedback_once` | 6 datagrams, 3 quanta | violation of `ReportedOnce` |
| `connection` | 2 quanta (4 messages of 3 and 5 bytes), reads of any length, one short write, dev build, fairness of the reader | types, `GarbledNeedsSplit`, `SplitNeedsBacklog`, `ActedOnOnce`, `ResynchronisesAtBoundary`, `EventuallyActedOn` |
| `client_window` | 3 frames, 2 failed conversions, one failed surface, one refused packet, one ctrl-c, channel of 4 messages, fairness | `BuffersNeverContended`, `FrontStableDuringUpload`, `ImplementsFrameRegister`, `QuitKeepsStatistics`, `EventuallyDrawn`, `CtrlCEnds` |
| `streaming_server` | queue of 2 as in the code, one name per kind of datum, channel of 3 messages, ctrl-c twice, fairness | `LagBounded`, `PointsKept`, `StatisticsBeforeQuit`, `EventuallyQuits` |
| `input` | channel of 2, 4 events, loss, fairness of the input thread | `RequestsFaithful`, `RequestsInOrder`, `NothingLostInClient`, `EventuallySent` |

Of the type invariants, all of which are proved (section 5), only `DecoderTypeOK` and
`ConnectionTypeOK` are in a run.

Why the bounds are enough.  The packager's and the decoder's states repeat from block
to block but for the labels; three blocks let a block have a predecessor whose data
is still held and a successor that overwrites it, and the six of `packager` put a whole
block with shards of its own behind the wrap.  The ratio is the code's where losses are
counted, and 2:1 or 2:2 where sizes, failures or wraps need the room.  `Window` of a cfg
is 0 for a FIFO, 1 when the newest datagram may be repeated, 2 when a datagram may
arrive one place late, which already makes `block_id` go back and forth.  Two faults of
`stream_faults` are enough for a restart whose old datagrams arrive late, or a cut shard of a
block that is then mixed.  The bitrate run uses the code's bitrates; the first target of
3 quanta instead of 10 and the limits 12 and 3 bring saturation and overflow into
reach, and the limit of a bitrate, 1095000 instead of 2^32, lets the second raise wrap to
5000, which is below the floor.  Three quanta are a reset, the copy that repeats it and the one after.  In the
connection run an ack is two bytes longer than a report, as in the code, so that a report
leaves the end of an older ack behind it in the buffer; two quanta are a misread and
what comes after.  The sending threads stop while the statistics channel is full:
three messages on the server, what `Setup` sends at once, four on the client, and every
order of two senders is reached.  Three frames fill both buffers and one of them again.  A channel of two fills, drains and wraps
with four events.

### What the violations show

Each violation is of what a comment of the code says; `PROJECT.json` quotes it.

* `GivesPayload` (`packet.rs:56-59`): one failed `send_to` of a recovery shard leaves the
  encoder empty at a block start, and every later packet is dropped.
* `MinimumSuffices` under reordering (`net/src/packet.rs:18-19`): a block received whole
  but out of order loses packets, since nothing is recovered and nothing else hands over
  what was queued.
* `ReportedOnce` (`feedback_packet.rs:48`): blocks are counted in two reports, because the
  decode thread notices the reset only after copying its old counters once more.

Further disagreements, read in the code and within the models, without a run of their own:

* `net/src/packet.rs:15-16` calls block ids unique; they wrap in a release build
  (`packet.rs:130`), and `WrapConfined` says how far the damage goes.
* `feedback_server.rs:119` names a minimum bitrate, tested before the product: the floor
  that holds, until a raise wraps, is three fifths of it (`BitrateFloor`).
* `feedback_server.rs:97` describes a stable band whose branch (l. 136) comes after one
  that covers it.
* `feedback_packet.rs:57` counts all failures; the second copy of a quantum replaces the
  first (`video.rs:474`), so a failure may reach no report.
* `feedback.rs:63` calls the ack "always rewritten"; a quantum without a packet in order
  sends the old one.

## 4. Fairness

* `VideoStream!LiveSpec`: weak fairness of the send loop and the decode thread, which
  are loops without an exit; of frames being produced (the capture thread runs at 60 Hz);
  and of arrivals: of the datagrams that can still arrive one does.  The network may lose
  any of them by going on to a later one; `EventuallyDelivered` excuses a packet only when
  more than `Recovery` datagrams of its block are lost, a `send_to` fails or a datagram is
  repeated.
* `BitrateControl!LiveSpec`: weak fairness of the send loop's poll, once per frame.
  `EncoderCatchesUp` leaves out runs with a refused reconfiguration or a poisoned mutex.
* `FeedbackConnection!LiveSpec`: weak fairness of the server's read.  The client need not
  write, and may end.
* `StreamingServer!LiveSpec`: weak fairness of the send loop, of the capture thread as long
  as the screen can be captured, and of the statistics thread.  None of ctrl-c, of the feedback
  thread and of `CaptureBreaks`: `EventuallyQuits` excuses only a capture thread that goes on
  without frames, for which the send loop waits for ever.
* `ClientWindow!WindowLiveSpec`: weak fairness of the UI thread, which asks for a redraw
  whenever it is idle (`client/src/ui/mod.rs:98`), and of the statistics thread; strong fairness of
  the decode thread once it has a frame: it competes for the front lock with readers that
  come again and again, and parking_lot does not let readers pass a waiting writer; strong
  fairness of leaving the loop, since winit returns after finitely many more events.  None of
  frames, ctrl-c, the closing of the window and failures.  `EventuallyDrawn` excuses a surface that
  failed: the code only logs it and configures the surface again at a resize alone.
* `InputPath!LiveSpec`: weak fairness of the input thread's two blocking calls.  None of
  the network: `EventuallySent` starts from a ping that has arrived.  Nor does it say anything of
  a window that is closed: the input thread may be gone before it has sent what waits.

## 5. Proofs

All theorems are about the specification of their module without its fairness, for every
value of the constants that satisfies the module's `ASSUME`; a hypothesis beyond that is
in the statement.  Each has the shape: an inductive invariant (`PackagerInv`, `CompleteInv`,
`WrapInv`, `SurvivalInv`, `StreamInv`, `MinimumInv`, `BitrateInv`, `ConnectionInv`, `ExchangeInv`, `BufferInv`, `QueueInv`, `QuitInv`,
`LossInv`, `FaithfulInv`, `OrderInv`), a lemma for the first state, lemmas per part for the steps,
and one temporal step.  The invariants were model-checked before they were proved.

* **LVPackagerProofs.**  `EncoderInStep` with types is inductive by itself.
  `RecoveryCoversBlock` and `WireOrdered` are not: they speak of datagrams already sent
  and need to know what the encoder, the sizes and the labels will say at the next
  call.  `EncoderMatchesWire` (the encoder holds what was sent of the current block, or
  of the full block before while its recovery data is due), `SizesInStep`, `LabelsUsed`
  (every label on the wire precedes the next one), `NumberingInStep` (shards will be
  numbered from 0) and `QueueOrdered` say so; each holds until the block id wraps.  The
  main lemmas, `WireGrowth` and `AppendedDatagrams`, say what one call appends.
  `EarlierBlocksComplete` needs the same of blocks still being sent: `ShardsSent` and
  `FragmentsSent`, where a failed send may be missing.  `WrapConfined` is about the
  behaviour behind a wrap, where all of the above is lost; what remains is
  `InStepAcrossWraps`: the encoder holds what was sent last, but for the block in which the
  id wraps, at whose start the encoder is full and stays so.
* **VideoStreamProofs.**  The server's present run is the packager of `LVPackagerProofs` on the
  part of `udp` behind the last restart (`Run`), so that its invariants are facts about the
  composition (`WireInStep`), for any number of restarts.  `DecoderTypeOK` is not inductive:
  that no index leaves the block needs that the counters count what the shard decoder holds
  (`CountersInStep`), which slots are filled (`SlotsInStep`) and that the header belongs to a
  datagram of the wire (`HeaderInStep`).  It holds whatever is lost, late, repeated or mixed.
  `DecoderSurvives` needs that each shard in the decoder came at a place of its own
  (`ShardsHavePlaces`), that labels name places within a run (`LabelsOrdered`), and that the
  previous index is the largest so far unless a datagram came late (`PreviousIsLargest`).
  It is proved for behaviours in which no block id wraps, `[]~id_wrapped`: behind a wrap two
  blocks have one label and the second meets the first one's shards.  `BlockIdNeverWraps` shows
  that these are all behaviours of a stream with fewer than `BlockIdLimit * Regular` packets
  (2^34: the code has 2^32 block ids and blocks of 4), which `DecoderSurvivesStream` uses instead;
  so do `ShortStreamImplementsRtp` and `ShortStreamDecodes` below.
* **VideoStreamProofs**, the refinement.  `StreamImplementsRtp` says that the video path
  implements `RtpStream`.  The argument follows a packet.  On the server (`ServerInv`): what is
  queued, in the encoder and on the wire was produced (`StreamPackets`); what a datagram carries
  is earlier than what any datagram of a later block of the wire carries, across restarts
  too (`PacketsOrdered`, from `QueueBehind`, `EncoderBehind` and `CodesOrdered`); and all
  datagrams of one block of one run agree on its codeword and sizes (`RunsCovered`), which is
  `RecoveryCoversBlock` of each run.  In the client (`ClientInv`), unless a block is mixed from two runs:
  all shards and sizes of the decoder came with datagrams of one block of one run
  (`ShardsFrom`), so a recovery restores that block's packets; the slots hold packets of the
  stream, if those of an earlier block (`DeliveredGenuine`).  In order needs more: as
  long as nothing came late or twice, what was delivered came with earlier datagrams or as
  a fragment of the open block below the count in order (`DeliveredFrom`), the open block's
  datagrams came after all others (`BlockIsLast`), and a slot that a recovery hands over
  holds the open block's packet (`SlotsInOrder`).
* **VideoStreamProofs**, the minimum.  `MinimumDecodes` says that `Regular` fragments of either kind are
  enough (`DecodedFromMinimum`).  In a run from the start a label is its packet's place in the stream:
  packet n is fragment n % Regular of block n \div Regular (`NumberedInv`), until a failed send of a
  shard wedges the encoder.  `ClosedInv` says that every datagram of the open block has become a
  shard (`HandledShards`), that the fragments in order were delivered (`PrefixDelivered`) and
  that those out of order lie behind a gap (`GapKept`).  So a block closed without a
  recovery was delivered whole (`SkippedDelivered`); `Regular` fragments with labels of their own are
  `Regular` shards, so that `decode()` cannot fail (`EnoughFragments`), and it delivers the
  rest (`RecoveredDelivered`); of the blocks between the closed one and the next nothing has come
  (`NothingBetween`), and nothing of a closed block comes later (`ClosedInvKeptByArrival`).
* **FeedbackServerProofs**, first part.  `TicksBelowTarget` needs that raising a target of two or
  more raises it (`NineFifths`); `FailuresNeverAccumulate` needs that every congested report
  changes the bitrate, which needs `SixTenths`, and that below the minimum it is set to the
  minimum.  `BitrateFloor` and `LoweredHasToLastLonger`, that a lowered bitrate has to survive more
  quanta, hold for any width of a bitrate (`BitrateLimit`): of a raise that wraps they say
  only that it does so in a release build (`Wrapping`, `NextBitrateFacts`).  The second is proved
  only.
* **FeedbackServerProofs**, second part.  The stream has no frames, so that the argument is
  about bytes: as long as messages are written whole, the unread bytes are the rest of one
  message and whole ones up to the last (`StreamInStep`); as long as no read ended inside a
  message, the buffer begins with the message read last, all messages before it have been
  acted on and none behind it (`InStep`).  So a misread needs a split, and a split a read that
  takes less than there is or a client a message ahead.  The lemma behind it, `HandleWhole`: a
  whole message at the front of the buffer is handled as that message, whatever is behind it.
  Messages may have any two lengths.  `Zero`, a byte that was never written, is no byte of a
  message.
* **FeedbackExchangeProofs.**  For dev builds (`OverflowChecks`), where a counter that
  wraps ends the thread instead.  The invariant counts what has been reported, what the
  packet holds and what the decode thread holds, in two cases: before the copy after a
  reset, and after it.  In a release build a wrapped counter makes a report inconsistent.
* **StatisticsCollectorProofs.**  What both programs need of the thread: it has written before
  it signals (`WrittenBeforeSignal`), requests to quit are in the channel only when
  somebody sent one (`Messages`), and no point is refused as long as every message in the channel
  is one its sender's table allows (`PointsInv`), for any such table.
* **StreamingServerProofs.**  `LagBounded` needs `QueueInv`: age and place of a queued frame together
  never exceed the size of the queue.  `StatisticsBeforeQuit` needs `QuitInv`: only ctrl-c puts a
  request to quit into the channel, and only such a request leads to the signal.  `PointsKept`
  needs that registrations are ahead of the points in the channel (`ServerPointsInv`).
* **ClientWindowProofs**, `DoubleBuffer`.  `LocksInStep` (who holds a lock follows from what he does),
  `InitializedTogether`, `FrontIsNewest` (until a conversion fails the front buffer has
  the newest finished frame, and the frame about to be swapped is the next one) and
  `OnlyFinishedFrames` (after failures too, no buffer but the one about to be swapped has
  a frame that is not finished).  From them every step is a step of `FrameRegister` or
  leaves it alone: the screen goes back only once a conversion has failed.
* **ClientWindowProofs**, `ClientWindow`.  `WindowImplementsDoubleBuffer` says that the composition is a
  `DoubleBuffer`, so that everything proved of the buffers holds in the whole client, two of them
  stated again; `StatisticsKeptOnQuit` needs `LossInv`, that the loop was left for one of three reasons.
* **InputPathProofs.**  `NothingLostInClient` is inductive with the types.  `RequestsFaithful` needs
  `EventsFromUser`: what is in the channel, the buffer and on the wire is what the user made under
  the same number; so it holds for any `Window`, that is, for any reordering.
  `RequestsInOrder` has the hypothesis `Window = 0`, a network that keeps the order, as the run:
  UDP over one path.  It needs `OrderInv`, that the wire and the channel after it are in the user's
  order and all behind the newest datagram is later than every request.

Only model-checked: liveness (`EventuallyDelivered`, `EncoderCatchesUp`, `EventuallyActedOn`,
`EventuallyDrawn`, `CtrlCEnds`, `EventuallyQuits`, `EventuallySent`), which the prover does not
handle under fairness.  Every invariant and every refinement that a passing run checks is
proved, some under the hypotheses named above.

## 6. Not modelled

* Frame contents: capture, colour conversion, H.264 encoding and decoding, RTP
  payloading.  The packager gets packets, the depacketizer gets them back.
* Time stamps: the round-trip time, and the age of an ack that is sent again.
* The ends of a feedback connection after the first: the client accepts one.
* The start-up of the network thread's three sockets, and the client's restart.
* What a restarted server's random RTP numbers do in the client: in the model they go on
  from the old ones, so that a number names a packet.
* Window creation, GPU set-up, key tables, coordinates, argument parsing, benchmark.

## 7. Plan

Written so far, in this order: packager, decoder, their composition and the abstract
stream; bitrate loop; feedback exchange; double buffer; input path; proofs of the first,
third, fourth and fifth; faults and restarts of the stream; statistics, the server's threads and the
client's window, with proofs; the feedback connection; proofs of the input path, of the packager's
complete blocks and wraps, of the feedback connection and of the decode thread's types and survival;
the proofs that the video path implements the abstract stream and that the minimum of fragments decodes.
Next:

1. The closed loop: `FeedbackExchange`, `FeedbackConnection` and `BitrateControl` composed, for
   what a misread report or an outage does to the bitrate.
2. `FeedbackExchange` with the time stamp of the ack, for what a stale ack does to the rtt.
