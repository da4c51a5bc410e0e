# A TLA+ verification project for ks959-open-driver

The repository is an open driver for the Kingsun KS-959 USB IrDA dongle: a small
Windows library (`libks959`), and a set of stand-alone tools for Windows (WinUSB) and
Linux (libusb) with which the dongle's protocol was worked out. The modules here model
every part of it that holds state, the configurations check them with TLC, and the
`*Proofs` modules prove the most important invariants with TLAPS for every value of the
constants. `PROJECT.json` lists components, runs, mutants, the lines each definition
translates, findings, hazards and theorems.

## 1. Inventory

The protocol in three sentences. Received bytes are fetched by class IN control transfers
("polls"); byte *n* since the dongle began to count is obfuscated with the running mask
`n mod 256`, and the byte under mask 0 is filler that the host must drop. A fragment to
transmit is padded to a multiple of 8 plus 16 bytes, XORed with a mask picked by its
clear length, and sent by one class OUT transfer whose `wValue` is that length. The dongle
also has an interrupt endpoint, 0x81, whose packets some tools listen to.

| component | code | state | operations | what makes it correct | modules |
|---|---|---|---|---|---|
| receive monitor | `tools/linux/ks959_rx_monitor.c` | `rx_state`, `raw_buf`, `dec_buf`, `g_stop` | open, pre-initialise, poll, decode, show, SIGINT, close | mask and byte position agree; what is decoded is the clear stream, and only ends of long chunks are not printed; SIGINT ends it | RxMonitor, RxStream, HexDump |
| library decoder | `libks959/ks959_proto.c` 152-198 | `variable_xormask` | state init, decode a chunk | bounds; result, counted bytes and `*out_len` agree | RxChunk |
| library encoder | `libks959/ks959_proto.c` 62-146, copy in `aladin_handshake_probe.c` | the caller's buffer | pad, obfuscate, send | bounds; nothing of an older fragment is sent; refused only if too long | TxFragment |
| device layer | `libks959/ks959_device.c` | handles, `last_os_error` | open, control read and write, close, queries | nothing leaks; statuses, counts and error codes are those of the call | Ks959Device |
| library clients | `tools/ks959-lib-probe.c`, `ks959-ctrl-matrix.c` | the device, a table index, the exit status | open, one request or a table of them, close | a request refused is not made; they end | Ks959Clients |
| interrupt reads (Windows) | `tools/ks959-monitor.c`, `ks959-control-test.c` | OVERLAPPED, buffer, pending requests | submit, wait, time out, collect | a packet shows under its own read; a lost one is not silent | OverlappedRead, WinTools |
| Windows openings | the same two, `tools/ks959-probe.c`, `ks959-init-sequence.c` | handles, pipes, exit status | search, open, query endpoints, control transfers, close | handles as needed; the endpoint read exists; the exit status tells | WinTools |
| interrupt monitor (Linux) | `tools/linux/ks959_ep81_monitor.c` | `stop_flag`, the buffer | interrupt transfers, SIGINT | no block joins two messages; what is missing was lost with its transfer; it ends | Ep81Monitor |
| handshake probe | `tools/linux/aladin_handshake_probe.c` | step, `rx_state` | OUT transfer, polls after it | all steps; no byte under a step before its own; one decoder session | HandshakeProbe |
| arm scan | `tools/linux/ks959_rx_arm_scan.c` | sequence, step, `g_stop` | OUT transfers, polls, SIGINT | the verdict says what was really tried, wherever SIGINT comes; it ends | ArmScan |
| LED finder, transmit probe | `tools/linux/ks959_ir_led_finder.c`, `tools/ks959_tx_probe.c` | the table, loop indices | build cases, send, poll once, pause | a case is sent as named; all are tried; how late an answer is shown | CaseList |
| libusb probe | `tools/linux/ks959_libusb_probe.c` | mask, malloc'd buffer | speed request, polls, in-place decoding, cleanup | the release list of each way out fits what was taken; what is decoded is the stream | LibusbProbe |
| setup builders, `ks959.c`, `.inf`, docs | | none | | nothing to check | |

Interactions. Each tool is one process with one thread; the second actor is the dongle
(its FIFO fills by itself), on Windows also the WinUSB driver, which owns a request until
it completes it, the user who may pull the dongle at any moment, and under Linux the SIGINT
handler. Tools share no state with one another but the dongle itself: what one session leaves
in it, the next one meets. The library's two halves are not connected yet:
`ks959_send_ir_frame` and `ks959_receive_ir_frame` return `KS959_ERR_NOT_SUPPORTED`, and
`ks959_proto.c` does not compile against its headers as they stand: it uses `bmRequestType`,
`KS959_REQ_RECV`, `KS959_REQ_SEND`, `ks959_speed_params_t` and `KS959_ERR_INVALID_PARAM`,
where they have `request_type`, `KS959_REQ_RX_POLL`, `KS959_REQ_OUT_8`,
`ks959_out8_payload_t` and `KS959_ERR_INVALID_ARG`. The models of `ks959_proto.c` take its
functions as they are written, in the hands of any caller.

What is hard: a decoder that keeps count across polls while polls fail; a dongle whose
count the host cannot ask for; packets completing while the reader gives up; answers that
arrive a case or a step late; messages cut by a timeout; signals at any point; a device that
is pulled between two calls; a chain of calls each of which leaves something to release.
`hazards` in `PROJECT.json` lists these at their lines, with the properties that cover them
or the reason why none does.

## 2. Modules

**Mask** holds what the four decoders have in common: the mask's `Modulus`, and `DataSlots`,
which says that a sequence of bytes is just those of a stretch of the stream that carry data,
in order. **HexDump** is the limit of the copies of `hex_dump`: of a decoded chunk at most
`DumpMax` bytes are printed (128 of up to 255 in the receive monitor and the handshake probe, 64
of up to 2048 in the libusb probe). The programs keep nothing they printed; the models of these
three keep what was decoded (`decoded`) and which positions of it were not printed (`cut`), so
that what a property says of decoding and what it says of printing are two things. Everywhere
else no received byte is left out: the LED finder asks for 64 bytes and prints up to 64, the
transmit probe asks for 64 and prints up to 128, and the interrupt readers have no limit; the
arm scan prints raw bytes, and no property is about them. **ProbeSession** adds the state that
the two Linux probes share, the dongle's side of a session among it.

**RxMonitor** (with the abstract **RxStream**). Bytes are numbered slots; a decoded byte
is `[slot, ok]`, `ok` saying whether the host's mask was the dongle's. The dongle's part is
`emitted`, `taken`, `Emit`; the rest is `main`, one action per branch of its loop, and
`DecodeByte` is one turn of `ks959_rx_decode_chunk`. `skew` is a history variable: slots
taken from the dongle that `rx_state` never counted. RxStream promises that the clear bytes of
a session are handed over in order, each once, in groups of which the first `DumpMax` are shown;
`Clear == INSTANCE RxStream` maps slots to clear byte numbers with `DataNo(n) = n - n div Modulus`
and a group to a chunk. So the refinement also fixes what is printed.

**RxChunk**. The library's decoder, one action per loop turn and return. Its caller is
external, since the library has none: it feeds chunks in order, with any buffer size, and
after `BUFFER_TOO_SMALL` goes on or tries again. `off` records how far the mask runs ahead.

**TxFragment**. A byte of the caller's buffer is stale, zero, or clear byte *k* under a
mask. `Call`, `XorByte`, `Return` are the obfuscation, `Send` the OUT transfer; after it the
buffer is old memory for the next fragment, as the probe's stack buffer is.

**Ks959Device** and, composed with it, **Ks959Clients**. `held` counts each kind of resource;
every system call is a choice between its outcomes, and `Plug` may happen between any two.
`ks959_open` is `Open`, the search actions, `AllocDevice`, `CreateFile`, `InitializeWinUsb`;
`ks959_close` is `Close`, `ReleaseHandles`, `FreeDevice`. `call` is a history variable: whether
a transfer was made and with which lengths, 0 among them, the only length of a write by
the programs that reaches the dongle. The enumeration ends at the end of the list or by failing at any
place (an interface that is "unlisted"), and both end the search with `NO_DEVICE`; `CreateFileW`
may fail for any reason whether the dongle is there or not, and `MapOpenError` is the code's own
grouping of those reasons. The
clients take the library's steps as they are and make its calls: `ks959-lib-probe` with
whatever its command line asks for, `ks959-ctrl-matrix` with its two tables, and "any",
which makes any legal call in any order, so that the library is checked beyond what the two
programs do with it.

**PacketFeed** is what every listener of the interrupt endpoint promises: packets are printed
in the order sent, each at most once, none that was not sent; and it ends when it is to.

**OverlappedRead** and, extending it, **WinTools**. `req` holds every request the driver was
given; `ov` is the status and buffer in the current stack frame. A completion for a read that
was given up may overwrite the current frame or not: both are allowed, as the memory is no
longer that read's. `said` is what each finished read reported. `ResultFails` is a failure of
`WinUsb_GetOverlappedResult` itself, also of a read that completed at once. WinTools is `main`
around it, for four programs whose openings are the same calls with different exits: `tool` says
which one runs and `at` which call it is at, `held` what it must give back and `todo` what is
left of the list of releases that its way out makes (`ReleaseOrder`, or nothing where the code
returns before anything was taken), so that a list that leaves something, or releases it too
early, shows. The init sequence
reads synchronously under a timeout of the driver's (`SyncRead`), the probe not at all.
`Feed == INSTANCE PacketFeed` shows each of them to be a listener (`IsAFeed`).

**Ep81Monitor**. An interrupt transfer gathers packets until one is short or the buffer is
full; a timeout or an error may come before the program has seen that, and drops them.
`blocks` are the printed transfers, `lost` (history) the packets that went with a transfer that
timed out or failed. It too is shown to implement PacketFeed, each block printed at once
(`MonitorIsAFeed`).

**HandshakeProbe** and **ArmScan**. One action per transfer; of the dongle, HandshakeProbe
keeps every slot with the step it answers, ArmScan only whether it has data and since
which sequence. Tables of payloads are abstracted to their lengths. `Decode` is the chunk
decoder as a recursive function, one level per byte: within a chunk nothing else happens.

**CaseList**. Both programs walk a list of cases, send each, poll once and go on; `EndPause`
moves to the next case, so what arrives in the LED finder's pause of 1.5 s belongs to the case
before it. A poll may bring any part of what the dongle holds, up to its 64 bytes, and at least
one byte if it holds any and the poll succeeds. A payload is the
pattern that fills it, with its length, so that a field left over from the case another
began as a copy of is seen (`LedCase` builds the table as `main` does). A byte from the dongle
is the case under way when it arrived.

**LibusbProbe**. The one tool that gives up at the first failing call: each setup call adds
to `held` or leaves with the list of releases written at its place in `main` (`NotInitialised`,
`NotOpened`, `NotClaimed`, and `Cleanup` from there on), `Release` makes the next call of that
list without a look at `held`, and `DecodeByte` works in the buffer the chunk came in, so
a byte read after it was written would show as garbled.

## 3. Runs

| run | bounds | shows |
|---|---|---|
| `rx_lossy` | mask mod 4, polls of 3 bytes, FIFO 5, 9 slots | mask wraps twice, chunks straddle fillers, failing polls lose 0 to 3 slots; `DecodeExact` says precisely which bytes are then right, `InSync` which are not printed (2 of a chunk of 3 are) |
| `rx_stream` | the same, 13 slots, no failing poll, count restarts | `RxMonitor` implements `RxStream`, liveness included: decoded, and printed as far as `hex_dump` goes |
| `rx_chunk` | mask mod 4, chunks to 6, buffers to 5, 9 slots | every cut of a session into chunks, every point where the buffer fills, retry or go on |
| `rx_chunk_counting` | as `rx_chunk` | the finding below |
| `tx_fragment` | the code's 8 and 16, lengths to 40 and sizes to 56 around multiples of 8, `size_t` wrapping at 64 | bounds and contents of every packet, also of the second into the same buffer |
| `ks959_clients` | up to 2 interfaces, `uint16_t` wrapping at 4, buffers to 5, one read and one write of the matrix | all failure combinations of open under both programs and any client, an enumeration that fails at any place; a buffer longer than 16 bits; a write refused for its length |
| `win_tools` | 3 reads, 3 packets, 2 endpoints in any order, 2 control transfers | four tools from search to exit, with the releases of each way out; several abandoned reads pending behind a later one; the dongle pulled at any point |
| `ep81` | buffer of 2 packets, 5 packets | messages shorter than the buffer, as long and longer, cut by timeouts and errors at the start, the end and in the middle |
| `handshake_probe` | mask mod 3, 3 steps, 2 polls, 4 slots | an answer up to two steps late, failing transfers that arrived or not, chunks longer than is printed |
| `arm_scan` | all seven sequences, 2 polls | SIGINT at each point of each sequence, also between two of its transfers |
| `case_list` | 2 repeats, polls of 2 bytes, 3 bytes, both tables whole | a backlog longer than a poll, short polls, bytes in the pause, failing polls that lose bytes or not |
| `libusb_probe` | mask mod 3, chunks to 3, 3 polls, 7 slots | every call failing, each with its own list of releases; chunks that hold a filler first, between and last, and are longer than is printed |

The bounds are enough because the code is uniform in them: the mask's modulus, the buffer
sizes and the numbers of reads, steps and polls enter only through comparisons and one
wrap, and each bound leaves room for the comparison to go both ways and the wrap to happen
more than once. For every invariant of these runs the proofs then remove the bounds.

Deadlock is checked in the runs of `RxMonitor`, `RxChunk` and `TxFragment`. The other runs
model programs that exit by themselves, and say so in their configurations.

Fairness is weak fairness of the program's own steps (in `ks959_clients` also of the library's),
never of the dongle, the driver, the user or a signal. It is justified by the code: every
libusb transfer carries a timeout, `nanosleep` ends, `WaitForSingleObject` is given 500 ms
and the synchronous reads a pipe timeout, and all other loops are bounded by the list they
walk. In `rx_stream` the mapped fairness of `RxStream` follows from it, because a poll of a dongle
that has data returns data when no poll fails. That last is an assumption on the dongle,
not on the code, and so is that it restarts its count at open; `rx_lossy` makes neither.
The fairness of `PacketFeed`, that it ends once it is to, follows in `win_tools` from the
bounded number of reads, each with a timeout, and in `ep81` from the test of `stop_flag`
between transfers.

Finding (`rx_chunk_counting`): `ks959_proto.h` says the mask is incremented for every
received byte; `ks959_proto_deobfuscate_rx_chunk` returns `BUFFER_TOO_SMALL` from inside its
loop and leaves the bytes behind that point uncounted, so a caller that goes on decodes the
rest of the session wrong (`DecodedRightIffLevel`). The tools never meet this, their
buffers being of equal size (`RoomForEveryByte`).

What the properties say about things that are *not* as one might hope:

- a poll that fails after taking bytes, or a dongle that did not restart its count, spoils
  the receive session for good (`DecodeExact`);
- a packet may be lost under "timeout, no data". `LossIsReported` counts that as a report: it
  says that no packet vanishes without a line for its read, not that the line is true, which in
  the race at `ks959-monitor.c:347` it is not (a hazard no property covers, as nothing in the
  repository promises otherwise);
- the interrupt monitor drops what a timed-out or failed transfer had gathered, so that of a
  message the beginning, the middle or the end may be missing. `BlocksAreMessages` says what is
  left of the promise: no block joins two messages, and a packet with bytes that is in no block
  went with such a transfer;
- of a long chunk the programs print only the beginning (the last conjuncts of `InSync`, `OneSession`
  and `DecodedIsStream`);
- `NO_DEVICE` is also said of an enumeration that fails with the dongle plugged in
  (`NoDeviceIsTrue` says of which interfaces it is still true);
- an answer may be shown under a later step (`NotBeforeItsStep` excludes only an earlier
  one), and the LED finder and the transmit probe, which poll once per case, may show a
  backlog under later cases; only if the poll before came back empty is what a case shows from
  that case or from the pause that led to it (`ShownIsRecent`);
- the sequence the arm scan announces may not be the one that brought the data
  (`FoundIsRecent`);
- the init sequence exits with 0 also after a read failed, and the probe when the
  interface has no such endpoint (`StatusTells`, `EndpointTrue`);
- `ks959-lib-probe` asks the library for a write before it looks whether it supports its
  length; the library refuses each of those (`RefusedSendsNothing`).

## 4. Proofs

Eight modules hold theorems. All but `MaskLemmas` prove inductive invariants, action
by action, and derive the properties from them. Every invariant that a run checks is proved,
for all values of the constants its assumptions allow.

| module | of | proves |
|---|---|---|
| `MaskLemmas` | Mask | what the receiving programs' proofs share |
| `RxMonitorProofs` | RxMonitor | all its safety properties, `RxStream` (safety) |
| `RxChunkProofs` | RxChunk | all its safety properties |
| `TxFragmentProofs` | TxFragment | all its safety properties |
| `Ks959Proofs` | Ks959Device, Ks959Clients | all their safety properties, the clients as clients |
| `ListenerProofs` | WinTools, Ep81Monitor | all their safety properties, `PacketFeed` (safety) |
| `LinuxProbeProofs` | LibusbProbe, HandshakeProbe | all their safety properties |
| `ScanProofs` | CaseList, ArmScan | all their safety properties |

Three of them are about two programs each, which differ in the names of their actions and
invariants; the assumptions are the `ASSUME`s of the modules extended.

`MaskLemmas`. Division is unique (`DivModUnique`); a mask that runs ahead of a slot is that
slot's own exactly when it is no distance ahead (`LevelIff`); `SkipSlot`, `AppendSlot` and
`ConcatSlots` say what one slot more, or one chunk more, does to `DataSlots`, and `TailsGrow`
what one chunk more does to `TailsOnly`. `Induction` is
induction over the naturals for a *set* instead of a predicate, from the well-foundedness
of `<`; with it what a recursive function computes for every length can be proved.

`RxMonitorProofs` assumes only `Modulus >= 2` and `RawSize <= OutSize` (with the sizes
natural numbers) and proves, for all such values and any number of slots, `TypeOK`,
`MaskFollowsPosition`, `RoomForEveryByte`, `InSync` and the action property `DecodeExact`.
`MaskFollowsPosition` is not inductive: that a chunk ends where the dongle is
(`ChunkFits`), and the types, are needed to relate `raw`, `i` and `taken`, so
`IInv == TypeOK /\ ChunkFits /\ MaskFollowsPosition /\ DecodesClear /\ OnlyTailsLeftOut`, the
last two being `InSync`. One increment of the mask is one step of the position (`NextMaskOfPosition`), and `DataNo` grows by one except at a filler
(`DataNoStep`). `ImplementsStream` proves that with `TransferFails = FALSE` and
`ResetChoices = {TRUE}` every step of `RxMonitor` maps to a step or a stutter of `RxStream`:
`skew` is then always 0, so `DecodesClear` makes what is delivered the stream's prefix, and a chunk
shown is one group of it with the end cut off where `LeftOut` cuts it (`ShowDelivers`).

`RxChunkProofs` proves `StaysBehindReads`, `ResultExact` and `DecodedRightIffLevel` for any
caller. Inside a call the mask has counted the bytes looked at and `out_buf` holds as many as
carry data (`LoopAt`; `Kept` is a cardinality, and the lemmas about it add one element at a
time); over all calls the mask is the slots counted plus the lead `off` (`OffIsTheLead`). A
corollary for the tools is `RoomyCallerNeverFails`: with `out_buf_size >= in_len` there is no
`BUFFER_TOO_SMALL`.

`TxFragmentProofs` assumes that clear lengths are at least `Unit + Overhead` below the wrap
of `size_t` and proves `WritesInBounds`, `PacketExact`, and that with the library's
constants 240 is the largest fragment that fits in 256 bytes (`LargestFragment`, the comment
at `ks959_proto.h:51-59`). Its inductive invariant adds what the buffer holds while the loop
is at `i` (`BufferInProgress`). `RefusalsExact` shows that the rounding gives the least
padding there is, so that a fragment is refused only when none would do.

`Ks959Proofs` assumes of the library only that the bounds are numbers and that a setup length
fits its field, and proves every safety property of `Ks959Device`, for any number of
interfaces. The strengthening says what is held at each `pc` (`HeldHere`), that a call in
progress has neither device nor result yet (`InPlace`), and that the search passed over no
interface it was looking for (`Passed`), without which `NoDeviceIsTrue` says nothing about the
interfaces before the last. `CutIsLess` is the arithmetic behind `CountIsTrue`: a length cut
to 16 bits is no longer than the buffer it stands for. Of the clients it assumes that the
lengths they use are among those of a client, and proves `ProgramsAreClients`: every step of
`ClientSpec` is a step or a stutter of `Ks959Device`, whatever the tables and the command
line. The library's theorems carry over, so both programs have them. `NothingSent` is their
own: its invariant says that a request refused for its length has left `INVALID_ARG` and a
count of 0 by the time it is looked at.

`ListenerProofs` assumes at least one read and one control transfer and proves, for any
number of reads, packets, endpoints and control transfers, all five invariants of `win_tools`
and that every step of a tool is a step or a stutter of `PacketFeed` (`ToolsAreFeeds`).
`ShownIsOwn` is far from inductive. Why may the frame of a read hold only its own packet,
when completions of reads given up are written there too? Because packets and failures on the
bus go to the oldest request, and the read in progress made the newest, and an abort is
never of the read in progress (`AbortsGivenUp`): when that one is answered, every other has
been, and nothing is left to write over its frame (`FrameIsCurrents`). `PacketsInOrder` says
that no packet overtakes a request that waits; the order of what is printed, and that nothing
is lost but where a read said so, follow from it. `DriverKeeps`, `NewRequestKeeps` and
`WaitingKeeps` prove these of the reads alone; around them `ToolInv` adds where the program
is (`Progress`), what it knows of the endpoints (`Queried`), what its status will mean
(`VerdictKnown`), and that on its way out the list of releases still to be made covers what is
held, in an order that keeps each handle as long as what was made from it (`ReleasesCover`).

Of `Ep81Monitor`, with a buffer of any size, it proves `BlocksAreMessages` and, in
`MonitorImplementsFeed`, that each step is a step or a stutter of `PacketFeed`. A transfer under way has gathered only full packets and fewer than fit but
for the last (`Filling`); a block is such a transfer, ended (`BlocksWhole`); and the blocks
printed are behind the transfer under way (`Behind`). `Account` says where every packet with
bytes went. What was printed is `FlattenSeq` of
the blocks, which the library defines recursively: `FlattenAppend` proves by induction that a
block more comes at its end.

`LinuxProbeProofs`. `LibusbProbe`: what is held follows from `pc`, and on the way out from what
is left of the list (`HeldHere`, `Releasing`), the first call
that fails is the last (`FailureEnds`), and in the buffer decoded in place the bytes yet to
be read are still raw while those written are the stream from `Done` to `Counted`
(`BufferAt`); from these follow `HeldInOrder`, `ExitTellsAll` and `DecodedIsStream`.
`HandshakeProbe`: no slot answers a step that was not sent yet (`NoAnswerAhead`), what is
decoded came in under that step or before (`DecodedCameIn`), and while no poll failed the mask
counted every slot (`InSession`). `DecodePart` proves by induction on the bytes what
`Decode` yields for a chunk of any length; `NotBeforeItsStep` and `OneSession` follow.

`ScanProofs`. `CaseList`: the places of the table that others are copied from hold what they
should when they are copied (`Bases`), and so every case is what its name tells
(`SentAsNamed`); what waits in the dongle is in the order of the cases and none of it older
than the case under way when a poll last came back empty (`Waiting`), however short the polls
and whatever arrives in the pauses, whence `ShownIsRecent`. `ArmScan`: what was
tried of the sequences before this one, behind it and of itself (`Earlier`, `Later`,
`UnderWay`), SIGINT in the middle of a sequence included, how a scan has `Ended`, and that after an idle poll the dongle holds nothing from
before it (`Age`); `VerdictComplete` and `FoundIsRecent` follow.

Only model-checked: liveness (`StopEnds`, `ClientEnds`, `TriesAllAndEnds`, `Ends`,
`ComesToItsEnd`, and the liveness halves of `RxStream` and `PacketFeed`), which TLAPS does
not prove under fairness.

## 5. Not modelled

- The layout of what is printed (of hex dumps only the limit is modelled), and argument parsing
  beyond which kind of argument it is.
- The payload bytes of OUT transfers, but for what CaseList keeps of them.
- The enumeration details of `ks959_path_contains_vid_pid` (an interface is ours or not).
- The setup builders of `ks959_proto.c` and `ks959_proto_fill_speed_params`: assignments of
  constants to a structure.
- The kernel driver that a Linux tool detaches at open and does not attach again: it is
  system state no tool reads, and the result of detaching is ignored.
- The `free` between `CreateFileW` and `GetLastError` in `ks959_open`
  (`ks959_device.c:243`), which might change the thread's error code.
- `*out_len` of a library decoding call that fails: it keeps what an earlier call stored,
  and the library has no caller that looks at it.
- The arithmetic wrap of the padded length near `SIZE_MAX`, which `LengthsAssumption` excludes.
- The choice of the read size from the endpoint's maximum packet size in the Windows tools:
  a packet is a whole to the model.
- The arm scan's copy of payloads into arrays declared `const` (`ks959_rx_arm_scan.c:292`).

## 6. Plan

Done, in this order: RxStream, RxMonitor and its proofs; RxChunk; TxFragment and its proofs;
Ks959Device and its proofs; OverlappedRead; HandshakeProbe; ArmScan; LibusbProbe; PacketFeed;
WinTools; Ep81Monitor; CaseList; Ks959Clients and its proofs; the proofs of WinTools; those of
RxChunk, LibusbProbe, ArmScan, CaseList, Ep81Monitor and HandshakeProbe, with the lemmas they
share in MaskLemmas. Every program of the repository has its model, and every safety property
its theorem. What is left:

1. The action the four decoders share: that a chunk decoded by `RxChunk` with a buffer as long
   as the chunk is a chunk of `RxMonitor`, so that the tools' copies of the decoder and the
   library's do the same.
2. The ranking arguments of the liveness properties as invariants and action properties (a
   measure that each step of the program lowers), which can be proved though the conclusion
   cannot.
3. The padded length near the wrap of `size_t` (`LengthsAssumption`): what the code does
   there, stated for every width.
