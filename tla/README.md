# FluxEngine: models, checks and proofs

FluxEngine reads and writes floppy disks as raw flux.  A PSoC5LP board (the
firmware in `src/FluxEngine.cydsn`) drives the disk and streams flux over USB; a
host program (`src/lib`, `src/arch`, `src/src`) turns flux into sectors, sectors
into disk images and filesystems, and back, from the command line or a GUI.
This directory holds TLA+ models of the parts whose correctness depends on
interleaving, ordering, caching and retries, the TLC runs that check them, and
TLAPS proofs of the properties that matter most.

To parse, check or prove one module:

    tlasany CaptureRing.tla
    tlc -workers 2 -config CaptureRing.cfg CaptureRing.tla
    tlapm CaptureRing_proofs.tla

## 1. Inventory

| Component | State it keeps | Operations | What makes it correct |
|---|---|---|---|
| Firmware, capture (`main.c` cmd_read) | ring of 64 buffers, two cursors, underrun flag, IN endpoint | completion interrupt, send loop, session timer, watchdog | the host gets the flux stream in order and whole, or an error; the session ends |
| Firmware, replay (cmd_write) | the same ring the other way, erase gate, index flag, OUT endpoint | completion, index and sector interrupts, fill loop | packets reach the disk in order, between two index pulses; no packet is left over; a gap is an error |
| Firmware, drive control | selected drive, motor and its time, head position, presence | seek, home, recalibrate, select, detect, motor timeout | the head is where the firmware believes, on the drive the host means |
| Firmware, index timing and speed | clock, pulse duration, hard sector state | index interrupt, cmd_measure_speed | one index pulse per revolution; a period of 0 means no disk |
| Sampler, sequencer (Verilog) | 6-bit tick counter, edge toggles | one opcode per edge or 63 ticks | ticks are neither lost nor invented |
| USB clients (`lib/usb`) | one open command | send frame, transfer, await reply | every command ends with its own reply or an error |
| Reader/writer core (`lib/readerwriter.cc`) | sectors of a track over retries and revolutions | read with retries, merge, write, verify | a track is good only if each sector is; conflicts are not hidden; good data is not lost |
| Sector interfaces (`lib/vfs/*sectorinterface.cc`) | cached tracks, changed sectors | get, put, flush, discard | what was put is what is read; a flush writes the changes and nothing else |
| Filesystems (`lib/vfs`) | directory and allocation, on the sectors | list, get, put, delete, format | no block belongs to two files; a put or a delete is whole or has no effect; a failed flush spoils only what was changed |
| Layout (`lib/layout.cc`) | cache of track layouts | sector orders, track order | each order is a permutation of the same sectors; a block has one place |
| Images (`lib/image.cc`, `lib/imagereader`, `lib/imagewriter`) | sectors by track, side and number; geometry | read and write a file, renumber sectors | what was written is read back under the same numbers |
| Flux maps and readers (`lib/fluxmap.cc`, `lib/decoders/fluxmapreader.cc`), encoders' bits, GreaseWeazle streams | opcodes, a position; a clock and a phase | append, find an event, convert, find a pattern, read bits | the time of every pulse and index mark; the bits that were encoded, from a drive that drifts |
| Decoding (`lib/decoders/decoders.cc`, `arch/*/decoder.cc`) | the sector in hand, those found, what a decoder remembers | next record, header, data | what is given out as good is; what can be found is found; it ends |
| Encoding (`arch/*/encoder.cc`) | none | sectors to records of a track | its decoder reads back what was written |
| Flux sources and sinks (`lib/fluxsource`, `lib/fluxsink`) | reads handed out per track | readFlux, hasNext, next | a file gives each read once, a drive any number |
| GUI (`src/src/gui`) | worker thread, posted callbacks, window state, queue of browser operations | start and stop a task, run on the UI thread, queue an operation, close | no two tasks; the window never blocks; queued operations run |
| Command line tools, configuration, logger | none of interest | straight-line | |

How they interact.  The GUI or a command line tool builds a flux source, a
decoder and an image writer (or the reverse) and calls the reader/writer core,
which calls the sources and sinks track by track; a hardware source or sink is
one USB command each time, which is one session of the firmware's capture or
replay after a seek.  A filesystem works on logical sectors through a sector
interface, which in turn calls the reader/writer core.  The firmware's main code
shares its cursors, flags and registers with two interrupts and the DMA engine;
the host and the device share two bulk endpoints of one packet each; the GUI's
two threads share the queue, the callback and the stop flag.

Where it is hard.  Interrupts that move a cursor between two reads of it
(capture, replay); flags that are cleared before they were seen (capture) or must
be (replay); a host that stops listening or sending; watchdog resets; positions
that are counted, not measured (drive); sets ordered by pointer and a merge of
many readings (reading); caches that must be forgotten in step (sector
interface); writes that fail half way, under a filesystem whose directory is
written first; records that are lost in the middle of a track, where a loop looks
for the next of two kinds (decoding); opcodes whose count is just full, or empty,
in every one of four representations of the same flux; two threads with a queue,
a stop flag and a wait for each other (GUI).  `PROJECT.json` lists each hazard at its line with
the properties aimed at it, or why there is none yet.

## 2. Modules

| Module | Models | Composition |
|---|---|---|
| `CaptureStream` | what a read session promises (abstract) | |
| `CaptureRing` | a read session: cmd_read, DMA and interrupt, timer, watchdog, endpoint, host | implements `CaptureStream` |
| `MCCaptureRing` | an action constraint for the counterexample run | extends `CaptureRing` |
| `CaptureRing_proofs` | theorems about `CaptureRing` | extends it and TLAPS |
| `TrackWrite` | what a write session promises (abstract) | |
| `ReplayRing` | a write session: cmd_write, DMA, completion/index/sector interrupts, gate, watchdog, host | implements `TrackWrite` |
| `ReplayRing_proofs` | theorems about `ReplayRing` | extends it and TLAPS |
| `Drive` | drive control: commands, homing, seeking, detection, motor timeout, resets | |
| `ReadTrack` | reading a track: group, revolutions, retries, merge of sectors | |
| `TrackFormats` | what the decoders of the sixteen disk formats make of a record, and what the encoders write | |
| `TrackDecode` | decoding a track: decodeToSectors() with any of the decoders | extends `TrackFormats` |
| `TrackDecode_proofs` | theorems about `TrackDecode` | extends it and TLAPS |
| `MCTrackDecode` | the tracks that are written, the headers on a damaged one | extends `TrackDecode` |
| `FluxStream` | flux maps, the reader's search for events, the encoder's bits, GreaseWeazle streams: functions | |
| `FluxDecode` | the search for a record's pattern, the phase-locked loop, FM and MFM: functions | extends `FluxStream` |
| `FluxPath` | flux from an encoder through the Sequencer, the drive and the Sampler to a reader and a decoder | extends `FluxDecode` |
| `MCFluxPath` | tracks, records and streams up to a length | extends `FluxPath` |
| `Firmware_proofs` | theorems about `FluxPath` and about `Drive` | extends both and TLAPS |
| `SectorStore` | what a sector interface promises a filesystem (abstract) | |
| `FluxSectors` | the flux sector interface and verified writing under it | implements `SectorStore` |
| `FluxSectors_proofs` | theorems about `FluxSectors` | extends it and TLAPS |
| `MCFluxSectors` | a disk of two tracks | extends `FluxSectors` |
| `DiskLayout` | the orders of a track's sectors and of a disk's tracks: functions | |
| `ImageFiles` | six image formats written and read, and the renumbering around them: functions | extends `DiskLayout` |
| `ImageSectors` | the image sector interface | extends `ImageFiles`, implements `SectorStore` |
| `MCImageSectors` | small disks, of each of the six formats | extends `ImageSectors` |
| `Sectors_proofs` | theorems about `ReadTrack` and about `ImageSectors` | extends both and TLAPS |
| `FileStore` | what a filesystem with a flush promises (abstract) | |
| `Brother120` | the Brother filesystem over sectors that behave as `SectorStore` says | implements `FileStore` |
| `Brother120_proofs` | theorems about `Brother120` | extends it and TLAPS |
| `MCBrother120` | a disk of five blocks on three tracks | extends `Brother120` |
| `GuiWorker` | the GUI's UI and worker threads, browser queue and window states | |
| `GuiWorker_proofs` | theorems about `GuiWorker` | extends it and TLAPS |

Conventions.  A step of a model is a stretch of code in which no other actor can
see or change anything in between: for the firmware every access to a variable
shared with an interrupt, for the reader/writer a read or a write of a track, for
the GUI a handler or the part of a task between two waits.  `pc` (`wpc` for the
worker) names the next one.  Variables carry the code's name in their comment;
those marked "history" are not in the code and are only read by properties.
`Name_Variant` definitions are plausible mistakes in the definition they are
named after; each property is shown to fail under one of them (`mutants` in
`PROJECT.json`).

### CaptureRing

Flux is abstracted to the number of the fragment, one buffer's worth.  The DMA
engine fills slot after slot and the interrupt advances `writing`; cmd_read()
waits for the first fragment (`first`), claims the reader's cursor (`claim`), and
loops through the timer, the underrun test, the empty test, the send and the
advance in the code's order.  The end of the session terminates the chain, which
may or may not raise a last interrupt (`TerminateMayInterrupt`).  The host
receives until a short packet or until its buffer is full; `Watchdog` resets the
board from any wait the code makes without clearing it.

### ReplayRing

The main code fills slots from the OUT endpoint, or with filler, and starts the
chain once all but one are full; it then waits for an index pulse and opens the
gate.  `IndexPulse` shuts the gate by itself, whatever the main code is doing;
`SectorPulse` (with hard sectors) overwrites the index flag.  `Blackhole` reads
the packets that are left.  In `TrackWrite` the write is one interval of an open
gate, in which the packets in order, then filler, go to the track.

### Drive

`attached` and `head` are the hardware, which a reset leaves alone; the other
variables are the firmware's.  Every command that moves the head is a sequence
of steps (`HomeStep`, `StepToTarget`) after its guard; `Transfer` stands for the
three commands that use the flux.  Configuration runs the detection again from
any idle state, as the main loop does.  `DriveInit`, `DriveNext` and `DriveSpec` have
names of their own because `Firmware_proofs` extends `FluxPath` as well.

### ReadTrack

`Read` is one revolution of one physical track of the group: what the decoder
finds in it is any set of copies of any sectors, wanted or stray.  `Combinations`
is what combineRecordAndSectors() and collectSectors() may leave: the copies are
folded in the order of a set of pointers, hence in any order.  `GroupRead`,
`GiveUp` and `Retry` are the loop of readAndDecodeTrack().  `ReadInit`, `ReadNext` and
`ReadSpec` have names of their own because `Sectors_proofs` extends `ImageSectors` as well.

### TrackFormats and TrackDecode

A track is a sequence of records: headers, data, or both in one, each with what it
says and whether its checksum is right; damaged ones carry a wrong checksum or
lack their end.  `TrackFormats` has an operator for each decoder's
decodeSectorRecord() and decodeDataRecord(), and for each encoder the records it
writes for a list of sectors (for the formats without an encoder, `Foreign`: what
their machines write).  `TrackDecode` runs decodeToSectors() over them:
`ReadHeader` is a turn of the outer loop, `ReadData` one of the inner loop that
looks for the data, `TrackEnds` and `DataNeverCame` the two ways out.  `mem` is
what some decoders keep from one record to the next (MX its count, Micropolis the
kind of checksum), and a header that names a track without a layout throws.  The
damaged track is `Here`, with headers of its own sector 0 and of `Strays`.

### FluxStream, FluxDecode and FluxPath

Opcodes are records of a count of ticks and two bits.  `FluxStream` has the
functions that build, search and convert sequences of them; FluxPath plays one.
`Tick` is an edge of the sample clock; `Load`, `Count` and `Wdata` are the
Sequencer's states and output, `Sample` the Sampler's clocked block.  An edge of
the drive's signals is a toggle that the Sampler sees a tick later.  Index pulses
come at any time.  History variables `now`, `rdata` and `index` say when each edge
really was; the properties compare them with what the reader and the converters
make of the opcodes.

`FluxDecode` works on the times of the pulses a reader finds in a map: a position
is the number of a pulse, a time is in ticks, or in whole fractions of a tick
(`Fine`) where the code has a double, and a clock that was detected is a ratio.  The
thresholds and the gains of the loop are the defaults of `decoders.proto`.
`SeekStep` is a turn of seekToPattern()'s loop, `ReadBit` is readBit().

### FluxSectors

Two caches and two sets of tracks, as in the code.  `FlushBegins`, `MergeTrack`
and the write loop are separate steps because each can throw; an exception leaves
everything as it is (`Throw`).  Writing a track leaves each of its sectors written,
as it was, or unreadable (`Leavings`), and any of its strays (`Remaining`); then
verification rereads it and the loop retries.
`Garbled` is a sector that cannot be read; `Lost` is what it becomes when it is
written back as if it were good.  `foreign` are the strays, sectors on a track whose
headers name another one: populateSectors() files all it was given under this track
and the sector's own number, in the order of a set of pointers, so what is read of a
sector is the sector or a stray with its number (`Readings`).  Where reading is `Weak`,
a good sector may fail to be read, or a stray be missed, also by the verification.
In `SectorStore` what may be read of a sector is an operator, `Reads`, and `strays` what
may be read in its place; the image interface has none of those.

### DiskLayout, ImageFiles and ImageSectors

An image is a function from track, side and number to a sector.  A file is the
sectors' contents one after the other (img, d64, nsi, diskcopy) or tracks of
records (d88, imd); `WriteMappedImage` and `ReadMappedImage` are the writers and
readers with the renumbering to the filesystem's order and back, by the maps of
`DiskLayout`.  `ImageSectors` has the image in memory (`Load`, `Held`, `Put`) and
the file; `Flush` writes the whole file, `FlushThrows` leaves it as it was, or
empty where the code has opened it by then.

### Brother120

The blocks of the disk, those put since the last flush (`pending`), and the
filesystem's operations on `Current`, the one over the other.  The directory's
eight blocks are one block here and the table's another: the code always writes
them together, and a flush writes a track as a whole.  `PutFile` is the whole of
putFile(): it allocates, chains and stores blocks until there are none, then writes
the directory and the table, or throws with the blocks put.  `FlushFails` stops at
any of the changed tracks in their order, with that track as it was or with any of
its sectors lost.  `Discard` is also a program that ends and another that starts.
In `FileStore` a disk is a list of files.

### GuiWorker

The worker posts a callback (`exec`) and waits until the UI thread has handled it
from its own loop or from that of a dialog.  The UI thread starts a task by
replacing `callback` and waiting for the last thread (`ui = "joining"`).
UpdateState() decides which buttons are enabled, and the `Press...` actions have
just those guards; whether the user is `careful` not to use them while a task
still runs is chosen in the initial state.

## 3. Runs

| Run | Shows | Bounds and why they are enough |
|---|---|---|
| `capture_ring` | `RingIntact`: cursors, flag and buffers agree; `StreamWhole`: the stream is in order and complete; refinement of `CaptureStream`; the session ends | 3 buffers: the smallest ring in which full, empty and in between differ; 9 fragments, three times round; a host buffer of 7, so that it can be full before, at and after the end |
| `replay_ring` | `RingIntact`; `TrackFaithful`: the track is in order, a success is a whole track; the gate opens once, the host is drained; refinement of `TrackWrite`; the session ends | 3 buffers, 0 to 5 packets (none, fewer than the ring, more), 6 buffers played |
| `drive` | `HeadTrue`, `RightDrive`, `TransferAtWanted`: position, drive and track of each transfer; commands end | tracks 0 to 2, seeks to one beyond the last; homing gives up after 3 steps, the least that reaches track 0 |
| `read_track` | `SectorsTrue`: the merge; `GoodReadIsClean`, `NoEarlyGivingUp`: what a result means; reading ends | one wanted and one stray sector, two contents, two copies in a read, two physical tracks, 2 retries, iterators of 0, 1, 2 or any number of reads: conflicts, exhaustion and retries all occur |
| `track_decode` | `NothingMadeUp`: what is given out as good is; `EachFound`: what can be found is; `RoundTrip`: what was written is read back; decoding ends | sixteen formats; written tracks of up to two sectors, on either side and with a number of seven bits, each sector good, bad or missing; damaged tracks of up to four records (a sector, and another with the first one's data in between; three where a record is a sector), of two sectors, with headers of another track, of one without a layout and of a sector that is to be ignored |
| `flux_path` | `PlayedOnTime`: pulses are written when the encoder meant them; `SampledExactly`: what the Sampler gives has every edge at its tick; `BitsReadBack`: a record is found and its bits are the ones encoded, through the same path and from a drive that drifts; `SearchEnds`: a pattern search in noise ends, and at its first match; `ConvertedExactly`: a GreaseWeazle stream and back keeps the times | tracks of up to six cells of three lengths, one of them no whole number of ticks; a count is full at 4 ticks instead of 63, so that intervals below, at and above one and two full counts all occur; a clock ratio of 3/2; all three sizes of a GreaseWeazle's interval; one index pulse at any tick; streams of up to four opcodes; records of two bits after the sync mark 4489, in FM and MFM, with cells of 5 and 20/3 ticks (a span of 4 adds a tick to some intervals, which shorter cells do not bear), and of 40 bits while the drive gets up to 8 % faster or slower; three sets of patterns |
| `flux_sectors` | `CachesAgree`: what is read is what was put, the dirty set is exact; flushes return; refinement of `SectorStore` | a track of two sectors (partly changed tracks) and one of one (a second track to fail at); two disks, one with sectors that cannot be read, both with a stray, in the place of a good sector or of an unreadable one; one weak sector; two contents, one of which is put; one retry |
| `image_store` | `ImageTrue`: what is read is what was put; `BlocksInOrder`: a block of the filesystem has its place in the file; refinement of `SectorStore` | one disk of a few sectors in each of six formats, one of them renumbered by an order that is not its own inverse; files that are short; two puts pending |
| `filesystem` | `DiskIntact`: chains are whole and disjoint, in memory and on the disk; refinement of `FileStore` | room for three sectors and two files; names that are plain, cut, hidden and too long; files of up to two sectors; two operations between flushes, one failed flush before the next success or discard |
| `gui_worker` | `WindowTrue`: the window is never busy for nothing; a stop hits its own task; for a careful user the wait returns, closing works, operations are served | 4 tasks, 3 operations: two complete browser sessions, or a session and other tasks around it |
| `capture_underrun_unreported` | an underrun is cleared before it was seen | as capture, one fragment less; steps of the main code are taken to be faster than a fragment |
| `decode_no_data` | a sector whose data is lost is given out as good, with its neighbour's data | IBM tracks as in track_decode |

The last two check one statement of a comment and of a document each, which the
code does not keep; `findings` in `PROJECT.json` quotes it.

Other disagreements met while modelling, which have no run of their own:

* Firmware.  After an underrun cmd_read() leaves the DMA channel enabled
  (main.c:491).  While the board waits to be configured the motor timeout is not
  looked at (main.c:924).  cmd_measure_speed() takes an index pulse in the first
  millisecond for a timeout (main.c:313).  detect_drives() writes drive 0 into
  current_drive_flags without set_drive_flags() (main.c:882): configured again while
  the motor of a lone drive 1 runs, it homes drive 1 under both numbers, and drive 0
  is no longer redirected, against doc/building.md:244 ("FluxEngine will autodetect
  it and treat it as drive 0").  The Sequencer does not reset `sampleclocked`.
* Flux.  appendInterval() of a whole number of full counts leaves an opcode
  without ticks (fluxmap.cc:39), which the Sequencer plays for one tick;
  `PlayedOnTime` allows for it by name.  The reader never finds the pulse in the last opcode
  (fluxmapreader.cc:61).  A match that is faster than minimum_clock_us moves the reader
  back but leaves the window of intervals as it is (fluxmapreader.cc:228), so that the
  next match can be of intervals that are not next to each other, though
  decoders.proto:29 means the limit "to avoid false positives"; `SearchEnds` asks
  for the first match only where it is not too fast.  A GreaseWeazle's index mark on the tick of a pulse is
  given twice (greaseweazle.cc:126), and two pulses in one tick end a stream
  (greaseweazle.cc:31).  read_28()'s operands read the stream in no defined order.
* Reading.  A sector read with a bad checksum is stored as MISSING when the
  placeholder for it comes first in the set of pointers (readerwriter.cc:148), against
  doc/problems.md:53-54 ("A B is one where the CRC check failed").  One bad copy of a
  stray sector keeps a complete track being reread (readerwriter.cc:187).
  printMap() never shows the X that doc/problems.md explains, since a sector that
  was not found is in the image with status MISSING (imagewriter.cc:179).
  Northstar's decoder takes sector numbers from the time since the index
  (northstar/decoder.cc:117): a copy read in a later revolution depends on the
  drive's speed.
* Writing.  A flush that changes one sector of a track copies only the data of the
  others (fluxsectorinterface.cc:89): one that could not be read is written back as
  good.  So is a stray sector of another track, which populateSectors() files under this
track's number (fluxsectorinterface.cc:134-135): get() may give it out, and a flush that
completes the track write it over a good sector nobody asked to change, though
fluxsectorinterface.cc:67 means to "populate any non-changed sectors".  `SectorStore` allows
for both by name (`Reads`, `strays`), for the sectors of a track that is written
and no others.  The encoders get
  the sectors in the order of their numbers, whatever the layout's physical order
  (layout.cc sorts diskSectorOrder; layout.proto:41).
* Images.  Half of the tracks of a one-sided disk are not written to a d88 file
  (d88imagewriter.cc:66).  A diskcopy file is always read as having sectors of 524
  bytes (diskcopyimagereader.cc:117), so an MFM one is written back as GCR.  An imd
  file with a sector that was put cannot be flushed (imdimagewriter.cc:407 refuses
  its status after the file has been emptied), though doc/filesystem.md:46-47 lists
  it as "(read/write)".  Reading a d88 or an imd file changes the configured layout
  (d88imagereader.cc:103 and 218, imdimagereader.cc:236 and 416), so what a filesystem
  takes for the geometry depends on which file was read last; the models' layout is fixed.  A blank image has a geometry of nothing, so an nsi file of
  it is empty.  No writer looks at the state of its stream.
* Brother filesystem.  Names are stored whole and read up to their first blank, so
  two files can have one name; a name that begins with the byte f0 hides its file
  and keeps its sectors; the last sector of the disk is never used; files may show
  the contents of deleted ones after a flush that failed and a discard.  `FileStore`
  says how far each goes.  putLogicalSector() checks the first of several sectors
  only (vfs.cc:292), and getLogicalSector() does not look at statuses (vfs.cc:261).
* GUI.  The buttons of a finished read are enabled before the worker has ended, and
  during a save, so PrepareConfig()'s assertion (mainwindow.cc:1056) can fail.  A save
  begun while a task runs has RunOnWorkerThread() report it (main.cc:84) and go on,
  to wait on the UI thread for a worker that waits for it.  When
  createFilesystemFromConfig() throws, the browser keeps the last disk's filesystem
  (mainwindow.cc:468).

Some properties are stated with care, and `hazards` in `PROJECT.json` says which
hazards they leave out.  `OpsServed` does not cover operations that
arrive in the three gaps the model names with `stranded` (after the worker found
the queue empty, in the race with a commit, before a stop): the code does leave
those waiting until the next operation is asked for.  `GoodReadIsClean` is
restricted to drives and to skip_unnecessary_tracks: a file whose last read brings
a conflict after a good read is reported good, with the conflict in the image.
`EachFound` is about tracks on which no data record was lost (`Framed`); what happens
on others is `NoDataShown`'s.  It leaves out MX and Northstar, whose records carry no
numbers, and tracks beyond the last that a decoder takes a header for (`LastTrack`).
`NothingMadeUp` takes a neighbour's data for a sector's own where that was lost.
`FilesSpec` has names as the code cuts and hides them, `JoinReturns` a user who starts
nothing while a task runs, `WindowTrue` one direction only, and `ConvertedExactly` the
times of index marks, not how often each is given.  `ImageTrue` and `StoreSpec` do not
forbid that a failed flush leaves an image file empty.
`RoundTrip` is about tracks that the format has room for (`Fits`): no sector number
or track beyond the last its decoder takes, none of the sectors that the IBM decoder was
told to ignore, and not the two IBM options that together turn the side round.
`DiskIntact` holds wherever a flush fails because the
directory and the table are one track, written first and as a whole; a block of
them that cannot be read is where the model stops.

Deadlock is not checked in `CaptureRing`, `ReplayRing`, `Drive`, `TrackDecode` and
`FluxPath`: a session is over when the host has its answer, a board that is off
does nothing, a track has an end.

### Fairness

* `CaptureRing`, `ReplayRing`: the main code, the watchdog and the host's calls
  go on when they can; in a read a started fragment completes and the timer
  expires, as time passes.  There is none on the disk's index pulses, on the
  replay DMA or on what a drive does: an empty drive never gives a pulse, and
  the session must still end.
* `Drive`: the steps of a command; none on commands, the clock or resets.
* `ReadTrack`, `TrackDecode`, `FluxSectors`: the calling thread goes on; none on
  the client.
* `ImageSectors`, `Brother120`, `FluxPath` check safety only and assume none: a
  client need not call anything, and a call of theirs is one step.
* `GuiWorker`: both threads are scheduled, timers fire, an error box is closed in
  the end and a task ends by itself (by success or failure; the hardware side of
  that is the session's end above).  None on the user.

## 4. Proofs

`CaptureRing_proofs` proves, for every ring of at least two buffers, every host
buffer, every bound on fragments and both behaviours of the silicon:

| Theorem | States |
|---|---|
| `TypeCorrect` | `TypeOK` |
| `CursorsCorrect` | `CursorsCount`: equal cursors mean an empty ring |
| `FlagCorrect` | `FlagExact`: the interrupt neither misses nor invents an overrun |
| `BuffersIntact` | `WaitingIntact`: waiting buffers are not refilled |
| `RingCorrect` | `RingIntact`, the four above together, which the run checks |
| `StreamInOrder` | `InOrder` |
| `StreamComplete` | `NothingWithheld` |
| `StreamCorrect` | `StreamWhole`, the two above together |
| `UnderrunJustified` | the error is never spurious |
| `Refinement` | `CaptureRing` implements `CaptureStream` |

Assumed is only `CaptureAssumption`: the ring has two buffers or more, and the
main code leaves its wait for the first fragment before the chain has gone round
(`StartupLag`).  The second is real: the wait is a loop of a few instructions and
a fragment lasts hundreds of microseconds.

None of the safety properties is inductive.  The invariant `IInv` says where every
fragment is: `Starting` before the loop (the reader's cursor is still -1, all
fragments are in their slots), `Cursors` and `Counts` in the loop (the distance
between the cursors is what was captured and not yet released), `Contents` (the
buffer at each distance holds its fragment), `InFlight` (what is in the endpoint
and with the host is what was sent), `Ending` (how each way out of the loop leaves
flags and counts).  Each action that disturbs more than one of them has a lemma of
its own; `StepIInv` puts them together and the theorems follow with PTL.
`Bounded` is the little more that the refinement needs: no buffer holds a number
that was not captured yet.  The step lemma `StepRefines` maps each action to one
action of `CaptureStream` or to a stutter.

`Firmware_proofs` proves about `Drive`, for a disk of any size, any limit on seeks and any number of
steps that home() tries:

| Theorem | States |
|---|---|
| `HeadCorrect` | `HeadTrue`: the types, and the head of a homed drive is at `current_track` |
| `DriveCorrect` | `RightDrive`: a running motor is the selected drive's |
| `TransferCorrect` | `TransferAtWanted`: a transfer is at the track that was asked for last |

Assumed is only `DriveAssumption`, by which homing tries more steps than there are
tracks.  `RightDrive` and the head's position do not stand by themselves: a command
that homes must be sure to reach track 0 before it gives up, and one that steps
that the motor it steps with is its own.  `Underway` adds that: while a command is
on its way its motor runs, home() has steps left for wherever the head is, the
drive is homed once it steps, and the target, or at the end the current track, is
the one wanted.  `SeekToStep` is the lemma for seek_to() wherever it is called from,
`CommandStep` has a step for each command, `ProceedStep` one for each step of them.

It proves about `FluxPath`, for tracks of any length, cells of any length, a count that
is full at any number of ticks, index pulses at any time and any phase of the
Sequencer's clock:

| Theorem | States |
|---|---|
| `PulsesOnTime` | `PlayedOnTime`: the pulses of a track are played as far apart as they are in it, within a tick |
| `EdgesSampled` | `SampledExactly`: every edge of both signals is in the opcodes at its tick, nothing else is, and the reader finds each but a last one |
| `FluxConverted` | `ConvertedExactly`: what was captured and what was encoded keeps its pulses through a GreaseWeazle and back, within a tick; a stream's pulses and index marks come out at its ticks |
| `SearchesEnd` | `SearchEnds`: a search for any patterns in any map ends, and at the first match unless that is too fast |
| `ThereAndBack` | the same of any fluxmap with its pulses at different ticks |
| `MadeAll` | what appendBits() makes of any bits: a pulse for each one, at the ticks of all the cells before it, rounded down once |

Assumed is `FluxPathAssumption`: a cell has two ticks or more, tracks begin with a zero, as
the gaps of encoded ones do, the sync mark has a bit, and a stream is made of the opcodes
that the converter knows (`StreamCodes`; it refuses all others).  Of the
GreaseWeazle's constants it needs only that its clock is not slower than the
FluxEngine's and that an interval of one byte can be two ticks.  There are two
halves, as there are two machines, and the conversions.  What the Sequencer plays is settled before it starts: `Made` says
what the map of a track is, for each number of cells, and `Due` when each pulse
comes, with a tick more for each opcode without ticks (`Slow`) up to it; `DueApart`
has two ticks between any two, so that none is lost to one that has still to come.
`AtOpcode` says how far in these opcodes the Sequencer is, by its count and how many are
left, and `Given` that the pulses it gave are those of the opcodes behind it, but for one
that it is counting up to; the clock's phase at the reset, which the code does
not settle, is the number s of both, and an edge that the reset itself makes is `Strays`.
For the Sampler `Seen` is the invariant of a signal: the edges so far are those in the opcodes, then
the one that has been seen, then the one that is on its way as a toggle.
The conversions are folds, and each has an invariant over the opcodes read so far.
`Conversions` is what can be between two opcodes: the output has as many ticks as the last
event, which is not after the GreaseWeazle's time, and a remembered mark is not
before it.  `Pulsed` is what a pulse does to that, with a mark before it, on its tick or
after it.  `PulsesConverted` follows the pulses; `MarksConverted` follows the marks, for
which it needs `Remembers`: the last mark of the stream so far is still
remembered, or has been given (one on the tick of a pulse is both).  There and
back, `DeltaRead` has the opcodes of an interval read as that interval
and `BackAgain` loses at most a tick to the two roundings.  This takes pulses
at different ticks, since an interval of none would end the stream: `Made` says so of
what is encoded, and `CapturedApart` of what is captured, whose pulses are those of
`Due`, a tick late.  The
sums of ticks, the ones of a track and their places are recursive functions;
`Iterated` shows once that such a function has a value at each number and `AllOf` is
the induction over it.

That a search ends is not plain, as a match that is too fast moves the reader
back.  `SeekAt` has no position of the window at the end of the map before the search
is there, which is why the reader can always go on; `TakenFrom` says that each turn takes
in the interval after one of these positions.  So the least of them rises by one
at least every n + 1 turns, for a window of n intervals (`Reached`, `ReachedOn`), and
`SearchedThrough` counts that `Turns` are enough.  Up to the first match the reader goes
`Straight` on and the window is the last intervals (`WindowAt`).  Assumed of the
patterns is that there is one and that each has an interval.

`ReplayRing_proofs` proves, for every ring of two buffers or more and every number
of packets, with index or hard sector pulses at any time:

| Theorem | States |
|---|---|
| `RingCorrect` | `RingIntact`: types, an exact underrun flag, no buffer refilled before it was played |
| `TrackCorrect` | `TrackFaithful`: the host's packets in order, then filler, on the track; a write that is reported as done is a whole one |
| `DrainCorrect` | `HostDrained`: no packet is left for the next session |
| `GateCorrect` | `GateOncePerSession` (an action property) |
| `Refinement` | `RefinesTrackWrite`: a session implements `TrackWrite` |

Assumed is only `ReplayAssumption`.  The invariant follows a packet from the host to
the track.  `Place` is a buffer's distance from the cursor of the reader, `Left` that
of the writer; `Counts` says that what was filled is what was played and what lies
between the cursors, `Contents` that the buffer at each place holds the packet that
its place says, `Supply` that the packet read next is the one for the buffer filled
next.  `Priming` and `Phases` carry this over the start, in which the reading cursor is
still -1 and the chain has not begun.  `Writes` holds the gate: while it is open
all that is played is on the track, and it is shut by an index pulse.  `Endings` says
what each way out of cmd_write() leaves.

`FluxSectors_proofs` proves, for any layout of a disk, any contents, any number of
retries, whatever the disk holds at first, strays included, and whatever sectors may now
and then fail to be read:

| Theorem | States |
|---|---|
| `CachesCorrect` | `CachesAgree`: both caches and the disk agree with what was put and with what was there or could be read in its place |
| `Refinement` | `StoreSpec`: the interface implements `SectorStore` |

The invariant compares three places for each sector: `Cached` says what either
cache may hold (what was put, or what a read gave), `Stored` that the disk is as it was
but for tracks that the cache holds as a whole, so that another flush can write them
again, and `Flushed` which tracks a flush has merged and written.  `Pending` ties the set of
changed tracks to the puts.  A flush that is left by an exception keeps all four, and
that is the case the properties are about: the next operation meets it.
`Seen` is what could be read of a sector before any flush, strays included; a write makes no
strays, so it bounds what both caches may hold later too.  `Refinement` has no
hypothesis on reads: a good sector that cannot be read while a track is completed, or
has a stray read in its place, is written back so by a flush that succeeds, and
`SectorStore` says just that of it.  The step that ends a flush maps to `Flush`
(`FlushRefines`), an exception to `FlushFails`, and every other step of a flush to a
stutter.

`GuiWorker_proofs` proves, for any number of tasks and operations, whether the user is
careful or not:

| Theorem | States |
|---|---|
| `WindowCorrect` | `WindowTrue`: a window that shows work has a task to end it, and operations do not multiply (not that a window without work has none: see the divergences) |
| `StopCorrect` | `StopHitsItsTask`: a stop reaches only the task it was meant for |

`Posts` says what a thread may rely on while it waits for the other: the worker is
where it posted from, and until its last post has been handled there is a task.
`BusyIsTrue` is that a window which shows work has one, `Quiet` that none is left to be shown once
the worker is about to say it has ended.  `Queued` counts: an operation leads to others,
two at most, so those still to come and those that have been queued together stay under
three for each that was asked for, also when a push and a pop race.  The lemmas
`AmongAppend`, `AmongTail` and `ToComeOfPrefix` say how the count follows the queue.

`Sectors_proofs` proves about `ReadTrack`, for any layout, any finite set of contents,
any number of copies in a read, any group of physical tracks and any number of retries:

| Theorem | States |
|---|---|
| `MergeCorrect` | `SectorsTrue`: a sector is OK exactly when its good copies agree, in conflict exactly when they do not |
| `GoodReadCorrect` | `GoodReadIsClean` |
| `RetriesCorrect` | `NoEarlyGivingUp` |
| `OkStays` | `OkSticks`, an action property that is no run's own, as it follows from `SectorsTrue` and what was read before: a good copy of a sector is never taken away by a later read |

Assumed is `ReadTrackAssumption`: the supply of a drive is no number, and sectors have
finitely many contents.  `Honest` says what each version known of tells about the
good copies (`Speaks`), `Clean` and `Dry` what the running result of readGroup() means
at each point of the loop.  The heart is the fold of collectSectors() over any number of copies in
any order, a recursive function: `FoldExists` shows that it has a value at every count,
and `AccumulateSpeaks` what that value is.  Both are inductions, done without the
library's induction theorems (which take an operator) by taking the least count at
which the claim fails; `MergedSpeaks` is their step, and `OrderOf` shows that an
order of the copies meets each of them.

It proves about `ImageSectors`, for disks of any number of tracks of one or two sides,
any layout, any order of the tracks and any numbering of a filesystem, files that end
anywhere, and any number of puts, flushes, failures and discards:

| Theorem | States |
|---|---|
| `ImagesTrue` | `ImageTrue`, on a disk whose format has a place for each sector (`OfPlaces`: img, d64, nsi, diskcopy) |
| `BlocksOrdered` | `BlocksInOrder`: an img file in filesystem order has the blocks one after the other |
| `Stored` | `StoreSpec`, on a disk of those formats: the interface implements `SectorStore` |

Assumed is `ImageSectorsAssumption`: the values that stand for no data, zeros and so on
are different, and a configuration is one of a disk (`Seated`): no track has a sector
twice, a filesystem's order has the sectors of the physical one, and each block of
the filesystem has a place in the file.  The configurations of the run satisfy it; one
that does not makes two sectors one, or throws in the maps' at().  The argument
is about places.  `EndsOf` says where the tracks end in a file that is their
concatenation (`FlattenEnds`), `Walk` that the order of the tracks comes to each of
them once (`OrderingIs`, `NsiOrderingIs`), and together they give each sector one place
(`PlacesOnce`).  `MappedIs` makes the two maps between a track's orders inverses of
each other, so that the names a client has for the places are as many
(`ClientKeysOnce`); for an img file they are the filesystem's blocks, in order
(`BlocksAre`).  `ReadIs` and `WriteIs` say what readMappedImage() finds and
writeMappedImage() writes in terms of those names.  The invariant, `SectorsKept`,
says that `content` is what the file reads back as, that the image has what was
put (`Kept`), and that it is no shorter than the file (`Reaches`): without the last,
a flush could cut off a gap that a client has already seen as zeros.  `FlushKeeps` is what
a flush does to the sectors that are there, `GapsStay` to those that are not.

`Brother120_proofs` proves, for a table and a directory of any size, any layout of the
disk in tracks, files of any contents and flushes that fail any number of times:

| Theorem | States |
|---|---|
| `ChainsCorrect` | `DiskIntact`: each file has a chain of its own, of the right length, that ends; in memory and on the disk |
| `Refinement` | `FilesSpec`: the filesystem implements `FileStore` |

Assumed is `Brother120Assumption`: the directory and the table are on one track, the
first, tracks are numbered as blocks are, and a block that was not put or is lost can
be told from one with a directory or a table in it.  `Sound` is the invariant of a
directory and its table: what the table links from each entry is a list of sectors
that ends (`Linked`), none of them reserved, shared or free.  getFile() follows the
table by a recursion that nothing but the table bounds; `ChainIs` shows, by the least count at which
it could fail, that it gives just the list that is linked.  `PlacesTaken` is what the
order of allocation needs: of a finite set of numbers one has n below it, for each n
below its size.  `EnteredSound` and `RemovedSound` are putFile() and deleteFile();
`IntactMixed` is a disk that a flush has left half way, which is `Intact` because the
directory and the table come from one side.  `InStep` adds what the refinement needs:
a block that was not put is on the disk as it was or lost, files that were not touched
have no block among those put (`Unput`), and a list that can be read on the disk is one
that was saved or that a failed flush has tried.  `RoomTaken` and `RoomGiven` count
the free sectors.  A putFile() that finds the disk full maps to a stutter.

`TrackDecode_proofs` proves, for any options of the IBM decoder, tracks written with up
to 32 sectors of any status, and damaged tracks of any number of records with any
stray headers on them:

| Theorem | States |
|---|---|
| `NothingIsMadeUp` | `NothingMadeUp`: a good sector has an undamaged header that names it, and its contents are those of the first data record after that header, whose checksum is right (another sector's, if its own was lost: `NoDataShown`); Micropolis sectors are all good by the same checksum |
| `EveryOneIsFound` | `EachFound`: each undamaged sector is given out with its own data as often as it is there |
| `WhatIsWrittenIsRead` | `RoundTrip`: each good sector comes back as it was written, none twice and none that was not written |

Assumed are `OptionsAssumption` and `DecodeAssumption`, by which a track's number has
seven bits (the most that every header has room for), a sector's has five where it is
written in five (Zilog), and no Macintosh header comes from a track 64 away, which that
format cannot tell from its own.  The proof has two halves.  The first is about what
is on a track: `Records` are the headers that a format writes for some sector
(`Origin`) and data of any kind, and `OnDiskIn` and `MaterialIn` show that written and
damaged tracks consist of them; a written track is what its sectors are written as,
one after the other, a recursion that `FlattenType` follows by the least length at
which it could fail.  `SplitFinds` and `WholeFinds` go through the sixteen decoders:
each takes apart what the encoder put together, and leaves a sector alone or gives it
the numbers its header was made from; `SplitExactly` and `WholeExactly` say that it
takes a header for sector n of its own track just if it is one.  The second half is
the loop.  `Searching` says that a sector on its way to its data has its header behind
it and no data since, `AllSound` that what was given out is on the disk, `AllSummed`
that Micropolis sectors are good by the checksum that is remembered.  `Counted`
compares what was given out with what lies `Before` the reader, for each number and
content, where a header whose data is still to come does not count yet (`Upto`), and `Behind` ties
the sector in hand to that header.  `PushCounts` is the step at which both grow.

For `RoundTrip` the invariant has to know where on the track each sector of the list
is.  `Ends(o)` says that the records of the first i sectors (`Piece`) end at o[i];
`FlattenEnds` finds such an o for what OnDisk joins, and `PieceIs` says what a piece
may be: nothing, for a sector that was never read, a header with its data, or one
record, each of which the decoder takes for that very sector (`SplitReads` and
`WholeReads`, for sectors that are `Legible`).  `Reached(o, k)` has the reader behind
the first k sectors, or at the data of the next, and `ReadUp(k)` what was given out by
then.  As pieces may be empty, the number of sectors behind the reader is only settled
when it comes to the next record: `NextPiece` and `SkipOver` move k on to the sector
that this record is of.  At the end the reader is behind the last of them.

Only model-checked: liveness everywhere (out of reach of the prover); `ImageSectors`
on d88 and imd disks, whose records are written track by track through sorts and
folds of the community modules that are opaque to it; and `BitsReadBack` of `FluxPath`,
which is about a numerical loop whose result depends on the values of its gains
and on how long a record is.  The counts of the conversions are whole numbers here; the
code's are of 32 bits, which a track of a few revolutions does not reach.

## 5. What is not modelled

* The dialogs of single browser operations, drag and drop, the tree widget,
  viewers and configuration pages of the GUI.
* GCR tables, checksum arithmetic, write precompensation, clock guessing: arithmetic
  over long inputs.  `TrackDecode` begins where a pattern search has stopped, and
  takes a record's bytes for what they say; `FluxPath` finds a record and reads its
  bits, for one sync mark.
* The image formats that are only read (dim, fdi, jv3, nfd, td0) or only written
  (ldbs, raw), and all flux file formats: parsing, with nothing to come back to.
* acorndfs, cbmfs, prodos and cpmfs, which only read; amigaffs, fatfs and machfs,
  which pass each call to a vendored library.
* Command line parsing, configuration, logging.
* PSoC blocks, electrical timing, drives that lie (a stuck track 0 sensor).
* Memory errors and uninitialised data except where an action says so: the racing
  push of a commit in `GuiWorker` loses an element.  layoutCache is read and filled
  by two threads without a lock (layout.cc:131), which no module has.
* Vendored libraries (`src/dep`): four fifths of the lines of the repository are
  theirs, none of which this project means to verify.

## 6. Plan

Done: the two sessions of the firmware and its drive control, the Verilog between
flux and pulses, reading from flux to bits and from records to sectors, writing under the sector interface,
both sector interfaces, a filesystem over them, the GUI's threads; proofs of the
read and write sessions, of drive control, of the Verilog and of a GreaseWeazle's
conversions, of reading a track and merging its sectors,
of decoding a track, of both sector interfaces, of the filesystem, and of the GUI's
threads.

Next, in this order:

1. `ImageSectors` on d88 and imd disks: under which conditions on the numbers of the
   sectors its refinement of `SectorStore` holds there, and a proof that it does.
2. `IndexTiming`: the index interrupt with hard sectors, and cmd_measure_speed()
   with the host's five tries, over a clock in milliseconds.
3. Two read sessions after one another, in which the engine that an underrun left
   enabled disturbs the second; a composition of `ReadTrack` and `FluxSectors`, in
   which a stray sector of another track reaches populateSectors().
