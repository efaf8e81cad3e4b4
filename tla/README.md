# A verification of rust-bittorrent

TLA+ models of the tracker, the download client and the uploader of this
repository, the TLC configurations that check them on small instances, and
TLAPS proofs of their main safety properties for every instance.

Every definition is translated from the source. `PROJECT.json` lists, for each
definition, the file and the lines it stands for; for each property the run
that checks it and a plausible bug of the code that would break it; and the
places of the code that are hard to test, with the properties aimed at them.

## 1. The system

Two programs: `tracker` (an HTTP server) and `bt` (downloader and uploader).
An uploader makes the torrent data of a file, registers its address with the
tracker, and listens. A downloader reads a `.torrent` file, asks the tracker
for the addresses registered under the info hash, connects to each, and fetches
the pieces over all connections in parallel.

| component | source | state | operations |
|---|---|---|---|
| parallel download | `bt/src/peer_download.rs` `download`, `start_stream_downloader` | two unbounded channels, one task per stream, one sender task per piece, the collected pieces, the output file | spawn, send a request, take a request, finish or fail a fetch, collect, write |
| peer session | `peer_download.rs` `init_peer`, `download_piece`; `peer_upload.rs`; `torrent.rs` `HandshakeMessage`, `PeerMessage` | program counters of both ends, what each has not read yet, the timeouts in a row, the blocks of the piece so far | connect, handshake, bitfield, interested, unchoke, request, answer, time out, close |
| tracker | `tracker/src/main.rs` | file listing (info hash to name) and peers db (info hash to addresses), a lock each | register, look up, list files |
| client commands | `bt/src/main.rs` | how far each has come, the open connections | announce then connect one by one then download; register then listen |
| models | `models/src/lib.rs` | none | bencoding of requests, compact peer list (6 bytes a peer) |
| tracker client | `bt/src/http.rs`, `udp.rs` | none | one request, one response; UDP is `unimplemented!()` |
| torrent files, peer ids | `bt/src/torrent.rs` | none | read and build `.torrent` files |
| command line | `bt/src/cli.rs`, `main.rs` | none | prompts; the interactive download ends in `todo!()` |

How they interact: client to tracker by one HTTP request each (`/announce` GET
and POST, the listing of files); downloader to uploader by TCP messages with a
4-byte size; tasks of the download by channels; handlers of the tracker by the
two locked maps.

What is hard in this code:

- *Interleavings.* Stream tasks compete for one channel of requests and finish
  in any order; sender tasks run in any order; handlers of the tracker run in
  parallel and a registration takes two locks one after the other.
- *Partial failures.* A `?` or a failed assertion ends a stream task together
  with the request it holds. An `unwrap` under a write lock poisons it.
- *Timeouts.* The uploader's timeout cancels a receive between two reads and
  loses what was read; the downloader has no timeout after its handshake.
- *Stale data.* The file is opened again for every block and may have been
  edited since it was hashed; registrations never expire.
- *Order of the commands.* An uploader registers before it listens and its
  registration outlives it; a downloader connects to one peer after the other,
  and the first that cannot be reached ends the command.
- *Other programs.* A peer may send more than the five messages this one knows,
  and in another order; its answers and those of a tracker are taken apart by
  index arithmetic.
- *Ends by counting.* The collecting loop ends on a number of items; the
  uploader's loop on a number of timeouts in a row.

What makes each component correct:

- *download*: no piece is fetched or collected twice, none disappears unless a
  stream fails, the output path is left alone until every piece is verified, a
  reported success has all pieces (in order), and the download ends.
- *session*: requests and answers stay in step whatever times out; a fetch
  returns the bytes of the original file or fails; every wait ends.
- *commands*: whoever listens is listed; the download ends if its peers are
  there, whoever else answers on their addresses; bytes of another file never
  get into the output.
- *announcement*: client and tracker agree on the name of a file and on the
  encoding of its peers; nothing is made up from an answer of someone else.
- *arithmetic*: the blocks tile the piece, in 32 bits, or the hash finds out.
- *tracker*: no file has peers without being listed, an acknowledged
  registration is in every later answer, answers only grow, a listed file is
  served.

## 2. The modules

| module | what it is |
|---|---|
| `FileFetch` | what `download` promises: gather verified pieces, truncate the output, complete it |
| `PieceDownload` | the parallel download, task by task; implements `FileFetch` |
| `MCPieceDownload` | its symmetry, for TLC |
| `PieceDownload_proofs` | theorems about `PieceDownload` |
| `StreamTask` | what the download relies on of one stream |
| `PeerSession` | one connection, both ends; implements `StreamTask` |
| `PeerSession_proofs` | theorems about `PeerSession` |
| `Tracker` | the tracker's handlers and locks |
| `MCTracker` | its symmetry, for TLC |
| `Tracker_proofs` | theorems about `Tracker` |
| `Swarm` | the commands `upload` and `download` on one tracker: composes `Tracker` and `PieceDownload` |
| `MCSwarm` | its symmetry, for TLC |
| `Swarm_proofs` | theorems about `Swarm`, with those of `Tracker_proofs` and `PieceDownload_proofs` |
| `ForeignSeeder` | the downloader of `PeerSession` with a peer of another program at the other end |
| `ForeignSeeder_proofs` | theorems about `ForeignSeeder`, with the lemmas of `PeerSession_proofs` |
| `CompactPeers` | the compact list of peers, byte by byte (operators only) |
| `Announce` | one announcement: the query, every kind of answer, what the client makes of it |
| `MCAnnounce` | its peers and bytes, for TLC |
| `Announce_proofs` | theorems about `CompactPeers` and `Announce` |
| `PieceBlocks` | the size of a piece and the loop over its blocks, in words of a given size |
| `MCPieceBlocks` | its torrents, for TLC |
| `PieceBlocks_proofs` | theorems about `PieceBlocks` |

Operators whose name starts with `M` and a comment "Mutant" are deliberate bugs
(a dropped guard, an off-by-one, a missing reset). They are in no
specification: each shows that some property would notice.

### PieceDownload

`spawned` and `sending` are the sender tasks (lines 151-154 of
`peer_download.rs`), `input` and `output` the two channels, `worker` and `job`
the stream tasks, `collected` is `downloaded_torrent`, `main` and `file` are the
caller and what is at the output path.

| action | code |
|---|---|
| `SpawnSender`, `StartCollecting` | the `for` loop that spawns the sender tasks, and its end |
| `Send` | one sender task; they run in any order |
| `TakeRequest` | `input_rx.recv()` in a stream task |
| `FinishPiece` | all blocks are there: hash compared, piece sent or `bail!` |
| `FailFetch` | any other error or panic in `download_piece`: the task ends with its request |
| `EndWorker` | the channel is closed and empty, the loop ends |
| `Collect` | one turn of the collecting loop |
| `MakeDirectory`, `CreateFile`, `WriteFile` | `create_dir_all`, `File::create`, `write_all`, each with its failure |

A channel is a sequence: unbounded, so a send never waits, and each item goes
to one receiver. `download` itself holds a sender and a receiver of both
channels until it returns, so neither closes while it runs: this is why
`Collect` has no exit for a closed channel. Bytes are abstracted to what SHA-1
tells apart: the number of the piece they are, or `Corrupt`. A torrent with two
identical pieces is therefore outside the model.

### PeerSession

`down`, `job`, `begin`, `piece` are the downloader (`begin` is `begin_offset`);
`up` and `timeouts` the uploader; `toUp` and `toDown` what was sent and not yet
read; `link` the network; `disk` the served file. A byte of the file is its
offset, so a block read at the wrong place is not the right block.

Messages are written in two writes, size and body. Only the uploader's loop can
give up between its two reads, so only what it reads is split in two items
(`Size`, then the body); everything else is one item. When its timeout drops a
receive that had read the size, the 13 bytes of the request are read as a new
message: the tag and three bytes of `index` as size, the last byte of `index` as
tag. `MisreadIgnored`, `MisreadStalled` and `MisreadPanic` are what
`PeerMessage::receive` then does for tags 1 and 2; 5, 6 and 7; and all others.
A message ignored in this way resets the count of timeouts, as in the code.

`BreakLink` and `EditFile` are the environment: the network fails with an error
or without a sign, and the file is edited or truncated once, at any moment.
A timeout is possible whenever nothing can be read; how long anything takes is
left out. Delays of the network look to the uploader like a downloader that
sends later, which the model has.

The module has one uploader of this project at the other end. Its handshake
carries an info hash which neither end compares, so it is not in the model: a
wrong file shows up as a hash that differs. (`Swarm` has uploaders of several
files.)

### ForeignSeeder

The same downloader, from an instance of `PeerSession`, on a connection to a
seeder that is not `handle_peer`. `choking`, `interested` and `up` are the
seeder's state, `habits` which liberties of the protocol it takes: keep-alives,
`Have` and `Choke` at any time, a peer id that is not text, no bitfield. It has
the file, perhaps with one byte changed. It is external code: its actions are
what the protocol lets a seeder do, written from how the downloader uses it.

| action | code |
|---|---|
| `SkipKeepAlive` | the `while size == 0` of `receive_message_size` |
| `RejectPeerId` | `String::from_utf8` in `HandshakeMessage::receive` |
| `Session` | every other receive and send of the downloader, as in `PeerSession`; a tag of no `MessageTag` panics |
| `TakeRequest`, `EndStream` | the loop of `start_stream_downloader` |

### Swarm

`up` is how far each `bt upload` has come and `right` whether the file it serves
has the bytes of the wanted one. `phase`, `todo` and `stream` are the download
command: the peers left to connect to, and for each connection who is at the
other end, whether the file there is right, whether that end still answers, and
the piece (`sent`) that it had sent in full before it closed.

| action | code |
|---|---|
| `Start`, `Registered` | `upload` up to and after `try_register` |
| `Bind` | `TcpListener::bind`, which fails if the port is taken |
| `Crash` | the process is ended, or `accept` fails and its loop ends: the connections close, the registration stays |
| `EditFile` | the served file is edited or cut short; `read_piece` opens it again for each block, so open connections meet the change |
| `Announce`, `TakeAnswer` | `try_announce` |
| `ConnectPeer`, `ConnectFails`, `HandshakeTimesOut` | `init_peer` for the next peer of the answer; the `?`, when nobody listens there, or when one end's `timeout` of the handshake ran out |
| `StartDownload` | the call of `PeerDownload::download` |
| `Fetches(...)`, `Fetch` | the actions of `PieceDownload`; a fetch goes well on an open connection to an uploader with the right file; with an edited or another file it brings the bytes of the piece, other bytes or an error; and a closed connection brings the piece that had been sent, or an error |
| `IdleClose` | the uploader leaves its loop: the third timeout in a row, before a request or in the middle of one, or the panic on the rest of a request that a timeout has cut (`session_panic`) |
| `Track` | the handlers of `Tracker` |

`init_peer` is one step here (`PeerSession` has its parts). The uploader binds
`127.0.0.1` (`peer_upload.rs:56`), so the network between the two does not die
without a sign: what a broken one does to a connection is in `PeerSession`, and to
the download in `PieceDownload`.

### Announce and CompactPeers

`query` is the parameter `info_hash`. A text is an info hash with the number of
times it was percent-encoded; hashes in which encoding changes nothing are
`PlainHash`. `TorrentFile` encodes once (`torrent.rs:90` and `146`), the query
encodes again (`http.rs:40`), the tracker decodes once. The answer is the
tracker's (`TrackerFinds`, `TrackerMisses`, and `TrackerRefuses` once a handler
panicked with the peers db locked: `poisoned`), that of a tracker of another
program, which has files under their 20 bytes and sends the peers as a byte
string (`OtherFinds`, `OtherMisses`), or anything else that listens on the port
(`StrangerAnswers`). `TakeAnswer` is the rest of `try_announce`: status, bencode,
`chunks(6)`; a last chunk that is too short panics. A `Vec<u8>` without
`serde_bytes` is written as a list of integers, and read from nothing else.

`Packed` and `Unpacked` are `from_socket_addrs` and `From<AnnounceResponseRaw>`,
with real octets and ports.

### PieceBlocks

`index`, `begin`, `remain` are the variables of `download_piece`, `asked` the bytes
of the file asked for so far. `Size` is the `i64` cut to a word by `as u32`, `Block`
is where the uploader's `read_piece` looks, in 64 bits, given an index that was
cut as well.

### Tracker

`listing` and `peers` are `FileListing` and `PeersDb`, `poisoned` the lock of
the latter, `pc`, `req` and `reply` one handler per client connection, `posts` a
bound on registrations; `acked` and `since` are history variables, used by
`AnswersAreFresh` only.

A handler never holds two locks, so everything under one lock is one action:
`AddFile` then `PushPeer` for a registration (`FileListing::add` keeps the
first name), `AnswerLookup`, `ListFiles`, `RejectBody`. `PanicOnAddress` is the
`unwrap` of an address that does not parse, under the write lock; afterwards
`RefusePoisoned` is all that requests needing the peers db get.

The type of a request is exact: only registrations and lookups carry a hash. The
listing's own lock is never poisoned: nothing under it can panic.

## 3. The runs

Passing runs explore their state space completely, without symmetry.

| run | question | size |
|---|---|---|
| `download` | can any interleaving or failure duplicate or drop a piece, touch the output early, report an incomplete file, or deadlock for another reason than a lost piece? does the program implement `FileFetch`? does it return if no stream fails, and does one surviving stream drain all pieces but the lost ones? | 4 pieces, 3 streams; 92770 states |
| `tracker` | do two handlers at once ever show a state that one alone could not? is poison final? is a listed file served in the end, unless poisoned? | 2 clients, 2 hashes, names and addresses, 2 registrations; 417748 |
| `session` | do timeouts, lost framing, network failures and edits keep requests and answers in step? does a stream implement `StreamTask`? does every wait of either end stop? | 6 pieces; 73784 |
| `swarm` | is whoever listens listed, does the command deliver when its peers stay available, what else can make it wait, and does it implement `FileFetch` whoever answers? | 2 places to upload from, 2 files, 2 ports, 2 uploads, one of them ended or its file edited, 2 pieces; 1145560 |
| `foreign` | can a seeder of another program get wrong bytes through, cut a message by keep-alives, and which waits of the downloader may last forever? | 2 pieces, 4 bytes, 3 messages nobody asked for; 179807 |
| `announce` | do client and tracker agree on the name and on the peers, and is nothing made up from other answers? | 2 hashes, 5 peers, lists of up to 2, answers of up to 13 bytes, peers db poisoned or not; 445904 |
| `blocks` | do the blocks tile every piece, and is a piece that was cut never taken for right? | all torrents of up to 28 bytes, words of 3 bits; 6982 |

Five runs refute what the repository says of itself:

| run | the claim | what happens |
|---|---|---|
| `download_order` | README.md:78, the client assembles the pieces and saves the complete file | pieces are concatenated in the order of their arrival; the file is a permutation. Even one stream is enough, as the sender tasks may run in any order |
| `download_hang` | peer_download.rs:165, a piece that failed is logged and collecting goes on | no task sends an `Err`: the `?` ends it, its request is lost, and the caller waits forever, under fairness |
| `session_panic` | torrent.rs:338-340, an unknown tag becomes an error | `MessageTag::try_from` panics instead. One timeout between the size and the body of a correct request makes the uploader misread it and panic |
| `tracker_listed` | bt/src/main.rs:111, the listing is of files "to download from available peers" | a registration whose address does not parse leaves its file listed and the peers db poisoned |
| `swarm_available` | README.md:73, the client uses the available peers in parallel | an uploader that has registered but not yet bound its port ends the download, although another one of the answer is listening. No process has to fail |

README.md:83 also calls the implementation "compatible with other
peers/trackers". The models say how far that goes, through the exceptions that
passing properties name: `NoUnexpectedMessage` of `ForeignSeeder` holds only of a
seeder that adds nothing but keep-alives (a single `Have` panics the downloader,
and a binary peer id is refused), and `EndlessWaits` names what the downloader may
wait for without end: the bitfield that need not come, and the Unchoke of a peer
that goes on choking. In `Announce` no answer of another tracker ever leads to `ok`: a
hash that is not plain is not found, and peers in one byte string are an error.

### The bounds, and why they are enough

- *Download.* With three streams one can be lost while two go on competing, and
  all three can be lost; with four pieces there is one more than streams, so
  both channels can hold several items while every task is busy. The proofs
  remove the bounds for safety.
- *Session.* 16 bytes in pieces of 3 and blocks of 2: full blocks, a shorter
  last block, a last piece of one byte, and six pieces, so that a misread index
  0..5 meets all three outcomes (a panic, an ignored tag, a stall).
  `MAX_CONSECUTIVE_TIMEOUTS` has its real value, 3. Requests are stop-and-wait,
  so nothing grows with more pieces.
- *Tracker.* `MaxPosts` caps registrations; requests that change nothing are
  not capped. Two are needed for two parallel ones of one file; two hashes with
  two names tell the two maps' keys apart. Two clients at once suffice because
  a step is one critical section of one handler and the properties relate a
  pair of requests at most; the proofs cover any number.
- *Swarm.* Two uploads let one be gone, late, of another file, or without its
  port while the other is available, or one place upload twice; one fault, the end of
  a process or an edit of its file, can hit at each of these moments, and two
  pieces let one be lost while the other is delivered. More faults repeat what
  one does to a single connection. Connections may be closed without bound.
- *Foreign seeder.* One piece of two blocks and one of a single byte; three
  extra messages can come before, between and after two blocks. Two seeders
  are explored: one that only adds keep-alives, and one with all liberties,
  whose behaviours include those of every seeder in between.
- *Announce.* A plain and an encoded hash; ports 0, 255, 256, 65535 and 6881, so
  that swapped or lost bytes show; two peers, so that chunks can be mixed up;
  all lengths up to two chunks and a rest. The proofs cover all lists.
- *Blocks.* Words of three bits and pieces of up to 18 bytes: sizes and indexes
  that fit, that are cut, and that are cut to exactly 0; every remainder of a
  block. The proofs cover all sizes.

In the refutations symmetry is over streams, over all sets of the tracker, and
over uploaders and ports (files and pieces are not interchangeable there); each
checks one invariant. `download_hang` and the passing runs check liveness, and
use none.

### Fairness

- *Download*: weak fairness of each task and of the caller. Tokio runs every
  task that is ready, and each task has only one thing to do at a time. That a
  fetch ends, by an answer or an error, is what `session` shows of a
  connection on which the network does not die silently; nothing says that it
  ends well, so `FailFetch` may be the way.
- *Session*: weak fairness of the downloader's steps and of the uploader's,
  which include their timeouts: time passes. There is none for taking the next
  request (another stream may get it), for the network to break, or for the
  file to be edited.
- *Tracker*: weak fairness of each handler; locks are held for a moment. None
  for clients.
- *Swarm*: weak fairness of the download command and its tasks together, from the
  tracker's answer on: as long as one of them can run, one does, and a fetch ends
  as above. Each of their steps brings the command nearer to its end, so it need
  not be said which runs. None for the uploads and the tracker, which
  `HealthySwarmDelivers` does not need; nor for starting or ending a process,
  editing a file, a handshake that takes too long, or an uploader that closes a
  connection.
- *Foreign seeder*: weak fairness of the downloader, and of the seeder's greeting, its
  bitfield, its reading and its answers to a peer that it has unchoked. None for
  the Unchoke, which it owes nobody, nor for messages that nobody asked for; and
  it may leave.

`ReturnsUnlessLoss`, `SurvivorsDrain`, `SessionProgress` and `ListedIsServed`
each name the exception the code really has (a lost piece, no surviving stream,
a silent network, a poisoned lock). `HealthySwarmDelivers` assumes that the peers
of the answer are available and stay so, that their files stay as they were hashed
and their connections open, as the code needs it; a handshake may still take too
long. `StuckOnlyByABadStream` says that nothing but a connection that was closed, or
that has another or an edited file at its end, makes it wait, or a torrent without
pieces: then the loop that counts to 0 waits for a first piece
(`peer_download.rs:157-170`), as in `BlockedOnlyAfterLoss`.

Deadlock is checked only for the tracker, where a client can always ask. A
download may return or hang, both ends of a session may be gone, an
announcement ends and a mismatch ends a stream task;
`BlockedOnlyAfterLoss` says when the download may stop.

## 4. The proofs

The seven modules whose names end in `_proofs` are checked by TLAPS for all values
of the constants allowed by the named assumptions: `PieceCount` a natural
number, finitely many streams, model values that are none of the real ones
(`Corrupt`, `NoPiece`, `Untouched`, `NoName`), `MaxPosts` a natural number; a file of
any length in pieces and blocks of at least one byte, and at least one timeout
before the uploader gives up; a block smaller than a word; and lists of peers and
bytes that are such lists. Every safety invariant, action property and refinement
that a passing run checks is stated by a theorem.

### PieceDownload

The properties are not inductive. `IInv` adds:

- `Verified`: bytes on `output` and in `collected` are those of a piece;
- `TaskInv`: a task that fetches or has failed has a request, and a task has
  ended only after the caller returned;
- `CallerInv`: in each state of the caller, how many pieces are collected and
  what is at the output path.

Together with `NoPieceTwice` and `NoPieceDropped` it says that each piece is at
exactly one of seven places: not spawned, with its sender, on `input`, with a
task, lost, on `output`, collected. Every action moves one piece, or none. The
lemma `InjectiveLength` (a sequence without repetition that is as long as there
are pieces has all of them) turns the count at which the loop ends into the set
of all pieces; from it follow `CompleteFile`, `OutputTouchedOnlyWhenComplete` and
`NoReturnAfterFailure`.

Theorems: `TypeCorrect`, `NoDuplication`, `NoDrop`, `Completeness`,
`OutputSafety`, `FailureIsFinal`, `NoOtherDeadlock`, and `Refinement` (`Spec`
implements `FileFetch`: every step maps to a step or a stutter).

### PeerSession

`LockStep` and `NoUnexpectedMessage` follow from an invariant that has, for each
state of the downloader, what can be in the two channels and how far the
uploader has then come (`Conversation`); what is left unread when the uploader has
lost its place (`Unread`: after a timeout between size and body, the request of this
turn, whole or without its size, and nothing else, so that what is misread is always that
one request); that the count of timeouts is below its limit while the loop runs
(`Patience`); and that the bytes of the piece so far are those of the original file
unless it was edited, and end where the next block begins (`Progress`). An answer
in flight is `Answered`: the block that was asked for, as the disk had it at some
time. That blocks tile a piece (`RequestIsInFile`, `PieceIsInFile`) is arithmetic on
`PieceLength * job`, which is kept behind a name so that the solver sees a linear
problem.

Theorems: `TypeCorrect`, `OneRequestAtATime`, `NoSurprise`, `FileServed`, and
`IsAStreamTask` (`Spec` implements `StreamTask`; the hash comparison is the step
that needs no invariant about the bytes, so it holds of an edited file as well).

### ForeignSeeder

Types and `TaskSpec` hold with any seeder, so their invariant says nothing of what is
in flight: only that the block awaited lies in the piece (`Turns`).
`KeepAlivesAreHarmless` is about a seeder that adds nothing else (`Polite`), and
needs the conversation again, with any number of keep-alives before, between and
after its messages: `Idle` is a channel with nothing but keep-alives, `Says` one with
exactly one message among them. The lemmas about blocks and requests are those of
`PeerSession_proofs`, instantiated; the assumptions of that module are proved from
`SessionAssumption`.

Theorems: `TypeCorrect`, `IsAStreamTask`, `KeepAlivesAreHarmless`.

### Tracker

`PeersAreListed` needs to know that a handler past its first lock has listed its
file (`HandlerInv`); `AnswersAreFresh` that what was acknowledged is still in the
peers db when the answer is made (`AckedInv`). `IInv` is these with `TypeOK`.

Theorems: `TypeCorrect`, `PeersListed`, `FreshAnswers`, and for the action
properties `GrowingRegistry` and `PoisonedForGood`.

### Swarm

The tracker and the download keep the invariants of their own proofs, which are
instantiated here: `TrackerStep` and `DownloadStep` show that each step of the
commands is a step of `Tracker` or of `PieceDownload`, or leaves its variables
alone. To these `IInv` adds what ties the commands to them:

- `UploadInv`: what a process does is what it registered, and from the 204 on its
  address is in the peers db; `PortsInv`: no two listen on one port.
- `Budget`: the addresses of a file and the registrations under way are together
  no more than the registrations sent, and no answer has more addresses than
  that. This bounds the connections, so that each has a stream task.
- `CommandInv`: the command asks once; its answer, if it is a 200, is not empty; it
  fetches when it has connected to all of it, so to at least one peer.
- `FetchInv`: only tasks of connections leave their first state, and one that
  failed has a connection that is closed or leads to a file that is not right;
  such a connection stays so, whatever is edited or ended later.

`ListenersAreListed` is `UploadInv` and `PortsInv` with the tracker's
`PeersAreListed`. `StuckOnlyByABadStream` is `BlockedOnlyAfterLoss` of the download
with `CommandInv` and `FetchInv`; the proof would not go through for a torrent
without pieces, which the property now names. `CommandFetchesTheFile` is
`Refinement` of `PieceDownload_proofs`, since `Spec` implements that module's `Spec`.

Theorems: `TypeCorrect`, `Listed`, `StuckOnlyByOthers`, `Fetched`; `IsATracker`, that
the swarm's tracker is one whose clients are the commands, so that all of
`Tracker_proofs` is true of it; and `NobodyIsForgotten`, that the list the command
gets has every address acknowledged for its file before it asked.

### Announce

`RoundTrip` (what is packed is unpacked to itself) and `NothingLost` (bytes that
are not ragged are the packing of what is unpacked from them) are about lists of
any length, by the arithmetic of one index: the byte `k` of a list belongs to the
peer `(k - 1) \div 6 + 1`, and `OnePort` and `TwoBytes` put a port together from its
bytes and apart. The invariant `IInv` says what the query decodes to
(`AsksByName`), that the tracker's answer is the packing of what it has for the
wanted file, and no 200 if it has nothing or its peers db is poisoned
(`AnswersTheQuestion`), and what the client has made of the answer
(`ClientReads`). Theorems: `RoundTrip`, `NothingLost`, `TypeCorrect`, `Understood`,
`NothingMadeUp`.

### PieceBlocks

`IInv` says that in the loop `begin + remain` is the size that was cut, that the
bytes asked for are those from the offset of the piece up to `begin`, and that
`right` was only reached with the bytes of the piece. For a piece that fits,
size and offset are exact, so the next block lies in the piece
(`Inside`), is new (`Disjoint`), and at the end the piece is whole (`Whole`); for one
that does not, the bytes asked for are fewer or in another place, so they are
never those of the piece (`Noticed`). `TypeCorrect` is that nothing leaves its word.

### Only model-checked

Liveness under fairness, which the prover does not treat: `ReturnsUnlessLoss`,
`SurvivorsDrain`, `ListedIsServed`, `SessionProgress`, `UploaderLetsGo`,
`EndlessWaits`, `HealthySwarmDelivers`; and the five refutations.

## 5. What is not modelled

- *A downloader of another program* at this uploader. It may have several
  requests in flight, and then a dropped size is followed by more than one
  message: the items of `PeerSession` would have to become bytes. The uploader
  tells it that it has no pieces (`Bitfield(vec![0])`) in any case.
- *A restart of the tracker.* It forgets all registrations, and an uploader
  registers once: nothing in the code recovers, so there is no property to
  check but that nothing is found.
- *The interactive command.* It lists the files (`ListFiles` of `Tracker`), prompts,
  and ends in `todo!()`.
- *Torrents whose number of pieces does not fit their length.* `PieceBlocks` and
  `PeerSession` take the pieces to be as many as the file needs; the code takes
  the number of hashes, and with too many of them the size of the last is
  negative before it is cut. The tool that makes the torrents writes no such ones.
- *A timeout inside a size or inside a body.* `PeerSession` cancels a receive between
  the two only. At the other awaits so few bytes are left that no answer can come of
  them: the stream stalls or the misread message is refused.
- *IPv6 addresses.* `from_socket_addrs` skips them, but the tracker only makes
  IPv4 ones (`tracker/src/main.rs:214-217`).
- *Two peers of one address, or two trackers.* An answer that lists an address
  twice opens two connections, which `Swarm` has when a place uploads twice;
  there is one tracker per torrent.
- *Left out for good*: HTTP parsing, bencoding, `.torrent` files and SHA-1
  (libraries), UDP beyond its panic, argument parsing, logging.

## 6. Plan

1. The wait-freedom behind the liveness properties as invariants: in each state
   with a task waiting, a step of someone else that is enabled (stated without
   ENABLED), for `PeerSession` and for `PieceDownload`.
2. `Swarm` with the parts of `PeerSession` in place of `Fetch`, if its state space
   allows.
