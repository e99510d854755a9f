# A verification project for mtTorrent

mtTorrent is a BitTorrent client library in C++ (`src/mtTorrent`) with a GUI.
This directory holds TLA+ models of its core, TLC configurations that check
them on small instances, and proofs checked by TLAPS. Paths below are relative
to the repository (`src/`); `Core/X` stands for `src/mtTorrent/Core/X`.

## 1. The system

| Part | State it keeps | Operations | Interacts with |
|---|---|---|---|
| `Core/PiecesProgress` | one flag byte per piece (has, unselected), three counters | add, remove, select, resize, from bitfield | owned by Files (own pieces) and by PeerCommunication (the peer's) |
| `utils/TorrentFileParser`, `Api/InterfaceImpl` | file list with the position of each file's first and last piece | build the list, cut pieces into blocks | read by everything below |
| `Core/Storage`, `Core/Interface` | the files on disk | preallocate, store and load blocks, check stored pieces | WriteCache, Files, Uploader |
| `Core/Files` | selection, progress, `checking`, `checkState`, `lastFileTime` | start, stop, select, check | Torrent, Storage, Downloader |
| `Core/Downloader` | `requests` by piece, `peersRequestsInfo` by peer, `checkingPieces`, suspicion groups | messages of peers, piece checked, selection changed, finish, stop | DownloadStorage, Peers, Files |
| `Core/DownloadStorage` | write cache groups, a pool of two threads, unfinished pieces | store a block, check a piece, flush, stop | Storage, Downloader |
| `Core/FileTransfer` | timers, speeds, piece availability | start, stop, peer evaluation | Downloader, Uploader, Peers |
| `Core/Uploader`, `utils/Bandwidth` | pending requests, available bytes, quota queues | request, assign bandwidth, send | Storage, peers |
| `Core/Torrent` | `started`, `stopping`, `stateMutex`, `stateChanged` | start, stop, save, end of a check, metadata download | all of the above |
| `Core/Peers` | known peers, active connections | connect, add, disconnect, ban, hole punch | PeerCommunication, trackers, DHT |
| `Core/PeerCommunication`, `Core/PeerStream`, `Core/ProtocolEncryption` | handshake and choke state, TCP/uTP/encryption in use | handshake, messages, fallback | Peers, streams |
| `Core/Utp` | sequence numbers, windows, buffered packets | connect, send, resend, acknowledge | UDP |
| `Core/MetadataDownload`, `MetadataReconstruction` | metadata pieces, retry timer | request, receive, retry, stop | Peers, Torrent |
| `Core/TrackerManager`, `*TrackerComm` | trackers, timers, transactions | announce, fail, retry | Peers |
| `Core/Dht` | routing table, lookups | lookup, ping, respond, refresh | Peers |
| `Core/State`, `Core/Core`, `Configuration`, `Alerts`, `Logging` | saved state, settings | load, save | Torrent |
| `utils/ServiceThreadpool`, `ScheduledTimer`, `Tcp*`, `Udp*` | threads, timers, sockets | post, start, stop | everything |

**Concurrency.** Every torrent has a `ServiceThreadpool` (its connections,
timers and posted work), the downloader's storage has a second pool of two
threads, and the user calls the API from a thread of his own. State is guarded
per component (`requestsMutex`, `peersMutex`, `cacheMutex`, `stateMutex`,
`checkStateMutex`), and much of it, `Files::progress` and the flags of Torrent
among them, is also read without any mutex.

**What is hard.** Answers that arrive after the selection, the connection or
the torrent is gone; pieces counted as received before their hash check; data
that are neither in the cache nor on disk while a group is written; checks of
the files that outlive the stop that rejected them; joins of threads under a
mutex; files that share pieces; packets lost, doubled and reordered; an answer
that races with its timeout; a connection that is retried another way while it
is closed; grants of bandwidth that nobody is there to use. `PROJECT.json` lists each hazard at its line.

## 2. The modules

From a torrent's pieces outwards to the network. A module that a run checks has
an `MC` module with its instances next to it.

### PiecesProgress, and PeerProgress on it (`Core/PiecesProgress.cpp`)
The table as a record: the pieces present (`has`), the pieces not selected, and
the three counters exactly as the code maintains them. Every method is an
operator from table to table. Two state machines use it: `TorrentSpec`, the
table of `Files` (selection, received and refused pieces, start of a check),
and `PeerProgress`, the table of a connection (bitfields of any content, repeated
haves, metadata that arrive late), with a history of what the peer has announced
(`announced`) and of a bitfield that met a table shorter than the torrent (`cut`).
Byte sums use the code's formula, for a last piece of either kind.
`MCPiecesProgress` runs one table of each kind side by side. Calls come one at a
time: `Files::select`, on the user's thread, takes none of the locks under which
the downloader changes the same table, and what two such calls do to a counter
at once is not in the model.

### Magnet = Files + Metadata; Files = TorrentLayout + Storage + FilesSelection
A torrent from the link or file it is added with to the blocks on disk.

- `TorrentLayout` (`utils/TorrentFileParser.cpp`, `Api/InterfaceImpl.cpp`):
  operators. The list of files with piece index and position of both ends, the
  size of the last piece and block, the blocks of a piece, the part of a block
  that falls in a file. Sizes are taken modulo `Word` (2^32 in the code) where
  the code narrows to 32 bits.
- `Storage` (`Core/Storage.cpp`, `Core/Interface.cpp`): each file is missing or
  a sequence of units, a unit being a byte whose value says which byte of the
  torrent it is. Preallocation, storing a block; loading is an operator. The
  temporary layout of unselected files that share a piece with a selected one is
  modelled as it is: their first and last parts are put next to each other, and
  when the file grows the last part is moved, to where the code moves it
  (`Moves`; `moved` remembers the file).
- `FilesSelection` (`Core/Files.cpp`): deselecting a file releases its pieces
  except those another file needs, in the way the two loops look for that other
  file.
- `Files` (`Core/Files.cpp`): the three put together: start (which forgets the
  pieces of missing files and allocates nothing when the selection is finished),
  a change of the selection before, while or after the transfer runs, blocks
  stored, pieces received.
- `Metadata` (`Core/MetadataReconstruction.cpp`): the pieces of the metadata and
  the search for the next missing one.
- `Magnet` (`Core/MetadataDownload.cpp`, `Core/Torrent.cpp`, `Core/Core.cpp`):
  a torrent added with its file, or as a link that turns out to be one of
  `MagnetLists`. Connections, extended handshakes, requests answered or
  ignored, the retry timer, which asks only when nothing was asked of anybody for
  five seconds (`quiet`). A data handler tests `state.active` in one step and
  takes the lock in another. A stop of the download has four steps
  (`TestActive`, `ClearActive`, `EndEvent`, `StopPeers`) on the user's thread,
  inside `Torrent::stop`, or on a worker; the event posts the start that
  follows. `races` is a history of the two races of section 4 that lose the
  metadata.

### Downloader (`Core/Downloader.cpp` and the parts it drives)
A handler that runs under `requestsMutex` is one action. A
message is received in two steps, since `PeerCommunication` and
`messageReceived` read and write state before the mutex is taken; the change of
a selection takes four (flags, lists, start of the storage, one evaluation per
peer under the mutex), and a stop may fall between them. A connection is closed in
two: `close()` and the callback; after a stop the callback reaches no listener
(`ConnectionClosedUnheard`), and an entry of `peersRequestsInfo` made since then
stays. `readded` remembers which pieces were added back to the selection.
`Evaluate` stands for `evaluateNextRequests`, in closed form: which
pieces become current and which blocks are sent, given the order of preference
of `getBestNextRequest` and any budget.

Abstractions: one priority for all selected files; the number of requests
pending per peer (5 to 100 in the code, by speed) is any number of
`MinPending..MaxPending`; blocks are correct or bad and a check tells which;
counters are exact (shown and proved for PiecesProgress), so
`selectionFinished()` is a set inclusion; the error status of a check leads to
the same `Stop` as the user's; a storage that is still draining delays the next
start of it. `budget` holds what may still disturb a behaviour, by kind. A run
gives the set of budgets to begin with, so that several disturbances are
covered without the product of all of them. The constants `Plans` and
`Environments` of the modules below do the same.

### WriteCache (`Core/DownloadStorage.cpp`)
The groups of the cache, the order of blocks in them, the pool of threads with
its queue, and the disk. A check reads the cache and then the file in two
steps; a flush writes, then removes the group. Sorting a group while it is read
is a data race: a block is then found, missed, or found half moved. The writes
of a group take effect together, in any order the unstable sort can produce.
A group holds `GroupSize` blocks (64 in the code), a locked file is retried
`MaxRetry` times (5), and no block arrives after the flush of a stop. A piece
whose check fails is requested again.

### TorrentCheck (`Core/Torrent.cpp`, `Core/Files.cpp`)
Threads with program counters: the user, one thread that runs an internal stop,
and the workers of each check of the files (4 in the code, `WorkersCount`
here). Modelled: `stateMutex`, the unsynchronised reads of `started` and
`checking`, the non-atomic count of finished workers, the rejection of a check,
its end, and `service.stop()`, which joins every thread while the mutex is
held. All pieces on disk are good and `checkFiles` is one step.

### Peers (`Core/Peers.cpp`)
`knownPeers`, sorted and grown by every source, and `activeConnections`, which
point into it by index. Each section under `peersMutex` is one action; the
callbacks of a connection are threads of their own with a `step`, and so are
`start` and `stop` of the transfer. Of the transfer the module has its timer
(`transferring`) and the keys of `peersRequestsInfo` (`heard`). A message has three
steps: it loads the listener (`LoadListener`), the listener looks whether the
transfer runs (`TestTimer`), and the peer is entered under `requestsMutex`
(`EnterPeer`); the end of a connection loads the listener and then calls it
(`LoadLastListener`, `TellClosed`). Between them `StartTransfer`, `StopTransfer` and
`ClearTransfer` are what `FileTransfer` and `Downloader` do around the calls of
Peers. `late` remembers a peer that was entered when a stop had ended the
listening. Sources: trackers, PEX, DHT (`DhtSource`
with its search), the user, a negotiator of hole punching, incoming peers.

### PeerStream (`Core/PeerStream.cpp`, `PeerCommunication.cpp`, `ProtocolEncryption*.cpp`, `IncomingPeersListener.cpp`)
Both ends of one connection: the transports that are tried, the fallback to the
other transport, to encryption or away from it, the key exchange, the handshake
and the listener that accepts. A message is a sequence of parts, and a read may
end between any two, which is what the state machines of the encrypted
handshake are about. A part carries its place in the key stream; a reader at
another place reads garbage. The test and the action of `connectionClosed` are
two steps.

### Utp, and the abstract Channel (`Core/Utp/`)
One stream that connects and the streams its SYN may open at the other end.
Sequence numbers wrap at `IdSpace` (2^16 in the code), comparisons are those of
the code, the 32-bit one of `flushReceivedData` included. Selective
acknowledgements, resending after duplicates and after a timeout, FIN, RESET,
both ways of closing. The network loses, doubles and reorders. `Channel` is
what a stream promises to `PeerCommunication`: each end reads what its peer
wrote, in order and each unit once, and a closed end reads nothing. Utp
implements it by the mapping in `Unordered`.

### Dht, with DhtTable and DhtResponder (`Core/Dht/`, `utils/UdpAsyncComm.cpp`)
`DhtTable`: buckets with their cache. `DhtResponder`: what others are answered,
tokens with their two secrets, stored peers with the time of their announcement.
A token is the secret and the sum of the characters of an address
(`CharacterSum`), so addresses with the same sum share it. `clock` counts steps of
time and `refreshTimer` the refreshes to come: one by the start and one by the
timer, which does not set itself again. `Dht`: the queries
GetPeers, FindNode and PingNodes with the requests of each, the list of
searches in `Communication`, and `UdpAsyncComm`: packets that come to the listener
or to the socket of a request, nodes that answer with another identity
(`renamed`), sends that fail, and a timer that takes an
unanswered request out in two steps while answers arrive. `deaf` marks entries
whose timer fired in between and is not set again.

### Trackers (`Core/TrackerManager.cpp`, `Core/*TrackerComm.cpp`, `utils/UdpAsyncWriter.cpp`)
The announce list merged into trackers (UDP with HTTP as its fallback), the
timers, and for each tracker its connection: UDP requests with transaction,
retries and connection id, HTTP and HTTPS streams. What the code posts to the
pool is a bag of tasks, run in any order.

### Bandwidth (`utils/Bandwidth.cpp`, `Core/Uploader.cpp`, `utils/TcpAsyncStream.cpp`)
The manager with its queue, its rounds (`UpdateQuotas` takes requests out,
`AssignBandwidth` tells their users), and the two kinds of users: streams that
read no more than they were granted, and the uploader with the blocks asked of
it. Limits may change or be lifted at any time.

## 3. Runs

| Run | Instance | What it shows |
|---|---|---|
| MCPiecesProgress | 4 pieces, any saved table to begin with; a peer's table next to it; sizes with a short last piece and with a full one | counters and the finished tests are exact, and the downloaded size but for a full last piece; a peer's table shows what it announced, but for a bitfield cut off by an earlier have |
| MCMagnet | pieces of 4 units in blocks of 2; single files of 1 to 9 units, lists of 3 files of 1 or 5 and of 4 files of 1 or 3, a list with a file over three pieces and two with files that end on a boundary; 2 changes of the selection, 2 starts. A link: 2 metadata pieces, 2 peers, one of them steady that may ignore one request | what is read back is what was stored, but for the pieces the code loses (`Lost`); a wanted block never meets a missing file; the wanted pieces are those of the selected files; complete metadata reach the torrent; the download of metadata ends |
| MCDownloaderSafety | 2 pieces (2 blocks and 1), one honest peer, one that sends anything; 2 changes of the selection (a piece left out and added back), 2 bad blocks, a storage error, a bad block with a stop and restart, or a change of the selection with a stop in it | the tables of requests agree, no piece is in two places, a finished download is verified in what stayed selected |
| MCDownloaderLive | the same pieces, one steady peer, one that comes and goes, a stop and restart | the download finishes |
| MCWriteCache | 2 threads, 2 pieces (2 blocks and 1), groups of 2, a locked file or a failed write, a stop and restart | no block is lost, one flush per group, all is on disk after a stop, a stop ends |
| MCTorrentCheck | 2 workers, 2 checks, 4 calls of the user of which 1 check, an internal stop, allocation errors | transfer only in a started torrent; with starts and stops alone, no worker left behind |
| MCPeers | 3 addresses, 2 connections at once, 3 in all, up to 3 messages and 2 stops, twelve plans of what meets what | indexes keep their addresses, no peer is forgotten, no dead connection is kept but for one entered late, no search waited for in vain |
| MCPeerStream | every setting × remote × transports, with two closes, two broken connections, a changed setting, a stopped listener, two threads | both ends end the handshakes with ciphers in step, the end is told once, the side that connects honours the setting, an attempt ends |
| MCUtp | 16 sequence numbers, window of 1, two listeners; wrapping numbers, doubled data or SYN, data lost twice, a lost acknowledgement or SYN, a finish, a close | a refinement of Channel; what was lost is sent again and read |
| MCDht | 4 nodes in one bucket with one place and one cache place; searches for one hash or two, one given up, a refresh, a restart, failed sends, stray answers, a node with another identity; requests of others over three refreshes and a restart, two of their addresses with the same sum | the table keeps its shape, no query waits for a request that nobody ends, every query ends, tokens are good until the second refresh for the addresses with their sum, announced peers live until the first refresh after their time |
| MCTrackers | 1 or 2 trackers, UDP, HTTP and HTTPS, two disturbances each of: lost, late, partial or refusing answers, failed sends, a refresh, a stop and a start | a stopped torrent arms no timer (what was posted may still announce once), no tracker is left without a next step, each is announced to |
| MCBandwidth | 2 streams, 2 peers, 3 blocks, rounds of one unit; a closed connection, a stop, a changed limit, a choke | nobody who waits is forgotten, the rounds' quota bounds what is transferred, everybody is served |

**Why the bounds are enough.** The defects these properties guard against need
two actors on one object (two peers or threads on a piece, two files in a
piece, two queries at a node, a timer and an answer at a request) and one
neighbour that must stay untouched. Two pieces and two peers give each pair of
handlers every order; a piece of two blocks next to one of one block gives a
first, a middle and a last block. Files in units of a quarter of a piece reach
every relation of a file to the pieces at its ends: inside one, over two, and
shared by up to four files. Sixteen sequence numbers keep the few that are
in flight far from half the range, where a comparison turns round, and some of
the first numbers wrap at both ends. A bucket with one place and a cache with one are at their
limits with the third node. Rounds of one unit make every block wait for
several of them. A plan names the disturbances of one behaviour; those that
touch the same state are in one plan together, and a bound stands at every
counter (`Environments`, `Plans`, `Budgets`, `Starts`, `SelectionChanges`).

**What the instances leave out.** A file that starts inside the piece at whose
end it ends, where its size there wraps around, lists whose torrent ends on a
boundary, and empty files (section 4); in MCDownloaderLive bad blocks and changes of the selection; in MCPeers
more than three connections.

`CHECK_DEADLOCK FALSE` stands where the model may stop: a stopped torrent, an
exhausted plan, a query that ended. TorrentCheck and Magnet also reach a
deadlock of the code itself, which section 4 describes.

**Fairness.** The threads of the program are weakly fair: a handler whose
mutex is free runs, posted work is run, the operating system schedules every
thread. Some modules write this as `[]<>(nothing to do) \/ []<><<it is
done>>_vars`, the weak fairness of an action whose guard is the first part,
which TLC checks faster. What else is assumed:

- `Downloader`: a *steady* peer connects, tells its pieces, unchokes a peer that
  is interested and answers what it is asked. Its steps are strongly fair, since
  other handlers disable and enable them. Nothing is assumed of other peers, of
  the user or of the file system.
- `Magnet`: a stop that began goes on (`StopStep`), the steady peer connects,
  sends its handshake and answers what it does not ignore, and the retry timer
  fires (`ScheduledTimer` every five seconds) once nothing was asked for five
  seconds. `Silence` says that such five seconds come; every request puts them
  off, and other peers that go on connecting could do so for ever, which is why
  `MetadataArrives` speaks of what follows their last handshake. Their other
  requests are as many as there are pieces.
- `Utp`: what the network has is read by its stream or thrown away by the
  manager, the timer of the manager finds an unacknowledged packet
  (`refresh`, every half second). Losses are bounded by the environment.
- `Dht`: a packet on its way arrives, `checkTimeout` goes on, timers fire.
- `Trackers`: the posted calls run, timers fire, an answer that was not lost
  comes (the plan bounds the losses).
- `Bandwidth`: the manager's timer runs its rounds while requests wait, and
  posted calls run.
- `PeerStream`: a connection attempt ends (10 s), a stream that receives nothing
  is closed (60 s for TCP, 30 s for uTP), what was written arrives.

## 4. Other behaviours seen while modelling

What the code does besides, and where the model or its bounds meet it. A
property that would state the opposite is false of the code; the properties of
section 3 name the cases they exempt.

**Pieces and files**

| What | Where | In the model |
|---|---|---|
| a full last piece has size 0 | `Core/PiecesProgress.cpp:40` | `FullLastPiece` in `TablesTold` |
| a have message before the metadata gives the table of the peer a size; a bitfield after it is cut off there, and a peer that has everything is no seed | `Core/PiecesProgress.cpp:155`, `:202` | `cut`, exempt in `SeedExact` |
| `Files::select` changes the table without the locks of the downloader | `Core/Files.cpp:92` | each call is one step |
| the last piece of a list of files that ends on a boundary has size 0, too, and so its blocks | `utils/TorrentFileParser.cpp:236` | `BlocksCount` of TorrentLayout |
| a file that ends on a piece boundary has position 0 in its last piece, whose blocks are cut to nothing | `utils/TorrentFileParser.cpp:215` | `Lost`, exempt in `ReadBack` |
| the same for a file that starts in its last piece: the size there wraps around | `Core/Storage.cpp:278`, `utils/TorrentFileParser.cpp:215` | no list has such a file |
| a temporary file that grows: its end piece is written at the last byte of the file, which becomes too long; what was in its pieces but the first is lost | `Core/Storage.cpp:543` | `Lost`, exempt in `ReadBack` |
| of three files in one piece a selected one loses it when a neighbour is deselected (the loop goes backwards) | `Core/Files.cpp:131` | `SelectionExact` without `AtMostTwoFilesInAPiece` |
| an empty file that is not selected is never allocated; its piece is dropped at each restart | `Core/Files.cpp`, `Core/Storage.cpp` | no list has an empty file |
| a peer without a wanted piece is not asked when the selection grows | `Core/Downloader.cpp:469` | `DownloadFinishes` with changes of the selection |
| a piece refused at the end is requested again only when a message of a peer comes | `Core/Downloader.cpp:199` | `DownloadFinishes` with a bad block |
| a posted `finish` stops the storage of an extended selection | `Core/Downloader.cpp:210` | `readded`, exempt in `StorageRuns` |
| a deselected piece is received without a check, then selected | `Core/Downloader.cpp:301` | `readded`, exempt in `ReceivedVerified` and `FinishedVerified` |
| a block that comes after the last flush of a stopped storage (of a piece added back, or asked for by a message after the stop) is dropped | `Core/DownloadStorage.cpp:12` | WriteCache has no block after the flush |
| two copies of a block in one group, the bad one written last | `Core/Storage.cpp:104` | `NothingLost` without `badStored = 0` |
| a group whose write failed is dropped | `Core/DownloadStorage.cpp:156` | `NothingLost` without `failed = 0` |

**The life of a torrent**

| What | Where | In the model |
|---|---|---|
| two workers count at once, and the check never ends | `Core/Files.cpp:387` | `LoadFinished`, `CountFinished` of TorrentCheck |
| a stop joins the thread that waits for the mutex the stop holds | `Core/Torrent.cpp:335` | `JoinService` of TorrentCheck; in Magnet a stop by the user while the end of the metadata has posted a start |
| a check that ends before `started` is set stops the torrent being started | `Core/Torrent.cpp:175` | `RefreshAfterChecking` before `Activate` takes the branch `stop` |
| a check asked for in a stopped torrent outlives `stop` | `Core/Torrent.cpp:323` | `WorkersJoined` without its premise |
| the end of a rejected check clears the flag of the next | `Core/Files.cpp:358` | `WorkersJoined` without its premise |
| a stop in the middle of a check makes the next start skip it | `Core/Torrent.cpp:126` | `EndStop` sets `current` while `progress` is empty |
| metadata completed by a handler that had seen the download active before a stop never reach the torrent | `Core/MetadataDownload.cpp:107` | `races`, `late` |
| two stops both see the download active; the second parses a buffer that was moved away, and the files are lost | `Core/MetadataDownload.cpp` | `races`, `twice` |
| a start between the end of the download and its event begins a transfer with no files, which the posted stop leaves without a listener | `Core/Torrent.cpp:232` | exempt in `StoreNeverFails` (`posted = 0`) |
| the timer that asks again is put off by every request to any peer | `Core/MetadataDownload.cpp:30` | `quiet`; the premise of `MetadataArrives` |
| metadata are not compared with the hash of the link; the first size announced stays | `Core/MetadataReconstruction.cpp` | `Sized` |

**Peers and connections**

| What | Where | In the model |
|---|---|---|
| a peer whose connection failed is not tried again before another connection ends 30 s later, or new peers are learned | `Core/Peers.cpp:129` | `NoPeerForgotten` is about peers never tried |
| a message that passed its tests before a stop enters its peer after it; nobody removes the pointer, and the next change of the selection uses it (the requests that the uploader keeps are of the same kind) | `Core/Downloader.cpp:417`, `:475` | `late`, exempt in `HeardIsAlive`; in Downloader the freed memory reads as it was or as a choking peer |
| one address may be connected twice; `add` and hole punching pass the limit of connections | `Core/Peers.cpp` | two entries of `active` |
| a refused second connection is opened anew, again and again | `Core/PeerStream.cpp:296`, `:387` | exempt in `AttemptEnds` |
| an answer of the key exchange read in two parts moves the cipher on twice; the connection hangs until its timeout | `Core/ProtocolEncryption.cpp:337` | exempt in `HandshakeEnds` (`rcIn > 0`) |
| a plain handshake of an incoming peer read in two parts is refused | `Core/IncomingPeersListener.cpp:183` | `ReceiveIn` of PeerStream |
| `close()` between the tests and the action of `connectionClosed` is lost | `Core/PeerStream.cpp:277` | `stream.late` |
| the end that accepts never looks at the encryption setting: with Require a plain handshake is answered in the clear | `Core/IncomingPeersListener.cpp` | `EncryptionHonoured` is about the end that connects |
| a close between the two halves of `handle_connect` is overwritten by `Connected`, and `startReceive` then uses a timer that is gone | `utils/TcpAsyncStream.cpp:150`, `:203` | not modelled: the two take turns |
| two pool threads may swap two posted writes | `utils/TcpAsyncStream.cpp:67` | `swapped` |
| a peer gone before it is accepted stays in `pendingPeers` | `utils/TcpAsyncServer.cpp:34` | `incoming.dead` |
| Interested and NotInterested set each other's flag | `Core/PeerCommunication.cpp:391` | not modelled |

**Network**

| What | Where | In the model |
|---|---|---|
| the packet numbered 0, stored behind a gap, is never read, and hides selective acknowledgements (32-bit comparison) | `Core/Utp/UtpStream.cpp:829` | `Undisturbed` excludes numbers that wrap |
| a repeated SYN opens a second stream; a close by the owner sends no FIN; duplicates are not acknowledged again | `Core/Utp/` | `Undisturbed`, `Closed` |
| the timer of a request that fires while its entry is taken out is never set again | `utils/UdpAsyncComm.cpp:313` | `deaf`, exempt in `QueriesEnd` |
| an answer meant for another query to the same node makes GetPeers forget its request | `Core/Dht/Query.cpp` | `stray` |
| an announce token is the secret plus the characters of the address: 1.2.3.4 and 4.3.2.1 share it | `Core/Dht/Responder.cpp:257` | `CharacterSum` |
| the table is refreshed at the start and once more: the timer returns 0 and is not set again, so tokens stay good and announced peers stay stored | `Core/Dht/Communication.cpp:58`, `utils/ScheduledTimer.cpp:48` | `refreshTimer` |
| loading the table again doubles its nodes | `Core/Dht/Table.cpp` | `TableConsistent` allows two after a restart |
| a restart of DHT drops its searches without telling `DhtSource`, which waits for ever | `Core/Dht/Communication.cpp` | the DHT restarts in Dht, not in Peers |
| the answer to a request for nodes mixes v6 nodes into `nodes` | `Core/Dht/Responder.cpp` | not modelled |
| an HTTP tracker is announced to once; an HTTPS answer of a multiple of 512 bytes hangs | `Core/HttpTrackerComm.cpp`, `Core/HttpsTrackerComm.cpp` | `Asleep`, `stream = "live"` |
| a start of all trackers, or the restart of a fallback, posted before a stop announces after it | `Core/TrackerManager.cpp:16`, `:151` | in Trackers; `StoppedSetsNoTimer` is about timers |
| a refresh while a UDP tracker connects opens two requests, and the second answer is read as a connection id | `Core/UdpTrackerComm.cpp` | exempt in `TrackerAnnounced` |
| the close that ends a request may pass a write posted after it | `utils/UdpAsyncWriter.cpp` | `socket = "deaf"` |
| `sendRequests` that is granted bandwidth at once leaves its block until the next request | `Core/Uploader.cpp:71` | `GrantedAtOnce` |

## 5. Proofs

Every theorem holds for any values of the constants that satisfy the named
assumption of its module. Each rests on an inductive invariant; where the
property is not inductive the text says what is added and why. Liveness stays
with TLC.

`TorrentCheckProofs` proves, for any number of workers and any client:

- `TransferOnlyStarted`: file transfer runs only while the torrent is started.
  The flags alone say nothing of it, since `start` and `stop` each set two of
  them with steps of other threads in between. The invariant adds what makes it
  true: the mutex is held by exactly the thread that is inside one of them, and
  each place inside fixes the flags seen there (`MutexInv`).
- `TypeCorrect`: the types, of which one conjunct is not a matter of form: the
  count of finished files never passes the number of workers. The workers read
  and write it in two steps without a lock; an update can be lost but never
  gained, so the count is at most the number of workers past their store, and
  so is every value read (`CountBounded`).
- `StopsJoinWorkers` (`WorkersJoined`): a stop leaves no worker of a check behind.
  `JoinInv` says where a worker can be while a check is current, rejected or
  over, for a client that only starts and stops (what else the client may call
  is exempt in the property, too).

The first two follow from `CheckInv == MutexInv /\ CountBounded`. Most actions
move one thread outside the mutex and change no flag: `MovePreserves` and
`MoveAlone` say so once and the actions cite them; `CountPreserves` treats the
finite set of workers that have counted.

`DownloaderProofs` proves, for any pieces, blocks and connections:

- `TablesAgree` (`RequestsConsistent`): the request of a piece and what the
  downloader holds of each peer say the same.
- `PieceInOnePlace` (`NoPieceTwice`): a piece is requested, or received and in
  one check at most; `checkingPieces` is the number of checks.
- `EndOfDownload` (`FinishedVerified`): when the storage is stopped at the end of a
  download, every piece that was selected all the time (`Throughout`) has passed
  its check. A piece added back is left out, since it may have been received
  unchecked while it was deselected. `EndParts` adds that the threads of the
  storage rest only when nothing is left (`ThreadsRest`), until a piece is added
  back; that a selected piece that is there has passed, or waits for, its check
  (`Passed`); and that no block waits for the mutex at a peer the downloader knows
  while the transfer is stopped (`StopForgets`).

The invariant `DownloadInv` of the first two joins both, since a piece that
completes must not be there yet for its check to be the only one, and adds the
types and one fact about the mutex: the peers `refreshSelection` still goes
through are known (`Known`), because nobody can leave while it is held. One
lemma, `EvaluateKeeps`, treats `evaluateNextRequests` for any tables a handler
passes to it; each handler then has to show that the tables it prepared agree.

It also holds the proofs of the piece table, for any number of pieces and any
sizes:

- `TorrentTypeCorrect`, `TorrentCountersExact`: types and counters of the own
  table. The invariant is their conjunction; the counters say that
  `receivedPiecesCount`, `selectedPieces` and `selectedReceivedPiecesCount` are
  the cardinalities of the sets they count, and one lemma per operation follows
  from the cardinality of a set with one element more or less. `select` is the
  exception: it recounts, so its lemma needs nothing of the state before.
- `TorrentSelectionFinishedExact`: `selectedFinished()` compares two counters;
  from the above and from the fact that a subset of equal cardinality is the
  whole set it says that every selected piece is there.
- `TablesTellTheTruth` (`TablesTold`): a peer's table of the torrent's size holds
  what the peer announced, but for a bitfield that was cut off, and the size shown as
  downloaded is that of the pieces that are there. It holds for a short last piece
  and for a full one, of which `getReceivedBytes` takes the length as a remainder,
  0: the property subtracts it.

`WriteCacheProofs` proves, for any groups, blocks, pieces and pool threads:

- `GroupsFlushOnce` (`OneFlush`): `FlushInv` says that a flush of a group is queued
  or held by one thread and never both, that it finds blocks in a group of the
  list, and that it is there whenever the group is full or the storage stops;
  and that a stopped pool has left nothing.
- `BlocksAreKept` (`NothingLost`): `KeepInv` adds where each stored block is. The
  step that needs more is the one between writing a group and removing its
  blocks: what a thread has written is in the files (`WrittenOnDisk`).

It also holds the proof about Bandwidth, for any streams, peers, limits and sizes:

- `NobodyIsForgotten` (`UsersAwake`): the property counts the requests of a stream
  that waits, in the queue and among what a round gives out. A count is not
  inductive, so `BandwidthHolds` says where they are: at one place of the queue, or
  at one place of the round's list, and nowhere unless the stream waits
  (`StreamWaits`). A round picks its requests out of the queue with folds;
  `Picked` is what every such fold keeps of the order and of who has a request.
  That a channel never has less than nothing is part of the types and needs the
  arithmetic of a round: equal shares, each the quota divided by the number of
  active requests, are together no more than the quota (`SharesFacts`), and a
  request is never assigned more than it asked for. For the uploader it says who
  will send the blocks that wait (`BlocksCovered`), with the grant at once that the
  code forgets as the one exemption of the property (section 4).
- `QuotaIsConserved` (`QuotaConserved`), an action property: under a limit no step but
  a round adds to what the manager has, has on its way or has given, and a round
  adds its quota at most. The sums over requests are written as weights
  (`Weight`): a fold that picks requests weighs what the picked ones weigh in the
  whole (`ThoseWeight`), so the queue splits into the requests that wait, those that
  are served and those that are gone (`PartsGiven`). What a round shares out on a
  channel is what it assigns (`RoundIsGiven`), what it gets back is what the gone ones
  had (`ReturnsAreGiven`), which leaves one round's quota (`RoundAdds`). The sum over
  the streams comes from a `CHOOSE` on sets of streams; two such sums differ by what
  one stream's quota does (`SumChanges`, by induction on the number of streams). A
  request granted at once takes from its channel what it gives (`RequestKeeps`).

`PeersProofs` proves, for any addresses and connections, from one invariant
`PeersInv`, because each part needs the others:

- `IndexesHold` (`ActiveIndexes`): connections keep indexes into a list that grows;
  a place is taken exactly when one connection holds it.
- `NobodyIsForgotten` (`NoPeerForgotten`): as long as there is room, a peer that
  was never tried has somebody about to call `connectNext`.
- `HeardStaysAlive` (`HeardIsAlive`): the transfer keeps no peer whose last
  callback has run, except one that a message entered when a stop had ended the
  listening. What is active has not ended, and without a listener everybody the
  transfer has heard of came that late (`Alive`), but for the steps of a stop
  between telling the ends and clearing the tables (`Clearing`). So a peer that
  ends with a listener is taken out by its callback, and without one was cleared
  or is `late`.
- `DhtWaitsForSearch` (`DhtSearches`): a `DhtSource` that waits has a search.

It also holds the proofs of Trackers, for any announce list, any imports and any
number of starts, stops, refreshes (one at most is left, a bound of the model) and
disturbances:

- `StoppedTrackersSetNoTimer` (`StoppedSetsNoTimer`): no timer is armed while stopped.
- `TrackersStayAwake` (`TrackerAwake`): no tracker of a started torrent is left without
  a next step.
- `TrackerTypesHold`: the types, with at most two requests of a tracker.

`TrackersInv` holds of each tracker by itself (`Kept`). That something wakes a tracker
is not inductive for UDP: the answer that ends a request may find a second one
without its timer. The invariant therefore counts what leads to a next step
(`Tokens`): requests, an armed timer, and the calls "fail" and "announce" that the
tracker of now has posted. Every step spends one to make one, a refresh adds one,
and so there are two at most and the folds over `pending` go over two requests.
Calls posted by a tracker that was replaced are told apart by its number and
wake nobody (`Wakes`). Most steps change one tracker and are shown to be a `Turns`
of it: types kept, tokens not more, awake again.

`PeerStreamProofs` proves, for any settings, remote sides, closes and breaks:

- `EndIsToldOnce` (`GoneIsTold`): `ToldInv` relates the state of the transport to
  what `connectionClosed` has decided and not done yet (`handling`) and to the
  calls made. A transport has no end of its own while its predecessor's is
  being handled, which is why one call is enough and never two.
- `CloseIsHonoured` (`CloseHonoured`): `CloseInv` adds what holds before the first
  transport (`BeforeOpen`): a close then refuses the connection.
- `EncryptionIsHonoured` (the action property `EncryptionHonoured`): `EncInv` types the
  two ends and keeps what the setting made of the first message (`FirstKept`,
  `FirstHonoured`): with Require nothing is left to retry without encryption, since
  what ends a key exchange has been received. What is posted later answers what
  was read, through every state of the encrypted handshake (`Reads`,
  `OnlyAnswers`).
- `StreamTypesHold`: the types of all that, the place in the key stream included.

`MagnetProofs` proves `MetadataReachesTorrent` (`MetadataKept`) for any pieces,
peers and starts: a finished download keeps its pieces (`FinishedIsComplete`), and
whoever ends it hands them over. A link whose torrent has no file is excluded by
`MagnetAssumption`.

`DhtProofs` proves, for any nodes, buckets, queries, limits and packets:

- `PromisesAreKept` (`AnnouncesHonoured`): secrets are the numbers of the last two
  refreshes, and a token carries the one of its time and the sum of its address
  (`Tokens`); the time of a stored peer is that of its last announcement, and a peer
  that is not stored was older than `Expiry` at the last refresh (`Promise`).
  Nothing is assumed of when refreshes come; that there are two after a start is
  in the model, not in the theorem.
- `TableStaysConsistent` (`TableConsistent`): stated for each bucket as positions
  that never name a node twice (three times after the table was loaded over
  the old one), disjoint from a cache that is empty unless the bucket is full.
- `RequestsStayPending` (`RequestsPending`): whatever a query counts is waited for.
  The property is not inductive: a callback runs while its request is taken out
  of the queue. `Good(w, rest, twice)` therefore speaks of the record a callback
  works on and of the requests taken out and not tried yet (`rest`); each step
  of a callback keeps it for any `rest`, an answer for `rest` with and without
  its own request, since a request that did not take the packet is put back.
  A search forgets a request by node, the other queries by number, so what is
  kept is a count for the one and the very request for the others (`Watched`).

Both of the last two follow from `WorkInv`. A packet is tried by a fold over the
requests taken out, so the proof needs what holds after any of them have tried
(`PacketTaken`).

`ListTheorems` holds what several of these need of sequences and folds. A fold is
`CHOOSE` of a function on sets of positions, and nothing is known of it until a
function that satisfies its equation is shown to exist (`FoldExists`); `FoldStays`
(for the sets `1 .. k`) and `FoldStaysAt` (for any set of positions) say what the
function keeps when each step keeps it. The induction is that of numbers, through
a least counterexample (`SmallestIn`, from the well-foundedness of `<`), or up to a
bound for a set of numbers (`UpTo`).

Only model-checked:

- `SelectionExact`, `ReadBack`, `StoreNeverFails`: the layout is a sum over the
  sizes of the files (`Offset`, an induction over data) and products, `\div` and
  `%` of these sums. They are also stated for the lists of sizes of MCMagnet,
  whose conditions the code does not impose on a torrent, so a theorem for every
  list would need an assumption the code does not justify.
- `HandshakeEnds` of PeerStream, and its liveness.
- Utp: its invariant and the refinement of Channel, checked on the instances of
  MCUtp.
- Every property under fairness, which the prover cannot treat.

## 6. Not modelled

- **Parsing, text and arithmetic**: bencode, URIs, messages of trackers and DHT,
  the digits of large numbers, hashes and ciphers. They are sequential, and the
  repository tests them; what a message carries is modelled where the protocol
  depends on it.
- **Saved state** (`Core/State.cpp`): a text file written and read in one call
  each. When it is written is part of TorrentCheck; that a full size is read
  back as 32 bits is not in any module.
- **GUI, SDK example, tools, UPnP, logging, configuration, alerts**: no state the
  torrents depend on, or I/O with others.
- **The order of two mutexes.** A handler under a mutex is one action, so two
  threads that take two mutexes in opposite orders do not meet in a model. The
  code has such pairs: `peersMutex` and `requestsMutex`
  (`Core/FileTransfer.cpp:250` against `refreshPieceSources`), and the mutexes of
  `dht::Communication::stop` against those of an answer.
- **Time and speed**: the choice of peers and the number of requests by speed,
  the window of uTP and its search for the MTU, estimates for display. Timers
  may fire whenever what they wait for allows it.
- **Name resolution, proxies, TLS**, and hole punching's own messages.
- **Undefined behaviour outside WriteCache and TorrentCheck**: the pointer to a
  tracker in a vector that is growing, `Table::empty` under a mutex of its own.

## 7. Plan

1. Proofs: `HandshakeEnds` for PeerStream, and the steps of Utp under the mapping to
   Channel.
2. Locks as variables, for the pairs named in section 6: a module with one
   program counter per thread and the mutexes it holds.
3. WriteCache with Downloader: a good piece that fails its check because a group
   is sorted meanwhile, and the ban that follows.
4. Saved state: State and UnfinishedPieces with Storage, and a crash between a
   write of the data and one of the state.
5. The files left out of the lists of MCMagnet, whose sizes wrap around.
6. Files::select against the Downloader on one table, with the updates of a byte
   and of a counter as two steps each.

A new module gets one run with several properties.
