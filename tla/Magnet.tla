-------------------------------- MODULE Magnet --------------------------------
(***************************************************************************)
(* A torrent from the file or the magnet link it is added with to the       *)
(* blocks on disk: the files (Files), the metadata that a magnet link still *)
(* has to ask peers for (Metadata, mtt::MetadataDownload), the starts and   *)
(* stops of the user, and the tasks of the service that interleave with     *)
(* them: handlers of messages, the retry timer, the stop and the start that *)
(* follow the last piece.                                                   *)
(*                                                                          *)
(* A stop of the download is four steps, on the user's thread (within       *)
(* Torrent::stop, which holds Torrent::stateMutex) or on a worker.  The     *)
(* checks of the files are in TorrentCheck.                                 *)
(***************************************************************************)
EXTENDS Files, Metadata

CONSTANTS
    SizeLists,      \* torrents added with their file
    MagnetLists,    \* torrents that a magnet link may turn out to be
    MetadataPeers, Steady,  \* peers; one stays connected and answers
    SelectionChanges,   \* bound: changes of the selection of a torrent with its file
    Starts,         \* bound: starts of the torrent
    MaxAsked,       \* bound: requests a peer has not answered
    MaxIgnored      \* bound: requests the steady peer ignores

ASSUME MagnetAssumption ==
    /\ Steady \in MetadataPeers /\ MaxAsked \in Nat \ {0}
    /\ \A list \in MagnetLists : Len(list) \in Nat \ {0}    \* a torrent has a file

VARIABLES
    loaded,     \* loadedState is Full
    utm,        \* utmDl: whether it exists, its state and metadata
    comms,      \* activeComms
    link,       \* connections of Peers: none, connected, or ready for ut_metadata
    asked,      \* requests on their way to each peer, or their answers back
    handling,   \* the piece a data handler holds that has seen the download active
    ignored,    \* requests ignored so far
    quiet,      \* lastActivityTime is more than five seconds ago
    listener,   \* Peers::listener
    stage,      \* where the user's and the posted stop are
    posted,     \* calls of Torrent::start posted by the end of the download
    races       \* races that took place, see MetadataKept

metadataVars == <<utm, comms, link, asked, handling, ignored, quiet>>
threadVars == <<listener, stage, posted, races>>
vars == <<filesVars, loaded, metadataVars, threadVars>>

Threads == {"user", "pool"}
At(t, where) == stage' = [stage EXCEPT ![t] = where]
Nobody == [p \in MetadataPeers |-> "none"]
NothingAsked == [p \in MetadataPeers |-> <<>>]
NothingHandled == [p \in MetadataPeers |-> NoPiece]

-------------------------------------------------------------------------------
(* Core::addFile, and Core::addMagnet, which begins the download of the      *)
(* metadata without starting the torrent.                                   *)
Init ==
    /\ \/ /\ files \in {FilesOf(list) : list \in SizeLists} /\ loaded = TRUE
          /\ utm = [exists |-> FALSE, active |-> FALSE, finished |-> FALSE,
                    metadata |-> NoMetadata]
          /\ listener = "none" /\ changes = SelectionChanges
       \/ /\ files = <<>> /\ loaded = FALSE
          /\ utm = [exists |-> TRUE, active |-> TRUE, finished |-> FALSE,
                    metadata |-> NoMetadata]
          /\ listener = "metadata" /\ changes = 0
    /\ InitFiles /\ starts = Starts
    /\ comms = <<>> /\ link = Nobody /\ asked = NothingAsked
    /\ handling = NothingHandled /\ ignored = 0 /\ quiet = TRUE
    /\ stage = [t \in Threads |-> "idle"] /\ posted = 0 /\ races = {}

-------------------------------------------------------------------------------
(* MetadataDownload and its peers. *)

\* requestPiece for a list of peers; a request to a closed connection is lost,
\* and so is one too many to a peer that never answers.
RequestPiece(state, p) ==
    LET search == MissingPiece(state.metadata)
    IN IF ~ utm.active \/ Complete(state.metadata) \/ Len(state.asked[p]) = MaxAsked
       THEN state
       ELSE [metadata |-> [state.metadata EXCEPT !.next = search.next],
             asked |-> IF link[p] = "none" \/ search.index = NoPiece THEN state.asked
                       ELSE [state.asked EXCEPT ![p] = Append(@, search.index)]]

RequestPieces(metadata, queues, from) ==
    LET after == FoldLeft(RequestPiece, [metadata |-> metadata, asked |-> queues], from)
    IN /\ utm' = [utm EXCEPT !.metadata = after.metadata]
       /\ asked' = after.asked
       /\ quiet' = (quiet /\ (~ utm.active \/ Complete(metadata) \/ from = <<>>))

Connect(p) ==
    /\ listener = "metadata" /\ link[p] = "none"
    /\ link' = [link EXCEPT ![p] = "connected"]
    /\ UNCHANGED <<filesVars, loaded, utm, comms, asked, handling, ignored, quiet,
                   threadVars>>

ExtendedHandshakeFinished(p) ==
    /\ listener = "metadata" /\ link[p] = "connected"
    /\ link' = [link EXCEPT ![p] = "ready"]
    /\ comms' = Append(comms, p)
    /\ RequestPieces(Sized(utm.metadata), asked, <<p>>)
    /\ UNCHANGED <<filesVars, loaded, handling, ignored, threadVars>>

Dropped(p) ==
    /\ link' = [link EXCEPT ![p] = "none"]
    /\ asked' = [asked EXCEPT ![p] = <<>>]
    /\ comms' = RemoveFirst(comms, p)
    /\ UNCHANGED <<filesVars, loaded, utm, handling, ignored, quiet, threadVars>>

ConnectionClosed(p) ==
    /\ p # Steady /\ link[p] # "none"
    /\ Dropped(p)

\* A peer that has the metadata answers (FileTransfer); the data message is
\* dropped when the download is not active any more, and else its handler goes
\* on to wait for the lock.
ReceiveData(p) ==
    /\ asked[p] # <<>> /\ handling[p] = NoPiece
    /\ asked' = [asked EXCEPT ![p] = Tail(@)]
    /\ handling' = [handling EXCEPT ![p] = IF utm.active THEN Head(asked[p]) ELSE NoPiece]
    /\ UNCHANGED <<filesVars, loaded, utm, comms, link, ignored, quiet, threadVars>>

\* One that does not have it yet ignores the request (FileTransfer).  The
\* others may never answer, or refuse.
Ignore ==
    /\ asked[Steady] # <<>> /\ ignored < MaxIgnored /\ ~ utm.finished
    /\ ignored' = ignored + 1
    /\ asked' = [asked EXCEPT ![Steady] = Tail(@)]
    /\ UNCHANGED <<filesVars, loaded, utm, comms, link, handling, quiet, threadVars>>

ReceiveReject(p) ==
    /\ p # Steady /\ asked[p] # <<>> /\ handling[p] = NoPiece /\ utm.active
    /\ Dropped(p)

\* The handler with the lock.  A buffer the torrent has taken has no size, so
\* that no message fits it; the last piece posts the stop, and nothing is asked
\* for any more (next = 0).
HandleData(p) ==
    LET added == AddMetadata(utm.metadata, handling[p]) IN
    /\ handling[p] # NoPiece
    /\ handling' = [handling EXCEPT ![p] = NoPiece]
    /\ IF utm.metadata.buffer = "taken"
       THEN UNCHANGED <<utm, asked, quiet, stage, races>>
       ELSE IF Complete(added)
       THEN /\ utm' = [utm EXCEPT !.metadata = [added EXCEPT !.next = 0], !.finished = TRUE]
            /\ IF utm.finished THEN UNCHANGED stage ELSE At("pool", "posted")
            /\ races' = races \cup IF utm.active \/ utm.finished THEN {} ELSE {"late"}
            /\ UNCHANGED <<asked, quiet>>
       ELSE /\ RequestPieces(added, asked, <<p>>)
            /\ UNCHANGED <<stage, races>>
    /\ UNCHANGED <<filesVars, loaded, comms, link, ignored, listener, posted>>

\* Five seconds pass without a request.
Silence ==
    /\ ~ quiet
    /\ quiet' = TRUE
    /\ UNCHANGED <<filesVars, loaded, utm, comms, link, asked, handling, ignored,
                   threadVars>>

\* retryTimer, every five seconds
RetryTimer ==
    /\ utm.active /\ ~ utm.finished /\ quiet
    /\ RequestPieces(utm.metadata, asked, comms)
    /\ UNCHANGED <<filesVars, loaded, comms, link, handling, ignored, threadVars>>

-------------------------------------------------------------------------------
(* MetadataDownload::stop, by the user's thread or as the posted task. *)

TestActive(t) ==
    /\ stage[t] = (IF t = "pool" THEN "posted" ELSE "stopping")
    /\ At(t, IF utm.active THEN "active" ELSE IF t = "pool" THEN "idle" ELSE "transfer")
    /\ UNCHANGED <<filesVars, loaded, metadataVars, listener, posted, races>>

ClearActive(t) ==
    /\ stage[t] = "active"
    /\ utm' = [utm EXCEPT !.active = FALSE]
    /\ At(t, "end")
    /\ UNCHANGED <<filesVars, loaded, comms, link, asked, handling, ignored, quiet,
                   listener, posted, races>>

\* Torrent::downloadMetadata: what the torrent does with the event End.  The
\* buffer is moved; a second End finds none and reads an empty torrent.  A
\* torrent that is active, not stopping yet, is started again with its files.
TakeMetadata ==
    /\ loaded' = TRUE
    /\ files' \in IF utm.metadata.buffer = "taken" THEN {<<>>}
                ELSE {FilesOf(list) : list \in MagnetLists}
    /\ utm' = [utm EXCEPT !.metadata.buffer = "taken"]
    /\ Initialize
    /\ posted' = IF started /\ stage["user"] # "join" THEN posted + 1 ELSE posted
    /\ races' = races \cup IF utm.metadata.buffer = "taken" THEN {"twice"} ELSE {}

EndEvent(t) ==
    /\ stage[t] = "end"
    /\ At(t, "peers")
    /\ comms' = <<>>
    /\ IF Complete(utm.metadata) THEN TakeMetadata
       ELSE UNCHANGED <<contentVars, loaded, utm, posted, races>>
    /\ UNCHANGED <<link, asked, handling, ignored, quiet, torrentVars, listener>>

\* Peers::stop
DropPeers ==
    /\ listener' = "none"
    /\ link' = Nobody /\ asked' = NothingAsked /\ comms' = <<>>

StopPeers(t) ==
    /\ stage[t] = "peers"
    /\ At(t, IF t = "pool" THEN "idle" ELSE "transfer")
    /\ DropPeers
    /\ UNCHANGED <<filesVars, loaded, utm, handling, ignored, quiet, posted, races>>

-------------------------------------------------------------------------------
(* Torrent::start and Torrent::stop. *)

StateMutexFree == stage["user"] = "idle"

\* Torrent::start, with the lock: a download of metadata that runs goes on, one
\* that was stopped is begun again and leaves the torrent not started.
StartTorrent ==
    IF utm.active
    THEN /\ started' = TRUE
         /\ UNCHANGED <<contentVars, transfer, changes, utm, listener>>
    ELSE IF utm.exists /\ ~ utm.finished
    THEN /\ utm' = [utm EXCEPT !.active = TRUE]
         /\ listener' = "metadata"
         /\ UNCHANGED <<contentVars, started, transfer, changes>>
    ELSE /\ IF loaded THEN StartFiles
            ELSE UNCHANGED contentVars
         /\ started' = TRUE
         /\ transfer' = TRUE
         /\ listener' = IF transfer THEN listener ELSE "transfer"
         /\ UNCHANGED <<changes, utm>>

Start ==
    /\ StateMutexFree /\ ~ started /\ starts > 0
    /\ starts' = starts - 1
    /\ StartTorrent
    /\ UNCHANGED <<loaded, comms, link, asked, handling, ignored, quiet, stage,
                   posted, races>>

StartPosted ==
    /\ StateMutexFree /\ posted > 0
    /\ posted' = posted - 1
    /\ StartTorrent
    /\ UNCHANGED <<starts, loaded, comms, link, asked, handling, ignored, quiet,
                   stage, races>>

Stop ==
    /\ StateMutexFree /\ (started \/ utm.active)
    /\ At("user", IF utm.exists THEN "stopping" ELSE "transfer")
    /\ UNCHANGED <<filesVars, loaded, metadataVars, listener, posted, races>>

StopTransfer ==
    /\ stage["user"] = "transfer"
    /\ IF started
       THEN /\ At("user", "join")
            /\ transfer' = FALSE
            /\ DropPeers
       ELSE /\ At("user", "idle")
            /\ UNCHANGED <<transfer, listener, link, asked, comms>>
    /\ UNCHANGED <<contentVars, started, changes, starts, loaded,
                   utm, handling, ignored, quiet, posted, races>>

\* ServiceThreadpool::stop joins the workers: every task has run.
StopService ==
    /\ stage["user"] = "join"
    /\ stage["pool"] = "idle" /\ posted = 0 /\ handling = NothingHandled
    /\ At("user", "idle")
    /\ started' = FALSE
    /\ UNCHANGED <<contentVars, transfer, changes, starts, loaded, metadataVars,
                   listener, posted, races>>

-------------------------------------------------------------------------------
\* The user changes the selection, the transfer receives and stores pieces
\* (before a stop: what it stores until the stop reaches it is nothing new).
UseFiles ==
    /\ StateMutexFree /\ loaded
    /\ FilesNext
    /\ UNCHANGED <<loaded, metadataVars, threadVars>>

StopStep(t) == TestActive(t) \/ ClearActive(t) \/ EndEvent(t) \/ StopPeers(t)

Next ==
    \/ UseFiles
    \/ \E p \in MetadataPeers :
          \/ Connect(p) \/ ExtendedHandshakeFinished(p) \/ ConnectionClosed(p)
          \/ ReceiveData(p) \/ ReceiveReject(p) \/ HandleData(p)
    \/ Ignore \/ Silence \/ RetryTimer
    \/ \E t \in Threads : StopStep(t)
    \/ Start \/ StartPosted \/ Stop \/ StopTransfer \/ StopService

\* Threads run on, and the steady peer can be reached and answers: of its
\* steps no two are enabled at once but for a while.
SteadyStep ==
    \/ Connect(Steady) \/ ExtendedHandshakeFinished(Steady)
    \/ ReceiveData(Steady) \/ HandleData(Steady)

Fairness ==
    /\ WF_vars(\E t \in Threads : StopStep(t))
    /\ WF_vars(SteadyStep)
    /\ WF_vars(Silence) /\ WF_vars(RetryTimer)

Spec == Init /\ [][Next]_vars /\ Fairness

-------------------------------------------------------------------------------
(* Properties. *)

\* While the transfer runs, storing a block of a wanted piece never meets a
\* missing file, whatever was selected before and after the start: every
\* allocation covers the neighbours of the selected files, and a start that
\* allocates nothing wants nothing (Files::start, selectFile, selectFiles).
\* A transfer begun between the end of the download of metadata and its event
\* has no files yet; the start posted by the event allocates them.
StoreNeverFails ==
    transfer /\ posted = 0 =>
        \A i \in PieceIds : P!WantedPiece(progress, i) =>
            \A b \in BlockIds(i) : ~ StoreFails(BlockInfo(files, i, b))

\* Metadata that is complete reaches the torrent by the end of the download,
\* whoever stops it and however often it was stopped and begun before: once
\* nobody is between the end of the download and its event, the torrent knows
\* its files.  Two races of the code are exempt: a handler that completes the
\* metadata after the download ended (`late'), and two stops that both saw it
\* active, so that the second one reads a buffer that was taken (`twice').
MetadataKept ==
    utm.finished /\ ~ utm.active /\ races = {} /\ (\A t \in Threads : stage[t] # "end")
        => loaded /\ files # <<>>

\* A download of metadata ends: the user stops it, or it has every piece, for
\* the search comes back to a piece that a silent peer was asked for, and the
\* timer asks again when a request was ignored.  Every request puts the timer
\* off, whoever is asked: as long as other peers go on connecting, a peer that
\* ignored a request may never be asked again.
MetadataArrives ==
    <>[][\A p \in MetadataPeers \ {Steady} : ~ ExtendedHandshakeFinished(p)]_vars
        => []<>(~ utm.active)
===============================================================================
