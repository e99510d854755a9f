----------------------------- MODULE TorrentCheck -----------------------------
(***************************************************************************)
(* Starting and stopping a torrent (mtt::Torrent) against the check of its  *)
(* files (mtt::Files::checkFiles) on the torrent's service threads.         *)
(*                                                                          *)
(* The user's thread calls start, stop and checkFiles; the workers of a     *)
(* check run on the service threads, and the last one to finish calls start *)
(* or stop itself; an error of the storage posts a stop to the service.     *)
(* start and stop hold stateMutex from end to end, checkFiles only          *)
(* checkStateMutex, and the flags are read without either.                  *)
(*                                                                          *)
(* Each worker has a share of the pieces.  The files hold all of them and   *)
(* do not change; all pieces are checked.  The metadata are there.          *)
(***************************************************************************)
EXTENDS Integers, FiniteSets

CONSTANTS
    WorkersCount,       \* workers of a check
    MaxChecks,          \* bound: checks
    UserCalls,          \* bound: calls of the user
    CheckCalls,         \* bound: calls of checkFiles among them
    InternalStops,      \* whether the storage reports an error once
    AllocationErrors    \* whether preallocating the files can fail

ASSUME BoundsAssumption ==
    /\ WorkersCount \in Nat \ {0} /\ MaxChecks \in Nat /\ UserCalls \in Nat
    /\ CheckCalls \in Nat /\ InternalStops \in BOOLEAN
    /\ AllocationErrors \in BOOLEAN

Checks == 1 .. MaxChecks
Shares == 1 .. WorkersCount
Workers == Checks \X Shares
User == <<0, 0>>
Internal == <<0, 1>>
Threads == Workers \cup {User, Internal}
NoCheck == 0
Nobody == <<0, 2>>

VARIABLES
    pc,                 \* by thread
    reason,             \* by thread: StopReason of its stop
    stateMutex,         \* the thread that holds it
    started, stopping, stateChanged,
    checking, checkState,
    rejected,           \* checks that were rejected
    finished,           \* by check: workers that have finished
    loaded,             \* by worker: the count it read
    current,            \* lastFileTime is not older than the files
    progress,           \* shares of the pieces that count as received
    transfer,           \* FileTransfer is running (refreshTimer exists)
    work,               \* the service has its work guard
    userCalls, checkCalls   \* calls of the user, and those of checkFiles

stateVars == <<started, stopping, stateChanged>>
checkVars == <<checking, checkState, rejected, finished, loaded>>
fileVars == <<current, progress>>
calls == <<userCalls, checkCalls>>
vars == <<pc, reason, stateMutex, stateVars, checkVars, fileVars, transfer, work,
          calls>>

\* Where a call returns to.
Returned(t) == IF t = User THEN "idle" ELSE "done"

\* Files::lastFileTime after Torrent::save, which writes the time of the files
\* into it, and only saves a changed state.
Save == current' = (current \/ stateChanged)

-------------------------------------------------------------------------------
(* Files::checkFiles *)

CheckFiles(t, next) ==
    /\ checkState' \in Checks \ {c \in Checks : pc[<<c, 1>>] # "none"}
    /\ checking' = TRUE
    /\ transfer' = FALSE
    /\ progress' = {}
    /\ work' = TRUE
    /\ pc' = [u \in Threads |->
                 IF u \in Workers /\ u[1] = checkState' THEN "read"
                 ELSE IF u = t THEN next ELSE pc[u]]
    /\ UNCHANGED <<rejected, finished, loaded>>

\* The user asks for a check.
CallCheck ==
    /\ userCalls < UserCalls /\ checkCalls < CheckCalls
    /\ pc[User] = "idle"
    /\ userCalls' = userCalls + 1 /\ checkCalls' = checkCalls + 1
    /\ \/ checking /\ UNCHANGED <<pc, checkVars, fileVars, transfer, work>>
       \/ ~ checking /\ CheckFiles(User, "idle") /\ UNCHANGED current
    /\ UNCHANGED <<reason, stateMutex, stateVars>>

\* checkStoredPieces: a rejected check stops half-way.
CheckPieces(c, i) ==
    /\ pc[<<c, i>>] = "read"
    /\ \/ progress' = progress \cup {i}
       \/ c \in rejected /\ UNCHANGED progress
    /\ pc' = [pc EXCEPT ![<<c, i>>] = "load"]
    /\ UNCHANGED <<reason, stateMutex, stateVars, checkVars, current, transfer,
                   work, calls>>

\* ++(*finished), which is not atomic
LoadFinished(c, i) ==
    /\ pc[<<c, i>>] = "load"
    /\ loaded' = [loaded EXCEPT ![<<c, i>>] = finished[c]]
    /\ pc' = [pc EXCEPT ![<<c, i>>] = "count"]
    /\ UNCHANGED <<reason, stateMutex, stateVars, checking, checkState, rejected,
                   finished, fileVars, transfer, work, calls>>

CountFinished(c, i) ==
    /\ pc[<<c, i>>] = "count"
    /\ finished' = [finished EXCEPT ![c] = loaded[<<c, i>>] + 1]
    /\ pc' = [pc EXCEPT ![<<c, i>>] =
                 IF finished'[c] = WorkersCount THEN "finish" ELSE "done"]
    /\ UNCHANGED <<reason, stateMutex, stateVars, checking, checkState, rejected,
                   loaded, fileVars, transfer, work, calls>>

\* localOnFinish
FinishCheck(c, i) ==
    /\ pc[<<c, i>>] = "finish"
    /\ checking' = FALSE
    /\ checkState' = NoCheck
    /\ pc' = [pc EXCEPT ![<<c, i>>] = "refresh"]
    /\ UNCHANGED <<reason, stateMutex, stateVars, rejected, finished, loaded,
                   fileVars, transfer, work, calls>>

\* refreshAfterChecking: the torrent goes on as it was before the check.
RefreshAfterChecking(c, i) ==
    /\ pc[<<c, i>>] = "refresh"
    /\ IF c \in rejected
       THEN /\ pc' = [pc EXCEPT ![<<c, i>>] = "done"]
            /\ UNCHANGED <<current, stateChanged, reason>>
       ELSE /\ current' = TRUE
            /\ stateChanged' = TRUE
            /\ pc' = [pc EXCEPT ![<<c, i>>] = IF started THEN "start" ELSE "stop"]
            /\ reason' = [reason EXCEPT ![<<c, i>>] = "Manual"]
    /\ UNCHANGED <<stateMutex, started, stopping, checkVars, progress, transfer,
                   work, calls>>

-------------------------------------------------------------------------------
(* Torrent::start *)

CallStart ==
    /\ userCalls < UserCalls /\ pc[User] = "idle"
    /\ userCalls' = userCalls + 1
    /\ pc' = [pc EXCEPT ![User] = "start"]
    /\ UNCHANGED <<reason, stateMutex, stateVars, checkVars, fileVars, transfer, work,
                   checkCalls>>

\* Mutated form of StartFiles: an error leaves stateMutex locked.
StartFilesLocked(t) ==
    /\ pc[t] = "start" /\ stateMutex = Nobody
    /\ \/ /\ ~ checking /\ ~ current
          /\ stateMutex' = t
          /\ CheckFiles(t, "activate")
          /\ UNCHANGED <<reason, current>>
       \/ /\ checking \/ current
          /\ stateMutex' = t
          /\ pc' = [pc EXCEPT ![t] = "activate"]
          /\ UNCHANGED <<reason, checkVars, fileVars, transfer, work>>
       \/ /\ AllocationErrors /\ ~ checking /\ current
          /\ pc' = [pc EXCEPT ![t] = "stop"]
          /\ reason' = [reason EXCEPT ![t] = "Internal"]
          /\ stateMutex' = t
          /\ UNCHANGED <<checkVars, fileVars, transfer, work>>
    /\ UNCHANGED <<stateVars, calls>>

\* Files::start: files that changed are checked, or else allocated.
StartFiles(t) ==
    /\ pc[t] = "start" /\ stateMutex = Nobody
    /\ \/ /\ ~ checking /\ ~ current
          /\ stateMutex' = t
          /\ CheckFiles(t, "activate")
          /\ UNCHANGED <<reason, current>>
       \/ /\ checking \/ current
          /\ stateMutex' = t
          /\ pc' = [pc EXCEPT ![t] = "activate"]
          /\ UNCHANGED <<reason, checkVars, fileVars, transfer, work>>
       \/ /\ AllocationErrors /\ ~ checking /\ current
          /\ pc' = [pc EXCEPT ![t] = "stop"]
          /\ reason' = [reason EXCEPT ![t] = "Internal"]
          /\ UNCHANGED <<stateMutex, checkVars, fileVars, transfer, work>>
    /\ UNCHANGED <<stateVars, calls>>

\* service.start(5), and the torrent counts as started
Activate(t) ==
    /\ pc[t] = "activate"
    /\ work' = TRUE
    /\ started' = TRUE
    /\ stateChanged' = TRUE
    /\ pc' = [pc EXCEPT ![t] = IF checking THEN "started" ELSE "transfer"]
    /\ UNCHANGED <<reason, stateMutex, stopping, checkVars, fileVars, transfer, calls>>

\* FileTransfer::start, unless files are being checked
StartTransfer(t) ==
    /\ pc[t] \in {"started", "transfer"}
    /\ transfer' = (transfer \/ pc[t] = "transfer")
    /\ stateMutex' = Nobody
    /\ pc' = [pc EXCEPT ![t] = Returned(t)]
    /\ UNCHANGED <<reason, stateVars, checkVars, fileVars, work, calls>>

-------------------------------------------------------------------------------
(* Torrent::stop *)

CallStop ==
    /\ userCalls < UserCalls /\ pc[User] = "idle"
    /\ userCalls' = userCalls + 1
    /\ pc' = [pc EXCEPT ![User] = "stop"]
    /\ reason' = [reason EXCEPT ![User] = "Manual"]
    /\ UNCHANGED <<stateMutex, stateVars, checkVars, fileVars, transfer, work,
                   checkCalls>>

\* A storage error posts a stop to the service.
PostInternalStop ==
    /\ InternalStops /\ transfer /\ pc[Internal] = "none"
    /\ pc' = [pc EXCEPT ![Internal] = "stop"]
    /\ reason' = [reason EXCEPT ![Internal] = "Internal"]
    /\ UNCHANGED <<stateMutex, stateVars, checkVars, fileVars, transfer, work, calls>>

\* `stopping' is read without stateMutex.
EnterStop(t) ==
    /\ pc[t] = "stop"
    /\ pc' = [pc EXCEPT ![t] = IF stopping THEN Returned(t) ELSE "stop.files"]
    /\ UNCHANGED <<reason, stateMutex, stateVars, checkVars, fileVars, transfer,
                   work, calls>>

\* Mutated form of StopFiles: FileTransfer is not stopped.
StopFilesTransfers(t) ==
    /\ pc[t] = "stop.files" /\ stateMutex = Nobody
    /\ checking' = FALSE
    /\ rejected' = IF checking THEN rejected \cup ({checkState} \ {NoCheck})
                   ELSE rejected
    /\ IF started
       THEN /\ stateMutex' = t
            /\ stopping' = TRUE
            /\ pc' = [pc EXCEPT ![t] = IF reason[t] = "Internal" THEN "stop.end"
                                       ELSE "stop.service"]
            /\ UNCHANGED <<current, stateChanged>>
       ELSE /\ Save
            /\ stateChanged' = FALSE
            /\ pc' = [pc EXCEPT ![t] = Returned(t)]
            /\ UNCHANGED <<stateMutex, stopping>>
    /\ UNCHANGED <<reason, started, checkState, finished, loaded, progress, transfer,
                   work, calls>>

\* Files::stop rejects the check; a torrent that is not started is only saved.
StopFiles(t) ==
    /\ pc[t] = "stop.files" /\ stateMutex = Nobody
    /\ checking' = FALSE
    /\ rejected' = IF checking THEN rejected \cup ({checkState} \ {NoCheck})
                   ELSE rejected
    /\ IF started
       THEN /\ stateMutex' = t
            /\ stopping' = TRUE
            /\ transfer' = FALSE
            /\ pc' = [pc EXCEPT ![t] = IF reason[t] = "Internal" THEN "stop.end"
                                       ELSE "stop.service"]
            /\ UNCHANGED <<current, stateChanged>>
       ELSE /\ Save
            /\ stateChanged' = FALSE
            /\ pc' = [pc EXCEPT ![t] = Returned(t)]
            /\ UNCHANGED <<stateMutex, stopping, transfer>>
    /\ UNCHANGED <<reason, started, checkState, finished, loaded, progress, work, calls>>

\* service.stop() gives up the work guard ...
StopService(t) ==
    /\ pc[t] = "stop.service"
    /\ work' = FALSE
    /\ pc' = [pc EXCEPT ![t] = "stop.join"]
    /\ UNCHANGED <<reason, stateMutex, stateVars, checkVars, fileVars, transfer, calls>>

\* Tasks of the service that have not ended.
ServiceTasks == {u \in Threads \ {User} : pc[u] \notin {"none", "done"}}

\* Mutated form of JoinService: the threads are not waited for.
JoinServiceDetached(t) ==
    /\ pc[t] = "stop.join"
    /\ pc' = [pc EXCEPT ![t] = "stop.end"]
    /\ UNCHANGED <<reason, stateMutex, stateVars, checkVars, fileVars, transfer,
                   work, calls>>

\* ... and joins the threads, which end when no task is left and nobody has
\* renewed the guard.
JoinService(t) ==
    /\ pc[t] = "stop.join"
    /\ ServiceTasks = {} /\ ~ work
    /\ pc' = [pc EXCEPT ![t] = "stop.end"]
    /\ UNCHANGED <<reason, stateMutex, stateVars, checkVars, fileVars, transfer,
                   work, calls>>

EndStop(t) ==
    /\ pc[t] = "stop.end"
    /\ started' = FALSE
    /\ stopping' = FALSE
    /\ Save
    /\ stateChanged' = (started /\ reason[t] # "Manual" /\ stateChanged)
    /\ stateMutex' = Nobody
    /\ pc' = [pc EXCEPT ![t] = Returned(t)]
    /\ UNCHANGED <<reason, checkVars, progress, transfer, work, calls>>

-------------------------------------------------------------------------------
Init ==
    /\ pc = [t \in Threads |-> IF t = User THEN "idle" ELSE "none"]
    /\ reason = [t \in Threads |-> "Manual"]
    /\ stateMutex = Nobody
    /\ started = FALSE /\ stopping = FALSE /\ stateChanged = FALSE
    /\ checking = FALSE /\ checkState = NoCheck /\ rejected = {}
    /\ finished = [c \in Checks |-> 0]
    /\ loaded = [w \in Workers |-> 0]
    /\ current \in BOOLEAN
    /\ progress = IF current THEN Shares ELSE {}
    /\ transfer = FALSE /\ work = FALSE
    /\ userCalls = 0 /\ checkCalls = 0

StartStop(t) ==
    \/ StartFiles(t) \/ Activate(t) \/ StartTransfer(t)
    \/ EnterStop(t) \/ StopFiles(t) \/ StopService(t) \/ JoinService(t) \/ EndStop(t)

Worker(c, i) ==
    \/ CheckPieces(c, i) \/ LoadFinished(c, i) \/ CountFinished(c, i)
    \/ FinishCheck(c, i) \/ RefreshAfterChecking(c, i)

Next ==
    \/ CallStart \/ CallStop \/ CallCheck \/ PostInternalStop
    \/ \E t \in Threads : StartStop(t)
    \/ \E c \in Checks, i \in Shares : Worker(c, i)

Spec == Init /\ [][Next]_vars

-------------------------------------------------------------------------------
(* Properties. *)

\* Torrent::getState
State ==
    IF checking THEN "CheckingFiles"
    ELSE IF stopping THEN "Stopping"
    ELSE IF started THEN "Active" ELSE "Stopped"

\* Workers that are still checking pieces for check c.
Reading(c) == {i \in Shares : pc[<<c, i>>] = "read"}

\* Types; stateMutex is held by a thread between its first and last step.
TypeOK ==
    /\ stateMutex \in Threads \cup {Nobody}
    /\ \A t \in Threads :
          stateMutex = t <=> pc[t] \in {"activate", "started", "transfer",
                                        "stop.service", "stop.join", "stop.end"}
    /\ checkState \in Checks \cup {NoCheck} /\ rejected \subseteq Checks
    /\ progress \subseteq Shares
    /\ finished \in [Checks -> 0 .. WorkersCount]

\* The user has only started and stopped the torrent: no check of his own and
\* no stop by an error has been in between.  (Either can leave the workers of a
\* rejected check behind: such a stop does not join them.)
OnlyStartsAndStops == checkCalls = 0 /\ pc[Internal] = "none"

\* With starts and stops alone a stop leaves no worker behind: at most one check
\* that was not rejected is running, the files are not downloaded into while they
\* are being checked, and a torrent in the state Stopped makes no work.
WorkersJoined ==
    OnlyStartsAndStops =>
        /\ \A c, d \in Checks \ rejected :
              Reading(c) # {} /\ Reading(d) # {} => c = d
        /\ transfer => \A c \in Checks : Reading(c) = {}
        /\ State = "Stopped" => ~ transfer /\ \A c \in Checks : Reading(c) = {}

\* A torrent that transfers is started: nothing brings the transfer up again
\* after a stop.
TransferStarted == transfer => started
===============================================================================
