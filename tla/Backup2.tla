------------------------------- MODULE Backup2 -------------------------------
(***************************************************************************)
(* The idevicebackup2 tool over the mobilebackup2 client: main, with the   *)
(* lock file of the synchronisation, and the loop in which the device      *)
(* tells the tool what to do with the files of the backup.  Two other      *)
(* threads of control raise quit_flag: a signal and the notifier.          *)
(*                                                                         *)
(* A file is sent as a stream of units that carry their length; the model  *)
(* keeps which unit the tool reads and which the device sends.  Contents,  *)
(* names, progress and the plist keys are left out.  Local files may be    *)
(* missing, unreadable or change under the tool.  The device is outside    *)
(* src/ and keeps to the format.                                           *)
(***************************************************************************)
EXTENDS DeviceLink, Sequences

CONSTANTS
  LockAttempts,   \* LOCK_ATTEMPTS is 50
  MaxRequests,    \* bound: messages of the device
  MaxUnits        \* bound: units of the files it sends

ASSUME Backup2Bounds == LockAttempts \in Nat /\ MaxRequests \in Nat /\ MaxUnits \in Nat

Commands == {"backup", "restore", "info", "list", "unback", "leave"}

VARIABLES
  b2Pc, b2Cmd,
  quitFlag,      \* quit_flag
  infoPlist,     \* Info.plist of the backup: "none", "bad", "other" (another device) or "ours"
  snapshot,      \* SnapshotState of Status.plist: "unknown", "finished" or "new"
  lockfile,      \* the local: "unset" memory, 0 ("none"), or the open file
  syncLock,      \* the device's lock: "free", "other" (another program's) or "ours"
  attempts,      \* "i" of the lock loop
  syncHeld,      \* history: the lock was had
  syncFinished,  \* history: NP_SYNC_DID_FINISH reached the device
  requestSent,   \* history
  b2Requests,    \* counter of MaxRequests
  expects,       \* the unit mb2_handle_receive_files reads next
  offers,        \* the unit the device sends next
  fileOpen,      \* "f"
  units,         \* counter of MaxUnits
  spoiled,       \* history: a local file or a transfer failed, or the user quit
  misled,        \* history: a status of success was sent for what had failed
  operationOk, report

lockVars == <<lockfile, syncLock, attempts, syncHeld, syncFinished>>
wireVars == <<expects, offers, fileOpen, units, spoiled, misled>>
b2Vars == <<b2Pc, b2Cmd, quitFlag, infoPlist, snapshot, lockVars, requestSent, b2Requests,
            wireVars, operationOk, report>>

Backup2Init ==
  /\ b2Pc = "connect" /\ b2Cmd \in Commands \ {"leave"} /\ quitFlag = FALSE
  /\ infoPlist \in {"none", "bad", "other", "ours"}
  /\ (b2Cmd = "restore" => infoPlist # "none")
  /\ snapshot \in {"unknown", "finished", "new"}
  /\ lockfile = "unset" /\ syncLock \in {"free", "other"} /\ attempts = 0
  /\ syncHeld = FALSE /\ syncFinished = FALSE
  /\ requestSent = FALSE /\ b2Requests = 0
  /\ expects = "none" /\ offers = "none" /\ fileOpen = FALSE /\ units = 0 /\ spoiled = FALSE /\ misled = FALSE
  /\ operationOk = FALSE /\ report = "none"

-----------------------------------------------------------------------------
(* main, up to the request.                                                *)

B2Goto(from, to) == b2Pc = from /\ b2Pc' = to

\* mobilebackup2_version_exchange, after the exchange of the link: whether the
\* Hello is sent, the message that answers it and what is in it.
Hello(link, sent, msg, content) ==
  CASE link # "SUCCESS" -> "INVALID_ARG"
    [] ~sent -> "MUX_ERROR"
    [] ReceiveProcessMessage(msg) # "SUCCESS" -> ReceiveProcessMessage(msg)
    [] content \in {"no name", "no code", "no version"} -> "PLIST_ERROR"
    [] content = "code 1" -> "NO_COMMON_VERSION"
    [] content \in {"other name", "code 2"} -> "REPLY_NOT_OK"
    [] OTHER -> "SUCCESS"

LinkVersion == <<300, 0>>
HelloOutcomes ==
  {Hello(link, sent, msg, content) : link \in DlOutcomes(LinkVersion, {0, 1}), sent \in BOOLEAN,
     msg \in DlMessages,
     content \in {"no name", "other name", "no code", "code 1", "code 2", "no version", "answer"}}

\* Connections and services; a failure of mobilebackup2 itself ends the tool,
\* a failure of its Hello goes to the checkpoint without lockfile's zero.
B2Connect ==
  /\ \/ B2Goto("connect", "cleanup") /\ UNCHANGED b2Cmd
     \/ \E err \in HelloOutcomes : IF err = "SUCCESS"
                           THEN B2Goto("connect", "quitCheck") /\ UNCHANGED b2Cmd
                           ELSE B2Goto("connect", "checkpoint") /\ b2Cmd' = "leave"
  /\ UNCHANGED <<quitFlag, infoPlist, snapshot, lockVars, requestSent, b2Requests, wireVars,
                 operationOk, report>>

\* plist_read_from_filename, and the identity in the Info.plist against the device.
Readable == infoPlist \notin {"none", "bad"}
IsCurrentDevice == infoPlist = "ours"

\* "check abort conditions", then Info.plist: one that cannot be read counts
\* as none for a backup, and is not looked into for a restore.
CheckInfo ==
  /\ \/ quitFlag /\ B2Goto("quitCheck", "checkpoint") /\ b2Cmd' = "leave" /\ UNCHANGED lockfile
     \/ /\ ~quitFlag /\ B2Goto("quitCheck", "lockCheck") /\ lockfile' = "none"
        /\ b2Cmd' = IF \/ Readable /\ ~IsCurrentDevice /\ b2Cmd \in {"backup", "restore"}
                       \/ infoPlist = "none" /\ b2Cmd = "restore"
                    THEN "leave" ELSE b2Cmd
  /\ UNCHANGED <<quitFlag, infoPlist, snapshot, syncLock, attempts, syncHeld, syncFinished,
                 requestSent, b2Requests, wireVars, operationOk, report>>

\* do_post_notification is a lockdown connection, a service and a message, and
\* whatever fails is not looked at: the notice reaches the device or it does not.
Posts == BOOLEAN

\* Its np has no value where np_client_new fails: the tool may crash on it.  Its
\* connections end with it, and with them, for the device, what it had locked.
PostCrashes ==
  /\ b2Cmd = "backup"
  /\ \/ b2Pc = "lockCheck"
     \/ b2Pc = "locking" /\ syncLock = "free" /\ lockfile = "open"
     \/ b2Pc = "unlock" /\ lockfile = "open"
  /\ b2Pc' = "exit"
  /\ syncLock' = IF syncLock = "ours" THEN "free" ELSE syncLock
  /\ UNCHANGED <<b2Cmd, quitFlag, infoPlist, snapshot, lockfile, attempts, syncHeld, syncFinished,
                 requestSent, b2Requests, wireVars, operationOk, report>>

\* NP_SYNC_WILL_START, the lock file, which may not open, and NP_SYNC_LOCK_REQUEST.
OpenLockfile ==
  /\ \/ b2Cmd = "backup" /\ lockfile' = "open" /\ B2Goto("lockCheck", "locking")
     \/ B2Goto("lockCheck", "checkpoint") /\ UNCHANGED lockfile
  /\ UNCHANGED <<b2Cmd, quitFlag, infoPlist, snapshot, syncLock, attempts, syncHeld,
                 syncFinished, requestSent, b2Requests, wireVars, operationOk, report>>

\* A slip: the loop goes on for as long as another program holds the lock.
SlipTryLock ==
  /\ b2Pc = "locking"
  /\ \/ /\ syncLock = "free" /\ lockfile # "none" /\ syncLock' = "ours" /\ syncHeld' = TRUE
        /\ B2Goto("locking", "checkpoint") /\ UNCHANGED attempts
     \/ /\ syncLock = "other" /\ lockfile # "none"
        /\ attempts' = attempts + 1 /\ UNCHANGED <<b2Pc, syncLock, syncHeld>>
  /\ UNCHANGED <<b2Cmd, lockfile, quitFlag, infoPlist, snapshot, syncFinished, requestSent,
                 b2Requests, wireVars, operationOk, report>>

\* afc_file_lock: it would block while another program holds the lock.  NP_SYNC_DID_START
\* is posted when it is had; whether that reaches the device changes nothing here.
TryLock ==
  /\ b2Pc = "locking" /\ attempts < LockAttempts
  /\ \/ /\ syncLock = "free" /\ lockfile # "none" /\ syncLock' = "ours" /\ syncHeld' = TRUE
        /\ B2Goto("locking", "checkpoint") /\ UNCHANGED <<b2Cmd, lockfile, attempts>>
     \/ /\ syncLock = "other" /\ lockfile # "none"
        /\ attempts' = attempts + 1 /\ UNCHANGED <<b2Pc, b2Cmd, lockfile, syncLock, syncHeld>>
     \/ \* any other error: the loop is not left, and goes on without a file
        /\ lockfile' = "none" /\ b2Cmd' = "leave" /\ attempts' = attempts + 1
        /\ UNCHANGED <<b2Pc, syncLock, syncHeld>>
  /\ UNCHANGED <<quitFlag, infoPlist, snapshot, syncFinished, requestSent, b2Requests, wireVars,
                 operationOk, report>>

\* "timeout while locking for sync".
LockTimeout ==
  /\ attempts = LockAttempts /\ B2Goto("locking", "checkpoint")
  /\ lockfile' = "none" /\ b2Cmd' = "leave"
  /\ UNCHANGED <<quitFlag, infoPlist, snapshot, syncLock, attempts, syncHeld, syncFinished,
                 requestSent, b2Requests, wireVars, operationOk, report>>

\* mb2_status_check_snapshot_state, as it is used: -1 is no 0.
LooksFinished == snapshot # "new"

\* The request; a backup has a new Info.plist first.
SendRequest2 ==
  /\ b2Pc = "checkpoint"
  /\ IF b2Cmd = "leave" \/ (b2Cmd = "restore" /\ ~LooksFinished)
     THEN b2Pc' = "unlock" /\ b2Cmd' = "leave" /\ UNCHANGED requestSent
     ELSE \/ b2Pc' = "unlock" /\ b2Cmd' = "leave" /\ UNCHANGED requestSent
          \/ b2Pc' = "loop" /\ requestSent' = TRUE /\ UNCHANGED b2Cmd
  /\ infoPlist' = IF b2Cmd = "backup" THEN "ours" ELSE infoPlist
  /\ UNCHANGED <<quitFlag, snapshot, lockVars, b2Requests, wireVars, operationOk, report>>

-----------------------------------------------------------------------------
(* The loop over the device's messages.                                    *)

\* A message comes in at the head of the loop; after one has been handled, or
\* none has come, quit_flag is looked at.
DeviceAsks ==
  /\ b2Pc = "loop" /\ b2Requests < MaxRequests /\ b2Requests' = b2Requests + 1
Again == b2Pc' = IF quitFlag THEN "report" ELSE "loop"
LoopUnchanged == UNCHANGED <<b2Cmd, quitFlag, infoPlist, lockVars, requestSent, report>>

\* Nothing has come, or no DL message ("Going to try again in 2 seconds"), or a
\* message of another name, which is dropped.
NotReady ==
  /\ b2Pc = "loop" /\ Again
  /\ LoopUnchanged /\ UNCHANGED <<snapshot, b2Requests, wireVars, operationOk>>

\* mb2_handle_send_file: what it sends for a file that is not there or does not
\* open, is empty, whole, cannot be read, or becomes shorter or longer than the
\* size that was sent; and when the connection goes.
LocalFiles == {"missing", "empty", "whole", "unread", "shrunk", "grown", "lost"}
SentUnits(file) ==
  CASE file = "missing" -> <<"name", "error">>
    [] file = "empty" -> <<"name", "success">>
    [] file = "whole" -> <<"name", "size", "data", "success">>
    [] file = "unread" -> <<"name", "size", "error">>
    [] file = "shrunk" -> <<"name", "size", "short", "size", "error">>
    [] file = "grown" -> <<"name", "size", "long", "success">>
    [] OTHER -> <<"name">>

\* The device finds as many bytes as it was told.
Fits(sent) == \A i \in DOMAIN sent : sent[i] = "size" => i < Len(sent) /\ sent[i + 1] = "data"

\* DLMessageDownloadFiles: the files of the list up to the first that fails, a
\* zero, and the status; an empty list has no answer at all.
SendFiles ==
  /\ DeviceAsks /\ Again
  /\ \E file \in LocalFiles :
       spoiled' = (spoiled \/ file = "lost" \/ ~Fits(SentUnits(file)))
  /\ LoopUnchanged /\ UNCHANGED <<snapshot, expects, offers, fileOpen, units, misled, operationOk>>

\* Something is done to the files of the backup, and the status says how it went.
FileOperation(failed, status) ==
  /\ DeviceAsks /\ Again
  /\ misled' = (misled \/ (failed /\ status = "ok"))
  /\ LoopUnchanged
  /\ UNCHANGED <<snapshot, expects, offers, fileOpen, units, spoiled, operationOk>>

\* DLContentsOfDirectory: one that does not open has no contents.
ListDirectory == \E failed \in BOOLEAN : FileOperation(failed, "ok")
\* DLMessageCreateDirectory.
MakeDirectory == \E failed \in BOOLEAN : FileOperation(failed, IF failed THEN "error" ELSE "ok")
\* DLMessageMoveFiles, up to the first that fails.
MoveFiles == \E moved \in 0 .. 2 : FileOperation(moved < 2, IF moved < 2 THEN "error" ELSE "ok")
\* DLMessageRemoveFiles, all of them; an error stays the status.
RemoveFiles ==
  \E failures \in SUBSET {1, 2} :
    FileOperation(failures # {}, IF failures = {} THEN "ok" ELSE "error")
\* DLMessageCopyItem: a copy that fails is printed, not sent.
CopyItem == \E failed \in BOOLEAN : FileOperation(failed, "ok")

\* DLMessageUploadFiles: mb2_handle_receive_files begins.
ReceiveFiles ==
  /\ DeviceAsks /\ b2Pc' = "receive"
  /\ expects' = "dname" /\ offers' \in {"dname", "end"}
  /\ LoopUnchanged /\ UNCHANGED <<snapshot, fileOpen, units, spoiled, misled, operationOk>>

\* What the device sends after a unit.
Follows(unit) ==
  CASE unit = "dname" -> {"fname"}
    [] unit = "fname" \/ unit = "data" -> {"code_data", "code_success", "code_error"}
    [] unit = "code_data" -> {"data"}
    [] unit = "code_error" -> {"message"}
    [] OTHER -> {"dname", "end"}

\* A slip: the text of a remote error is left in the stream.
SlipReadsNext(unit, isOpen) ==
  CASE unit = "dname" -> "fname"
    [] unit = "fname" \/ (unit = "data" /\ isOpen) -> "code"
    [] unit = "code_data" /\ isOpen -> "data"
    [] OTHER -> "dname"

\* What the tool reads after a unit; a local file that does not open is never
\* filled, and its data are left in the stream.
ReadsNext(unit, isOpen) ==
  CASE unit = "dname" -> "fname"
    [] unit = "fname" \/ (unit = "data" /\ isOpen) -> "code"
    [] unit = "code_data" /\ isOpen -> "data"
    [] unit = "code_error" -> "message"
    [] OTHER -> "dname"

InStep(tool, device) ==
  \/ tool = device \/ (tool = "dname" /\ device = "end")
  \/ tool = "code" /\ device \in {"code_data", "code_success", "code_error"}

\* One unit is read.
ReadUnit ==
  /\ b2Pc = "receive" /\ InStep(expects, offers) /\ offers # "end" /\ units < MaxUnits
  /\ units' = units + 1
  /\ \E opens \in BOOLEAN :
       /\ fileOpen' = CASE expects = "code" /\ ~fileOpen -> opens
                        [] offers \in {"code_data", "data"} -> fileOpen
                        [] OTHER -> FALSE
       /\ spoiled' = (spoiled \/ (offers = "code_data" /\ ~fileOpen'))
       /\ expects' = ReadsNext(offers, fileOpen')
  /\ offers' \in Follows(offers)
  /\ b2Pc' = IF quitFlag /\ expects' \in {"dname", "code"} THEN "leftovers" ELSE "receive"
  /\ LoopUnchanged /\ UNCHANGED <<snapshot, b2Requests, misled, operationOk>>

\* A zero, a read that fails, or a length or code read from the middle of
\* something else, which the tool may take for anything.
ReceiveEnds ==
  /\ b2Pc = "receive" /\ b2Pc' = "leftovers"
  /\ spoiled' = (spoiled \/ offers # "end")
  /\ LoopUnchanged /\ UNCHANGED <<snapshot, b2Requests, expects, offers, fileOpen, units, misled, operationOk>>

\* Leftovers are discarded, and the status is success whatever happened.
FilesReceived ==
  /\ b2Pc = "leftovers" /\ Again
  /\ expects' = "none" /\ offers' = "none" /\ fileOpen' = FALSE
  /\ spoiled' = (spoiled \/ quitFlag) /\ misled' = (misled \/ spoiled')
  /\ snapshot' \in {"unknown", "finished", "new"}
  /\ LoopUnchanged /\ UNCHANGED <<b2Requests, units, operationOk>>

\* DLMessageDisconnect, and the result in a DLMessageProcessMessage.
OperationEnds ==
  /\ DeviceAsks /\ b2Pc' = "report"
  /\ operationOk' \in BOOLEAN
  /\ LoopUnchanged /\ UNCHANGED <<snapshot, wireVars>>

Report ==
  /\ B2Goto("report", "unlock")
  /\ report' = CASE b2Cmd = "backup" -> IF LooksFinished THEN "successful" ELSE "failed"
                 [] b2Cmd = "restore" -> IF operationOk THEN "successful" ELSE "failed"
                 [] OTHER -> IF quitFlag THEN "aborted" ELSE "successful"
  /\ UNCHANGED <<b2Cmd, quitFlag, infoPlist, snapshot, lockVars, requestSent, b2Requests,
                 wireVars, operationOk>>

-----------------------------------------------------------------------------
\* A slip: the lock file is not unlocked after a request that failed.
SlipUnlock2 ==
  /\ B2Goto("unlock", "cleanup")
  /\ IF lockfile = "open" /\ b2Cmd = "backup"
     THEN syncLock' = "free" /\ syncFinished' \in Posts
     ELSE UNCHANGED <<syncLock, syncFinished>>
  /\ lockfile' = "none"
  /\ UNCHANGED <<b2Cmd, quitFlag, infoPlist, snapshot, attempts, syncHeld, requestSent,
                 b2Requests, wireVars, operationOk, report>>

\* The lock file is unlocked and closed, then the end of the synchronisation is
\* posted: "lockfile" may be garbage, which the device knows no file for.
Unlock2 ==
  /\ B2Goto("unlock", "cleanup")
  /\ \/ lockfile = "none" /\ UNCHANGED <<syncLock, syncFinished>>
     \/ /\ lockfile # "none"
        /\ syncLock' = IF lockfile = "open" /\ syncLock = "ours" THEN "free" ELSE syncLock
        /\ IF b2Cmd = "backup" THEN syncFinished' \in Posts ELSE UNCHANGED syncFinished
     \/ lockfile = "unset" /\ UNCHANGED <<syncLock, syncFinished>>
  /\ lockfile' = "none"
  /\ UNCHANGED <<b2Cmd, quitFlag, infoPlist, snapshot, attempts, syncHeld, requestSent,
                 b2Requests, wireVars, operationOk, report>>

B2Cleanup ==
  /\ B2Goto("cleanup", "exit")
  /\ UNCHANGED <<b2Cmd, quitFlag, infoPlist, snapshot, lockVars, requestSent, b2Requests,
                 wireVars, operationOk, report>>

\* clean_exit and notify_cb.
RaiseQuit ==
  /\ ~quitFlag /\ quitFlag' = TRUE /\ b2Pc \notin {"exit", "connect"}
  /\ UNCHANGED <<b2Pc, b2Cmd, infoPlist, snapshot, lockVars, requestSent, b2Requests, wireVars,
                 operationOk, report>>

\* Another program on the device gives the lock back.
OtherUnlocks ==
  /\ syncLock = "other" /\ syncLock' = "free" /\ b2Pc \notin {"exit", "connect"}
  /\ UNCHANGED <<b2Pc, b2Cmd, quitFlag, infoPlist, snapshot, lockfile, attempts, syncHeld,
                 syncFinished, requestSent, b2Requests, wireVars, operationOk, report>>

Backup2Next ==
  \/ B2Connect \/ CheckInfo \/ OpenLockfile \/ TryLock \/ LockTimeout \/ PostCrashes \/ SendRequest2
  \/ NotReady \/ SendFiles \/ ListDirectory \/ MakeDirectory \/ MoveFiles \/ RemoveFiles \/ CopyItem
  \/ ReceiveFiles \/ ReadUnit \/ ReceiveEnds
  \/ FilesReceived \/ OperationEnds \/ Report \/ Unlock2 \/ B2Cleanup \/ RaiseQuit \/ OtherUnlocks

Backup2Spec == Backup2Init /\ [][Backup2Next]_b2Vars

-----------------------------------------------------------------------------
Units == {"none", "dname", "fname", "code_data", "code_success", "code_error", "data", "message", "end"}

\* Type correctness of the tool, of what it keeps and of the stream.
Backup2TypeOK ==
  /\ b2Pc \in {"connect", "quitCheck", "lockCheck", "locking", "checkpoint", "loop", "receive",
               "leftovers", "report", "unlock", "cleanup", "exit"}
  /\ b2Cmd \in Commands /\ infoPlist \in {"none", "bad", "other", "ours"}
  /\ snapshot \in {"unknown", "finished", "new"}
  /\ lockfile \in {"unset", "none", "open"} /\ syncLock \in {"free", "other", "ours"}
  /\ attempts \in 0 .. LockAttempts /\ b2Requests \in 0 .. MaxRequests /\ units \in 0 .. MaxUnits
  /\ {quitFlag, syncHeld, syncFinished, requestSent, fileOpen, spoiled, misled, operationOk}
       \subseteq BOOLEAN
  /\ expects \in Units \cup {"code"} /\ offers \in Units
  /\ report \in {"none", "successful", "failed", "aborted"}

\* On every path through main - a lock that is refused, a request that fails,
\* a user who quits, an error before "lockfile" has a value - the tool gives the
\* device's sync lock back before it takes its connections down; a backup is
\* asked for under that lock wherever the lock file opened; the device hears
\* of the end of a synchronisation, if it hears of it at all, only after a
\* backup that was asked for under the lock, and when the lock is free again.
LockReleased ==
  /\ b2Pc \in {"cleanup", "exit"} => syncLock # "ours"
  /\ b2Cmd = "backup" /\ b2Pc \in {"checkpoint", "loop", "receive"} /\ lockfile # "none"
       => syncLock = "ours"
  /\ syncFinished => syncLock # "ours" /\ syncHeld /\ requestSent

\* The tool and the device agree on where in the stream of files they are, as
\* long as every local file opens and every transfer succeeds: no unit of any
\* kind - an empty file, an error in its place or after some of its data - is
\* taken for another.
StreamInStep ==
  b2Pc = "receive" /\ ~spoiled => InStep(expects, offers)
=============================================================================
