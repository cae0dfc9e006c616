------------------------------- MODULE Backup -------------------------------
(***************************************************************************)
(* The idevicebackup tool over the mobilebackup client: one run after the  *)
(* other on the same backup directory, which a run may leave in any state: *)
(* the user quits, the connection goes, the tool is killed between any two *)
(* writes.  The device is told what the Manifest.plist of the directory    *)
(* holds, sends what is missing and ends with a new manifest; a restore    *)
(* verifies the directory before it sends anything.                        *)
(*                                                                         *)
(* A file of the device is a hash and a version, a file of the directory   *)
(* has the version whose hunks are all there, and an .mdinfo beside it.    *)
(* The manifest holds a data hash for most files, by which a restore knows *)
(* their versions apart, and none for others.  The steps up to the request *)
(* that only concern the lock file are as in Backup2, and one step here.   *)
(* The device is outside src/; it never goes back to an earlier version.   *)
(***************************************************************************)
EXTENDS DeviceLink, FiniteSets

CONSTANTS
  Hashes,       \* the files
  Unhashed,     \* those whose DataHash is empty
  MaxVersion,   \* bound: versions of a file
  MaxRuns       \* bound: runs of the tool

ASSUME BackupBounds ==
  /\ Hashes # {} /\ IsFiniteSet(Hashes) /\ Unhashed \subseteq Hashes
  /\ MaxVersion \in Nat \ {0} /\ MaxRuns \in Nat

NoManifest == <<>>
Partial == -1    \* some hunks of a file
Absent == 0
Versions == 1 .. MaxVersion
Manifests == [Hashes -> {Absent} \cup Versions]

VARIABLES
  bkPc, bkCmd, bkRuns,
  bkQuit,         \* quit_flag
  dirInfo,        \* Info.plist: "none", "bad", "other" (of another device) or "ours"
  dirManifest,    \* Manifest.plist: what it lists
  dirStatus,      \* Status.plist: "none", or its Backup Success: "failed", "success"
  dirFiles,       \* the .mddata of each hash
  mdinfos,        \* the hashes with an .mdinfo
  fullBackup,     \* is_full_backup
  contents,       \* the device's files
  told,           \* what the device holds the directory to have
  hunk,           \* the file that is being sent: <<hash, version>>, or none
  badWrite,       \* history: a write to the directory has failed, unnoticed
  staleManifest,  \* history: a full backup has begun over the manifest of another
  unlisted,       \* history: the last backup to be finished came without a manifest
  toSend,         \* "files": what a restore has yet to send
  acked,          \* history: the files a restore has had acknowledged
  restoreOk,      \* restore_ok
  bkReport

dirVars == <<dirInfo, dirManifest, dirStatus, dirFiles, mdinfos, badWrite, staleManifest, unlisted>>
phoneVars == <<contents, told, hunk>>
restoreVars == <<toSend, acked, restoreOk>>
runVars == <<bkRuns, bkCmd, bkQuit, fullBackup, bkReport>>
bkVars == <<bkPc, dirVars, phoneVars, restoreVars, runVars>>

\* The directory is empty, or holds a backup.
BackupInit ==
  /\ bkPc = "idle" /\ bkCmd = "leave" /\ bkRuns = 0 /\ bkQuit = FALSE
  /\ contents = [h \in Hashes |-> 1]
  /\ \/ dirInfo = "none" /\ dirManifest = NoManifest /\ dirStatus = "none"
        /\ dirFiles = [h \in Hashes |-> Absent] /\ mdinfos = {}
     \/ dirInfo \in {"bad", "other", "ours"} /\ dirManifest = contents /\ dirStatus = "success"
        /\ dirFiles = contents /\ mdinfos = Hashes
  /\ fullBackup = FALSE /\ told = [h \in Hashes |-> Absent] /\ hunk = <<>>
  /\ badWrite = FALSE /\ staleManifest = FALSE /\ unlisted = FALSE
  /\ toSend = {} /\ acked = {} /\ restoreOk = FALSE /\ bkReport = "none"

-----------------------------------------------------------------------------
(* Every command.                                                          *)

BkGoto(from, to) == bkPc = from /\ bkPc' = to

\* main: the arguments and the services; without the backup service it ends.
BackupStarts ==
  /\ bkRuns < MaxRuns /\ BkGoto("idle", "info") /\ bkRuns' = bkRuns + 1
  /\ \E cmd \in {"backup", "restore"} :
       bkCmd' = cmd /\ (cmd = "restore" => dirInfo # "none")
  /\ bkQuit' = FALSE /\ fullBackup' = FALSE /\ bkReport' = "none"
  /\ toSend' = {} /\ acked' = {} /\ restoreOk' = FALSE
  /\ UNCHANGED <<dirVars, phoneVars>>

\* plist_read_from_filename, and mobilebackup_info_is_current_device.
Readable1 == dirInfo \notin {"none", "bad"}
SameDevice == dirInfo = "ours"

\* A run that was aborted, or is for another device, is left; an Info.plist
\* that cannot be read makes a backup a full one and stops no restore.
CheckInfoPlist ==
  /\ BkGoto("info", "lock")
  /\ bkCmd' = IF bkQuit \/ (Readable1 /\ ~SameDevice) THEN "leave" ELSE bkCmd
  /\ fullBackup' = (dirInfo \in {"none", "bad"})
  /\ UNCHANGED <<bkRuns, bkQuit, bkReport, dirVars, phoneVars, restoreVars>>

\* The lock file of the synchronisation: a backup goes on with the lock or, when
\* the file does not open, without.
AcquireLock ==
  /\ bkPc = "lock"
  /\ \/ /\ UNCHANGED bkCmd
        /\ \/ bkCmd = "backup" /\ bkPc' = "prepare"
           \/ bkCmd = "restore" /\ bkPc' = "verify"
           \/ bkCmd = "leave" /\ bkPc' = "end"
     \/ bkCmd = "backup" /\ bkCmd' = "leave" /\ bkPc' = "end"
  /\ UNCHANGED <<bkRuns, bkQuit, fullBackup, bkReport, dirVars, phoneVars, restoreVars>>

\* clean_exit and notify_cb.
RaiseBkQuit ==
  /\ ~bkQuit /\ bkPc \notin {"idle", "end"} /\ bkQuit' = TRUE
  /\ UNCHANGED <<bkPc, bkRuns, bkCmd, fullBackup, bkReport, dirVars, phoneVars, restoreVars>>

\* The lock is given back, and the clients are freed.
BackupEnds ==
  /\ BkGoto("end", "idle") /\ hunk' = <<>>
  /\ UNCHANGED <<dirVars, contents, told, restoreVars, runVars>>

\* The tool is killed, also where an Info.plist or an .mdinfo was just removed.
Killed ==
  /\ bkPc # "idle" /\ bkPc' = "idle" /\ hunk' = <<>> /\ bkReport' = "none"
  /\ dirInfo' \in {dirInfo} \cup (IF bkCmd = "backup" /\ bkPc \in {"info", "prepare"} THEN {"none"} ELSE {})
  /\ mdinfos' \in {mdinfos} \cup (IF bkPc = "files" /\ hunk # <<>> THEN {mdinfos \ {hunk[1]}} ELSE {})
  /\ UNCHANGED <<dirManifest, dirStatus, dirFiles, badWrite, staleManifest, unlisted, contents, told,
                 restoreVars, bkRuns, bkCmd, bkQuit, fullBackup>>

-----------------------------------------------------------------------------
(* A backup.                                                               *)

\* The old Manifest.plist, without which the backup is a full one; that has a
\* new Info.plist.
Prepare ==
  /\ BkGoto("prepare", "failStatus")
  /\ fullBackup' = (fullBackup \/ dirManifest = NoManifest)
  /\ dirInfo' = "ours"
  /\ UNCHANGED <<bkRuns, bkCmd, bkQuit, bkReport, dirManifest, dirStatus, dirFiles, mdinfos, badWrite,
                 staleManifest, unlisted, phoneVars, restoreVars>>

\* A slip: the old Status.plist stays until the backup is finished.
SlipRemoveStatus ==
  /\ \/ BkGoto("failStatus", "requestBackup") /\ UNCHANGED dirStatus
     \/ BkGoto("okStatus", "writeSuccess") /\ dirStatus' = "none"
  /\ UNCHANGED <<runVars, dirInfo, dirManifest, dirFiles, mdinfos, badWrite, staleManifest,
                 unlisted, phoneVars, restoreVars>>

\* mobilebackup_write_status: the old one is removed first.
RemoveStatus ==
  /\ \/ BkGoto("failStatus", "writeFailed") \/ BkGoto("okStatus", "writeSuccess")
  /\ dirStatus' = "none"
  /\ UNCHANGED <<runVars, dirInfo, dirManifest, dirFiles, mdinfos, badWrite, staleManifest,
                 unlisted, phoneVars, restoreVars>>

WriteStatus ==
  /\ \/ BkGoto("writeFailed", "requestBackup") /\ dirStatus' = "failed"
     \/ BkGoto("writeSuccess", "end") /\ dirStatus' = "success"
  /\ UNCHANGED <<runVars, dirInfo, dirManifest, dirFiles, mdinfos, badWrite, staleManifest,
                 unlisted, phoneVars, restoreVars>>

\* mobilebackup_request_backup and mobilebackup_request_restore: the request is
\* sent, and the reply, its version and, for a backup, the return of the reply.
Replies == {"ok", "otherName", "noName", "otherVersion"}
RequestResult(sent, msg, reply, returned) ==
  CASE ~sent -> "MUX_ERROR"
    [] ReceiveProcessMessage(msg) # "SUCCESS" -> ReceiveProcessMessage(msg)
    [] reply = "noName" -> "PLIST_ERROR"
    [] reply = "otherName" -> "REPLY_NOT_OK"
    [] reply = "otherVersion" -> "BAD_VERSION"
    [] ~returned -> "MUX_ERROR"
    [] OTHER -> "SUCCESS"
RequestResults ==
  {RequestResult(s, m, r, a) : s \in BOOLEAN, m \in DlMessages, r \in Replies, a \in BOOLEAN}

RestoreResults ==
  {RequestResult(s, m, r, TRUE) : s \in BOOLEAN, m \in DlMessages, r \in Replies}

RequestBackup ==
  /\ bkPc = "requestBackup"
  /\ \E err \in RequestResults :
       /\ bkPc' = IF err = "SUCCESS" THEN "files" ELSE "end"
       /\ bkReport' = IF err = "SUCCESS" THEN "none" ELSE "notStarted"
  /\ told' = IF fullBackup THEN [h \in Hashes |-> Absent] ELSE dirManifest
  /\ staleManifest' = (staleManifest \/ (fullBackup /\ dirManifest # NoManifest))
  /\ UNCHANGED <<bkRuns, bkCmd, bkQuit, fullBackup, dirInfo, dirManifest, dirStatus, dirFiles,
                 mdinfos, badWrite, unlisted, contents, hunk, restoreVars>>

\* After a message, or none: an error is sent to the device when the user quits.
FilesOut == bkPc' = IF bkQuit THEN "cancelled" ELSE "files"

\* The first hunk of a DLSendFile: a file of an earlier backup is removed, its
\* .mdinfo is not.
FirstHunk ==
  /\ bkPc = "files" /\ hunk = <<>> /\ FilesOut
  /\ \E h \in Hashes :
       /\ contents[h] # Absent /\ contents[h] # told[h]
       /\ hunk' = <<h, contents[h]>> /\ dirFiles' = [dirFiles EXCEPT ![h] = Partial]
  /\ UNCHANGED <<runVars, dirInfo, dirManifest, dirStatus, mdinfos, badWrite, staleManifest,
                 unlisted, contents, told, restoreVars>>

\* With the last one the .mdinfo is replaced.  What could not be written is not
\* noticed, here or below.
WriteInfo ==
  /\ hunk # <<>> /\ BkGoto("files", "lastHunk")
  /\ \/ mdinfos' = mdinfos \cup {hunk[1]} /\ UNCHANGED badWrite
     \/ mdinfos' = mdinfos \ {hunk[1]} /\ badWrite' = TRUE
  /\ UNCHANGED <<runVars, dirInfo, dirManifest, dirStatus, dirFiles, staleManifest, unlisted,
                 phoneVars, restoreVars>>

\* Then it is written itself, and acknowledged.
LastHunk ==
  /\ bkPc = "lastHunk" /\ FilesOut /\ hunk' = <<>>
  /\ \/ dirFiles' = [dirFiles EXCEPT ![hunk[1]] = hunk[2]] /\ UNCHANGED badWrite
     \/ badWrite' = TRUE /\ UNCHANGED dirFiles
  /\ told' = [told EXCEPT ![hunk[1]] = hunk[2]]
  /\ UNCHANGED <<runVars, dirInfo, dirManifest, dirStatus, mdinfos, staleManifest, unlisted, contents,
                 restoreVars>>

\* A manifest of what has been sent so far, "activated" by a rename.
ActivateManifest ==
  /\ bkPc = "files" /\ hunk = <<>> /\ FilesOut /\ dirManifest' = told
  /\ staleManifest' = (staleManifest /\ ~fullBackup)
  /\ UNCHANGED <<runVars, dirInfo, dirStatus, dirFiles, mdinfos, badWrite, unlisted, phoneVars,
                 restoreVars>>

\* "Device is not ready yet", for as long as there is no message.
BackupNotReady ==
  /\ bkPc = "files" /\ FilesOut
  /\ UNCHANGED <<runVars, dirVars, phoneVars, restoreVars>>

\* The device has sent all that was not there.
AllSent == hunk = <<>> /\ \A h \in Hashes : contents[h] \in {Absent, told[h]}

\* A message that is no DLSendFile ends the loop: BackupMessageBackupFinished ends
\* the backup, unless the user has quit.
BackupMessage ==
  /\ bkPc = "files"
  /\ \/ AllSent /\ ~bkQuit /\ bkPc' = "delete" /\ UNCHANGED bkReport
     \/ bkPc' = "end" /\ bkReport' = "failed"
  /\ UNCHANGED <<bkRuns, bkCmd, bkQuit, fullBackup, dirVars, phoneVars, restoreVars>>

Cancelled ==
  /\ BkGoto("cancelled", "end") /\ bkReport' = "failed"
  /\ UNCHANGED <<bkRuns, bkCmd, bkQuit, fullBackup, dirVars, phoneVars, restoreVars>>

\* BackupFilesToDeleteKey: the .mdinfo of a file goes after its .mddata did, which
\* may be gone already.
Gone == {h \in Hashes : contents[h] = Absent}
DeleteFiles ==
  /\ BkGoto("delete", "removeManifest")
  /\ dirFiles' = [h \in Hashes |-> IF h \in Gone THEN Absent ELSE dirFiles[h]]
  /\ mdinfos' = mdinfos \ {h \in Gone : dirFiles[h] # Absent}
  /\ told' = [h \in Hashes |-> IF h \in Gone THEN Absent ELSE told[h]]
  /\ UNCHANGED <<runVars, dirInfo, dirManifest, dirStatus, badWrite, staleManifest, unlisted,
                 contents, hunk, restoreVars>>

\* "save last valid Manifest.plist", if the device has sent one.
RemoveManifest ==
  /\ BkGoto("removeManifest", "storeManifest") /\ dirManifest' = NoManifest
  /\ UNCHANGED <<runVars, dirInfo, dirStatus, dirFiles, mdinfos, badWrite, staleManifest, unlisted,
                 phoneVars, restoreVars>>

StoreManifest ==
  /\ BkGoto("storeManifest", "okStatus")
  /\ \/ dirManifest' = told /\ UNCHANGED badWrite
     \/ badWrite' = TRUE /\ UNCHANGED dirManifest
  /\ unlisted' = FALSE
  /\ bkReport' = "backupSuccessful" /\ staleManifest' = (staleManifest /\ ~fullBackup)
  /\ UNCHANGED <<bkRuns, bkCmd, bkQuit, fullBackup, dirInfo, dirStatus, dirFiles, mdinfos,
                 phoneVars, restoreVars>>

\* Without one the old one stays, and the backup is as successful.
KeepManifest ==
  /\ BkGoto("removeManifest", "okStatus")
  /\ unlisted' = TRUE /\ bkReport' = "backupSuccessful"
  /\ UNCHANGED <<bkRuns, bkCmd, bkQuit, fullBackup, dirInfo, dirManifest, dirStatus, dirFiles,
                 mdinfos, badWrite, staleManifest, phoneVars, restoreVars>>

\* The user changes or removes a file, at any time.
DeviceChanges ==
  /\ \E h \in Hashes :
       \/ contents[h] \in 1 .. MaxVersion - 1 /\ contents' = [contents EXCEPT ![h] = @ + 1]
       \/ contents[h] # Absent /\ contents' = [contents EXCEPT ![h] = Absent]
  /\ bkPc \in {"idle", "files"}
  /\ UNCHANGED <<bkPc, runVars, dirVars, told, hunk, restoreVars>>

-----------------------------------------------------------------------------
(* A restore, which looks at quit_flag no more.                            *)

\* A slip: the hash of the data is computed, and not compared.
SlipIntegrity(h) == dirFiles[h] # Absent /\ h \in mdinfos

\* mobilebackup_check_file_integrity: both files are there, and the data have the
\* hash of the manifest, where that has one.
Integrity(h) ==
  /\ dirFiles[h] # Absent /\ h \in mdinfos
  /\ h \in Unhashed \/ dirFiles[h] = dirManifest[h]
Listed == {h \in Hashes : dirManifest[h] # Absent}

\* Status.plist, Manifest.plist and every file it lists.  A manifest that lists none
\* has an empty dict of "Files", which is as a file that fails, or no such dict,
\* and then there is nothing to verify.
Verify ==
  /\ bkPc = "verify"
  /\ LET verified == /\ dirStatus = "success" /\ dirManifest # NoManifest
                     /\ \A h \in Listed : Integrity(h)
     IN  \/ verified /\ bkPc' = "requestRestore" /\ UNCHANGED bkReport
         \/ (verified => Listed = {}) /\ bkPc' = "end" /\ bkReport' = "notStarted"
  /\ UNCHANGED <<bkRuns, bkCmd, bkQuit, fullBackup, dirVars, phoneVars, restoreVars>>

RequestRestore ==
  /\ bkPc = "requestRestore"
  /\ \E err \in RestoreResults :
       /\ bkPc' = IF err = "SUCCESS" THEN "restoring" ELSE "end"
       /\ bkReport' = IF err = "SUCCESS" THEN "none" ELSE "notStarted"
  /\ toSend' = Listed
  /\ UNCHANGED <<bkRuns, bkCmd, bkQuit, fullBackup, dirVars, phoneVars, acked, restoreOk>>

\* A file is sent in hunks, and the last is acknowledged; the first file for
\* which that fails is the last.
RestoreFile ==
  /\ bkPc = "restoring" /\ toSend # {}
  /\ \E h \in toSend :
       \/ /\ toSend' = toSend \ {h} /\ acked' = acked \cup {h} /\ restoreOk' = TRUE
          /\ UNCHANGED bkPc
       \/ toSend' = toSend \ {h} /\ restoreOk' = FALSE /\ bkPc' = "applications" /\ UNCHANGED acked
  /\ UNCHANGED <<runVars, dirVars, phoneVars>>

FilesRestored ==
  /\ toSend = {} /\ BkGoto("restoring", "applications")
  /\ UNCHANGED <<runVars, dirVars, phoneVars, restoreVars>>

\* The applications, each acknowledged, up to one that fails.
RestoreApplications ==
  /\ BkGoto("applications", "complete")
  /\ restoreOk' \in {restoreOk, FALSE}
  /\ UNCHANGED <<runVars, dirVars, phoneVars, toSend, acked>>

\* mobilebackup_send_restore_complete, whose failure is only printed.
RestoreComplete ==
  /\ BkGoto("complete", "end")
  /\ bkReport' = IF restoreOk THEN "restoreSuccessful" ELSE "failed"
  /\ UNCHANGED <<bkRuns, bkCmd, bkQuit, fullBackup, dirVars, phoneVars, restoreVars>>

BackupNext ==
  \/ BackupStarts \/ CheckInfoPlist \/ AcquireLock \/ RaiseBkQuit \/ BackupEnds \/ Killed
  \/ Prepare \/ RemoveStatus \/ WriteStatus \/ RequestBackup \/ FirstHunk \/ WriteInfo \/ LastHunk
  \/ ActivateManifest \/ BackupNotReady \/ BackupMessage \/ Cancelled \/ DeleteFiles
  \/ RemoveManifest \/ StoreManifest \/ KeepManifest \/ DeviceChanges
  \/ Verify \/ RequestRestore \/ RestoreFile \/ FilesRestored \/ RestoreApplications \/ RestoreComplete

BackupSpec == BackupInit /\ [][BackupNext]_bkVars

-----------------------------------------------------------------------------
RunTypes ==
  /\ bkPc \in {"idle", "info", "lock", "prepare", "failStatus", "writeFailed", "requestBackup",
               "files", "lastHunk", "cancelled", "delete", "removeManifest", "storeManifest", "okStatus",
               "writeSuccess", "verify", "requestRestore", "restoring", "applications",
               "complete", "end"}
  /\ bkCmd \in {"backup", "restore", "leave"} /\ bkRuns \in 0 .. MaxRuns
  /\ bkReport \in {"none", "notStarted", "failed", "backupSuccessful", "restoreSuccessful"}
  /\ toSend \subseteq Hashes /\ acked \subseteq Hashes
FlagTypes ==
  /\ bkQuit \in BOOLEAN /\ fullBackup \in BOOLEAN /\ restoreOk \in BOOLEAN
  /\ badWrite \in BOOLEAN /\ staleManifest \in BOOLEAN /\ unlisted \in BOOLEAN
FileTypes ==
  /\ dirInfo \in {"none", "bad", "other", "ours"} /\ dirStatus \in {"none", "failed", "success"}
  /\ dirManifest = NoManifest \/ dirManifest \in Manifests
  /\ dirFiles \in [Hashes -> {Partial, Absent} \cup Versions] /\ mdinfos \subseteq Hashes
  /\ contents \in Manifests /\ told \in Manifests
  /\ hunk = <<>> \/ hunk \in Hashes \X Versions

\* Type correctness of the run, the directory and the device.
BackupTypeOK == RunTypes /\ FlagTypes /\ FileTypes

\* A Status.plist that says success tells the truth, however many runs were
\* killed, cancelled or refused before, at whatever point: there is a manifest,
\* and every file it lists is there in the version it lists, with its .mdinfo,
\* as long as no write to the directory failed, the device sent a manifest with
\* the backup, and no full backup was broken off over the manifest of an
\* earlier one.
Whole(h) == dirFiles[h] = dirManifest[h] /\ h \in mdinfos
Trusted == dirManifest # NoManifest /\ \A h \in Listed : Whole(h)
BackupTrusted ==
  dirStatus = "success" /\ ~badWrite /\ ~unlisted /\ ~staleManifest => Trusted

\* The same without the last condition: "Manifest.plist" is the "last valid"
\* one, so that a backup may tell the device of it.
LastValidManifest == dirStatus = "success" /\ ~badWrite /\ ~unlisted => Trusted

\* What the device acknowledges in a restore is the file the manifest lists,
\* whatever runs were killed and whatever writes failed before; only a file
\* without a hash may be another, and that only after one of those three
\* accidents.  A restore that is reported successful had every listed file
\* acknowledged, and there was one: a restore of no file is reported as failed.
RestoreVerified ==
  /\ \A h \in acked :
       Whole(h) \/ (h \in Unhashed /\ (badWrite \/ unlisted \/ staleManifest))
  /\ bkReport = "restoreSuccessful" /\ bkPc = "end" => acked = Listed /\ acked # {}
=============================================================================
