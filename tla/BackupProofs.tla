----------------------------- MODULE BackupProofs -----------------------------
(***************************************************************************)
(* What Backup proves about the backup directory, for any files, versions  *)
(* and number of runs: its types, that a Status.plist that says success    *)
(* tells the truth however many runs were killed before, and that a        *)
(* restore is only asked for, and only called successful, when it should.  *)
(***************************************************************************)
EXTENDS Backup, TLAPS

\* The device's file is not version v any more, nor will it be again.
Newer(h, v) == contents[h] = Absent \/ contents[h] > v

Sending == {"files", "lastHunk", "delete", "removeManifest", "storeManifest"}
Beginning == {"failStatus", "writeFailed", "requestBackup"}

\* Status.plist does not say success while the directory is being changed.
StatusInv ==
  bkPc \in Sending \cup {"writeFailed", "requestBackup", "cancelled", "okStatus",
                         "writeSuccess"} => dirStatus # "success"

\* A backup that is not a full one has a manifest to tell of.
FullInv == bkPc \in Beginning /\ ~fullBackup => dirManifest # NoManifest

\* Nobody lists a version the device has not had yet.
MonotoneInv ==
  \A h \in Hashes :
    /\ contents[h] = Absent \/ told[h] <= contents[h]
    /\ dirManifest # NoManifest => contents[h] = Absent \/ dirManifest[h] <= contents[h]

\* A file that is being sent is newer than what the device was told of, and in
\* parts in the directory.
HunkInv ==
  /\ bkPc = "lastHunk" => hunk # <<>>
  /\ hunk # <<>> =>
       /\ bkPc \in {"files", "lastHunk", "cancelled", "end"}
       /\ bkPc \in {"files", "lastHunk"} =>
            /\ told[hunk[1]] < hunk[2]
            /\ contents[hunk[1]] = Absent \/ hunk[2] <= contents[hunk[1]]
            /\ dirFiles[hunk[1]] = Partial

\* A file that is there has its .mdinfo, and so has one of which the last hunk is
\* to be written.
InfoInv ==
  ~badWrite => /\ \A h \in Hashes : dirFiles[h] \in Versions => h \in mdinfos
               /\ bkPc = "lastHunk" => hunk[1] \in mdinfos

\* What the directory does not have as it was told, or as its manifest lists it,
\* the device has no more: it will be sent, or deleted.
ToldInv ==
  bkPc \in Sending /\ ~badWrite /\ (fullBackup \/ ~staleManifest) =>
    \A h \in Hashes : told[h] # Absent /\ dirFiles[h] # told[h] => Newer(h, told[h])
ManifestInv ==
  ~badWrite /\ ~staleManifest /\ dirManifest # NoManifest =>
    \A h \in Hashes : dirManifest[h] # Absent /\ dirFiles[h] # dirManifest[h] => Newer(h, dirManifest[h])

\* The manifest of the directory is behind what the device was told.
BehindInv ==
  bkPc \in {"files", "lastHunk"} /\ ~staleManifest /\ dirManifest # NoManifest =>
    \A h \in Hashes : dirManifest[h] <= told[h]

\* At the end everything has been sent.
SentInv ==
  /\ bkPc = "delete" => \A h \in Hashes : contents[h] \in {Absent, told[h]}
  /\ bkPc \in {"removeManifest", "storeManifest"} =>
       \A h \in Hashes : told[h] \in {Absent, contents[h]}

WrittenInv ==
  bkPc \in {"okStatus", "writeSuccess"} /\ ~badWrite /\ ~unlisted /\ ~staleManifest => Trusted

\* A restore: what was verified and acknowledged, and what the report may say.
VerifiedInv ==
  bkPc \in {"requestRestore", "restoring"} =>
    dirStatus = "success" /\ dirManifest # NoManifest /\ \A h \in Listed : Integrity(h)
RestoreInv ==
  /\ bkPc \notin {"restoring", "applications", "complete", "end", "idle"} => acked = {}
  /\ restoreOk => acked # {}
  /\ bkPc = "restoring" => toSend \subseteq Listed /\ acked = Listed \ toSend
  /\ bkPc \in {"applications", "complete"} /\ restoreOk => acked = Listed
  /\ bkReport = "restoreSuccessful" => bkPc \in {"end", "idle"}

IInv ==
  /\ BackupTypeOK
  /\ StatusInv /\ FullInv /\ MonotoneInv /\ HunkInv /\ InfoInv
  /\ ToldInv /\ ManifestInv /\ BehindInv /\ SentInv /\ WrittenInv
  /\ RestoreInv /\ VerifiedInv /\ BackupTrusted /\ RestoreVerified

\* The types of the run.
LEMMA RunTypesStep ==
  ASSUME RunTypes, [BackupNext]_bkVars
  PROVE  RunTypes'
<1> USE DEF RunTypes, Listed
<1>1. CASE BackupStarts
  BY BackupBounds, <1>1 DEF BackupStarts, BkGoto, dirVars, phoneVars
<1>2. CASE CheckInfoPlist
  BY <1>2 DEF CheckInfoPlist, BkGoto, dirVars, phoneVars, restoreVars
<1>3. CASE AcquireLock
  BY <1>3 DEF AcquireLock, dirVars, phoneVars, restoreVars
<1>4. CASE RaiseBkQuit
  BY <1>4 DEF RaiseBkQuit, dirVars, phoneVars, restoreVars
<1>5. CASE BackupEnds
  BY <1>5 DEF BackupEnds, BkGoto, dirVars, restoreVars, runVars
<1>6. CASE Killed
  BY <1>6 DEF Killed, restoreVars
<1>7. CASE Prepare
  BY <1>7 DEF Prepare, BkGoto, phoneVars, restoreVars
<1>8. CASE RemoveStatus
  BY <1>8 DEF RemoveStatus, BkGoto, phoneVars, restoreVars, runVars
<1>9. CASE WriteStatus
  BY <1>9 DEF WriteStatus, BkGoto, phoneVars, restoreVars, runVars
<1>10. CASE RequestBackup
  BY <1>10 DEF RequestBackup, restoreVars
<1>11. CASE FirstHunk
  BY <1>11 DEF FirstHunk, FilesOut, restoreVars, runVars
<1>12. CASE WriteInfo
  BY <1>12 DEF WriteInfo, BkGoto, phoneVars, restoreVars, runVars
<1>13. CASE LastHunk
  BY <1>13 DEF LastHunk, FilesOut, restoreVars, runVars
<1>14. CASE ActivateManifest
  BY <1>14 DEF ActivateManifest, FilesOut, phoneVars, restoreVars, runVars
<1>15. CASE BackupNotReady
  BY <1>15 DEF BackupNotReady, FilesOut, dirVars, phoneVars, restoreVars, runVars
<1>16. CASE BackupMessage
  BY <1>16 DEF BackupMessage, dirVars, phoneVars, restoreVars
<1>17. CASE Cancelled
  BY <1>17 DEF Cancelled, BkGoto, dirVars, phoneVars, restoreVars
<1>18. CASE DeleteFiles
  BY <1>18 DEF DeleteFiles, BkGoto, restoreVars, runVars
<1>19. CASE RemoveManifest
  BY <1>19 DEF RemoveManifest, BkGoto, phoneVars, restoreVars, runVars
<1>20. CASE StoreManifest
  BY <1>20 DEF StoreManifest, BkGoto, phoneVars, restoreVars
<1>21. CASE KeepManifest
  BY <1>21 DEF KeepManifest, BkGoto, phoneVars, restoreVars
<1>22. CASE Verify
  BY <1>22 DEF Verify, dirVars, phoneVars, restoreVars
<1>23. CASE RequestRestore
  BY <1>23 DEF RequestRestore, dirVars, phoneVars
<1>24. CASE RestoreFile
  BY <1>24 DEF RestoreFile, dirVars, phoneVars, runVars
<1>25. CASE FilesRestored
  BY <1>25 DEF FilesRestored, BkGoto, dirVars, phoneVars, restoreVars, runVars
<1>26. CASE RestoreApplications
  BY <1>26 DEF RestoreApplications, BkGoto, dirVars, phoneVars, runVars
<1>27. CASE RestoreComplete
  BY <1>27 DEF RestoreComplete, BkGoto, dirVars, phoneVars, restoreVars
<1>28. CASE UNCHANGED <<bkPc, bkCmd, bkRuns, bkReport, toSend, acked>>
  BY <1>28
<1> QED
  BY <1>1, <1>2, <1>3, <1>4, <1>5, <1>6, <1>7, <1>8, <1>9, <1>10, <1>11, <1>12, <1>13, <1>14,
     <1>15, <1>16, <1>17, <1>18, <1>19, <1>20, <1>21, <1>22, <1>23, <1>24, <1>25, <1>26, <1>27,
     <1>28 DEF BackupNext, bkVars, BkGoto, FilesOut, dirVars, phoneVars, restoreVars, runVars,
     DeviceChanges

\* The types of the flags.
LEMMA FlagTypesStep ==
  ASSUME FlagTypes, [BackupNext]_bkVars
  PROVE  FlagTypes'
<1> USE DEF FlagTypes
<1>1. CASE BackupStarts
  BY <1>1 DEF BackupStarts, BkGoto, dirVars, phoneVars
<1>2. CASE CheckInfoPlist
  BY <1>2 DEF CheckInfoPlist, BkGoto, dirVars, phoneVars, restoreVars
<1>3. CASE RaiseBkQuit
  BY <1>3 DEF RaiseBkQuit, dirVars, phoneVars, restoreVars
<1>4. CASE Prepare
  BY <1>4 DEF Prepare, BkGoto, phoneVars, restoreVars
<1>5. CASE RequestBackup
  BY <1>5 DEF RequestBackup, restoreVars
<1>6. CASE WriteInfo
  BY <1>6 DEF WriteInfo, BkGoto, phoneVars, restoreVars, runVars
<1>7. CASE LastHunk
  BY <1>7 DEF LastHunk, FilesOut, restoreVars, runVars
<1>8. CASE ActivateManifest
  BY <1>8 DEF ActivateManifest, FilesOut, phoneVars, restoreVars, runVars
<1>9. CASE StoreManifest
  BY <1>9 DEF StoreManifest, BkGoto, phoneVars, restoreVars
<1>10. CASE KeepManifest
  BY <1>10 DEF KeepManifest, BkGoto, phoneVars, restoreVars
<1>11. CASE RestoreFile
  BY <1>11 DEF RestoreFile, dirVars, phoneVars, runVars
<1>12. CASE RestoreApplications
  BY <1>12 DEF RestoreApplications, BkGoto, dirVars, phoneVars, runVars
<1>13. CASE UNCHANGED <<bkQuit, fullBackup, restoreOk, badWrite, staleManifest, unlisted>>
  BY <1>13
<1> QED
  BY <1>1, <1>2, <1>3, <1>4, <1>5, <1>6, <1>7, <1>8, <1>9, <1>10, <1>11, <1>12, <1>13 DEF
     BackupNext, bkVars, BkGoto, FilesOut, dirVars, phoneVars, restoreVars, runVars,
     AcquireLock, BackupEnds, Killed, RemoveStatus, WriteStatus, FirstHunk, BackupNotReady,
     BackupMessage, Cancelled, DeleteFiles, RemoveManifest, DeviceChanges, Verify,
     RequestRestore, FilesRestored, RestoreComplete

\* The old Status.plist is removed before anything else is written, and says failed until all is.
LEMMA StatusStep ==
  ASSUME StatusInv, [BackupNext]_bkVars
  PROVE  StatusInv'
<1> USE DEF StatusInv, Sending
<1>1. CASE BackupStarts
  BY <1>1 DEF BackupStarts, BkGoto, dirVars, phoneVars
<1>2. CASE CheckInfoPlist
  BY <1>2 DEF CheckInfoPlist, BkGoto, dirVars, phoneVars, restoreVars
<1>3. CASE AcquireLock
  BY <1>3 DEF AcquireLock, dirVars, phoneVars, restoreVars
<1>4. CASE BackupEnds
  BY <1>4 DEF BackupEnds, BkGoto, dirVars, restoreVars, runVars
<1>5. CASE Killed
  BY <1>5 DEF Killed, restoreVars
<1>6. CASE Prepare
  BY <1>6 DEF Prepare, BkGoto, phoneVars, restoreVars
<1>7. CASE RemoveStatus
  BY <1>7 DEF RemoveStatus, BkGoto, phoneVars, restoreVars, runVars
<1>8. CASE WriteStatus
  BY <1>8 DEF WriteStatus, BkGoto, phoneVars, restoreVars, runVars
<1>9. CASE RequestBackup
  BY <1>9 DEF RequestBackup, restoreVars
<1>10. CASE FirstHunk
  BY <1>10 DEF FirstHunk, FilesOut, restoreVars, runVars
<1>11. CASE WriteInfo
  BY <1>11 DEF WriteInfo, BkGoto, phoneVars, restoreVars, runVars
<1>12. CASE LastHunk
  BY <1>12 DEF LastHunk, FilesOut, restoreVars, runVars
<1>13. CASE ActivateManifest
  BY <1>13 DEF ActivateManifest, FilesOut, phoneVars, restoreVars, runVars
<1>14. CASE BackupNotReady
  BY <1>14 DEF BackupNotReady, FilesOut, dirVars, phoneVars, restoreVars, runVars
<1>15. CASE BackupMessage
  BY <1>15 DEF BackupMessage, dirVars, phoneVars, restoreVars
<1>16. CASE Cancelled
  BY <1>16 DEF Cancelled, BkGoto, dirVars, phoneVars, restoreVars
<1>17. CASE DeleteFiles
  BY <1>17 DEF DeleteFiles, BkGoto, restoreVars, runVars
<1>18. CASE RemoveManifest
  BY <1>18 DEF RemoveManifest, BkGoto, phoneVars, restoreVars, runVars
<1>19. CASE StoreManifest
  BY <1>19 DEF StoreManifest, BkGoto, phoneVars, restoreVars
<1>20. CASE KeepManifest
  BY <1>20 DEF KeepManifest, BkGoto, phoneVars, restoreVars
<1>21. CASE Verify
  BY <1>21 DEF Verify, dirVars, phoneVars, restoreVars
<1>22. CASE RequestRestore
  BY <1>22 DEF RequestRestore, dirVars, phoneVars
<1>23. CASE RestoreFile
  BY <1>23 DEF RestoreFile, dirVars, phoneVars, runVars
<1>24. CASE FilesRestored
  BY <1>24 DEF FilesRestored, BkGoto, dirVars, phoneVars, restoreVars, runVars
<1>25. CASE RestoreApplications
  BY <1>25 DEF RestoreApplications, BkGoto, dirVars, phoneVars, runVars
<1>26. CASE RestoreComplete
  BY <1>26 DEF RestoreComplete, BkGoto, dirVars, phoneVars, restoreVars
<1>27. CASE UNCHANGED <<bkPc, dirStatus>>
  BY <1>27
<1> QED
  BY <1>1, <1>2, <1>3, <1>4, <1>5, <1>6, <1>7, <1>8, <1>9, <1>10, <1>11, <1>12, <1>13, <1>14,
     <1>15, <1>16, <1>17, <1>18, <1>19, <1>20, <1>21, <1>22, <1>23, <1>24, <1>25, <1>26, <1>27
     DEF BackupNext, bkVars, BkGoto, FilesOut, dirVars, phoneVars, restoreVars, runVars,
     RaiseBkQuit, DeviceChanges

\* mobilebackup_write_status comes after is_full_backup is decided, and no manifest goes between.
LEMMA FullStep ==
  ASSUME FullInv, [BackupNext]_bkVars
  PROVE  FullInv'
<1> USE DEF FullInv, Beginning
<1>1. CASE BackupStarts
  BY <1>1 DEF BackupStarts, BkGoto, dirVars, phoneVars
<1>2. CASE CheckInfoPlist
  BY <1>2 DEF CheckInfoPlist, BkGoto, dirVars, phoneVars, restoreVars
<1>3. CASE AcquireLock
  BY <1>3 DEF AcquireLock, dirVars, phoneVars, restoreVars
<1>4. CASE BackupEnds
  BY <1>4 DEF BackupEnds, BkGoto, dirVars, restoreVars, runVars
<1>5. CASE Killed
  BY <1>5 DEF Killed, restoreVars
<1>6. CASE Prepare
  BY <1>6 DEF Prepare, BkGoto, phoneVars, restoreVars
<1>7. CASE RemoveStatus
  BY <1>7 DEF RemoveStatus, BkGoto, phoneVars, restoreVars, runVars
<1>8. CASE WriteStatus
  BY <1>8 DEF WriteStatus, BkGoto, phoneVars, restoreVars, runVars
<1>9. CASE RequestBackup
  BY <1>9 DEF RequestBackup, restoreVars
<1>10. CASE FirstHunk
  BY <1>10 DEF FirstHunk, FilesOut, restoreVars, runVars
<1>11. CASE WriteInfo
  BY <1>11 DEF WriteInfo, BkGoto, phoneVars, restoreVars, runVars
<1>12. CASE LastHunk
  BY <1>12 DEF LastHunk, FilesOut, restoreVars, runVars
<1>13. CASE ActivateManifest
  BY <1>13 DEF ActivateManifest, FilesOut, phoneVars, restoreVars, runVars
<1>14. CASE BackupNotReady
  BY <1>14 DEF BackupNotReady, FilesOut, dirVars, phoneVars, restoreVars, runVars
<1>15. CASE BackupMessage
  BY <1>15 DEF BackupMessage, dirVars, phoneVars, restoreVars
<1>16. CASE Cancelled
  BY <1>16 DEF Cancelled, BkGoto, dirVars, phoneVars, restoreVars
<1>17. CASE DeleteFiles
  BY <1>17 DEF DeleteFiles, BkGoto, restoreVars, runVars
<1>18. CASE RemoveManifest
  BY <1>18 DEF RemoveManifest, BkGoto, phoneVars, restoreVars, runVars
<1>19. CASE StoreManifest
  BY <1>19 DEF StoreManifest, BkGoto, phoneVars, restoreVars
<1>20. CASE KeepManifest
  BY <1>20 DEF KeepManifest, BkGoto, phoneVars, restoreVars
<1>21. CASE Verify
  BY <1>21 DEF Verify, dirVars, phoneVars, restoreVars
<1>22. CASE RequestRestore
  BY <1>22 DEF RequestRestore, dirVars, phoneVars
<1>23. CASE RestoreFile
  BY <1>23 DEF RestoreFile, dirVars, phoneVars, runVars
<1>24. CASE FilesRestored
  BY <1>24 DEF FilesRestored, BkGoto, dirVars, phoneVars, restoreVars, runVars
<1>25. CASE RestoreApplications
  BY <1>25 DEF RestoreApplications, BkGoto, dirVars, phoneVars, runVars
<1>26. CASE RestoreComplete
  BY <1>26 DEF RestoreComplete, BkGoto, dirVars, phoneVars, restoreVars
<1>27. CASE UNCHANGED <<bkPc, fullBackup, dirManifest>>
  BY <1>27
<1> QED
  BY <1>1, <1>2, <1>3, <1>4, <1>5, <1>6, <1>7, <1>8, <1>9, <1>10, <1>11, <1>12, <1>13, <1>14,
     <1>15, <1>16, <1>17, <1>18, <1>19, <1>20, <1>21, <1>22, <1>23, <1>24, <1>25, <1>26, <1>27
     DEF BackupNext, bkVars, BkGoto, FilesOut, dirVars, phoneVars, restoreVars, runVars,
     RaiseBkQuit, DeviceChanges

\* A file of the device gets a new version, or is gone for good.
LEMMA Aging ==
  ASSUME FileTypes, DeviceChanges
  PROVE  /\ contents' \in Manifests
         /\ \A h \in Hashes :
              contents'[h] \in {contents[h], Absent} \/ (contents[h] # Absent /\ contents'[h] > contents[h])
<1> USE DEF FileTypes, Manifests, Absent, Versions
<1>1. PICK h \in Hashes :
        \/ contents[h] \in 1 .. MaxVersion - 1 /\ contents' = [contents EXCEPT ![h] = @ + 1]
        \/ contents[h] # Absent /\ contents' = [contents EXCEPT ![h] = Absent]
  BY DEF DeviceChanges
<1>2. contents' \in Manifests
  BY <1>1, BackupBounds
<1>3. ASSUME NEW g \in Hashes
      PROVE  contents'[g] \in {contents[g], Absent} \/ (contents[g] # Absent /\ contents'[g] > contents[g])
  BY <1>1, BackupBounds
<1> QED
  BY <1>2, <1>3, Zenon

\* The types of the directory and of the device.
LEMMA FileTypesStep ==
  ASSUME FullInv, HunkInv, FileTypes, [BackupNext]_bkVars
  PROVE  FileTypes'
<1> USE DEF FileTypes, Manifests, Versions, NoManifest, Partial, Absent, Gone, FullInv, Beginning
<1>1. CASE BackupEnds
  BY <1>1 DEF BackupEnds, BkGoto, dirVars, restoreVars, runVars
<1>2. CASE Killed
  BY <1>2 DEF Killed, restoreVars
<1>3. CASE Prepare
  BY <1>3 DEF Prepare, BkGoto, phoneVars, restoreVars
<1>4. CASE RemoveStatus
  BY <1>4 DEF RemoveStatus, BkGoto, phoneVars, restoreVars, runVars
<1>5. CASE WriteStatus
  BY <1>5 DEF WriteStatus, BkGoto, phoneVars, restoreVars, runVars
<1>6. CASE RequestBackup
  BY <1>6 DEF RequestBackup, restoreVars
<1>7. CASE FirstHunk
  BY <1>7 DEF FirstHunk, FilesOut, restoreVars, runVars
<1>8. CASE WriteInfo
  BY <1>8 DEF WriteInfo, BkGoto, phoneVars, restoreVars, runVars
<1>9. CASE LastHunk
  BY <1>9 DEF LastHunk, FilesOut, HunkInv, restoreVars, runVars
<1>10. CASE ActivateManifest
  BY <1>10 DEF ActivateManifest, FilesOut, phoneVars, restoreVars, runVars
<1>11. CASE DeleteFiles
  BY <1>11 DEF DeleteFiles, BkGoto, restoreVars, runVars
<1>12. CASE RemoveManifest
  BY <1>12 DEF RemoveManifest, BkGoto, phoneVars, restoreVars, runVars
<1>13. CASE StoreManifest
  BY <1>13 DEF StoreManifest, BkGoto, phoneVars, restoreVars
<1>14. CASE KeepManifest
  BY <1>14 DEF KeepManifest, BkGoto, phoneVars, restoreVars
<1>15. CASE DeviceChanges
  BY <1>15, Aging DEF DeviceChanges, dirVars
<1>16. CASE UNCHANGED <<dirInfo, dirStatus, dirManifest, dirFiles, mdinfos, contents, told, hunk>>
  BY <1>16
<1> QED
  BY <1>1, <1>2, <1>3, <1>4, <1>5, <1>6, <1>7, <1>8, <1>9, <1>10, <1>11, <1>12, <1>13, <1>14,
     <1>15, <1>16 DEF BackupNext, bkVars, BkGoto, FilesOut, dirVars, phoneVars, restoreVars,
     runVars, BackupStarts, CheckInfoPlist, AcquireLock, RaiseBkQuit, BackupNotReady,
     BackupMessage, Cancelled, Verify, RequestRestore, RestoreFile, FilesRestored,
     RestoreApplications, RestoreComplete

\* A file that is being sent is newer than what the device has sent before.
LEMMA HunkStep ==
  ASSUME FileTypes, MonotoneInv, HunkInv, [BackupNext]_bkVars
  PROVE  HunkInv'
<1> USE DEF HunkInv, MonotoneInv, AllSent, FileTypes, Manifests, Versions, NoManifest, Absent,
   Partial, Gone
<1>1. CASE BackupStarts
  BY <1>1 DEF BackupStarts, BkGoto, dirVars, phoneVars
<1>2. CASE CheckInfoPlist
  BY <1>2 DEF CheckInfoPlist, BkGoto, dirVars, phoneVars, restoreVars
<1>3. CASE AcquireLock
  BY <1>3 DEF AcquireLock, dirVars, phoneVars, restoreVars
<1>4. CASE BackupEnds
  BY <1>4 DEF BackupEnds, BkGoto, dirVars, restoreVars, runVars
<1>5. CASE Killed
  BY <1>5 DEF Killed, restoreVars
<1>6. CASE Prepare
  BY <1>6 DEF Prepare, BkGoto, phoneVars, restoreVars
<1>7. CASE RemoveStatus
  BY <1>7 DEF RemoveStatus, BkGoto, phoneVars, restoreVars, runVars
<1>8. CASE WriteStatus
  BY <1>8 DEF WriteStatus, BkGoto, phoneVars, restoreVars, runVars
<1>9. CASE RequestBackup
  BY <1>9 DEF RequestBackup, restoreVars
<1>10. CASE FirstHunk
  BY <1>10 DEF FirstHunk, FilesOut, restoreVars, runVars
<1>11. CASE WriteInfo
  BY <1>11 DEF WriteInfo, BkGoto, phoneVars, restoreVars, runVars
<1>12. CASE LastHunk
  BY <1>12 DEF LastHunk, FilesOut, restoreVars, runVars
<1>13. CASE ActivateManifest
  BY <1>13 DEF ActivateManifest, FilesOut, phoneVars, restoreVars, runVars
<1>14. CASE BackupNotReady
  BY <1>14 DEF BackupNotReady, FilesOut, dirVars, phoneVars, restoreVars, runVars
<1>15. CASE BackupMessage
  BY <1>15 DEF BackupMessage, dirVars, phoneVars, restoreVars
<1>16. CASE Cancelled
  BY <1>16 DEF Cancelled, BkGoto, dirVars, phoneVars, restoreVars
<1>17. CASE DeleteFiles
  BY <1>17 DEF DeleteFiles, BkGoto, restoreVars, runVars
<1>18. CASE RemoveManifest
  BY <1>18 DEF RemoveManifest, BkGoto, phoneVars, restoreVars, runVars
<1>19. CASE StoreManifest
  BY <1>19 DEF StoreManifest, BkGoto, phoneVars, restoreVars
<1>20. CASE KeepManifest
  BY <1>20 DEF KeepManifest, BkGoto, phoneVars, restoreVars
<1>21. CASE Verify
  BY <1>21 DEF Verify, dirVars, phoneVars, restoreVars
<1>22. CASE RequestRestore
  BY <1>22 DEF RequestRestore, dirVars, phoneVars
<1>23. CASE RestoreFile
  BY <1>23 DEF RestoreFile, dirVars, phoneVars, runVars
<1>24. CASE FilesRestored
  BY <1>24 DEF FilesRestored, BkGoto, dirVars, phoneVars, restoreVars, runVars
<1>25. CASE RestoreApplications
  BY <1>25 DEF RestoreApplications, BkGoto, dirVars, phoneVars, runVars
<1>26. CASE RestoreComplete
  BY <1>26 DEF RestoreComplete, BkGoto, dirVars, phoneVars, restoreVars
<1>27. CASE DeviceChanges
  <2>1. UNCHANGED <<bkPc, told, hunk, dirFiles>>
    BY <1>27 DEF DeviceChanges, dirVars
  <2> QED
    BY <1>27, <2>1, Aging
<1>28. CASE UNCHANGED <<bkPc, contents, told, hunk, dirFiles>>
  BY <1>28
<1> QED
  BY <1>1, <1>2, <1>3, <1>4, <1>5, <1>6, <1>7, <1>8, <1>9, <1>10, <1>11, <1>12, <1>13, <1>14,
     <1>15, <1>16, <1>17, <1>18, <1>19, <1>20, <1>21, <1>22, <1>23, <1>24, <1>25, <1>26, <1>27,
     <1>28 DEF BackupNext, bkVars, BkGoto, FilesOut, dirVars, phoneVars, restoreVars, runVars,
     RaiseBkQuit

\* The .mdinfo is written before the last of the data, and deleted after them.
LEMMA InfoStep ==
  ASSUME FileTypes, FlagTypes, HunkInv, InfoInv, [BackupNext]_bkVars
  PROVE  InfoInv'
<1> USE DEF InfoInv, FileTypes, FlagTypes, Manifests, Versions, NoManifest, Absent, Partial, Gone
<1>1. CASE Killed
  BY <1>1 DEF Killed, HunkInv, restoreVars
<1>2. CASE FirstHunk
  BY <1>2 DEF FirstHunk, FilesOut, restoreVars, runVars
<1>3. CASE WriteInfo
  BY <1>3 DEF WriteInfo, BkGoto, phoneVars, restoreVars, runVars
<1>4. CASE LastHunk
  <2>1. /\ hunk \in Hashes \X Versions /\ mdinfos' = mdinfos
        /\ \/ dirFiles' = [dirFiles EXCEPT ![hunk[1]] = hunk[2]] /\ UNCHANGED badWrite
           \/ badWrite' = TRUE
        /\ ~badWrite => hunk[1] \in mdinfos
        /\ bkPc' # "lastHunk"
    BY <1>4 DEF LastHunk, HunkInv, FilesOut
  <2>2. CASE badWrite' = TRUE
    BY <2>2
  <2>3. CASE dirFiles' = [dirFiles EXCEPT ![hunk[1]] = hunk[2]] /\ UNCHANGED badWrite
    <3>1. ASSUME ~badWrite, NEW h \in Hashes, dirFiles'[h] \in Versions PROVE h \in mdinfos
      BY <2>1, <2>3, <3>1
    <3> QED
      BY <2>1, <2>3, <3>1
  <2> QED
    BY <2>1, <2>2, <2>3
<1>5. CASE DeleteFiles
  BY <1>5 DEF DeleteFiles, BkGoto, restoreVars, runVars
<1>6. CASE StoreManifest
  BY <1>6 DEF StoreManifest, BkGoto, phoneVars, restoreVars
<1>7. CASE /\ UNCHANGED <<badWrite, dirFiles, mdinfos>>
           /\ bkPc' = "lastHunk" => UNCHANGED <<bkPc, hunk>>
  BY <1>7
<1> QED
  BY <1>1, <1>2, <1>3, <1>4, <1>5, <1>6, <1>7 DEF BackupNext, bkVars, BkGoto, FilesOut, dirVars,
     phoneVars, restoreVars, runVars, BackupStarts, CheckInfoPlist, AcquireLock, RaiseBkQuit,
     BackupEnds, Prepare, RemoveStatus, WriteStatus, RequestBackup, ActivateManifest,
     BackupNotReady, BackupMessage, Cancelled, RemoveManifest, KeepManifest, DeviceChanges, Verify,
     RequestRestore, RestoreFile, FilesRestored, RestoreApplications, RestoreComplete

\* The device counts its versions up.
LEMMA MonotoneStep ==
  ASSUME FileTypes, FlagTypes, FullInv, HunkInv, MonotoneInv, [BackupNext]_bkVars
  PROVE  MonotoneInv'
<1> USE DEF MonotoneInv, FlagTypes, FullInv, HunkInv, Beginning, FileTypes, Manifests, Versions,
   NoManifest, Absent, Partial, Gone
<1>1. CASE RequestBackup
  BY <1>1 DEF RequestBackup, restoreVars
<1>2. CASE WriteInfo
  BY <1>2 DEF WriteInfo, BkGoto, phoneVars, restoreVars, runVars
<1>3. CASE LastHunk
  BY BackupBounds, <1>3 DEF LastHunk
<1>4. CASE ActivateManifest
  BY <1>4 DEF ActivateManifest, FilesOut, phoneVars, restoreVars, runVars
<1>5. CASE DeleteFiles
  BY <1>5 DEF DeleteFiles, BkGoto, restoreVars, runVars
<1>6. CASE RemoveManifest
  BY <1>6 DEF RemoveManifest, BkGoto, phoneVars, restoreVars, runVars
<1>7. CASE StoreManifest
  BY <1>7 DEF StoreManifest, BkGoto, phoneVars, restoreVars
<1>8. CASE KeepManifest
  BY <1>8 DEF KeepManifest, BkGoto, phoneVars, restoreVars
<1>9. CASE DeviceChanges
  BY <1>9, Aging, BackupBounds DEF DeviceChanges, dirVars
<1>10. CASE UNCHANGED <<contents, told, dirManifest>>
  BY <1>10
<1> QED
  BY <1>1, <1>2, <1>3, <1>4, <1>5, <1>6, <1>7, <1>8, <1>9, <1>10 DEF BackupNext, bkVars, BkGoto,
     FilesOut, dirVars, phoneVars, restoreVars, runVars, BackupStarts, CheckInfoPlist,
     AcquireLock, RaiseBkQuit, BackupEnds, Killed, Prepare, RemoveStatus, WriteStatus,
     FirstHunk, BackupNotReady, BackupMessage, Cancelled, Verify, RequestRestore, RestoreFile,
     FilesRestored, RestoreApplications, RestoreComplete

\* BackupMessageBackupFinished comes when there is nothing more to send.
LEMMA SentStep ==
  ASSUME FileTypes, FlagTypes, SentInv, [BackupNext]_bkVars
  PROVE  SentInv'
<1> USE DEF SentInv, FlagTypes, AllSent, FileTypes, Manifests, Versions, NoManifest, Absent,
   Partial, Gone
<1>1. CASE BackupStarts
  BY <1>1 DEF BackupStarts, BkGoto, dirVars, phoneVars
<1>2. CASE CheckInfoPlist
  BY <1>2 DEF CheckInfoPlist, BkGoto, dirVars, phoneVars, restoreVars
<1>3. CASE AcquireLock
  BY <1>3 DEF AcquireLock, dirVars, phoneVars, restoreVars
<1>4. CASE BackupEnds
  BY <1>4 DEF BackupEnds, BkGoto, dirVars, restoreVars, runVars
<1>5. CASE Killed
  BY <1>5 DEF Killed, restoreVars
<1>6. CASE Prepare
  BY <1>6 DEF Prepare, BkGoto, phoneVars, restoreVars
<1>7. CASE RemoveStatus
  BY <1>7 DEF RemoveStatus, BkGoto, phoneVars, restoreVars, runVars
<1>8. CASE WriteStatus
  BY <1>8 DEF WriteStatus, BkGoto, phoneVars, restoreVars, runVars
<1>9. CASE RequestBackup
  BY <1>9 DEF RequestBackup, restoreVars
<1>10. CASE FirstHunk
  BY <1>10 DEF FirstHunk, FilesOut, restoreVars, runVars
<1>11. CASE WriteInfo
  BY <1>11 DEF WriteInfo, BkGoto, phoneVars, restoreVars, runVars
<1>12. CASE LastHunk
  BY <1>12 DEF LastHunk, FilesOut, restoreVars, runVars
<1>13. CASE ActivateManifest
  BY <1>13 DEF ActivateManifest, FilesOut, phoneVars, restoreVars, runVars
<1>14. CASE BackupNotReady
  BY <1>14 DEF BackupNotReady, FilesOut, dirVars, phoneVars, restoreVars, runVars
<1>15. CASE BackupMessage
  <2>1. /\ bkPc' = "end" \/ (bkPc' = "delete" /\ AllSent)
        /\ UNCHANGED <<contents, told>>
    BY <1>15, Zenon DEF BackupMessage, phoneVars
  <2> QED
    BY <2>1
<1>16. CASE Cancelled
  BY <1>16 DEF Cancelled, BkGoto, dirVars, phoneVars, restoreVars
<1>17. CASE DeleteFiles
  BY <1>17 DEF DeleteFiles, BkGoto, restoreVars, runVars
<1>18. CASE RemoveManifest
  BY <1>18 DEF RemoveManifest, BkGoto, phoneVars, restoreVars, runVars
<1>19. CASE StoreManifest
  BY <1>19 DEF StoreManifest, BkGoto, phoneVars, restoreVars
<1>20. CASE KeepManifest
  BY <1>20 DEF KeepManifest, BkGoto, phoneVars, restoreVars
<1>21. CASE Verify
  BY <1>21 DEF Verify, dirVars, phoneVars, restoreVars
<1>22. CASE RequestRestore
  BY <1>22 DEF RequestRestore, dirVars, phoneVars
<1>23. CASE RestoreFile
  BY <1>23 DEF RestoreFile, dirVars, phoneVars, runVars
<1>24. CASE FilesRestored
  BY <1>24 DEF FilesRestored, BkGoto, dirVars, phoneVars, restoreVars, runVars
<1>25. CASE RestoreApplications
  BY <1>25 DEF RestoreApplications, BkGoto, dirVars, phoneVars, runVars
<1>26. CASE RestoreComplete
  BY <1>26 DEF RestoreComplete, BkGoto, dirVars, phoneVars, restoreVars
<1>27. CASE DeviceChanges
  BY <1>27 DEF DeviceChanges, dirVars, restoreVars, runVars
<1>28. CASE UNCHANGED <<bkPc, contents, told>>
  BY <1>28
<1> QED
  BY <1>1, <1>2, <1>3, <1>4, <1>5, <1>6, <1>7, <1>8, <1>9, <1>10, <1>11, <1>12, <1>13, <1>14,
     <1>15, <1>16, <1>17, <1>18, <1>19, <1>20, <1>21, <1>22, <1>23, <1>24, <1>25, <1>26, <1>27,
     <1>28 DEF BackupNext, bkVars, BkGoto, FilesOut, dirVars, phoneVars, restoreVars, runVars,
     RaiseBkQuit

\* What the manifest lists the device was told, or has sent since.
LEMMA BehindStep ==
  ASSUME FileTypes, FlagTypes, HunkInv, MonotoneInv, BehindInv, [BackupNext]_bkVars
  PROVE  BehindInv'
<1> USE DEF BehindInv, FlagTypes, HunkInv, MonotoneInv, FileTypes, Manifests, Versions,
   NoManifest, Absent, Partial, Gone
<1>1. CASE BackupStarts
  BY <1>1 DEF BackupStarts, BkGoto, dirVars, phoneVars
<1>2. CASE CheckInfoPlist
  BY <1>2 DEF CheckInfoPlist, BkGoto, dirVars, phoneVars, restoreVars
<1>3. CASE AcquireLock
  BY <1>3 DEF AcquireLock, dirVars, phoneVars, restoreVars
<1>4. CASE BackupEnds
  BY <1>4 DEF BackupEnds, BkGoto, dirVars, restoreVars, runVars
<1>5. CASE Killed
  BY <1>5 DEF Killed, restoreVars
<1>6. CASE Prepare
  BY <1>6 DEF Prepare, BkGoto, phoneVars, restoreVars
<1>7. CASE RemoveStatus
  BY <1>7 DEF RemoveStatus, BkGoto, phoneVars, restoreVars, runVars
<1>8. CASE WriteStatus
  BY <1>8 DEF WriteStatus, BkGoto, phoneVars, restoreVars, runVars
<1>9. CASE RequestBackup
  BY <1>9 DEF RequestBackup, restoreVars
<1>10. CASE FirstHunk
  BY <1>10 DEF FirstHunk, FilesOut, restoreVars, runVars
<1>11. CASE WriteInfo
  BY <1>11 DEF WriteInfo, BkGoto, phoneVars, restoreVars, runVars
<1>12. CASE LastHunk
  <2>1. /\ hunk \in Hashes \X Versions /\ told[hunk[1]] < hunk[2]
        /\ told' = [told EXCEPT ![hunk[1]] = hunk[2]]
        /\ bkPc = "lastHunk" /\ UNCHANGED <<dirManifest, staleManifest>>
    BY <1>12, Zenon DEF LastHunk
  <2> QED
    BY <2>1, BackupBounds
<1>13. CASE ActivateManifest
  BY <1>13 DEF ActivateManifest, FilesOut, phoneVars, restoreVars, runVars
<1>14. CASE BackupNotReady
  BY <1>14 DEF BackupNotReady, FilesOut, dirVars, phoneVars, restoreVars, runVars
<1>15. CASE BackupMessage
  BY <1>15 DEF BackupMessage, dirVars, phoneVars, restoreVars
<1>16. CASE Cancelled
  BY <1>16 DEF Cancelled, BkGoto, dirVars, phoneVars, restoreVars
<1>17. CASE DeleteFiles
  BY <1>17 DEF DeleteFiles, BkGoto, restoreVars, runVars
<1>18. CASE RemoveManifest
  BY <1>18 DEF RemoveManifest, BkGoto, phoneVars, restoreVars, runVars
<1>19. CASE StoreManifest
  BY <1>19 DEF StoreManifest, BkGoto, phoneVars, restoreVars
<1>20. CASE KeepManifest
  BY <1>20 DEF KeepManifest, BkGoto, phoneVars, restoreVars
<1>21. CASE Verify
  BY <1>21 DEF Verify, dirVars, phoneVars, restoreVars
<1>22. CASE RequestRestore
  BY <1>22 DEF RequestRestore, dirVars, phoneVars
<1>23. CASE RestoreFile
  BY <1>23 DEF RestoreFile, dirVars, phoneVars, runVars
<1>24. CASE FilesRestored
  BY <1>24 DEF FilesRestored, BkGoto, dirVars, phoneVars, restoreVars, runVars
<1>25. CASE RestoreApplications
  BY <1>25 DEF RestoreApplications, BkGoto, dirVars, phoneVars, runVars
<1>26. CASE RestoreComplete
  BY <1>26 DEF RestoreComplete, BkGoto, dirVars, phoneVars, restoreVars
<1>27. CASE UNCHANGED <<bkPc, staleManifest, told, dirManifest>>
  BY <1>27
<1> QED
  BY <1>1, <1>2, <1>3, <1>4, <1>5, <1>6, <1>7, <1>8, <1>9, <1>10, <1>11, <1>12, <1>13, <1>14,
     <1>15, <1>16, <1>17, <1>18, <1>19, <1>20, <1>21, <1>22, <1>23, <1>24, <1>25, <1>26, <1>27
     DEF BackupNext, bkVars, BkGoto, FilesOut, dirVars, phoneVars, restoreVars, runVars,
     RaiseBkQuit, DeviceChanges

\* A file that is not there as it was told will be sent again, or deleted.
LEMMA ToldStep ==
  ASSUME FileTypes, FlagTypes, FullInv, MonotoneInv, ManifestInv, HunkInv, ToldInv,
     [BackupNext]_bkVars
  PROVE  ToldInv'
<1> USE DEF ToldInv, FlagTypes, FullInv, Beginning, MonotoneInv, ManifestInv, HunkInv, Newer,
   Sending, FileTypes, Manifests, Versions, NoManifest, Absent, Partial, Gone
<1>1. CASE BackupStarts
  BY <1>1 DEF BackupStarts, BkGoto, dirVars, phoneVars
<1>2. CASE CheckInfoPlist
  BY <1>2 DEF CheckInfoPlist, BkGoto, dirVars, phoneVars, restoreVars
<1>3. CASE AcquireLock
  BY <1>3 DEF AcquireLock, dirVars, phoneVars, restoreVars
<1>4. CASE BackupEnds
  BY <1>4 DEF BackupEnds, BkGoto, dirVars, restoreVars, runVars
<1>5. CASE Killed
  BY <1>5 DEF Killed, restoreVars
<1>6. CASE Prepare
  BY <1>6 DEF Prepare, BkGoto, phoneVars, restoreVars
<1>7. CASE RemoveStatus
  BY <1>7 DEF RemoveStatus, BkGoto, phoneVars, restoreVars, runVars
<1>8. CASE WriteStatus
  BY <1>8 DEF WriteStatus, BkGoto, phoneVars, restoreVars, runVars
<1>9. CASE RequestBackup
  BY <1>9 DEF RequestBackup, restoreVars
<1>10. CASE FirstHunk
  BY <1>10 DEF FirstHunk, FilesOut, restoreVars, runVars
<1>11. CASE WriteInfo
  BY <1>11 DEF WriteInfo, BkGoto, phoneVars, restoreVars, runVars
<1>12. CASE LastHunk
  BY <1>12 DEF LastHunk, FilesOut, restoreVars, runVars
<1>13. CASE ActivateManifest
  BY <1>13 DEF ActivateManifest, FilesOut, phoneVars, restoreVars, runVars
<1>14. CASE BackupNotReady
  BY <1>14 DEF BackupNotReady, FilesOut, dirVars, phoneVars, restoreVars, runVars
<1>15. CASE BackupMessage
  BY <1>15 DEF BackupMessage, dirVars, phoneVars, restoreVars
<1>16. CASE Cancelled
  BY <1>16 DEF Cancelled, BkGoto, dirVars, phoneVars, restoreVars
<1>17. CASE DeleteFiles
  BY <1>17 DEF DeleteFiles, BkGoto, restoreVars, runVars
<1>18. CASE RemoveManifest
  BY <1>18 DEF RemoveManifest, BkGoto, phoneVars, restoreVars, runVars
<1>19. CASE StoreManifest
  BY <1>19 DEF StoreManifest, BkGoto, phoneVars, restoreVars
<1>20. CASE KeepManifest
  BY <1>20 DEF KeepManifest, BkGoto, phoneVars, restoreVars
<1>21. CASE Verify
  BY <1>21 DEF Verify, dirVars, phoneVars, restoreVars
<1>22. CASE RequestRestore
  BY <1>22 DEF RequestRestore, dirVars, phoneVars
<1>23. CASE RestoreFile
  BY <1>23 DEF RestoreFile, dirVars, phoneVars, runVars
<1>24. CASE FilesRestored
  BY <1>24 DEF FilesRestored, BkGoto, dirVars, phoneVars, restoreVars, runVars
<1>25. CASE RestoreApplications
  BY <1>25 DEF RestoreApplications, BkGoto, dirVars, phoneVars, runVars
<1>26. CASE RestoreComplete
  BY <1>26 DEF RestoreComplete, BkGoto, dirVars, phoneVars, restoreVars
<1>27. CASE DeviceChanges
  BY <1>27 DEF DeviceChanges, dirVars, restoreVars, runVars
<1>28. CASE UNCHANGED <<bkPc, badWrite, fullBackup, staleManifest, told, dirFiles, contents>>
  BY <1>28
<1> QED
  BY <1>1, <1>2, <1>3, <1>4, <1>5, <1>6, <1>7, <1>8, <1>9, <1>10, <1>11, <1>12, <1>13, <1>14,
     <1>15, <1>16, <1>17, <1>18, <1>19, <1>20, <1>21, <1>22, <1>23, <1>24, <1>25, <1>26, <1>27,
     <1>28 DEF BackupNext, bkVars, BkGoto, FilesOut, dirVars, phoneVars, restoreVars, runVars,
     RaiseBkQuit

\* The same of the files of the manifest: this is what killed runs rest on.
LEMMA ManifestStep ==
  ASSUME FileTypes, FlagTypes, MonotoneInv, BehindInv, ToldInv, HunkInv, ManifestInv,
     [BackupNext]_bkVars
  PROVE  ManifestInv'
<1> USE DEF ManifestInv, FlagTypes, MonotoneInv, BehindInv, ToldInv, HunkInv, Newer, Sending,
   FileTypes, Manifests, Versions, NoManifest, Absent, Partial, Gone
<1>1. CASE RequestBackup
  BY <1>1 DEF RequestBackup, restoreVars
<1>2. CASE FirstHunk
  BY <1>2 DEF FirstHunk, FilesOut, restoreVars, runVars
<1>3. CASE WriteInfo
  BY <1>3 DEF WriteInfo, BkGoto, phoneVars, restoreVars, runVars
<1>4. CASE LastHunk
  BY <1>4 DEF LastHunk, FilesOut, restoreVars, runVars
<1>5. CASE ActivateManifest
  BY <1>5 DEF ActivateManifest, FilesOut, phoneVars, restoreVars, runVars
<1>6. CASE DeleteFiles
  BY <1>6 DEF DeleteFiles, BkGoto, restoreVars, runVars
<1>7. CASE RemoveManifest
  BY <1>7 DEF RemoveManifest, BkGoto, phoneVars, restoreVars, runVars
<1>8. CASE StoreManifest
  BY <1>8 DEF StoreManifest, BkGoto, phoneVars, restoreVars
<1>9. CASE KeepManifest
  BY <1>9 DEF KeepManifest, BkGoto, phoneVars, restoreVars
<1>10. CASE DeviceChanges
  BY <1>10 DEF DeviceChanges, dirVars, restoreVars, runVars
<1>11. CASE UNCHANGED <<badWrite, staleManifest, dirManifest, dirFiles, contents>>
  BY <1>11
<1> QED
  BY <1>1, <1>2, <1>3, <1>4, <1>5, <1>6, <1>7, <1>8, <1>9, <1>10, <1>11 DEF BackupNext, bkVars,
     BkGoto, FilesOut, dirVars, phoneVars, restoreVars, runVars, BackupStarts, CheckInfoPlist,
     AcquireLock, RaiseBkQuit, BackupEnds, Killed, Prepare, RemoveStatus, WriteStatus,
     BackupNotReady, BackupMessage, Cancelled, Verify, RequestRestore, RestoreFile,
     FilesRestored, RestoreApplications, RestoreComplete

\* The directory is what its manifest says before Status.plist says success.
LEMMA WrittenStep ==
  ASSUME FileTypes, FlagTypes, InfoInv, ToldInv, SentInv, WrittenInv, [BackupNext]_bkVars
  PROVE  WrittenInv'
<1> USE DEF WrittenInv, FlagTypes, ToldInv, SentInv, Newer, Sending, InfoInv, Trusted, Whole, Listed,
   FileTypes, Manifests, Versions, NoManifest, Absent, Partial, Gone
<1>1. CASE BackupStarts
  BY <1>1 DEF BackupStarts, BkGoto, dirVars, phoneVars
<1>2. CASE CheckInfoPlist
  BY <1>2 DEF CheckInfoPlist, BkGoto, dirVars, phoneVars, restoreVars
<1>3. CASE AcquireLock
  BY <1>3 DEF AcquireLock, dirVars, phoneVars, restoreVars
<1>4. CASE BackupEnds
  BY <1>4 DEF BackupEnds, BkGoto, dirVars, restoreVars, runVars
<1>5. CASE Killed
  BY <1>5 DEF Killed, restoreVars
<1>6. CASE Prepare
  BY <1>6 DEF Prepare, BkGoto, phoneVars, restoreVars
<1>7. CASE RemoveStatus
  BY <1>7 DEF RemoveStatus, BkGoto, phoneVars, restoreVars, runVars
<1>8. CASE WriteStatus
  BY <1>8 DEF WriteStatus, BkGoto, phoneVars, restoreVars, runVars
<1>9. CASE RequestBackup
  BY <1>9 DEF RequestBackup, restoreVars
<1>10. CASE FirstHunk
  BY <1>10 DEF FirstHunk, FilesOut, restoreVars, runVars
<1>11. CASE WriteInfo
  BY <1>11 DEF WriteInfo, BkGoto, phoneVars, restoreVars, runVars
<1>12. CASE LastHunk
  BY <1>12 DEF LastHunk, FilesOut, restoreVars, runVars
<1>13. CASE ActivateManifest
  BY <1>13 DEF ActivateManifest, FilesOut, phoneVars, restoreVars, runVars
<1>14. CASE BackupNotReady
  BY <1>14 DEF BackupNotReady, FilesOut, dirVars, phoneVars, restoreVars, runVars
<1>15. CASE BackupMessage
  BY <1>15 DEF BackupMessage, dirVars, phoneVars, restoreVars
<1>16. CASE Cancelled
  BY <1>16 DEF Cancelled, BkGoto, dirVars, phoneVars, restoreVars
<1>17. CASE DeleteFiles
  BY <1>17 DEF DeleteFiles, BkGoto, restoreVars, runVars
<1>18. CASE RemoveManifest
  BY <1>18 DEF RemoveManifest, BkGoto, phoneVars, restoreVars, runVars
<1>19. CASE StoreManifest
  BY BackupBounds, <1>19 DEF StoreManifest, BkGoto, phoneVars, restoreVars
<1>20. CASE KeepManifest
  BY <1>20 DEF KeepManifest, BkGoto, phoneVars, restoreVars
<1>21. CASE Verify
  BY <1>21 DEF Verify, dirVars, phoneVars, restoreVars
<1>22. CASE RequestRestore
  BY <1>22 DEF RequestRestore, dirVars, phoneVars
<1>23. CASE RestoreFile
  BY <1>23 DEF RestoreFile, dirVars, phoneVars, runVars
<1>24. CASE FilesRestored
  BY <1>24 DEF FilesRestored, BkGoto, dirVars, phoneVars, restoreVars, runVars
<1>25. CASE RestoreApplications
  BY <1>25 DEF RestoreApplications, BkGoto, dirVars, phoneVars, runVars
<1>26. CASE RestoreComplete
  BY <1>26 DEF RestoreComplete, BkGoto, dirVars, phoneVars, restoreVars
<1>27. CASE UNCHANGED <<bkPc, badWrite, unlisted, staleManifest, dirManifest, dirFiles, mdinfos>>
  BY <1>27
<1> QED
  BY <1>1, <1>2, <1>3, <1>4, <1>5, <1>6, <1>7, <1>8, <1>9, <1>10, <1>11, <1>12, <1>13, <1>14,
     <1>15, <1>16, <1>17, <1>18, <1>19, <1>20, <1>21, <1>22, <1>23, <1>24, <1>25, <1>26, <1>27
     DEF BackupNext, bkVars, BkGoto, FilesOut, dirVars, phoneVars, restoreVars, runVars,
     RaiseBkQuit, DeviceChanges

\* Nothing changes the directory while Status.plist says success.
LEMMA TrustedStep ==
  ASSUME FileTypes, FlagTypes, StatusInv, WrittenInv, BackupTrusted, [BackupNext]_bkVars
  PROVE  BackupTrusted'
<1> USE DEF BackupTrusted, FlagTypes, StatusInv, WrittenInv, Sending, Trusted, Whole, Listed,
   FileTypes, Manifests, Versions, NoManifest, Absent, Partial, Gone
<1>1. CASE RemoveStatus
  BY <1>1 DEF RemoveStatus, BkGoto, phoneVars, restoreVars, runVars
<1>2. CASE WriteStatus
  BY <1>2 DEF WriteStatus, BkGoto, phoneVars, restoreVars, runVars
<1>3. CASE RequestBackup
  BY <1>3 DEF RequestBackup, restoreVars
<1>4. CASE FirstHunk
  BY <1>4 DEF FirstHunk, FilesOut, restoreVars, runVars
<1>5. CASE WriteInfo
  BY <1>5 DEF WriteInfo, BkGoto, phoneVars, restoreVars, runVars
<1>6. CASE LastHunk
  BY <1>6 DEF LastHunk, FilesOut, restoreVars, runVars
<1>7. CASE ActivateManifest
  BY <1>7 DEF ActivateManifest, FilesOut, phoneVars, restoreVars, runVars
<1>8. CASE DeleteFiles
  BY <1>8 DEF DeleteFiles, BkGoto, restoreVars, runVars
<1>9. CASE RemoveManifest
  BY <1>9 DEF RemoveManifest, BkGoto, phoneVars, restoreVars, runVars
<1>10. CASE StoreManifest
  BY <1>10 DEF StoreManifest, BkGoto, phoneVars, restoreVars
<1>11. CASE KeepManifest
  BY <1>11 DEF KeepManifest, BkGoto, phoneVars, restoreVars
<1>12. CASE UNCHANGED <<dirStatus, badWrite, unlisted, staleManifest, dirManifest, dirFiles, mdinfos>>
  BY <1>12
<1> QED
  BY <1>1, <1>2, <1>3, <1>4, <1>5, <1>6, <1>7, <1>8, <1>9, <1>10, <1>11, <1>12 DEF BackupNext,
     bkVars, BkGoto, FilesOut, dirVars, phoneVars, restoreVars, runVars, BackupStarts,
     CheckInfoPlist, AcquireLock, RaiseBkQuit, BackupEnds, Killed, Prepare, BackupNotReady,
     BackupMessage, Cancelled, DeviceChanges, Verify, RequestRestore, RestoreFile,
     FilesRestored, RestoreApplications, RestoreComplete

\* A restore accounts for every file.
LEMMA RestoreStep ==
  ASSUME RunTypes, FlagTypes, RestoreInv, [BackupNext]_bkVars
  PROVE  RestoreInv'
<1> USE DEF RestoreInv, RunTypes, FlagTypes, Listed, Absent
<1>1. CASE BackupStarts
  BY <1>1 DEF BackupStarts, BkGoto, dirVars, phoneVars
<1>2. CASE CheckInfoPlist
  BY <1>2 DEF CheckInfoPlist, BkGoto, dirVars, phoneVars, restoreVars
<1>3. CASE AcquireLock
  BY <1>3 DEF AcquireLock, dirVars, phoneVars, restoreVars
<1>4. CASE BackupEnds
  BY <1>4 DEF BackupEnds, BkGoto, dirVars, restoreVars, runVars
<1>5. CASE Killed
  BY <1>5 DEF Killed, restoreVars
<1>6. CASE Prepare
  BY <1>6 DEF Prepare, BkGoto, phoneVars, restoreVars
<1>7. CASE RemoveStatus
  BY <1>7 DEF RemoveStatus, BkGoto, phoneVars, restoreVars, runVars
<1>8. CASE WriteStatus
  BY <1>8 DEF WriteStatus, BkGoto, phoneVars, restoreVars, runVars
<1>9. CASE RequestBackup
  BY <1>9 DEF RequestBackup, restoreVars
<1>10. CASE FirstHunk
  BY <1>10 DEF FirstHunk, FilesOut, restoreVars, runVars
<1>11. CASE WriteInfo
  BY <1>11 DEF WriteInfo, BkGoto, phoneVars, restoreVars, runVars
<1>12. CASE LastHunk
  BY <1>12 DEF LastHunk, FilesOut, restoreVars, runVars
<1>13. CASE ActivateManifest
  BY <1>13 DEF ActivateManifest, FilesOut, phoneVars, restoreVars, runVars
<1>14. CASE BackupNotReady
  BY <1>14 DEF BackupNotReady, FilesOut, dirVars, phoneVars, restoreVars, runVars
<1>15. CASE BackupMessage
  BY <1>15 DEF BackupMessage, dirVars, phoneVars, restoreVars
<1>16. CASE Cancelled
  BY <1>16 DEF Cancelled, BkGoto, dirVars, phoneVars, restoreVars
<1>17. CASE DeleteFiles
  BY <1>17 DEF DeleteFiles, BkGoto, restoreVars, runVars
<1>18. CASE RemoveManifest
  BY <1>18 DEF RemoveManifest, BkGoto, phoneVars, restoreVars, runVars
<1>19. CASE StoreManifest
  BY <1>19 DEF StoreManifest, BkGoto, phoneVars, restoreVars
<1>20. CASE KeepManifest
  BY <1>20 DEF KeepManifest, BkGoto, phoneVars, restoreVars
<1>21. CASE Verify
  BY <1>21 DEF Verify, dirVars, phoneVars, restoreVars
<1>22. CASE RequestRestore
  BY <1>22 DEF RequestRestore, dirVars, phoneVars
<1>23. CASE RestoreFile
  BY <1>23 DEF RestoreFile, dirVars, phoneVars, runVars
<1>24. CASE FilesRestored
  BY <1>24 DEF FilesRestored, BkGoto, dirVars, phoneVars, restoreVars, runVars
<1>25. CASE RestoreApplications
  <2>1. /\ bkPc = "applications" /\ bkPc' = "complete" /\ restoreOk' \in {restoreOk, FALSE}
        /\ UNCHANGED <<acked, dirManifest, bkReport>>
    BY <1>25 DEF RestoreApplications, BkGoto, dirVars, runVars
  <2>2. restoreOk' => restoreOk
    BY <2>1, Zenon
  <2> QED
    BY <2>1, <2>2
<1>26. CASE RestoreComplete
  BY <1>26 DEF RestoreComplete, BkGoto, dirVars, phoneVars, restoreVars
<1>27. CASE UNCHANGED <<bkPc, toSend, acked, restoreOk, bkReport, dirManifest>>
  BY <1>27
<1> QED
  BY <1>1, <1>2, <1>3, <1>4, <1>5, <1>6, <1>7, <1>8, <1>9, <1>10, <1>11, <1>12, <1>13, <1>14,
     <1>15, <1>16, <1>17, <1>18, <1>19, <1>20, <1>21, <1>22, <1>23, <1>24, <1>25, <1>26, <1>27
     DEF BackupNext, bkVars, BkGoto, FilesOut, dirVars, phoneVars, restoreVars, runVars,
     RaiseBkQuit, DeviceChanges

\* Between the verification and the last file nothing changes the directory.
LEMMA VerifiedInvStep ==
  ASSUME VerifiedInv, [BackupNext]_bkVars
  PROVE  VerifiedInv'
<1> USE DEF VerifiedInv, Listed, Integrity, Absent
<1>1. CASE BackupStarts
  BY <1>1 DEF BackupStarts, BkGoto, dirVars, phoneVars
<1>2. CASE CheckInfoPlist
  BY <1>2 DEF CheckInfoPlist, BkGoto, dirVars, phoneVars, restoreVars
<1>3. CASE AcquireLock
  BY <1>3 DEF AcquireLock, dirVars, phoneVars, restoreVars
<1>4. CASE BackupEnds
  BY <1>4 DEF BackupEnds, BkGoto, dirVars, restoreVars, runVars
<1>5. CASE Killed
  BY <1>5 DEF Killed, restoreVars
<1>6. CASE Prepare
  BY <1>6 DEF Prepare, BkGoto, phoneVars, restoreVars
<1>7. CASE RemoveStatus
  BY <1>7 DEF RemoveStatus, BkGoto, phoneVars, restoreVars, runVars
<1>8. CASE WriteStatus
  BY <1>8 DEF WriteStatus, BkGoto, phoneVars, restoreVars, runVars
<1>9. CASE RequestBackup
  BY <1>9 DEF RequestBackup, restoreVars
<1>10. CASE FirstHunk
  BY <1>10 DEF FirstHunk, FilesOut, restoreVars, runVars
<1>11. CASE WriteInfo
  BY <1>11 DEF WriteInfo, BkGoto, phoneVars, restoreVars, runVars
<1>12. CASE LastHunk
  BY <1>12 DEF LastHunk, FilesOut, restoreVars, runVars
<1>13. CASE ActivateManifest
  BY <1>13 DEF ActivateManifest, FilesOut, phoneVars, restoreVars, runVars
<1>14. CASE BackupNotReady
  BY <1>14 DEF BackupNotReady, FilesOut, dirVars, phoneVars, restoreVars, runVars
<1>15. CASE BackupMessage
  BY <1>15 DEF BackupMessage, dirVars, phoneVars, restoreVars
<1>16. CASE Cancelled
  BY <1>16 DEF Cancelled, BkGoto, dirVars, phoneVars, restoreVars
<1>17. CASE DeleteFiles
  BY <1>17 DEF DeleteFiles, BkGoto, restoreVars, runVars
<1>18. CASE RemoveManifest
  BY <1>18 DEF RemoveManifest, BkGoto, phoneVars, restoreVars, runVars
<1>19. CASE StoreManifest
  BY <1>19 DEF StoreManifest, BkGoto, phoneVars, restoreVars
<1>20. CASE KeepManifest
  BY <1>20 DEF KeepManifest, BkGoto, phoneVars, restoreVars
<1>21. CASE Verify
  BY <1>21 DEF Verify, dirVars, phoneVars, restoreVars
<1>22. CASE RequestRestore
  BY <1>22 DEF RequestRestore, dirVars, phoneVars
<1>23. CASE RestoreFile
  BY <1>23 DEF RestoreFile, dirVars, phoneVars, runVars
<1>24. CASE FilesRestored
  BY <1>24 DEF FilesRestored, BkGoto, dirVars, phoneVars, restoreVars, runVars
<1>25. CASE RestoreApplications
  BY <1>25 DEF RestoreApplications, BkGoto, dirVars, phoneVars, runVars
<1>26. CASE RestoreComplete
  BY <1>26 DEF RestoreComplete, BkGoto, dirVars, phoneVars, restoreVars
<1>27. CASE UNCHANGED <<bkPc, dirStatus, dirManifest, dirFiles, mdinfos>>
  BY <1>27
<1> QED
  BY <1>1, <1>2, <1>3, <1>4, <1>5, <1>6, <1>7, <1>8, <1>9, <1>10, <1>11, <1>12, <1>13, <1>14,
     <1>15, <1>16, <1>17, <1>18, <1>19, <1>20, <1>21, <1>22, <1>23, <1>24, <1>25, <1>26, <1>27
     DEF BackupNext, bkVars, BkGoto, FilesOut, dirVars, phoneVars, restoreVars, runVars,
     RaiseBkQuit, DeviceChanges

\* A file without a hash that passes the verification is the one listed, unless
\* something has gone wrong before that BackupTrusted does not cover.
LEMMA VerifiedStep ==
  ASSUME FlagTypes, RestoreInv, VerifiedInv, BackupTrusted, RestoreVerified,
     [BackupNext]_bkVars
  PROVE  RestoreVerified'
<1> USE DEF RestoreVerified, FlagTypes, RestoreInv, Listed, Whole
<1>1. CASE BackupStarts
  BY <1>1 DEF BackupStarts, BkGoto, dirVars, phoneVars
<1>2. CASE CheckInfoPlist
  BY <1>2 DEF CheckInfoPlist, BkGoto, dirVars, phoneVars, restoreVars
<1>3. CASE AcquireLock
  BY <1>3 DEF AcquireLock, dirVars, phoneVars, restoreVars
<1>4. CASE BackupEnds
  BY <1>4 DEF BackupEnds, BkGoto, dirVars, restoreVars, runVars
<1>5. CASE Killed
  BY <1>5 DEF Killed, restoreVars
<1>6. CASE Prepare
  BY <1>6 DEF Prepare, BkGoto, phoneVars, restoreVars
<1>7. CASE RemoveStatus
  BY <1>7 DEF RemoveStatus, BkGoto, phoneVars, restoreVars, runVars
<1>8. CASE WriteStatus
  BY <1>8 DEF WriteStatus, BkGoto, phoneVars, restoreVars, runVars
<1>9. CASE RequestBackup
  BY <1>9 DEF RequestBackup, restoreVars
<1>10. CASE FirstHunk
  BY <1>10 DEF FirstHunk, FilesOut, restoreVars, runVars
<1>11. CASE WriteInfo
  BY <1>11 DEF WriteInfo, BkGoto, phoneVars, restoreVars, runVars
<1>12. CASE LastHunk
  BY <1>12 DEF LastHunk, FilesOut, restoreVars, runVars
<1>13. CASE ActivateManifest
  BY <1>13 DEF ActivateManifest, FilesOut, phoneVars, restoreVars, runVars
<1>14. CASE BackupNotReady
  BY <1>14 DEF BackupNotReady, FilesOut, dirVars, phoneVars, restoreVars, runVars
<1>15. CASE BackupMessage
  BY <1>15 DEF BackupMessage, dirVars, phoneVars, restoreVars
<1>16. CASE Cancelled
  BY <1>16 DEF Cancelled, BkGoto, dirVars, phoneVars, restoreVars
<1>17. CASE DeleteFiles
  BY <1>17 DEF DeleteFiles, BkGoto, restoreVars, runVars
<1>18. CASE RemoveManifest
  BY <1>18 DEF RemoveManifest, BkGoto, phoneVars, restoreVars, runVars
<1>19. CASE StoreManifest
  BY <1>19 DEF StoreManifest, BkGoto, phoneVars, restoreVars
<1>20. CASE KeepManifest
  BY <1>20 DEF KeepManifest, BkGoto, phoneVars, restoreVars
<1>21. CASE Verify
  BY <1>21 DEF Verify, dirVars, phoneVars, restoreVars
<1>22. CASE RequestRestore
  BY <1>22 DEF RequestRestore, dirVars, phoneVars
<1>23. CASE RestoreFile
  <2>1. /\ bkPc = "restoring"
        /\ UNCHANGED <<dirManifest, dirFiles, mdinfos, badWrite, unlisted, staleManifest, bkReport>>
    BY <1>23 DEF RestoreFile, dirVars, runVars
  <2>2. acked' = acked \/ \E h \in toSend : acked' = acked \cup {h}
    BY <1>23 DEF RestoreFile
  <2>3. toSend \subseteq Listed /\ bkReport # "restoreSuccessful"
    BY <2>1
  <2>4. ASSUME NEW h \in Listed
        PROVE  Whole(h) \/ (h \in Unhashed /\ (badWrite \/ unlisted \/ staleManifest))
    <3>1. dirStatus = "success" /\ Integrity(h)
      BY <2>1 DEF VerifiedInv
    <3>2. CASE h \in Unhashed /\ ~badWrite /\ ~unlisted /\ ~staleManifest
      BY <3>1, <3>2 DEF BackupTrusted, Trusted
    <3> QED
      BY <3>1, <3>2 DEF Integrity
  <2> HIDE DEF Whole, Listed
  <2>5. ASSUME NEW h \in acked'
        PROVE  Whole(h) \/ (h \in Unhashed /\ (badWrite \/ unlisted \/ staleManifest))
    BY <2>2, <2>3, <2>4
  <2> QED
    BY <2>1, <2>3, <2>5 DEF Whole
<1>24. CASE FilesRestored
  BY <1>24 DEF FilesRestored, BkGoto, dirVars, phoneVars, restoreVars, runVars
<1>25. CASE RestoreApplications
  BY <1>25 DEF RestoreApplications, BkGoto, dirVars, phoneVars, runVars
<1>26. CASE RestoreComplete
  BY <1>26 DEF RestoreComplete, BkGoto, dirVars, phoneVars, restoreVars
<1>27. CASE UNCHANGED <<bkPc, dirManifest, dirFiles, mdinfos, badWrite, unlisted, staleManifest, bkReport, acked>>
  BY <1>27
<1> QED
  BY <1>1, <1>2, <1>3, <1>4, <1>5, <1>6, <1>7, <1>8, <1>9, <1>10, <1>11, <1>12, <1>13, <1>14,
     <1>15, <1>16, <1>17, <1>18, <1>19, <1>20, <1>21, <1>22, <1>23, <1>24, <1>25, <1>26, <1>27
     DEF BackupNext, bkVars, BkGoto, FilesOut, dirVars, phoneVars, restoreVars, runVars,
     RaiseBkQuit, DeviceChanges

\* The directory is empty, or holds a whole backup.
LEMMA InitIInv == BackupInit => IInv
<1> SUFFICES ASSUME BackupInit PROVE IInv
  OBVIOUS
<1> USE BackupBounds DEF BackupInit, Absent, NoManifest, Partial, Versions, Manifests
<1>1. BackupTypeOK
  <2>1. RunTypes
    BY DEF RunTypes
  <2>2. FlagTypes
    BY DEF FlagTypes
  <2>3. contents \in Manifests /\ told \in Manifests
    OBVIOUS
  <2>4. dirManifest = NoManifest \/ dirManifest = contents
    OBVIOUS
  <2>5. dirFiles \in [Hashes -> {Partial, Absent} \cup Versions]
    OBVIOUS
  <2>6. dirInfo \in {"none", "bad", "other", "ours"} /\ dirStatus \in {"none", "failed", "success"}
        /\ hunk = <<>>
    OBVIOUS
  <2> QED
    BY <2>1, <2>2, <2>3, <2>4, <2>5, <2>6, Zenon DEF BackupTypeOK, FileTypes
<1>2. StatusInv /\ FullInv /\ HunkInv /\ ToldInv /\ BehindInv /\ SentInv /\ WrittenInv
  BY DEF StatusInv, FullInv, HunkInv, ToldInv, BehindInv, SentInv, WrittenInv, Sending, Beginning
<1>3. MonotoneInv /\ ManifestInv /\ InfoInv
  BY DEF MonotoneInv, ManifestInv, InfoInv, Newer
<1>4. BackupTrusted
  BY DEF BackupTrusted, Trusted, Listed, Whole
<1>5. RestoreInv /\ VerifiedInv /\ RestoreVerified
  BY DEF RestoreInv, VerifiedInv, RestoreVerified
<1> QED
  BY <1>1, <1>2, <1>3, <1>4, <1>5 DEF IInv

\* Each part of the invariant is preserved, given the parts before it.
LEMMA StepIInv == IInv /\ [BackupNext]_bkVars => IInv'
<1> SUFFICES ASSUME IInv, [BackupNext]_bkVars PROVE IInv'
  OBVIOUS
<1> USE DEF IInv, BackupTypeOK
<1>1. RunTypes' /\ FlagTypes' /\ FileTypes'
  BY RunTypesStep, FlagTypesStep, FileTypesStep
<1>2. StatusInv' /\ FullInv' /\ HunkInv' /\ MonotoneInv' /\ InfoInv'
  BY StatusStep, FullStep, HunkStep, MonotoneStep, InfoStep
<1>3. ToldInv' /\ ManifestInv' /\ BehindInv' /\ SentInv'
  BY ToldStep, ManifestStep, BehindStep, SentStep
<1>4. WrittenInv' /\ BackupTrusted' /\ RestoreInv' /\ VerifiedInv' /\ RestoreVerified'
  BY WrittenStep, TrustedStep, RestoreStep, VerifiedInvStep, VerifiedStep
<1> QED
  BY <1>1, <1>2, <1>3, <1>4

\* The invariant of every behaviour.
THEOREM BackupInvariant == BackupSpec => []IInv
BY InitIInv, StepIInv, PTL DEF BackupSpec

\* The run, the directory and the device have their types.
THEOREM BackupTypeCorrect == BackupSpec => []BackupTypeOK
<1>1. IInv => BackupTypeOK
  BY DEF IInv
<1> QED
  BY BackupInvariant, <1>1, PTL

\* A Status.plist that says success tells the truth: its manifest is there, and
\* with it every file it lists, whatever became of the runs before
\* (mobilebackup_write_status, and the receiving loop of main).
THEOREM StatusTellsTheTruth == BackupSpec => []BackupTrusted
<1>1. IInv => BackupTrusted
  BY DEF IInv
<1> QED
  BY BackupInvariant, <1>1, PTL

\* What the device acknowledges in a restore is the file the manifest lists; a
\* file without a DataHash may be another only after a write that failed, a
\* backup without a manifest or a stale one.  A restore is called successful
\* only when the device has acknowledged every file, and there was one.
THEOREM RestoreIsVerified == BackupSpec => []RestoreVerified
<1>1. IInv => RestoreVerified
  BY DEF IInv
<1> QED
  BY BackupInvariant, <1>1, PTL
===============================================================================
