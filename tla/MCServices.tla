------------------------------ MODULE MCServices ------------------------------
(***************************************************************************)
(* TLC instance of the clients of the device's services and of the         *)
(* programs over them.  Each has a connection of its own to a service of   *)
(* its own: none reads or writes what another keeps, so that a behaviour   *)
(* of all of them is one of each with the steps of the others in between,  *)
(* which a property of one cannot tell from none.  The instance therefore  *)
(* has the behaviours of one at a time: "guest" says whose.                *)
(***************************************************************************)
EXTENDS InstallationProxy, Installer, AfcClient, MobileSync, Backup2, Backup, IBoot, Asr,
        ImageMounter, Iproxy

MSyncVersion == <<100, 100>>
MSyncMinors == {99, 100, 101}

VARIABLE guest

Guests == {"instproxy", "ideviceinstaller", "afc", "mobilesync", "idevicebackup2",
           "idevicebackup", "iboot", "asr", "ideviceimagemounter", "iproxy"}

guestVars == <<ipVars, instVars, afcVars, syncVars, b2Vars, bkVars, ibVars, asrVars, imVars,
               proxyVars, guest>>

\* A guest that does not run is in one of its initial states.
Resting(name) == guest # name
GuestInit ==
  /\ guest \in Guests
  /\ IpInit /\ AfcInit /\ SyncInit /\ IproxyInit
  /\ InstInit /\ (Resting("ideviceinstaller") => mode = "list")
  /\ Backup2Init /\ (Resting("idevicebackup2") =>
                       b2Cmd = "info" /\ infoPlist = "none" /\ snapshot = "new" /\ syncLock = "free")
  /\ BackupInit /\ (Resting("idevicebackup") => dirInfo = "none")
  /\ IBootInit /\ (Resting("iboot") => plugged = "dfu")
  /\ AsrInit /\ (Resting("asr") => fileLength = 0)
  /\ ImInit /\ (Resting("ideviceimagemounter") => listMode /\ imageLength = 0)

\* A step of the guest, in which the others rest.
GuestNext ==
  /\ UNCHANGED guest
  /\ \/ guest = "instproxy" /\ IpNext
     \/ guest = "ideviceinstaller" /\ InstNext
     \/ guest = "afc" /\ AfcNext
     \/ guest = "mobilesync" /\ SyncNext
     \/ guest = "idevicebackup2" /\ Backup2Next
     \/ guest = "idevicebackup" /\ BackupNext
     \/ guest = "iboot" /\ IBootNext
     \/ guest = "asr" /\ AsrNext
     \/ guest = "ideviceimagemounter" /\ ImNext
     \/ guest = "iproxy" /\ IproxyNext
  /\ IF Resting("instproxy") THEN UNCHANGED ipVars ELSE TRUE
  /\ IF Resting("ideviceinstaller") THEN UNCHANGED instVars ELSE TRUE
  /\ IF Resting("afc") THEN UNCHANGED afcVars ELSE TRUE
  /\ IF Resting("mobilesync") THEN UNCHANGED syncVars ELSE TRUE
  /\ IF Resting("idevicebackup2") THEN UNCHANGED b2Vars ELSE TRUE
  /\ IF Resting("idevicebackup") THEN UNCHANGED bkVars ELSE TRUE
  /\ IF Resting("iboot") THEN UNCHANGED ibVars ELSE TRUE
  /\ IF Resting("asr") THEN UNCHANGED asrVars ELSE TRUE
  /\ IF Resting("ideviceimagemounter") THEN UNCHANGED imVars ELSE TRUE
  /\ IF Resting("iproxy") THEN UNCHANGED proxyVars ELSE TRUE

GuestSpec == GuestInit /\ [][GuestNext]_guestVars

-----------------------------------------------------------------------------
\* The types of every guest's variables.
ServicesTypeOK ==
  /\ IpTypeOK /\ InstTypeOK /\ AfcTypeOK /\ SyncTypeOK /\ Backup2TypeOK /\ BackupTypeOK
  /\ IBootTypeOK /\ AsrTypeOK /\ ImTypeOK /\ IproxyTypeOK

\* The two tools that copy a file over AFC act on a whole one: ideviceinstaller
\* removes an archive only after a copy as long as the device had stated, and
\* ideviceimagemounter mounts only what it has uploaded to the last byte it could
\* read.
ToolTransfersWhole == RemovalAfterCopy /\ MountAfterUpload

\* What idevicerestore reports as sent was sent: a buffer to iBoot in packets,
\* and the filesystem to ASR in chunks, for an image whose length an int holds.
RestoreTransfersWhole == UploadHonest /\ ImageSentWhole
=============================================================================
