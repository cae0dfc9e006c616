----------------------------- MODULE ImageMounter -----------------------------
(***************************************************************************)
(* The ideviceimagemounter tool and libimobiledevice's client of the image *)
(* mounter, which it drives: connect, copy the image into the staging      *)
(* directory over AFC, have it mounted, hang up.                           *)
(*                                                                         *)
(* AFC and lockdown are used through what their calls return: of a write   *)
(* that AFC reports as a success all bytes are written.  How a result is   *)
(* printed is left out.                                                    *)
(***************************************************************************)
EXTENDS Integers

CONSTANTS
  ImageLengths,  \* lengths of images
  ReadSize       \* bytes of one fread: 8192

ASSUME ImageBounds == ImageLengths \subseteq Nat /\ ReadSize \in Nat \ {0}

VARIABLES
  imPc, listMode,
  imHandles,     \* those of lckd, mim and afc that are set
  imageLength,
  readAt, amount, readFailed,   \* where f is, the last amount, history: a read came short
  uploaded,      \* bytes AFC has written
  mountAsked,    \* history: MountImage was sent
  imRes          \* the exit code

imVars == <<imPc, listMode, imHandles, imageLength, readAt, amount, readFailed, uploaded,
            mountAsked, imRes>>
imCopy == <<imageLength, readAt, amount, readFailed, uploaded, mountAsked>>

\* The arguments; idevice_new found a device.
ImInit ==
  /\ imPc = "lockdown" /\ listMode \in BOOLEAN /\ imHandles = {} /\ imageLength \in ImageLengths
  /\ readAt = 0 /\ amount = 0 /\ readFailed = FALSE /\ uploaded = 0 /\ mountAsked = FALSE
  /\ imRes = -1

ImGoto(from, to) == imPc = from /\ imPc' = to

-----------------------------------------------------------------------------
(* The connections.                                                        *)

ConnectLockdown ==
  /\ \/ ImGoto("lockdown", "leave") /\ UNCHANGED imHandles
     \/ ImGoto("lockdown", "mounter") /\ imHandles' = imHandles \cup {"lckd"}
  /\ UNCHANGED <<listMode, imCopy, imRes>>

\* mobile_image_mounter_new.
StartMounter ==
  /\ \/ ImGoto("mounter", "leave") /\ UNCHANGED imHandles
     \/ /\ ImGoto("mounter", IF listMode THEN "unlock" ELSE "afc")
        /\ imHandles' = imHandles \cup {"mim"}
  /\ UNCHANGED <<listMode, imCopy, imRes>>

\* AFC, and then a look at both files.
StartAfc ==
  /\ \/ ImGoto("afc", "leave") /\ imHandles' \in {imHandles, imHandles \cup {"afc"}}
     \/ ImGoto("afc", "unlock") /\ imHandles' = imHandles \cup {"afc"}
  /\ UNCHANGED <<listMode, imCopy, imRes>>

FreeLockdown ==
  /\ ImGoto("unlock", IF listMode THEN "lookup" ELSE "signature")
  /\ imHandles' = imHandles \ {"lckd"}
  /\ UNCHANGED <<listMode, imCopy, imRes>>

-----------------------------------------------------------------------------
(* The image.                                                              *)

\* Neither file is read here, but for the signature.
OpenFiles ==
  /\ ImGoto("signature", "leave") \/ ImGoto("signature", "staging")
  /\ UNCHANGED <<listMode, imHandles, imCopy, imRes>>

\* A staging directory that is missing is made, or not; only the target must open.
OpenTarget ==
  /\ ImGoto("staging", "leave") \/ ImGoto("staging", "read")
  /\ UNCHANGED <<listMode, imHandles, imCopy, imRes>>

Smaller(a, b) == IF a < b THEN a ELSE b
\* fread, which does not tell the end of the file from an error.
ReadImage ==
  /\ ImGoto("read", "write")
  /\ amount' \in 0 .. Smaller(ReadSize, imageLength - readAt)
  /\ readFailed' = (readFailed \/ amount' # Smaller(ReadSize, imageLength - readAt))
  /\ readAt' = readAt + amount'
  /\ UNCHANGED <<listMode, imHandles, imageLength, uploaded, mountAsked, imRes>>

\* A slip: after a write that failed the rest is copied all the same.
SlipAfterWrite == "read"
\* What a failing afc_file_write means for the copy.
AfterFailedWrite == "leave"

WriteImage ==
  /\ \/ /\ amount = 0 /\ ImGoto("write", "mount") /\ UNCHANGED uploaded
     \/ /\ amount > 0
        /\ \/ ImGoto("write", "read") /\ uploaded' = uploaded + amount
           \/ ImGoto("write", AfterFailedWrite) /\ UNCHANGED uploaded
  /\ UNCHANGED <<listMode, imHandles, imageLength, readAt, amount, readFailed, mountAsked, imRes>>

-----------------------------------------------------------------------------
(* The image mounter.                                                      *)

\* mobile_image_mounter_lookup_image: an answer is a success whatever it says.
LookupImage ==
  /\ ImGoto("lookup", "hangup") /\ imRes' \in {imRes, 0}
  /\ UNCHANGED <<listMode, imHandles, imCopy>>

\* mobile_image_mounter_mount_image sends the request, or cannot.
MountImage ==
  /\ ImGoto("mount", "mount_result") /\ mountAsked' \in BOOLEAN
  /\ UNCHANGED <<listMode, imHandles, imageLength, readAt, amount, readFailed, uploaded, imRes>>

\* Its answer: only the status "Complete" is a success; an answer without a
\* status, or none, leaves the exit code.
MountResult ==
  /\ ImGoto("mount_result", "hangup")
  /\ imRes' \in {imRes} \cup (IF mountAsked THEN {0} ELSE {})
  /\ UNCHANGED <<listMode, imHandles, imCopy>>

\* mobile_image_mounter_hangup and mobile_image_mounter_free, whatever comes of them.
Hangup ==
  /\ ImGoto("hangup", "leave") /\ imHandles' = imHandles \ {"mim"}
  /\ UNCHANGED <<listMode, imCopy, imRes>>

\* leave: the mounter of a run that was given up is not freed.
LeaveMounter ==
  /\ ImGoto("leave", "exit") /\ imHandles' = imHandles \ {"afc", "lckd"}
  /\ UNCHANGED <<listMode, imCopy, imRes>>

ImNext ==
  \/ ConnectLockdown \/ StartMounter \/ StartAfc \/ FreeLockdown \/ OpenFiles \/ OpenTarget
  \/ ReadImage \/ WriteImage \/ LookupImage \/ MountImage \/ MountResult \/ Hangup \/ LeaveMounter

ImSpec == ImInit /\ [][ImNext]_imVars

-----------------------------------------------------------------------------
ImTypeOK ==
  /\ imPc \in {"lockdown", "mounter", "afc", "unlock", "signature", "staging", "read", "write",
               "lookup", "mount", "mount_result", "hangup", "leave", "exit"}
  /\ listMode \in BOOLEAN /\ imHandles \subseteq {"lckd", "mim", "afc"}
  /\ imageLength \in ImageLengths /\ readAt \in 0 .. imageLength /\ uploaded \in 0 .. imageLength
  /\ amount \in 0 .. ReadSize /\ readFailed \in BOOLEAN /\ mountAsked \in BOOLEAN
  /\ imRes \in {-1, 0}

\* An image is mounted only when all of it is in the staging directory, unless
\* the tool itself could not read it to its end.
MountAfterUpload == mountAsked => uploaded = imageLength \/ readFailed
=============================================================================
