------------------------------ MODULE Installer ------------------------------
(***************************************************************************)
(* The ideviceinstaller tool: main, from the first connection to the       *)
(* clean-up that every path shares.  Two threads of the libraries write    *)
(* its flags: the status updater of the installation proxy (status_cb) and *)
(* the notifier of the notification proxy (notifier).  An archive that was *)
(* copied and is to be removed sends main back to run_again with another   *)
(* mode, and with the flags of the first round.                            *)
(*                                                                         *)
(* The library is used through what its calls return; the device's file    *)
(* system, packages and property lists are only readable or not.           *)
(***************************************************************************)
EXTENDS Integers

CONSTANTS
  WaitTicks, NotifyTicks,  \* 60 and 10 half seconds
  FileSizes,               \* sizes of an archive, 0 when unknown
  MaxCopied                \* bound: what is copied before the last chunk

ASSUME SizesAreNaturals == FileSizes \subseteq Nat
ASSUME TicksAreNaturals == WaitTicks \in Nat /\ NotifyTicks \in 0 .. WaitTicks

\* main connects to the installation proxy at most twice.
Rounds == 1 .. 2
Modes == {"list", "install", "uninstall", "list_archives", "archive", "restore",
          "remove_archive"}
Options == [copy : BOOLEAN, remove : BOOLEAN, uninstall : BOOLEAN]

VARIABLES
  mainPc, mode, options,
  round,                 \* connections to the installation proxy so far
  handles,               \* what client, np, ipc and afc point to: "none", "live" or "freed"
  waitForOp, notificationExpected, opCompleted, errOccured, notified,
  ticks,                 \* "i" of do_wait_when_needed
  operation,             \* per round: "none", "running", "complete" or "error"
  stated, copied,        \* "fsize" and "total"
  removing,              \* history: a removal was asked for after a copy
  doubleFree             \* history: a handle was freed or used after it was freed

instFlags == <<waitForOp, notificationExpected, opCompleted, errOccured, notified>>
instVars == <<mainPc, mode, options, round, handles, waitForOp, notificationExpected,
              opCompleted, errOccured, notified, ticks, operation, stated, copied, removing,
              doubleFree>>

\* The arguments; the globals are zero.
InstInit ==
  /\ mainPc = "connect" /\ mode \in Modes
  /\ options \in Options /\ (mode # "archive" => options = [o \in {"copy", "remove", "uninstall"} |-> FALSE])
  /\ round = 0
  /\ handles = [h \in {"client", "np", "ipc", "afc"} |-> "none"]
  /\ waitForOp = FALSE /\ notificationExpected = FALSE
  /\ opCompleted = FALSE /\ errOccured = FALSE /\ notified = FALSE
  /\ ticks = 0 /\ operation = [r \in Rounds |-> "none"]
  /\ stated = 0 /\ copied = 0 /\ removing = FALSE /\ doubleFree = FALSE

MainGoto(from, to) == mainPc = from /\ mainPc' = to
SetHandle(h, v) == handles' = [handles EXCEPT ![h] = v]
\* A handle is used, or freed: the pointer must not be one freed before.
Touches(h) == doubleFree' = (doubleFree \/ handles[h] = "freed")

-----------------------------------------------------------------------------
(* main.                                                                   *)

\* lockdownd, the notification proxy and its callback; every failure goes to
\* the clean-up with what there is.
Connect ==
  /\ \/ MainGoto("connect", "cleanup") /\ \E c \in {"none", "live"} : SetHandle("client", c)
     \/ MainGoto("connect", "run_again")
        /\ handles' = [handles EXCEPT !["client"] = "live", !["np"] = "live"]
  /\ UNCHANGED <<mode, options, round, instFlags, ticks, operation, stated, copied, removing,
                 doubleFree>>

\* run_again: the handle of an earlier round is overwritten.
StartProxy ==
  /\ Touches("client")
  /\ \/ MainGoto("run_again", "cleanup") /\ UNCHANGED <<round, handles, notificationExpected>>
     \/ /\ MainGoto("run_again", mode)
        /\ round' = round + 1 /\ SetHandle("ipc", "live")
        /\ notificationExpected' = FALSE
  /\ UNCHANGED <<mode, options, waitForOp, opCompleted, errOccured, notified, ticks, operation,
                 stated, copied, removing>>

\* The two list modes; with the option xml they go to the clean-up as well.
ListEnds(from) ==
  /\ \E to \in {"unneeded", "cleanup"} : MainGoto(from, to)
  /\ UNCHANGED <<mode, options, round, handles, instFlags, ticks, operation, stated, copied,
                 removing, doubleFree>>

ListApps == ListEnds("list")
ListArchives == ListEnds("list_archives")

\* AFC is started, lockdownd is left, and the package is read.
OpenAfc(from, to) ==
  /\ Touches("client")
  /\ \/ MainGoto(from, "cleanup") /\ UNCHANGED handles
     \/ /\ \/ MainGoto(from, "cleanup") /\ \E a \in {"none", "live"} :
                handles' = [handles EXCEPT !["client"] = "none", !["afc"] = a]
           \/ MainGoto(from, to)
              /\ handles' = [handles EXCEPT !["client"] = "none", !["afc"] = "live"]
  /\ UNCHANGED <<mode, options, round, instFlags, ticks, operation, stated, copied, removing>>

PrepareInstall == OpenAfc("install", "upload")

\* The package in chunks; a write that fails ends it.
Upload ==
  /\ Touches("afc")
  /\ \E to \in {"upload", "command", "cleanup"} : MainGoto("upload", to)
  /\ UNCHANGED <<mode, options, round, handles, instFlags, ticks, operation, stated, copied,
                 removing>>

\* The command is sent, and whether it was is not asked.
Command(expected) ==
  /\ operation' \in {[operation EXCEPT ![round] = o] : o \in {"none", "running"}}
  /\ waitForOp' = TRUE /\ notificationExpected' = expected
  /\ removing' = (removing \/ (mode = "remove_archive" /\ round = 2))

Install ==
  /\ MainGoto("command", "unneeded") /\ Command(TRUE)
  /\ UNCHANGED <<mode, options, round, handles, opCompleted, errOccured, notified, ticks,
                 stated, copied, doubleFree>>

UninstallOrRestore ==
  /\ mode \in {"uninstall", "restore", "remove_archive"}
  /\ MainGoto(mode, "unneeded") /\ Command(IF mode = "remove_archive" THEN notificationExpected ELSE TRUE)
  /\ UNCHANGED <<mode, options, round, handles, opCompleted, errOccured, notified, ticks,
                 stated, copied, doubleFree>>

\* "copy=": a directory must exist, and AFC is started first.
ArchiveOptions ==
  \/ options.copy /\ OpenAfc("archive", "archive_command")
  \/ /\ ~options.copy /\ MainGoto("archive", "archive_command")
     /\ UNCHANGED <<mode, options, round, handles, instFlags, ticks, operation, stated, copied,
                    removing, doubleFree>>

Archive ==
  /\ MainGoto("archive_command", "archive_wait") /\ Command(options.uninstall)
  /\ ticks' = 0
  /\ UNCHANGED <<mode, options, round, handles, opCompleted, errOccured, notified, stated,
                 copied, doubleFree>>

\* "not needed anymore".
LeaveLockdown ==
  /\ MainGoto("unneeded", "wait") /\ ticks' = 0
  /\ SetHandle("client", "none") /\ Touches("client")
  /\ UNCHANGED <<mode, options, round, instFlags, operation, stated, copied, removing>>

\* A slip: the loops' conditions are mixed up.
SlipAwaitsOperation == notificationExpected /\ ~opCompleted /\ ~errOccured /\ ~notified /\ ticks < WaitTicks

\* do_wait_when_needed: both loops count with the same i.
AwaitsOperation == waitForOp /\ ~opCompleted /\ ~errOccured /\ ~notified /\ ticks < WaitTicks
AwaitsNotification == notificationExpected /\ ~notified /\ ~errOccured /\ ticks < NotifyTicks
Waits ==
  /\ mainPc \in {"wait", "archive_wait"}
  /\ IF AwaitsOperation \/ AwaitsNotification
     THEN ticks' = ticks + 1 /\ UNCHANGED mainPc
     ELSE mainPc' = (IF mainPc = "wait" THEN "cleanup" ELSE "copy") /\ UNCHANGED ticks
  /\ UNCHANGED <<mode, options, round, handles, instFlags, operation, stated, copied, removing,
                 doubleFree>>

\* After the archive: an error gives AFC back, no "copy=" is the end, and the
\* file must have a size and open.
CopyStarts ==
  /\ \/ /\ ~options.copy /\ MainGoto("copy", "cleanup") /\ UNCHANGED <<handles, stated, doubleFree>>
     \/ /\ options.copy /\ errOccured /\ MainGoto("copy", "cleanup")
        /\ SetHandle("afc", "none") /\ Touches("afc") /\ UNCHANGED stated
     \/ /\ options.copy /\ ~errOccured /\ Touches("afc") /\ UNCHANGED handles
        /\ \E s \in FileSizes : stated' = s
        /\ \/ MainGoto("copy", "cleanup")
           \/ stated' # 0 /\ MainGoto("copy", "copying")
  /\ UNCHANGED <<mode, options, round, instFlags, ticks, operation, copied, removing>>

\* A chunk is read and written, until one is empty or fails; the archive may
\* still be growing.
CopyChunk ==
  /\ Touches("afc")
  /\ \/ /\ copied <= MaxCopied /\ MainGoto("copying", "copying")
        /\ \E n \in FileSizes \ {0} : copied' = copied + n
     \/ MainGoto("copying", "copied") /\ UNCHANGED copied
  /\ UNCHANGED <<mode, options, round, handles, instFlags, ticks, operation, stated, removing>>

\* A slip: the sizes are not compared.
SlipCopyEnds ==
  /\ IF options.remove
     THEN /\ mode' = "remove_archive"
          /\ \/ MainGoto("copied", "run_again") /\ SetHandle("client", "live")
             \/ MainGoto("copied", "cleanup") /\ UNCHANGED handles
     ELSE MainGoto("copied", "cleanup") /\ UNCHANGED <<mode, handles>>
  /\ UNCHANGED <<options, round, instFlags, ticks, operation, stated, copied, removing,
                 doubleFree>>

\* "remote and local file sizes don't match" keeps the archive; otherwise
\* another round removes it, which needs lockdownd again.
CopyEnds ==
  /\ IF options.remove /\ copied = stated
     THEN /\ mode' = "remove_archive"
          /\ \/ MainGoto("copied", "run_again") /\ SetHandle("client", "live")
             \/ MainGoto("copied", "cleanup") /\ UNCHANGED handles
     ELSE MainGoto("copied", "cleanup") /\ UNCHANGED <<mode, handles>>
  /\ UNCHANGED <<options, round, instFlags, ticks, operation, stated, copied, removing,
                 doubleFree>>

\* leave_cleanup: instproxy_client_free joins the updater of this round.
Cleanup ==
  /\ MainGoto("cleanup", "exit")
  /\ doubleFree' = (doubleFree \/ \E h \in {"client", "np", "ipc", "afc"} : handles[h] = "freed")
  /\ handles' = [h \in {"client", "np", "ipc", "afc"} |-> "none"]
  /\ operation' = [r \in Rounds |-> IF r = round /\ operation[r] = "running" THEN "error"
                                    ELSE operation[r]]
  /\ UNCHANGED <<mode, options, round, instFlags, ticks, stated, copied, removing>>

-----------------------------------------------------------------------------
(* The other threads.                                                      *)

\* status_cb, from the updater of any round that still runs.
StatusCallback(r) ==
  /\ mainPc # "exit" /\ operation[r] = "running"
  /\ \/ opCompleted' = TRUE /\ operation' = [operation EXCEPT ![r] = "complete"] /\ UNCHANGED errOccured
     \/ errOccured' = TRUE /\ operation' = [operation EXCEPT ![r] = "error"] /\ UNCHANGED opCompleted
  /\ UNCHANGED <<mainPc, mode, options, round, handles, waitForOp, notificationExpected, notified,
                 ticks, stated, copied, removing, doubleFree>>

Notifier ==
  /\ handles["np"] = "live" /\ mainPc # "connect"
  /\ ~notified /\ notified' = TRUE
  /\ UNCHANGED <<mainPc, mode, options, round, handles, waitForOp, notificationExpected,
                 opCompleted, errOccured, ticks, operation, stated, copied, removing, doubleFree>>

MainStep ==
  \/ Connect \/ StartProxy \/ ListApps \/ ListArchives \/ PrepareInstall \/ Upload
  \/ Install \/ UninstallOrRestore \/ ArchiveOptions \/ Archive \/ LeaveLockdown \/ Waits
  \/ CopyStarts \/ CopyChunk \/ CopyEnds \/ Cleanup
InstNext == MainStep \/ Notifier \/ \E r \in Rounds : StatusCallback(r)

InstSpec == InstInit /\ [][InstNext]_instVars

-----------------------------------------------------------------------------
\* The types of the globals and locals of ideviceinstaller.c.
InstTypeOK ==
  /\ mode \in Modes /\ round \in 0 .. 2 /\ ticks \in 0 .. WaitTicks
  /\ handles \in [{"client", "np", "ipc", "afc"} -> {"none", "live", "freed"}]
  /\ operation \in [Rounds -> {"none", "running", "complete", "error"}]
  /\ stated \in Nat /\ copied \in Nat

\* An archive is removed from the device only after a copy as long as the
\* device had stated, and no pointer is used after it was freed on the way
\* through run_again ("NOTE: archive file will NOT be removed from device").
RemovalAfterCopy ==
  /\ (removing => options.copy /\ options.remove /\ copied = stated /\ stated # 0)
  /\ ~doubleFree

\* While it uses its first connection to the installation proxy, the tool does
\* not disconnect under a running operation unless it was notified or has
\* waited for all its half seconds.  The second round has no such protection:
\* op_completed is still set from the first.
WaitsForFirstRound ==
  (mainPc \in {"copying", "cleanup"} /\ round = 1 /\ operation[1] = "running") =>
    notified \/ ticks >= WaitTicks
=============================================================================
