------------------------------- MODULE Updater -------------------------------
(***************************************************************************)
(* The self-updater: four programs that meet only through files.           *)
(*                                                                         *)
(*   launcher   startup looks at the lock and at the two verdict markers   *)
(*              (Application.cpp:929), a check offers a release            *)
(*              (ExtremeExternalUpdater.cpp) and hands over to             *)
(*   up         the installed updater: downloads, takes the lock, moves    *)
(*              the installation into a backup folder, unpacks the         *)
(*              release, starts                                            *)
(*   fin        the updater of the unpacked release, which copies its      *)
(*              files over the installation, writes a verdict, drops the   *)
(*              lock and starts the launcher.                              *)
(*                                                                         *)
(* Every program may be killed between and inside its file operations.     *)
(***************************************************************************)
EXTENDS Naturals, FiniteSets

CONSTANTS
    Files,       \* the files of all the releases
    Exe,         \* the launcher's executable
    Upd,         \* the updater's executable
    Man,         \* manifest.txt
    MaxVersion,  \* the newest published release
    Manifest,    \* the files of each release
    Guess,       \* the files the built-in list names when there is no manifest
    Lists,       \* how the list of releases may arrive
    Truncated,   \* may an archive unpack incompletely without an error?
    Skippable,   \* bound: the releases the user may skip
    MaxEvents    \* bound on the updaters started, the kills and the failed
                 \* operations, taken together

Versions == 1..MaxVersion
None     == 0                 \* there is no such file
Torn     == MaxVersion + 1    \* a copy that was cut off
Contents == None..Torn

ASSUME UpdaterAssumption ==
    /\ {Exe, Upd, Man} \subseteq Files
    /\ MaxVersion \in Nat \ {0}
    /\ Manifest \in [Versions -> SUBSET Files]
    /\ \A v \in Versions : {Exe, Upd} \subseteq Manifest[v]
    /\ Guess \subseteq Files
    /\ Lists \subseteq {"complete", "malformed", "failed"}
    /\ Truncated \in BOOLEAN
    /\ Skippable \subseteq Versions
    /\ MaxEvents \in Nat

VARIABLES
    (***********************************************************************)
    (* On disk                                                             *)
    (***********************************************************************)
    app,       \* the installation, m_rootPath of the installed updater
    backup,    \* the folder backup_<version> of each version
    release,   \* extreme_launcher_update_release, where archives are unpacked
    marker,    \* .extreme_launcher_updater_unpack.marker in release
    archives,  \* the versions whose archive lies in the temporary folder
    lock,      \* .extreme_launcher_update.lock
    fail,      \* .extreme_launcher_update.fail
    success,   \* .extreme_launcher_update.success
    skip,      \* the releases the user chose to skip
    (***********************************************************************)
    (* The programs                                                        *)
    (***********************************************************************)
    launcher, up, fin,
    offered,   \* the release the launcher's dialog was opened with
    events,
    (***********************************************************************)
    (* History                                                             *)
    (***********************************************************************)
    base,      \* the last version that was installed completely
    unguarded, \* since the lock was last taken the user passed a warning, or
               \* a flag could not be written, a release's manifest could not
               \* be read, or two updaters were at work
    spoiled    \* since base was completed a file could not be replaced or
               \* removed, the manifest could not be read, or a stale updater
               \* took the lock

disk  == <<app, backup, release, marker, archives, skip>>
flags == <<lock, fail, success>>
hist  == <<base, unguarded, spoiled>>
vars  == <<disk, flags, launcher, offered, up, fin, events, hist>>

Folder == [Files -> Contents]

(* What QMessageBox::exec returns is the standard button that was pressed; *)
(* 0 when the event loop is already quitting and exec cannot wait.         *)
AcceptRole == 0
Ignore     == 1048576
Cancel     == 4194304

UpOff  == [pc |-> "off", own |-> None, from |-> None, to |-> None,
           todo |-> {}, quit |-> FALSE, answer |-> AcceptRole]
FinOff == [pc |-> "off", todo |-> {}, error |-> FALSE]

TypeOK ==
    /\ app \in Folder /\ release \in Folder
    /\ backup \in [Versions -> Folder]
    /\ archives \subseteq Versions /\ skip \subseteq Versions
    /\ {marker, lock, fail, success, unguarded, spoiled} \subseteq BOOLEAN
    /\ launcher \in {"off", "askLock", "askFail", "running", "offer"}
    /\ offered \in Versions \cup {None}
    /\ up \in [pc : {"off", "list", "download", "install", "locked", "answered",
                     "backup", "unpack", "spawn"},
               own : Versions \cup {None}, from : Versions \cup {None},
               to : Versions \cup {None}, todo : SUBSET Files, quit : BOOLEAN,
               answer : {AcceptRole, Ignore, Cancel}]
    /\ fin \in [pc : {"off", "start", "install", "unlock"},
                todo : SUBSET Files, error : BOOLEAN]
    /\ events \in 0..MaxEvents
    /\ base \in Versions

Init ==
    /\ app = [f \in Files |-> IF f \in Manifest[1] THEN 1 ELSE None]
    /\ backup = [v \in Versions |-> [f \in Files |-> None]]
    /\ release = [f \in Files |-> None]
    /\ archives = {} /\ skip = {}
    /\ marker = FALSE /\ lock = FALSE /\ fail = FALSE /\ success = FALSE
    /\ launcher = "running" /\ offered = None /\ up = UpOff /\ fin = FinOff
    /\ events = 0
    /\ base = 1 /\ unguarded = FALSE /\ spoiled = FALSE

Spend == events < MaxEvents /\ events' = events + 1

(* An operation that may fail.                                             *)
Try(ok) == IF ok THEN UNCHANGED events ELSE Spend

Runs(folder, f) == folder[f] \in Versions

-----------------------------------------------------------------------------
(* The launcher.                                                           *)

(* Startup after the lock was absent or ignored: the fail marker stops it, *)
(* a success marker is shown and removed, which may not succeed.           *)
CheckVerdicts ==
    IF fail THEN launcher' = "askFail" /\ UNCHANGED success
            ELSE launcher' = "running" /\ success' \in {FALSE, success}

Startup ==
    /\ launcher = "off" /\ Runs(app, Exe)
    /\ IF lock THEN launcher' = "askLock" /\ UNCHANGED success ELSE CheckVerdicts
    /\ UNCHANGED <<disk, lock, fail, offered, up, fin, events, hist>>

(* Ignore goes on, whether the file could be removed or not.               *)
AnswerLock(ignored, removed) ==
    /\ launcher = "askLock"
    /\ IF ignored THEN /\ Try(removed)
                       /\ lock' = (lock /\ ~removed)
                       /\ unguarded' = (unguarded \/ removed)
                       /\ CheckVerdicts
                  ELSE launcher' = "off" /\ UNCHANGED <<lock, success, events, unguarded>>
    /\ UNCHANGED <<disk, fail, offered, up, fin, base, spoiled>>

AnswerFail(ignored, removed) ==
    /\ launcher = "askFail"
    /\ IF ignored THEN /\ Try(removed)
                       /\ fail' = (fail /\ ~removed)
                       /\ unguarded' = (unguarded \/ removed)
                       /\ launcher' = "running" /\ success' \in {FALSE, success}
                  ELSE launcher' = "off" /\ UNCHANGED <<fail, success, events, unguarded>>
    /\ UNCHANGED <<disk, lock, offered, up, fin, base, spoiled>>

CloseLauncher ==
    /\ launcher \in {"running", "offer"}
    /\ launcher' = "off" /\ offered' = None
    /\ UNCHANGED <<disk, flags, up, fin, events, hist>>

(* What the updater takes for the installed version: that of the           *)
(* executable, its own when the executable cannot be run.                  *)
Installed == IF Runs(app, Exe) THEN app[Exe] ELSE app[Upd]

(* A check runs the updater with --check-only and reads its exit status.   *)
(* Only status 100 for a release that is not skipped changes anything: the *)
(* other outcomes are message boxes. v is the latest release at the time.  *)
CheckForUpdates(v) ==
    /\ launcher = "running"
    /\ Runs(app, Upd)
    /\ v > Installed /\ v \notin skip
    /\ launcher' = "offer" /\ offered' = v
    /\ UNCHANGED <<disk, flags, up, fin, events, hist>>

(* The dialog of offerUpdate stays open for as long as the user likes, and *)
(* the release it was opened with is the one that is installed. Install    *)
(* starts the updater detached and quits whether it started or not.        *)
InstallOffered ==
    /\ launcher = "offer" /\ Spend
    /\ up.pc = "off"        \* bound: one installed updater at a time
    /\ launcher' = "off" /\ offered' = None
    /\ up' = IF Runs(app, Upd)
             THEN [UpOff EXCEPT !.pc = "list", !.own = app[Upd], !.to = offered]
             ELSE up
    /\ UNCHANGED <<disk, flags, fin, hist>>

SkipOffered ==
    /\ launcher = "offer" /\ offered \in Skippable
    /\ launcher' = "running" /\ offered' = None
    /\ skip' = skip \cup {offered}
    /\ UNCHANGED <<app, backup, release, marker, archives, flags, up, fin, events, hist>>

DeclineOffered ==
    /\ launcher = "offer"
    /\ launcher' = "running" /\ offered' = None
    /\ UNCHANGED <<disk, flags, up, fin, events, hist>>

-----------------------------------------------------------------------------
(* The installed updater.                                                  *)

(* Mutant of LoadReleases: the version is taken as found.                  *)
LoadReleasesUnprobed(outcome) ==
    /\ up.pc = "list"
    /\ up' = IF outcome = "failed" THEN UpOff
             ELSE [up EXCEPT !.pc = "download", !.from = app[Exe],
                             !.quit = (outcome = "malformed")]
    /\ UNCHANGED <<disk, flags, launcher, offered, fin, events, hist>>

(* The release list arrives page by page. A page that does not parse calls *)
(* fail(), which posts the end of the event loop, and run() goes on with   *)
(* what was parsed before. Probing the executable for its version fails    *)
(* the same way when it cannot be run.                                     *)
LoadReleases(outcome) ==
    /\ up.pc = "list"
    /\ LET probed == Runs(app, Exe) IN
       up' = IF outcome = "failed" THEN UpOff
             ELSE [up EXCEPT !.pc   = "download",
                             !.from = IF probed THEN app[Exe] ELSE up.own,
                             !.quit = (outcome = "malformed") \/ ~probed]
    /\ UNCHANGED <<disk, flags, launcher, offered, fin, events, hist>>

(* Whatever became of the download, an archive that is there is used.      *)
DownloadAsset(ok) ==
    /\ up.pc = "download"
    /\ archives' = IF ok /\ ~up.quit THEN archives \cup {up.to} ELSE archives
    /\ up' = IF up.to \in archives' THEN [up EXCEPT !.pc = "install"] ELSE UpOff
    /\ UNCHANGED <<app, backup, release, marker, skip, flags, launcher, offered, fin, events, hist>>

(* backupAppDir's list: the manifest, some of it when it was cut off, else *)
(* the names built in.                                                     *)
BackupLists(read) ==
    IF read /\ Runs(app, Man) THEN {Manifest[app[Man]]}
    ELSE IF read /\ app[Man] = Torn THEN {Guess} \cup (SUBSET Files \ {{}})
    ELSE {Guess}

(* The updater would replace the last complete release by itself or by an  *)
(* older one, or found a newer one before base was put in its place.       *)
Stale == up.to <= base \/ (up.from > base /\ app[Exe] = base)

(* From writing the lock to the list of the backup. write_lock_file says   *)
(* whether it has, and nobody asks; a lock that was there stays then.      *)
TakeLock(written, read) ==
    /\ Try(written /\ read)
    /\ read \/ app[Man] # None
    /\ lock' = (lock \/ written)
    /\ \E list \in BackupLists(read) : up' = [up EXCEPT !.pc = "backup", !.todo = list]
    /\ unguarded' = (~lock' \/ fin.pc # "off")
    /\ spoiled' = (spoiled \/ ~read \/ Stale)
    /\ UNCHANGED <<disk, fail, success, launcher, offered, fin, base>>

PerformInstall(written, read) ==
    /\ up.pc = "install"
    /\ IF ~lock THEN TakeLock(written, read)
       ELSE /\ up' = [up EXCEPT !.pc = IF up.quit THEN "answered" ELSE "locked"]
            /\ UNCHANGED <<disk, flags, launcher, offered, fin, events, hist>>

PressButton(button) ==
    /\ up.pc = "locked"
    /\ up' = [up EXCEPT !.pc = "answered", !.answer = button]
    /\ UNCHANGED <<disk, flags, launcher, offered, fin, events, hist>>

(* The switch compares the button with a role, which no button equals.     *)
ConfirmLock(written, read) ==
    /\ up.pc = "answered"
    /\ IF up.answer = AcceptRole THEN TakeLock(written, read)
       ELSE /\ up' = UpOff
            /\ UNCHANGED <<disk, flags, launcher, offered, fin, events, hist>>

(* Mutant of BackupFile: removed although the copy failed.                 *)
BackupFileRemovesAnyway(f, copied, removed) ==
    /\ up.pc = "backup" /\ f \in up.todo
    /\ Try(copied /\ removed)
    /\ up' = [up EXCEPT !.todo = @ \ {f}]
    /\ IF copied THEN backup' = [backup EXCEPT ![up.from][f] = app[f]]
                 ELSE UNCHANGED backup
    /\ app' = IF removed THEN [app EXCEPT ![f] = None] ELSE app
    /\ spoiled' = (spoiled \/ ~removed)
    /\ UNCHANGED <<release, marker, archives, skip, flags, launcher, offered, fin, base, unguarded>>

(* One round of the loop of backupAppDir: copied, then removed. A copy     *)
(* that fails keeps the original, a removal that fails leaves both.        *)
BackupFile(f, copied, removed) ==
    /\ up.pc = "backup" /\ f \in up.todo
    /\ Try(copied /\ removed)
    /\ up' = [up EXCEPT !.todo = @ \ {f}]
    /\ \/ /\ app[f] = None
          /\ UNCHANGED <<app, backup, spoiled>>
       \/ /\ app[f] # None /\ copied
          /\ backup' = [backup EXCEPT ![up.from][f] = app[f]]
          /\ app' = IF removed THEN [app EXCEPT ![f] = None] ELSE app
          /\ spoiled' = (spoiled \/ ~removed)
       \/ /\ app[f] # None /\ ~copied
          /\ backup' \in {backup, [backup EXCEPT ![up.from][f] = Torn]}
          /\ spoiled' = TRUE
          /\ UNCHANGED app
    /\ UNCHANGED <<release, marker, archives, skip, flags, launcher, offered, fin, base, unguarded>>

BackupDone ==
    /\ up.pc = "backup" /\ up.todo = {}
    /\ up' = [up EXCEPT !.pc = "unpack"]
    /\ UNCHANGED <<disk, flags, launcher, offered, fin, events, hist>>

(* The files of unpacked are written over what an earlier update left.     *)
(* tar's exit status is not looked at, so an incomplete archive passes.    *)
UnpackArchive(unpacked, ok) ==
    /\ up.pc = "unpack" /\ Try(ok)
    /\ unpacked \subseteq Manifest[up.to]
    /\ ok => (Truncated \/ unpacked = Manifest[up.to])
    /\ release' = [f \in Files |-> IF f \in unpacked THEN up.to ELSE release[f]]
    /\ up' = IF ok THEN [up EXCEPT !.pc = "spawn"] ELSE UpOff
    /\ UNCHANGED <<app, backup, marker, archives, skip, flags, launcher, offered, fin, hist>>

(* Leaves the marker and starts the updater of the release, or gives up    *)
(* with the lock in place.                                                 *)
StartNewUpdater(started) ==
    /\ up.pc = "spawn" /\ Try(started)
    /\ fin.pc = "off"       \* bound: one updater of a release at a time
    /\ marker' = TRUE
    /\ fin' = IF started /\ Runs(release, Upd) THEN [FinOff EXCEPT !.pc = "start"] ELSE fin
    /\ up' = UpOff
    /\ UNCHANGED <<app, backup, release, archives, skip, flags, launcher, offered, hist>>

-----------------------------------------------------------------------------
(* The updater of the release.                                             *)

(* moveAndFinishUpdate's list: the manifest of the release, else the names *)
(* that lie in the TARGET.                                                 *)
InstallList(read) == IF read /\ Runs(release, Man) THEN Manifest[release[Man]]
                     ELSE {f \in Files : app[f] # None}

MoveAndFinish(read) ==
    /\ fin.pc = "start"
    /\ IF marker /\ release[Exe] # None
       THEN /\ Try(read)
            /\ read \/ Runs(release, Man)
            /\ fin' = [FinOff EXCEPT !.pc = "install", !.todo = InstallList(read)]
            /\ unguarded' = (unguarded \/ ~read)
       ELSE fin' = FinOff /\ UNCHANGED <<events, unguarded>>
    /\ UNCHANGED <<disk, flags, launcher, offered, up, base, spoiled>>

(* Mutant of InstallFile: error = copy(...) for error |= copy(...).        *)
InstallFileForgets(f, copied) ==
    /\ fin.pc = "install" /\ f \in fin.todo
    /\ Try(copied)
    /\ IF release[f] = None
       THEN fin' = [fin EXCEPT !.todo = @ \ {f}] /\ UNCHANGED <<app, spoiled>>
       ELSE /\ fin' = [fin EXCEPT !.todo = @ \ {f}, !.error = ~copied]
            /\ IF copied THEN app' = [app EXCEPT ![f] = release[f]]
                         ELSE app' \in {app, [app EXCEPT ![f] = Torn]}
            /\ spoiled' = (spoiled \/ ~copied)
    /\ UNCHANGED <<backup, release, marker, archives, skip, flags, launcher, offered, up,
                   base, unguarded>>

InstallFile(f, copied) ==
    /\ fin.pc = "install" /\ f \in fin.todo
    /\ Try(copied)
    /\ IF release[f] = None
       THEN fin' = [fin EXCEPT !.todo = @ \ {f}] /\ UNCHANGED <<app, spoiled>>
       ELSE /\ fin' = [fin EXCEPT !.todo = @ \ {f}, !.error = @ \/ ~copied]
            /\ IF copied THEN app' = [app EXCEPT ![f] = release[f]]
                         ELSE app' \in {app, [app EXCEPT ![f] = Torn]}
            /\ spoiled' = (spoiled \/ ~copied)
    /\ UNCHANGED <<backup, release, marker, archives, skip, flags, launcher, offered, up,
                   base, unguarded>>

(* Another updater is between taking the lock and handing over.            *)
Replacing == up.pc \in {"backup", "unpack", "spawn"}

Complete(v) == \A f \in Manifest[v] : app[f] = v

(* Mutant of WriteVerdict: success, whatever happened.                     *)
WriteSuccess(written) ==
    /\ fin.pc = "install" /\ fin.todo = {}
    /\ fin' = [fin EXCEPT !.pc = "unlock"]
    /\ success' = TRUE
    /\ UNCHANGED <<disk, lock, fail, launcher, offered, up, events, hist>>

(* The marker is a copy of the log that may fail; its result is discarded. *)
WriteVerdict(written) ==
    /\ fin.pc = "install" /\ fin.todo = {}
    /\ Try(written)
    /\ fin' = [fin EXCEPT !.pc = "unlock"]
    /\ fail' = (fail \/ (fin.error /\ written))
    /\ success' = (success \/ (~fin.error /\ written))
    /\ unguarded' = (unguarded \/ (fin.error /\ ~fail'))
    /\ IF fin.error \/ Replacing THEN UNCHANGED <<base, spoiled>>
       ELSE \/ \E v \in Versions : Complete(v) /\ base' = v /\ spoiled' = FALSE
            \/ (\A v \in Versions : ~Complete(v)) /\ UNCHANGED <<base, spoiled>>
    /\ UNCHANGED <<disk, lock, launcher, offered, up>>

(* The lock goes, whoever's it is, unless it cannot be removed, and the    *)
(* launcher is started: a second one hands over to the one that runs.      *)
Unlock(removed) ==
    /\ fin.pc = "unlock"
    /\ Try(removed)
    /\ fin' = FinOff
    /\ lock' = (lock /\ ~removed)
    /\ IF launcher # "off" \/ ~Runs(app, Exe) THEN UNCHANGED <<launcher, success>>
       ELSE IF lock' THEN launcher' = "askLock" /\ UNCHANGED success
       ELSE CheckVerdicts
    /\ UNCHANGED <<disk, fail, offered, up, hist>>

-----------------------------------------------------------------------------
(* A kill: the copy under way is cut off or the operation just done stays. *)

KillUpdater ==
    /\ up.pc # "off"
    /\ Spend
    /\ up' = UpOff
    /\ \/ UNCHANGED backup
       \/ \E f \in up.todo :
              /\ up.pc = "backup" /\ app[f] # None
              /\ backup' \in {[backup EXCEPT ![up.from][f] = c] : c \in {app[f], Torn}}
    /\ UNCHANGED <<app, release, marker, archives, skip, flags, launcher, offered, fin, hist>>

KillFinisher ==
    /\ fin.pc # "off"
    /\ Spend
    /\ fin' = FinOff
    /\ \/ UNCHANGED app
       \/ \E f \in fin.todo : release[f] # None /\ app' = [app EXCEPT ![f] = Torn]
    /\ UNCHANGED <<backup, release, marker, archives, skip, flags, launcher, offered, up, hist>>

-----------------------------------------------------------------------------

LauncherStep ==
    \/ Startup \/ CloseLauncher
    \/ \E ignored, removed \in BOOLEAN :
           AnswerLock(ignored, removed) \/ AnswerFail(ignored, removed)
    \/ \E v \in Versions : CheckForUpdates(v)
    \/ InstallOffered \/ SkipOffered \/ DeclineOffered

UpdaterStep ==
    \/ \E outcome \in Lists : LoadReleases(outcome)
    \/ \E ok \in BOOLEAN : DownloadAsset(ok)
    \/ \E written, read \in BOOLEAN : PerformInstall(written, read) \/ ConfirmLock(written, read)
    \/ \E button \in {Ignore, Cancel} : PressButton(button)
    \/ \E f \in Files, copied, removed \in BOOLEAN : BackupFile(f, copied, removed)
    \/ BackupDone
    \/ \E unpacked \in SUBSET Files, ok \in BOOLEAN : UnpackArchive(unpacked, ok)
    \/ \E started \in BOOLEAN : StartNewUpdater(started)

FinisherStep ==
    \/ \E read \in BOOLEAN : MoveAndFinish(read)
    \/ \E f \in Files, copied \in BOOLEAN : InstallFile(f, copied)
    \/ \E written \in BOOLEAN : WriteVerdict(written)
    \/ \E removed \in BOOLEAN : Unlock(removed)

Next == LauncherStep \/ UpdaterStep \/ FinisherStep \/ KillUpdater \/ KillFinisher

Spec == Init /\ [][Next]_vars
-----------------------------------------------------------------------------

Busy == Replacing \/ fin.pc # "off"

(* An installation that is not exactly one release, with nobody working on *)
(* it, is announced: the launcher finds the lock or the fail marker at its *)
(* next start (Application.cpp:929, ExtremeUpdater.cpp:1034, :712), unless *)
(* since the lock was last taken the user passed a warning, a flag could   *)
(* not be written, the release's manifest could not be read, or a second   *)
(* updater went to work.                                                   *)
BrokenIsFlagged ==
    (\A v \in Versions : ~Complete(v)) /\ ~Busy => lock \/ fail \/ unguarded

(* Until the next release is completely installed, each file of the last   *)
(* complete one is in place or in a backup folder, through kills and       *)
(* repeated attempts (ExtremeUpdater.cpp:1091), as long as archives unpack *)
(* completely or say so, no operation on an installed file fails, and no   *)
(* updater takes the lock that was offered a release no newer than that.   *)
OldKept ==
    spoiled \/ \A f \in Manifest[base] :
                   app[f] = base \/ \E v \in Versions : backup[v][f] = base

(* The success marker is written only when a whole release is in place     *)
(* (ExtremeUpdater.cpp:712), with the exceptions of BrokenIsFlagged.       *)
SuccessMeansInstalled ==
    [][(success' /\ ~success /\ ~unguarded) => \E v \in Versions : Complete(v)]_vars
=============================================================================
