---------------------------- MODULE Updater_proofs ----------------------------
(***************************************************************************)
(* Proofs about the updater, for any releases and any number of kills and  *)
(* failed file operations: an installation that is broken is announced,    *)
(* and a success marker is only written over a complete release. Both rest *)
(* on one invariant about who may touch the installation at the same time. *)
(* The files of the last complete release are kept by another, about where *)
(* they lie and which versions the programs at work were given.            *)
(***************************************************************************)
EXTENDS Updater, TLAPS

(* Archives unpack or say so, and every release names its manifest         *)
(* (BrokenIsFlagged is false without the first).                           *)
Ordinary ==
    /\ ~Truncated
    /\ \A v \in Versions : Man \in Manifest[v]

-----------------------------------------------------------------------------
(* The updaters.                                                           *)

UpTyped ==
    /\ up.pc # "off" => up.own \in Versions /\ up.to \in Versions
    /\ up.pc \notin {"off", "list"} => up.from \in Versions
    /\ launcher = "offer" => offered \in Versions

(* The lock is held while somebody works, and two updaters on one          *)
(* installation have been noticed, with the exceptions of unguarded.       *)
Held ==
    /\ Busy => lock \/ unguarded
    /\ fin.pc # "off" /\ Replacing => unguarded

Unpacked(v) == \A f \in Manifest[v] : release[f] = v

(* A release on its way: all of it was unpacked, and what is not in place  *)
(* is still to be copied.                                                  *)
OnTheWay ==
    /\ \A f \in Files : release[f] # Torn
    /\ up.pc = "spawn" => Unpacked(up.to)
    /\ fin.pc = "start" => ~fin.error /\ (unguarded \/ \E v \in Versions : Unpacked(v))
    /\ fin.pc = "install" /\ ~fin.error /\ ~unguarded =>
         \E v \in Versions : \A f \in Manifest[v] :
             IF f \in fin.todo THEN release[f] = v ELSE app[f] = v
    /\ fin.pc = "unlock" => \/ unguarded
                            \/ fin.error /\ fail
                            \/ ~fin.error /\ \E v \in Versions : Complete(v)

Types == TypeOK /\ UpTyped

Safe == Held /\ OnTheWay /\ BrokenIsFlagged

IInv == Types /\ Safe

USE DEF Folder, UpOff, FinOff

-----------------------------------------------------------------------------
(* Types.                                                                  *)

LEMMA Constants ==
    /\ MaxEvents \in Nat /\ 1 \in Versions
    /\ {Exe, Upd, Man} \subseteq Files
    /\ \A v \in Versions : Manifest[v] \subseteq Files /\ Exe \in Manifest[v] /\ Upd \in Manifest[v]
    /\ Guess \subseteq Files
    /\ Versions \subseteq Contents /\ None \in Contents /\ Torn \in Contents
    /\ None \notin Versions /\ Torn \notin Versions /\ None # Torn
    /\ \A c \in Contents : c \in Versions \/ c = None \/ c = Torn
<1>1. MaxEvents \in Nat /\ {Exe, Upd, Man} \subseteq Files /\ Guess \subseteq Files
    BY UpdaterAssumption
<1>2. ASSUME NEW v \in Versions
      PROVE  Manifest[v] \subseteq Files /\ Exe \in Manifest[v] /\ Upd \in Manifest[v]
    <2>1. Manifest[v] \in SUBSET Files
        BY UpdaterAssumption
    <2>2. {Exe, Upd} \subseteq Manifest[v]
        BY UpdaterAssumption
    <2> QED BY <2>1, <2>2
<1>3. MaxVersion \in Nat \ {0}
    BY UpdaterAssumption
<1>4. /\ 1 \in Versions
      /\ Versions \subseteq Contents /\ None \in Contents /\ Torn \in Contents
      /\ None \notin Versions /\ Torn \notin Versions /\ None # Torn
      /\ \A c \in Contents : c \in Versions \/ c = None \/ c = Torn
    BY <1>3 DEF Versions, None, Torn, Contents
<1> QED BY <1>1, <1>2, <1>4

LEMMA ListsTyped ==
    ASSUME TypeOK
    PROVE  \A read \in BOOLEAN : /\ \A list \in BackupLists(read) : list \subseteq Files
                                 /\ InstallList(read) \subseteq Files
BY Constants DEF BackupLists, InstallList, Runs, TypeOK

LEMMA OffTyped ==
    /\ UpOff \in [pc : {"off", "list", "download", "install", "locked", "answered",
                      "backup", "unpack", "spawn"},
                own : Versions \cup {None}, from : Versions \cup {None},
                to : Versions \cup {None}, todo : SUBSET Files, quit : BOOLEAN,
                answer : {AcceptRole, Ignore, Cancel}]
    /\ FinOff \in [pc : {"off", "start", "install", "unlock"},
                   todo : SUBSET Files, error : BOOLEAN]
OBVIOUS

LEMMA FinTyped ==
    ASSUME NEW list, list \subseteq Files
    PROVE  [FinOff EXCEPT !.pc = "install", !.todo = list]
               \in [pc : {"off", "start", "install", "unlock"},
                   todo : SUBSET Files, error : BOOLEAN]
OBVIOUS

LEMMA FolderUpdate ==
    ASSUME NEW d \in Folder, NEW f \in Files, NEW c \in Contents
    PROVE  [d EXCEPT ![f] = c] \in Folder
OBVIOUS

LEMMA BackupUpdate ==
    ASSUME NEW b \in [Versions -> Folder], NEW v \in Versions,
           NEW f \in Files, NEW c \in Contents
    PROVE  [b EXCEPT ![v][f] = c] \in [Versions -> Folder]
<1>1. [b[v] EXCEPT ![f] = c] \in Folder
    BY b[v] \in Folder, FolderUpdate
<1> QED BY <1>1

LEMMA InitTypes == Init => Types
<1> SUFFICES ASSUME Init PROVE Types
    OBVIOUS
<1>1. app \in Folder /\ release \in Folder /\ backup \in [Versions -> Folder]
    BY Constants DEF Init
<1>2. up \in [pc : {"off", "list", "download", "install", "locked", "answered",
                    "backup", "unpack", "spawn"},
              own : Versions \cup {None}, from : Versions \cup {None},
              to : Versions \cup {None}, todo : SUBSET Files, quit : BOOLEAN,
              answer : {AcceptRole, Ignore, Cancel}]
    BY DEF Init
<1>3. fin \in [pc : {"off", "start", "install", "unlock"},
               todo : SUBSET Files, error : BOOLEAN]
    BY DEF Init
<1>4. TypeOK
    <2>1. events \in 0..MaxEvents /\ base \in Versions
        BY Constants DEF Init
    <2>2. /\ archives \subseteq Versions /\ skip \subseteq Versions
          /\ {marker, lock, fail, success, unguarded, spoiled} \subseteq BOOLEAN
          /\ launcher \in {"off", "askLock", "askFail", "running", "offer"}
          /\ offered \in Versions \cup {None}
        BY DEF Init
    <2> QED BY <1>1, <1>2, <1>3, <2>1, <2>2 DEF TypeOK
<1>5. UpTyped
    BY DEF Init, UpTyped
<1> QED BY <1>4, <1>5 DEF Types

LEMMA SpendTyped ==
    ASSUME TypeOK, Spend
    PROVE  events' \in 0..MaxEvents
BY Constants DEF TypeOK, Spend

LEMMA TryTyped ==
    ASSUME TypeOK, NEW ok, Try(ok)
    PROVE  events' \in 0..MaxEvents
BY SpendTyped DEF TypeOK, Try

LEMMA FlagsTyped ==
    ASSUME Types,
           UNCHANGED <<app, backup, release, archives, skip, marker, up, base, spoiled>>,
           {lock', fail', success', unguarded'} \subseteq BOOLEAN,
           \/ launcher' \in {"off", "askLock", "askFail", "running"}
           \/ UNCHANGED launcher,
           UNCHANGED offered,
           events' \in 0..MaxEvents,
           fin' \in [pc : {"off", "start", "install", "unlock"},
                    todo : SUBSET Files, error : BOOLEAN]
    PROVE  Types'
<1>1. UpTyped'
    BY DEF Types, UpTyped
<1>2. TypeOK'
    BY DEF Types, TypeOK
<1> QED BY <1>1, <1>2 DEF Types

LEMMA LauncherTypes == ASSUME Types, LauncherStep PROVE Types'
<1> USE DEF Types, TypeOK, UpTyped, disk, flags, hist
<1>1. CASE Startup
    <2>1. UNCHANGED <<app, backup, release, archives, skip, marker, offered, up, fin, events,
                      base, spoiled>>
        BY <1>1 DEF Startup
    <2>2. /\ {lock', fail', success', unguarded'} \subseteq BOOLEAN
          /\ launcher' \in {"askLock", "askFail", "running"}
        BY <1>1 DEF Startup, CheckVerdicts
    <2> QED BY <2>1, <2>2, FlagsTyped
<1>2. CASE CloseLauncher
    BY <1>2, Constants DEF CloseLauncher
<1>3. ASSUME NEW v \in Versions, CheckForUpdates(v) PROVE Types'
    BY <1>3, Constants DEF CheckForUpdates
<1>4. ASSUME NEW ignored \in BOOLEAN, NEW removed \in BOOLEAN, AnswerLock(ignored, removed)
      PROVE  Types'
    <2>1. UNCHANGED <<app, backup, release, archives, skip, marker, offered, up, fin, base, spoiled>>
        BY <1>4 DEF AnswerLock
    <2>2. /\ {lock', fail', success', unguarded'} \subseteq BOOLEAN
          /\ launcher' \in {"off", "askFail", "running"}
        BY <1>4 DEF AnswerLock, CheckVerdicts
    <2>3. events' \in 0..MaxEvents
        BY <1>4, TryTyped DEF AnswerLock
    <2> QED BY <2>1, <2>2, <2>3, FlagsTyped
<1>5. ASSUME NEW ignored \in BOOLEAN, NEW removed \in BOOLEAN, AnswerFail(ignored, removed)
      PROVE  Types'
    <2>1. UNCHANGED <<app, backup, release, archives, skip, marker, offered, up, fin, base, spoiled>>
        BY <1>5 DEF AnswerFail
    <2>2. /\ {lock', fail', success', unguarded'} \subseteq BOOLEAN
          /\ launcher' \in {"off", "askFail", "running"}
        BY <1>5 DEF AnswerFail
    <2>3. events' \in 0..MaxEvents
        BY <1>5, TryTyped DEF AnswerFail
    <2> QED BY <2>1, <2>2, <2>3, FlagsTyped
<1>6. CASE InstallOffered
    <2>1. offered \in Versions /\ events' \in 0..MaxEvents
        BY <1>6, SpendTyped DEF InstallOffered
    <2> QED BY <1>6, <2>1, Constants DEF InstallOffered, Runs
<1>7. CASE SkipOffered
    BY <1>7, Constants DEF SkipOffered
<1>8. CASE DeclineOffered
    BY <1>8, Constants DEF DeclineOffered
<1> QED BY <1>1, <1>2, <1>3, <1>4, <1>5, <1>6, <1>7, <1>8 DEF LauncherStep

LEMMA UpdaterTypes == ASSUME Types, UpdaterStep PROVE Types'
<1> USE DEF Types, TypeOK, UpTyped, disk, flags, hist
<1>1. ASSUME NEW outcome \in Lists, LoadReleases(outcome) PROVE Types'
    BY <1>1, Constants DEF LoadReleases, Runs
<1>2. ASSUME NEW ok \in BOOLEAN, DownloadAsset(ok) PROVE Types'
    BY <1>2, Constants DEF DownloadAsset
<1>3. ASSUME NEW written \in BOOLEAN, NEW read \in BOOLEAN, TakeLock(written, read),
             up.pc \in {"install", "answered"}
      PROVE  Types'
    <2>1. PICK list \in BackupLists(read) : up' = [up EXCEPT !.pc = "backup", !.todo = list]
        BY <1>3 DEF TakeLock
    <2>2. list \subseteq Files /\ events' \in 0..MaxEvents
        BY <1>3, ListsTyped, TryTyped DEF TakeLock
    <2>3. /\ UNCHANGED <<app, backup, release, archives, skip, marker, fail, success,
                         launcher, offered, fin, base>>
          /\ {lock', unguarded', spoiled'} \subseteq BOOLEAN
        BY <1>3 DEF TakeLock, Stale
    <2> QED BY <1>3, <2>1, <2>2, <2>3
<1>4. ASSUME NEW written \in BOOLEAN, NEW read \in BOOLEAN, PerformInstall(written, read)
      PROVE  Types'
    <2>1. CASE ~lock
        BY <1>3, <1>4, <2>1 DEF PerformInstall
    <2>2. CASE lock
        BY <1>4, <2>2, Constants DEF PerformInstall
    <2> QED BY <2>1, <2>2
<1>5. ASSUME NEW button \in {Ignore, Cancel}, PressButton(button) PROVE Types'
    BY <1>5, Constants DEF PressButton
<1>6. ASSUME NEW written \in BOOLEAN, NEW read \in BOOLEAN, ConfirmLock(written, read)
      PROVE  Types'
    <2>1. CASE up.answer = AcceptRole
        BY <1>3, <1>6, <2>1 DEF ConfirmLock
    <2>2. CASE up.answer # AcceptRole
        <3>1. /\ up' = UpOff
              /\ UNCHANGED <<app, backup, release, marker, archives, skip, lock, fail, success,
                             launcher, offered, fin, events, base, unguarded, spoiled>>
            BY <1>6, <2>2 DEF ConfirmLock
        <3>2. TypeOK'
            BY <3>1, OffTyped
        <3> QED BY <3>1, <3>2
    <2> QED BY <2>1, <2>2
<1>7. ASSUME NEW f \in Files, NEW copied \in BOOLEAN, NEW removed \in BOOLEAN,
             BackupFile(f, copied, removed)
      PROVE  Types'
    <2>3. spoiled' \in BOOLEAN
        BY <1>7 DEF BackupFile
    <2>1. app' \in Folder /\ backup' \in [Versions -> Folder]
        <3>1. up.from \in Versions /\ app[f] \in Contents
            BY <1>7 DEF BackupFile
        <3>2. \A c \in Contents : [backup EXCEPT ![up.from][f] = c] \in [Versions -> Folder]
            BY <3>1, BackupUpdate
        <3>3. [app EXCEPT ![f] = None] \in Folder
            BY FolderUpdate, Constants
        <3>4. CASE app[f] = None
            BY <1>7, <3>4 DEF BackupFile
        <3>5. CASE app[f] # None /\ copied
            <4>1. /\ backup' = [backup EXCEPT ![up.from][f] = app[f]]
                  /\ app' = IF removed THEN [app EXCEPT ![f] = None] ELSE app
                BY <1>7, <3>5 DEF BackupFile
            <4> QED BY <3>1, <3>2, <3>3, <4>1
        <3>6. CASE app[f] # None /\ ~copied
            <4>1. /\ backup' \in {backup, [backup EXCEPT ![up.from][f] = Torn]}
                  /\ app' = app
                BY <1>7, <3>6 DEF BackupFile
            <4>2. [backup EXCEPT ![up.from][f] = Torn] \in [Versions -> Folder]
                BY <3>2, Constants
            <4> QED BY <4>1, <4>2
        <3> QED BY <3>4, <3>5, <3>6
    <2>2. events' \in 0..MaxEvents
        BY <1>7, TryTyped DEF BackupFile
    <2> QED BY <1>7, <2>1, <2>2, <2>3 DEF BackupFile
<1>8. CASE BackupDone
    BY <1>8, Constants DEF BackupDone
<1>9. ASSUME NEW unpacked \in SUBSET Files, NEW ok \in BOOLEAN, UnpackArchive(unpacked, ok)
      PROVE  Types'
    <2>1. unpacked \subseteq Files /\ up.to \in Contents
        BY <1>9, Constants DEF UnpackArchive
    <2>2. release' \in Folder
        BY <1>9, <2>1 DEF UnpackArchive
    <2>3. up'.pc \in {"off", "spawn"} /\ up' \in {UpOff, [up EXCEPT !.pc = "spawn"]}
        BY <1>9 DEF UnpackArchive
    <2>4. events' \in 0..MaxEvents
        BY <1>9, TryTyped DEF UnpackArchive
    <2> QED BY <1>9, <2>2, <2>3, <2>4, Constants DEF UnpackArchive
<1>10. ASSUME NEW started \in BOOLEAN, StartNewUpdater(started) PROVE Types'
    <2>1. events' \in 0..MaxEvents
        BY <1>10, TryTyped DEF StartNewUpdater
    <2> QED BY <1>10, <2>1, Constants DEF StartNewUpdater
<1> QED BY <1>1, <1>2, <1>4, <1>5, <1>6, <1>7, <1>8, <1>9, <1>10 DEF UpdaterStep

LEMMA FinisherTypes == ASSUME Types, FinisherStep PROVE Types'
<1> USE DEF Types, TypeOK, UpTyped, disk, flags, hist
<1>1. ASSUME NEW read \in BOOLEAN, MoveAndFinish(read) PROVE Types'
    <2>1. UNCHANGED <<app, backup, release, archives, skip, marker, lock, fail, success,
                      launcher, offered, up, base, spoiled>>
        BY <1>1 DEF MoveAndFinish
    <2>2. fin' \in [pc : {"off", "start", "install", "unlock"},
                    todo : SUBSET Files, error : BOOLEAN]
        <3>1. InstallList(read) \subseteq Files
            BY ListsTyped
        <3>2. fin' \in {FinOff, [FinOff EXCEPT !.pc = "install", !.todo = InstallList(read)]}
            BY <1>1 DEF MoveAndFinish
        <3>3. [FinOff EXCEPT !.pc = "install", !.todo = InstallList(read)]
                  \in [pc : {"off", "start", "install", "unlock"},
                      todo : SUBSET Files, error : BOOLEAN]
            BY ONLY <3>1, FinTyped
        <3> QED BY <3>2, <3>3, OffTyped
    <2>3. unguarded' \in BOOLEAN
        BY <1>1 DEF MoveAndFinish
    <2>4. events' \in 0..MaxEvents
        BY <1>1, TryTyped DEF MoveAndFinish
    <2> QED BY <2>1, <2>2, <2>3, <2>4, FlagsTyped
<1>2. ASSUME NEW f \in Files, NEW copied \in BOOLEAN, InstallFile(f, copied) PROVE Types'
    <2>4. spoiled' \in BOOLEAN
        BY <1>2 DEF InstallFile
    <2>1. app' \in Folder
        <3>1. [app EXCEPT ![f] = release[f]] \in Folder /\ [app EXCEPT ![f] = Torn] \in Folder
            BY FolderUpdate, Constants
        <3>2. CASE release[f] = None
            BY <1>2, <3>2 DEF InstallFile
        <3>3. CASE release[f] # None
            BY <1>2, <3>1, <3>3 DEF InstallFile
        <3> QED BY <3>2, <3>3
    <2>2. events' \in 0..MaxEvents
        BY <1>2, TryTyped DEF InstallFile
    <2>3. fin' \in [pc : {"off", "start", "install", "unlock"},
                    todo : SUBSET Files, error : BOOLEAN]
        <3>1. CASE release[f] = None
            BY <1>2, <3>1 DEF InstallFile
        <3>2. CASE release[f] # None
            <4> DEFINE e == fin.error \/ ~copied
            <4>1. fin' = [fin EXCEPT !.todo = @ \ {f}, !.error = e]
                BY <1>2, <3>2 DEF InstallFile
            <4>2. e \in BOOLEAN
                OBVIOUS
            <4> HIDE DEF e
            <4> QED BY <4>1, <4>2
        <3> QED BY <3>1, <3>2
    <2> QED BY <1>2, <2>1, <2>2, <2>3, <2>4 DEF InstallFile
<1>3. ASSUME NEW written \in BOOLEAN, WriteVerdict(written) PROVE Types'
    <2>1. UNCHANGED <<app, backup, release, archives, skip, marker, lock, launcher, offered, up>>
        BY <1>3 DEF WriteVerdict
    <2>2. fail' \in BOOLEAN /\ success' \in BOOLEAN /\ unguarded' \in BOOLEAN
        BY <1>3 DEF WriteVerdict
    <2>3. base' \in Versions /\ spoiled' \in BOOLEAN
        BY <1>3 DEF WriteVerdict
    <2>4. fin' \in [pc : {"off", "start", "install", "unlock"},
                    todo : SUBSET Files, error : BOOLEAN]
        BY <1>3 DEF WriteVerdict
    <2>5. UpTyped'
        BY <2>1
    <2>6. events' \in 0..MaxEvents
        BY <1>3, TryTyped DEF WriteVerdict
    <2>7. TypeOK'
        BY <2>1, <2>2, <2>3, <2>4, <2>6
    <2> QED BY <2>5, <2>7
<1>4. ASSUME NEW removed \in BOOLEAN, Unlock(removed) PROVE Types'
    <2>1. UNCHANGED <<app, backup, release, archives, skip, marker, offered, up, base, spoiled>>
        BY <1>4 DEF Unlock
    <2>2. /\ {lock', fail', success', unguarded'} \subseteq BOOLEAN
          /\ \/ launcher' \in {"off", "askLock", "askFail", "running"}
             \/ UNCHANGED launcher
        BY <1>4 DEF Unlock, CheckVerdicts
    <2>3. fin' \in [pc : {"off", "start", "install", "unlock"},
                    todo : SUBSET Files, error : BOOLEAN]
        BY <1>4, OffTyped DEF Unlock
    <2>4. events' \in 0..MaxEvents
        BY <1>4, TryTyped DEF Unlock
    <2> QED BY <2>1, <2>2, <2>3, <2>4, FlagsTyped
<1> QED BY <1>1, <1>2, <1>3, <1>4 DEF FinisherStep

LEMMA KillTypes == ASSUME Types, KillUpdater \/ KillFinisher PROVE Types'
<1> USE DEF Types, TypeOK, UpTyped, disk, flags, hist
<1>1. CASE KillUpdater
    <2>1. backup' \in [Versions -> Folder]
        <3>1. CASE UNCHANGED backup
            BY <3>1
        <3>2. ASSUME NEW f \in up.todo, NEW c \in {app[f], Torn}, up.pc = "backup",
                     backup' = [backup EXCEPT ![up.from][f] = c]
              PROVE  backup' \in [Versions -> Folder]
            BY <3>2, BackupUpdate, Constants
        <3> QED BY <1>1, <3>1, <3>2 DEF KillUpdater
    <2>2. events' \in 0..MaxEvents
        BY <1>1, SpendTyped DEF KillUpdater
    <2> QED BY <1>1, <2>1, <2>2 DEF KillUpdater
<1>2. CASE KillFinisher
    <2>1. app' \in Folder
        BY <1>2, Constants DEF KillFinisher
    <2>2. events' \in 0..MaxEvents
        BY <1>2, SpendTyped DEF KillFinisher
    <2> QED BY <1>2, <2>1, <2>2 DEF KillFinisher
<1> QED BY <1>1, <1>2

LEMMA TypesStep == Types /\ [Next]_vars => Types'
<1>1. ASSUME Types, UNCHANGED vars PROVE Types'
    BY <1>1 DEF Types, TypeOK, UpTyped, vars, disk, flags, hist
<1> QED BY <1>1, LauncherTypes, UpdaterTypes, FinisherTypes, KillTypes DEF Next

LEMMA AlwaysTypes == Spec => []Types
BY InitTypes, TypesStep, PTL DEF Spec

(* Every reachable state of the updater is well typed.                     *)
THEOREM TypeCorrect == Spec => []TypeOK
BY AlwaysTypes, PTL DEF Types

-----------------------------------------------------------------------------
(* The invariant. Below, each action is first reduced to what it does to   *)
(* the fields the invariant speaks of.                                     *)

LEMMA InitSafe == Init => Safe
<1> SUFFICES ASSUME Init PROVE Safe
    OBVIOUS
<1>1. Complete(1)
    BY Constants DEF Init, Complete
<1>2. \A f \in Files : release[f] # Torn
    BY Constants DEF Init
<1> QED BY <1>1, <1>2, Constants DEF Init, Safe, Held, OnTheWay,
                                     BrokenIsFlagged, Busy, Replacing

LEMMA LauncherSafe ==
    ASSUME IInv, LauncherStep PROVE Safe'
<1> USE DEF IInv, Types, Safe, Held, OnTheWay, BrokenIsFlagged,
            Replacing, Busy, Complete, Unpacked, Runs, disk, flags, hist
<1>1. CASE Startup
    BY <1>1 DEF Startup, CheckVerdicts
<1>2. CASE CloseLauncher
    BY <1>2 DEF CloseLauncher
<1>3. ASSUME NEW v \in Versions, CheckForUpdates(v) PROVE Safe'
    BY <1>3 DEF CheckForUpdates
<1>4. ASSUME NEW ignored \in BOOLEAN, NEW removed \in BOOLEAN, AnswerLock(ignored, removed)
      PROVE  Safe'
    BY <1>4 DEF AnswerLock, CheckVerdicts
<1>5. ASSUME NEW ignored \in BOOLEAN, NEW removed \in BOOLEAN, AnswerFail(ignored, removed)
      PROVE  Safe'
    BY <1>5 DEF AnswerFail
<1>6. CASE InstallOffered
    BY <1>6 DEF InstallOffered
<1>7. CASE SkipOffered
    BY <1>7 DEF SkipOffered
<1>8. CASE DeclineOffered
    BY <1>8 DEF DeclineOffered
<1> QED BY <1>1, <1>2, <1>3, <1>4, <1>5, <1>6, <1>7, <1>8 DEF LauncherStep

LEMMA UpdaterSafe ==
    ASSUME Ordinary, IInv, UpdaterStep PROVE Safe'
<1> USE DEF IInv, Types, Safe, Held, OnTheWay, BrokenIsFlagged,
            Replacing, Busy, Complete, Unpacked, Runs, disk, flags, hist
<1>1. ASSUME NEW outcome \in Lists, LoadReleases(outcome) PROVE Safe'
    BY <1>1, Constants DEF LoadReleases, Ordinary, TypeOK
<1>2. ASSUME NEW ok \in BOOLEAN, DownloadAsset(ok) PROVE Safe'
    BY <1>2 DEF DownloadAsset, TypeOK
<1>3. ASSUME NEW written \in BOOLEAN, NEW read \in BOOLEAN, TakeLock(written, read),
             up.pc \in {"install", "answered"}
      PROVE  Safe'
    <2>1. /\ up'.pc = "backup" /\ unguarded' = (~lock' \/ fin.pc # "off")
          /\ UNCHANGED <<app, release, fail, fin>>
        BY <1>3 DEF TakeLock, TypeOK
    <2> QED BY <1>3, <2>1
<1>4. ASSUME NEW written \in BOOLEAN, NEW read \in BOOLEAN, PerformInstall(written, read)
      PROVE  Safe'
    BY <1>3, <1>4 DEF PerformInstall, TypeOK
<1>5. ASSUME NEW button \in {Ignore, Cancel}, PressButton(button) PROVE Safe'
    BY <1>5 DEF PressButton, TypeOK
<1>6. ASSUME NEW written \in BOOLEAN, NEW read \in BOOLEAN, ConfirmLock(written, read)
      PROVE  Safe'
    BY <1>3, <1>6 DEF ConfirmLock
<1>7. ASSUME NEW f \in Files, NEW copied \in BOOLEAN, NEW removed \in BOOLEAN,
             BackupFile(f, copied, removed)
      PROVE  Safe'
    BY <1>7 DEF BackupFile, TypeOK
<1>8. CASE BackupDone
    BY <1>8 DEF BackupDone, TypeOK
<1>9. ASSUME NEW unpacked \in SUBSET Files, NEW ok \in BOOLEAN, UnpackArchive(unpacked, ok)
      PROVE  Safe'
    BY <1>9, Constants DEF UnpackArchive, TypeOK, Ordinary
<1>10. ASSUME NEW started \in BOOLEAN, StartNewUpdater(started) PROVE Safe'
    <2>1. CASE started /\ Runs(release, Upd)
        <3>1. fin'.pc = "start" /\ ~fin'.error /\ up'.pc = "off"
            BY <1>10, <2>1 DEF StartNewUpdater
        <3>2. /\ up.pc = "spawn" /\ up.to \in Versions
              /\ UNCHANGED <<app, release, lock, fail, launcher, unguarded>>
            BY <1>10 DEF StartNewUpdater, UpTyped
        <3> QED BY <3>1, <3>2
    <2>2. CASE ~(started /\ Runs(release, Upd))
        <3>1. fin' = fin /\ fin.pc = "off" /\ up' = UpOff
            BY <1>10, <2>2 DEF StartNewUpdater
        <3>2. /\ up.pc = "spawn"
              /\ UNCHANGED <<app, release, lock, fail, launcher, unguarded>>
            BY <1>10 DEF StartNewUpdater
        <3> QED BY <3>1, <3>2
    <2> QED BY <2>1, <2>2
<1> QED BY <1>1, <1>2, <1>4, <1>5, <1>6, <1>7, <1>8, <1>9, <1>10 DEF UpdaterStep

LEMMA FinisherSafe ==
    ASSUME Ordinary, IInv, FinisherStep PROVE Safe'
<1> USE DEF IInv, Types, Safe, Held, OnTheWay, BrokenIsFlagged,
            Replacing, Busy, Complete, Unpacked, Runs, disk, flags, hist
<1>1. ASSUME NEW read \in BOOLEAN, MoveAndFinish(read) PROVE Safe'
    <2>1. CASE ~(marker /\ release[Exe] # None)
        BY <1>1, <2>1 DEF MoveAndFinish
    <2>2. CASE marker /\ release[Exe] # None /\ ~read
        BY <1>1, <2>2 DEF MoveAndFinish
    <2>3. CASE marker /\ release[Exe] # None /\ read
        <3>1. /\ fin.pc = "start" /\ fin'.pc = "install" /\ ~fin'.error
              /\ fin'.todo = InstallList(read) /\ (unguarded <=> unguarded')
              /\ UNCHANGED <<app, release, lock, fail, launcher, up>>
            BY <1>1, <2>3 DEF MoveAndFinish
        <3>2. ASSUME NEW v \in Versions, Unpacked(v) PROVE InstallList(read) = Manifest[v]
            <4>1. Man \in Manifest[v]
                BY DEF Ordinary
            <4>2. release[Man] = v
                BY <3>2, <4>1
            <4> QED BY <2>3, <4>2 DEF InstallList
        <3>3. CASE unguarded
            BY <3>1, <3>3
        <3>4. CASE ~unguarded
            <4>1. PICK v \in Versions : Unpacked(v)
                BY <3>1, <3>4
            <4>2. fin'.todo = Manifest[v] /\ \A f \in Manifest[v] : release'[f] = v
                BY <3>1, <3>2, <4>1
            <4> QED BY <3>1, <3>4, <4>2
        <3> QED BY <3>3, <3>4
    <2> QED BY <2>1, <2>2, <2>3
<1>2. ASSUME NEW f \in Files, NEW copied \in BOOLEAN, InstallFile(f, copied) PROVE Safe'
    <2>1. /\ fin.pc = "install" /\ fin'.pc = "install" /\ f \in fin.todo
          /\ fin'.todo = fin.todo \ {f}
          /\ UNCHANGED <<release, lock, fail, launcher, up, unguarded>>
        BY <1>2 DEF InstallFile, TypeOK
    <2>2. CASE release[f] = None
        <3>1. app' = app /\ fin'.error = fin.error
            BY <1>2, <2>2 DEF InstallFile, TypeOK
        <3> QED BY <2>1, <2>2, <3>1, Constants
    <2>3. CASE release[f] # None /\ copied
        <3>1. app' = [app EXCEPT ![f] = release[f]] /\ fin'.error = fin.error
            BY <1>2, <2>3 DEF InstallFile, TypeOK
        <3>2. OnTheWay'
            BY <2>1, <3>1, Constants DEF TypeOK
        <3> QED BY <2>1, <3>1, <3>2
    <2>4. CASE release[f] # None /\ ~copied
        <3>1. fin'.error
            BY <1>2, <2>4 DEF InstallFile, TypeOK
        <3> QED BY <2>1, <3>1
    <2> QED BY <2>2, <2>3, <2>4
<1>3. ASSUME NEW written \in BOOLEAN, WriteVerdict(written) PROVE Safe'
    BY <1>3 DEF WriteVerdict, TypeOK
<1>4. ASSUME NEW removed \in BOOLEAN, Unlock(removed) PROVE Safe'
    BY <1>4 DEF Unlock, CheckVerdicts
<1> QED BY <1>1, <1>2, <1>3, <1>4 DEF FinisherStep

LEMMA KillSafe ==
    ASSUME IInv, KillUpdater \/ KillFinisher PROVE Safe'
<1> USE DEF IInv, Types, Safe, Held, OnTheWay, BrokenIsFlagged,
            Replacing, Busy, Complete, Unpacked, Runs, disk, flags, hist
<1>1. CASE KillUpdater
    BY <1>1 DEF KillUpdater
<1>2. CASE KillFinisher
    BY <1>2 DEF KillFinisher
<1> QED BY <1>1, <1>2

LEMMA SafeStep ==
    Ordinary /\ IInv /\ [Next]_vars => IInv'
<1> SUFFICES ASSUME Ordinary, IInv, [Next]_vars PROVE IInv'
    OBVIOUS
<1>1. Types'
    BY TypesStep DEF IInv
<1>2. CASE UNCHANGED vars
    BY <1>2 DEF IInv, Types, TypeOK, UpTyped, Safe, Held, OnTheWay,
                BrokenIsFlagged, Replacing, Busy, Complete, Unpacked, Runs,
                vars, disk, flags, hist
<1> QED BY <1>1, <1>2, LauncherSafe, UpdaterSafe, FinisherSafe, KillSafe DEF IInv, Next

LEMMA AlwaysSafe ==
    ASSUME Ordinary PROVE Spec => []IInv
<1>1. Init => IInv
    BY InitTypes, InitSafe DEF IInv
<1>2. IInv /\ [Next]_vars => IInv'
    BY SafeStep
<1> QED BY <1>1, <1>2, PTL DEF Spec

(* Whatever the releases hold and wherever the programs are killed, an     *)
(* installation that is no release and that nobody works on is announced   *)
(* by the lock or the fail marker (Application.cpp:929,                    *)
(* ExtremeUpdater.cpp:1034, :712), unless since the lock was last taken    *)
(* the user passed a warning, a flag was not written, a manifest could not *)
(* be read, or two updaters were at work.                                  *)
THEOREM BrokenInstallIsFlagged ==
    ASSUME Ordinary PROVE Spec => []BrokenIsFlagged
BY AlwaysSafe, PTL DEF IInv, Safe

(* The success marker appears only over one complete release, with the     *)
(* exceptions above (ExtremeUpdater.cpp:712).                              *)
THEOREM SuccessIsAnInstallation ==
    ASSUME Ordinary PROVE Spec => SuccessMeansInstalled
<1> DEFINE Claim == success' /\ ~success /\ ~unguarded => \E v \in Versions : Complete(v)
<1>1. ASSUME IInv, [Next]_vars PROVE [Claim]_vars
    <2> SUFFICES ASSUME success', ~success, ~unguarded
                 PROVE  \E v \in Versions : Complete(v)
        OBVIOUS
    <2>1. ~UNCHANGED success
        OBVIOUS
    <2>2. \E written \in BOOLEAN : WriteVerdict(written)
        <3> USE DEF disk, flags, hist
        <3>1. ~LauncherStep
            BY <2>1 DEF LauncherStep, Startup, CheckVerdicts, CloseLauncher, CheckForUpdates,
                        AnswerLock, AnswerFail, InstallOffered, SkipOffered, DeclineOffered
        <3>2. ~UpdaterStep
            BY <2>1 DEF UpdaterStep, LoadReleases, DownloadAsset, PerformInstall, TakeLock,
                        PressButton, ConfirmLock, BackupFile, BackupDone, UnpackArchive,
                        StartNewUpdater
        <3>3. /\ \A read : ~MoveAndFinish(read)
              /\ \A removed : ~Unlock(removed)
              /\ \A f, copied : ~InstallFile(f, copied)
            BY <2>1 DEF MoveAndFinish, Unlock, CheckVerdicts, InstallFile
        <3>4. ~KillUpdater /\ ~KillFinisher
            BY <2>1 DEF KillUpdater, KillFinisher
        <3>5. ~UNCHANGED vars
            BY <2>1 DEF vars
        <3> QED BY <1>1, <3>1, <3>2, <3>3, <3>4, <3>5 DEF Next, FinisherStep
    <2>3. ~fin.error /\ fin.pc = "install" /\ fin.todo = {}
        BY <2>2, <2>1 DEF WriteVerdict, IInv, Types, TypeOK
    <2> QED BY <1>1, <2>3 DEF IInv, Safe, OnTheWay, Complete
<1> QED BY <1>1, AlwaysSafe, PTL DEF Spec, SuccessMeansInstalled

-----------------------------------------------------------------------------
(* The files of the last complete release.                                 *)

(* Archives unpack or say so, every release names its manifest, and the    *)
(* names built in cover what a release holds besides it (OldKept is false  *)
(* without the first and without the last).                                *)
Covering ==
    /\ ~Truncated
    /\ \A v \in Versions : Man \in Manifest[v] /\ Manifest[v] \ {Man} \subseteq Guess

Kept(f) == \E w \in Versions : w <= base /\ backup[w][f] = base

(* What can be run there comes from a later release than base.             *)
Newer(folder, f) == Runs(folder, f) => folder[f] > base

(* Until a later release has been unpacked and its updater started, every  *)
(* file of base is untouched or in a backup folder, and the updater        *)
(* at work writes to no folder of a later release.                         *)
Whole ==
    /\ fin.pc \in {"off", "unlock"} /\ fin.todo = {}
    /\ \A f \in Manifest[base] : app[f] = base \/ (app[f] = None /\ Kept(f))
    /\ up.pc = "list" => Runs(app, Exe) \/ up.own <= base
    /\ up.pc \notin {"off", "list"} => \/ up.from <= base
                                      \/ (~Replacing /\ app[Exe] = base)
    /\ Replacing => up.to > base
    /\ up.pc = "backup" => \A f \in Manifest[base] \ up.todo : app[f] = None
    /\ up.pc \in {"unpack", "spawn"} => \A f \in Manifest[base] : app[f] = None
    /\ up.pc = "spawn" => release[Exe] = up.to /\ release[Upd] = up.to

(* From then on all of base is in the folders of base and earlier ones,    *)
(* and no program at work was given one of those: an updater that is would *)
(* be stale.                                                               *)
Away ==
    /\ \A f \in Manifest[base] : Kept(f)
    /\ \A f \in {Exe, Upd} : Newer(app, f) /\ Newer(release, f)
    /\ up.pc # "off" => up.own > base
    /\ up.pc \notin {"off", "list"} => up.from > base
    /\ Replacing => up.to > base

Placed == spoiled \/ Whole \/ Away

LEMMA InitPlaced == Init => Placed
<1> SUFFICES ASSUME Init PROVE Placed
    OBVIOUS
<1>1. \A f \in Manifest[base] : app[f] = base
    BY Constants DEF Init
<1>2. up.pc = "off" /\ fin.pc = "off" /\ fin.todo = {}
    BY DEF Init
<1> QED BY <1>1, <1>2 DEF Placed, Whole, Replacing

LEMMA LauncherPlaced ==
    ASSUME Types, Placed, LauncherStep PROVE Placed'
<1> USE DEF Types, Placed, Whole, Away, Kept, Newer, Runs, Replacing, disk, flags, hist
<1>1. CASE Startup
    BY <1>1 DEF Startup, CheckVerdicts
<1>2. CASE CloseLauncher
    BY <1>2 DEF CloseLauncher
<1>3. ASSUME NEW v \in Versions, CheckForUpdates(v) PROVE Placed'
    BY <1>3 DEF CheckForUpdates
<1>4. ASSUME NEW ignored \in BOOLEAN, NEW removed \in BOOLEAN, AnswerLock(ignored, removed)
      PROVE  Placed'
    BY <1>4 DEF AnswerLock, CheckVerdicts
<1>5. ASSUME NEW ignored \in BOOLEAN, NEW removed \in BOOLEAN, AnswerFail(ignored, removed)
      PROVE  Placed'
    BY <1>5 DEF AnswerFail
<1>6. CASE InstallOffered
    <2>1. /\ up.pc = "off"
          /\ UNCHANGED <<app, backup, release, fin, base, spoiled>>
        BY <1>6 DEF InstallOffered
    <2>2. CASE Runs(app, Upd)
        <3>1. up'.pc = "list" /\ up'.own = app[Upd]
            BY <1>6, <2>2 DEF InstallOffered
        <3>2. CASE Whole
            <4>1. app[Upd] = base /\ base <= base
                BY <2>2, <3>2, Constants DEF TypeOK, Versions
            <4> QED BY <2>1, <3>1, <3>2, <4>1
        <3>3. CASE Away
            <4>1. app[Upd] > base
                BY <2>2, <3>3
            <4> QED BY <2>1, <3>1, <3>3, <4>1
        <3> QED BY <2>1, <3>2, <3>3
    <2>3. CASE ~Runs(app, Upd)
        <3>1. up' = up
            BY <1>6, <2>3 DEF InstallOffered
        <3> QED BY <2>1, <3>1
    <2> QED BY <2>2, <2>3
<1>7. CASE SkipOffered
    BY <1>7 DEF SkipOffered
<1>8. CASE DeclineOffered
    BY <1>8 DEF DeclineOffered
<1> QED BY <1>1, <1>2, <1>3, <1>4, <1>5, <1>6, <1>7, <1>8 DEF LauncherStep

LEMMA WholeList ==
    ASSUME Covering, Types, Whole, NEW list \in BackupLists(TRUE)
    PROVE  \A f \in Manifest[base] \ list : app[f] = None
<1>1. base \in Versions /\ Man \in Manifest[base] /\ Manifest[base] \ {Man} \subseteq Guess
    BY DEF Types, TypeOK, Covering
<1>2. CASE app[Man] = base
    <2>1. list = Manifest[base]
        BY <1>1, <1>2 DEF BackupLists, Runs
    <2> QED BY <2>1
<1>3. CASE app[Man] = None
    <2>1. list = Guess
        BY <1>3, Constants DEF BackupLists, Runs
    <2> QED BY <1>1, <1>3, <2>1
<1> QED BY <1>1, <1>2, <1>3 DEF Whole

LEMMA BackupPlaced ==
    ASSUME Types, Placed, NEW f \in Files, NEW copied \in BOOLEAN, NEW removed \in BOOLEAN,
           BackupFile(f, copied, removed)
    PROVE  Placed'
<1> USE DEF Types, Placed, Kept, Newer, Runs, Replacing
<1>1. /\ up.pc = "backup" /\ up'.pc = "backup" /\ up'.todo = up.todo \ {f}
      /\ up'.own = up.own /\ up'.from = up.from /\ up'.to = up.to
      /\ UNCHANGED <<release, fin, base>>
      /\ up.from \in Versions /\ base \in Versions
    BY DEF BackupFile, TypeOK, UpTyped
<1>2. CASE app[f] = None
    <2>1. UNCHANGED <<app, backup, spoiled>>
        BY <1>2 DEF BackupFile
    <2> QED BY <1>1, <1>2, <2>1 DEF Whole, Away
<1>3. CASE app[f] # None /\ ~(copied /\ removed)
    <2>1. spoiled'
        BY <1>3 DEF BackupFile
    <2> QED BY <2>1
<1>4. CASE app[f] # None /\ copied /\ removed
    <2>1. /\ backup' = [backup EXCEPT ![up.from][f] = app[f]]
          /\ app' = [app EXCEPT ![f] = None]
          /\ spoiled => spoiled'
        BY <1>4 DEF BackupFile
    <2>2. /\ \A g \in Files : app'[g] = IF g = f THEN None ELSE app[g]
          /\ \A w \in Versions, g \in Files :
                 backup'[w][g] = IF w = up.from /\ g = f THEN app[f] ELSE backup[w][g]
        BY <1>1, <2>1 DEF TypeOK
    <2>3. Manifest[base] \subseteq Files /\ {Exe, Upd} \subseteq Files
        BY <1>1, Constants
    <2>4. CASE Whole
        <3>1. \A g \in Manifest[base] : app'[g] = base \/ (app'[g] = None /\ Kept(g)')
            <4> SUFFICES ASSUME NEW g \in Manifest[base]
                         PROVE  app'[g] = base \/ (app'[g] = None /\ Kept(g)')
                OBVIOUS
            <4>1. CASE g = f
                <5>1. app[f] = base /\ up.from <= base
                    BY <1>1, <1>4, <2>4, <4>1 DEF Whole
                <5> QED BY <1>1, <2>2, <2>3, <4>1, <5>1
            <4>2. CASE g # f
                <5>1. app'[g] = app[g] /\ \A w \in Versions : backup'[w][g] = backup[w][g]
                    BY <2>2, <2>3, <4>2
                <5> QED BY <1>1, <2>4, <5>1 DEF Whole
            <4> QED BY <4>1, <4>2
        <3>2. \A g \in Manifest[base] \ up'.todo : app'[g] = None
            BY <1>1, <2>2, <2>3, <2>4 DEF Whole
        <3> QED BY <1>1, <2>4, <3>1, <3>2 DEF Whole
    <2>5. CASE Away
        <3>1. up.from # base /\ ~(up.from <= base)
            BY <1>1, <2>5 DEF Away, Versions
        <3>2. \A g \in Manifest[base] : Kept(g)'
            BY <1>1, <2>2, <2>3, <2>5, <3>1 DEF Away
        <3>3. \A g \in {Exe, Upd} : Newer(app, g)' /\ Newer(release, g)'
            BY <1>1, <2>2, <2>3, <2>5, Constants DEF Away
        <3> QED BY <1>1, <2>5, <3>2, <3>3 DEF Away
    <2> QED BY <2>1, <2>4, <2>5
<1> QED BY <1>2, <1>3, <1>4

LEMMA UnpackPlaced ==
    ASSUME Covering, Types, Placed, NEW unpacked \in SUBSET Files, NEW ok \in BOOLEAN,
           UnpackArchive(unpacked, ok)
    PROVE  Placed'
<1> USE DEF Types, Placed, Kept, Newer, Runs, Replacing
<1>1. /\ up.pc = "unpack"
      /\ UNCHANGED <<app, backup, fin, base, spoiled>>
      /\ \A f \in Files : release'[f] = IF f \in unpacked THEN up.to ELSE release[f]
      /\ up.to \in Versions /\ base \in Versions /\ {Exe, Upd} \subseteq Files
    BY Constants DEF UnpackArchive, TypeOK, UpTyped, hist
<1>2. \/ up'.pc = "off"
      \/ up'.pc = "spawn" /\ up'.own = up.own /\ up'.from = up.from /\ up'.to = up.to
    BY DEF UnpackArchive, TypeOK
<1>3. up'.pc = "spawn" => release'[Exe] = up.to /\ release'[Upd] = up.to
    <2>1. CASE ok
        <3>1. unpacked = Manifest[up.to]
            BY <2>1 DEF UnpackArchive, Covering
        <3> QED BY <1>1, <3>1, Constants
    <2>2. CASE ~ok
        BY <2>2 DEF UnpackArchive
    <2> QED BY <2>1, <2>2
<1>4. CASE Whole
    BY <1>1, <1>2, <1>3, <1>4 DEF Whole
<1>5. CASE Away
    <2>1. \A f \in {Exe, Upd} : Newer(app, f)' /\ Newer(release, f)'
        BY <1>1, <1>5 DEF Away
    <2> QED BY <1>1, <1>2, <1>5, <2>1 DEF Away
<1> QED BY <1>1, <1>4, <1>5

LEMMA SpawnPlaced ==
    ASSUME Types, Placed, NEW started \in BOOLEAN, StartNewUpdater(started)
    PROVE  Placed'
<1> USE DEF Types, Placed, Kept, Newer, Runs, Replacing
<1>1. /\ up.pc = "spawn" /\ up'.pc = "off"
      /\ UNCHANGED <<app, backup, release, base, spoiled>>
      /\ base \in Versions
    BY DEF StartNewUpdater, TypeOK, hist
<1>2. CASE Whole
    <2>1. \A f \in Manifest[base] : app[f] = None /\ Kept(f)
        BY <1>1, <1>2, Constants DEF Whole
    <2>2. /\ Exe \in Manifest[base] /\ Upd \in Manifest[base]
          /\ release[Exe] > base /\ release[Upd] > base
        BY <1>1, <1>2, Constants DEF Whole
    <2> QED BY <1>1, <2>1, <2>2, Constants DEF Away
<1>3. CASE Away
    BY <1>1, <1>3 DEF Away
<1> QED BY <1>1, <1>2, <1>3

LEMMA UpdaterPlaced ==
    ASSUME Covering, Types, Placed, UpdaterStep PROVE Placed'
<1> USE DEF Types, Placed, Kept, Newer, Runs, Replacing, disk, flags, hist
<1>1. ASSUME NEW outcome \in Lists, LoadReleases(outcome) PROVE Placed'
    <2>1. /\ up.pc = "list" /\ UNCHANGED <<app, backup, release, fin, base, spoiled>>
          /\ \/ up'.pc = "off"
             \/ /\ up'.pc = "download" /\ up'.own = up.own /\ up'.to = up.to
                /\ up'.from = IF Runs(app, Exe) THEN app[Exe] ELSE up.own
        BY <1>1 DEF LoadReleases, TypeOK
    <2>2. CASE Whole
        <3>1. Runs(app, Exe) => app[Exe] = base
            BY <2>2, Constants DEF TypeOK, Whole
        <3>2. up'.pc # "off" => up'.from <= base
            BY <2>1, <2>2, <3>1 DEF Whole, TypeOK, Versions
        <3> QED BY <2>1, <2>2, <3>2 DEF Whole, TypeOK
    <2>3. CASE Away
        BY <2>1, <2>3 DEF Away
    <2> QED BY <2>1, <2>2, <2>3
<1>2. ASSUME NEW ok \in BOOLEAN, DownloadAsset(ok) PROVE Placed'
    BY <1>2 DEF DownloadAsset, TypeOK, Whole, Away
<1>3. ASSUME NEW written \in BOOLEAN, NEW read \in BOOLEAN, TakeLock(written, read),
             up.pc \in {"install", "answered"}
      PROVE  Placed'
    <2>1. PICK list \in BackupLists(read) : up' = [up EXCEPT !.pc = "backup", !.todo = list]
        BY <1>3 DEF TakeLock
    <2>2. /\ up'.pc = "backup" /\ up'.todo = list
          /\ up'.own = up.own /\ up'.from = up.from /\ up'.to = up.to
          /\ UNCHANGED <<app, backup, release, fin, base>>
          /\ spoiled' = (spoiled \/ ~read \/ Stale)
        BY <1>3, <2>1 DEF TakeLock, TypeOK
    <2>3. CASE spoiled'
        BY <2>3
    <2>4. CASE ~spoiled'
        <3>1. read = TRUE /\ ~spoiled /\ ~Stale
            BY <2>2, <2>4
        <3>2. up.to \in Versions /\ up.from \in Versions /\ base \in Versions
            BY <1>3 DEF TypeOK, UpTyped
        <3>3. up.to > base /\ ~(up.from > base /\ app[Exe] = base)
            BY <3>1, <3>2 DEF Stale, Versions
        <3>4. CASE Whole
            <4>1. \A f \in Manifest[base] \ up'.todo : app[f] = None
                BY <2>2, <3>1, <3>4, WholeList
            <4>2. up.from <= base
                BY <1>3, <3>2, <3>3, <3>4 DEF Whole, Versions
            <4> QED BY <1>3, <2>2, <3>1, <3>3, <3>4, <4>1, <4>2 DEF Whole
        <3>5. CASE Away
            BY <1>3, <2>2, <3>1, <3>3, <3>5 DEF Away
        <3> QED BY <3>1, <3>4, <3>5
    <2> QED BY <2>3, <2>4
<1>4. ASSUME NEW written \in BOOLEAN, NEW read \in BOOLEAN, PerformInstall(written, read)
      PROVE  Placed'
    BY <1>3, <1>4 DEF PerformInstall, TypeOK, Whole, Away
<1>5. ASSUME NEW button \in {Ignore, Cancel}, PressButton(button) PROVE Placed'
    BY <1>5 DEF PressButton, TypeOK, Whole, Away
<1>6. ASSUME NEW written \in BOOLEAN, NEW read \in BOOLEAN, ConfirmLock(written, read)
      PROVE  Placed'
    BY <1>3, <1>6 DEF ConfirmLock, Whole, Away
<1>7. ASSUME NEW f \in Files, NEW copied \in BOOLEAN, NEW removed \in BOOLEAN,
             BackupFile(f, copied, removed)
      PROVE  Placed'
    BY <1>7, BackupPlaced
<1>8. CASE BackupDone
    BY <1>8 DEF BackupDone, TypeOK, Whole, Away
<1>9. ASSUME NEW unpacked \in SUBSET Files, NEW ok \in BOOLEAN, UnpackArchive(unpacked, ok)
      PROVE  Placed'
    BY <1>9, UnpackPlaced
<1>10. ASSUME NEW started \in BOOLEAN, StartNewUpdater(started) PROVE Placed'
    BY <1>10, SpawnPlaced
<1> QED BY <1>1, <1>2, <1>4, <1>5, <1>6, <1>7, <1>8, <1>9, <1>10 DEF UpdaterStep

LEMMA FinisherPlaced ==
    ASSUME Types, Placed, FinisherStep PROVE Placed'
<1> USE DEF Types, Placed, Kept, Newer, Runs, Replacing, disk, flags, hist
<1>1. ASSUME NEW read \in BOOLEAN, MoveAndFinish(read) PROVE Placed'
    BY <1>1 DEF MoveAndFinish, Whole, Away
<1>2. ASSUME NEW f \in Files, NEW copied \in BOOLEAN, InstallFile(f, copied) PROVE Placed'
    <2>1. /\ fin.pc = "install" /\ UNCHANGED <<backup, release, up, base>>
          /\ ~(fin.pc \in {"off", "unlock"})
        BY <1>2 DEF InstallFile
    <2>2. CASE release[f] = None
        BY <1>2, <2>1, <2>2 DEF InstallFile, Whole, Away
    <2>3. CASE release[f] # None /\ copied
        <3>1. app' = [app EXCEPT ![f] = release[f]] /\ (spoiled => spoiled')
            BY <1>2, <2>3 DEF InstallFile
        <3>2. \A g \in {Exe, Upd} : app'[g] = IF g = f THEN release[f] ELSE app[g]
            BY <3>1, Constants DEF TypeOK
        <3> QED BY <2>1, <3>1, <3>2 DEF Whole, Away
    <2>4. CASE release[f] # None /\ ~copied
        <3>1. spoiled'
            BY <1>2, <2>4 DEF InstallFile
        <3> QED BY <3>1
    <2> QED BY <2>2, <2>3, <2>4
<1>3. ASSUME NEW written \in BOOLEAN, WriteVerdict(written) PROVE Placed'
    <2>1. /\ fin.pc = "install" /\ fin'.pc = "unlock" /\ fin'.todo = {}
          /\ UNCHANGED <<app, backup, release, up>>
        BY <1>3 DEF WriteVerdict, TypeOK
    <2>2. CASE UNCHANGED <<base, spoiled>>
        BY <2>1, <2>2 DEF Whole, Away
    <2>3. ASSUME NEW v \in Versions, ~Replacing, Complete(v), base' = v
          PROVE  Placed'
        <3>1. \A f \in Manifest[base'] : app'[f] = base'
            BY <2>1, <2>3 DEF Complete
        <3>2. app'[Exe] = base' /\ Runs(app, Exe)'
            BY <2>3, <3>1, Constants
        <3> QED BY <2>1, <2>3, <3>1, <3>2 DEF Whole
    <2> QED BY <1>3, <2>2, <2>3 DEF WriteVerdict
<1>4. ASSUME NEW removed \in BOOLEAN, Unlock(removed) PROVE Placed'
    BY <1>4 DEF Unlock, CheckVerdicts, Whole, Away
<1> QED BY <1>1, <1>2, <1>3, <1>4 DEF FinisherStep

LEMMA KillPlaced ==
    ASSUME Types, Placed, KillUpdater \/ KillFinisher PROVE Placed'
<1> USE DEF Types, Placed, Kept, Newer, Runs, Replacing
<1>1. CASE KillUpdater
    <2>1. /\ up.pc # "off" /\ up'.pc = "off"
          /\ UNCHANGED <<app, release, fin, base, spoiled>>
          /\ base \in Versions
        BY <1>1 DEF KillUpdater, hist, TypeOK
    <2>2. CASE UNCHANGED backup
        BY <2>1, <2>2 DEF Whole, Away
    <2>3. ASSUME NEW f \in up.todo, up.pc = "backup", app[f] # None, NEW c \in Contents,
                 backup' = [backup EXCEPT ![up.from][f] = c]
          PROVE  Placed'
        <3>1. /\ up.from \in Versions /\ up.todo \subseteq Files /\ Manifest[base] \subseteq Files
              /\ \A w \in Versions, g \in Files :
                     backup'[w][g] = IF w = up.from /\ g = f THEN c ELSE backup[w][g]
            BY <2>1, <2>3, Constants DEF TypeOK, UpTyped
        <3>2. CASE Whole
            <4>1. \A g \in Manifest[base] : app'[g] = base \/ (app'[g] = None /\ Kept(g)')
                BY <2>1, <2>3, <3>1, <3>2 DEF Whole
            <4> QED BY <2>1, <3>2, <4>1 DEF Whole
        <3>3. CASE Away
            <4>1. ~(up.from <= base)
                BY <2>1, <2>3, <3>1, <3>3 DEF Away, Versions
            <4>2. \A g \in Manifest[base] : Kept(g)'
                BY <2>1, <3>1, <3>3, <4>1 DEF Away
            <4> QED BY <2>1, <3>3, <4>2 DEF Away
        <3> QED BY <2>1, <3>2, <3>3
    <2>4. \/ UNCHANGED backup
          \/ \E f \in up.todo, c \in Contents :
                 up.pc = "backup" /\ app[f] # None /\ backup' = [backup EXCEPT ![up.from][f] = c]
        BY <1>1, Constants DEF KillUpdater, TypeOK
    <2> QED BY <2>2, <2>3, <2>4
<1>2. CASE KillFinisher
    <2>1. /\ fin'.pc = "off" /\ fin'.todo = {}
          /\ UNCHANGED <<backup, release, up, base, spoiled>>
        BY <1>2 DEF KillFinisher, hist
    <2>2. CASE UNCHANGED app
        BY <2>1, <2>2 DEF Whole, Away
    <2>3. CASE ~UNCHANGED app
        <3>1. PICK f \in fin.todo : app' = [app EXCEPT ![f] = Torn]
            BY <1>2, <2>3 DEF KillFinisher
        <3>2. ~Whole
            BY <3>1 DEF Whole
        <3>3. f \in Files /\ {Exe, Upd} \subseteq Files
            BY <3>1, Constants DEF TypeOK
        <3>4. \A g \in {Exe, Upd} : app'[g] = IF g = f THEN Torn ELSE app[g]
            BY <3>1, <3>3 DEF TypeOK
        <3> QED BY <2>1, <3>2, <3>4, Constants DEF Away
    <2> QED BY <2>2, <2>3
<1> QED BY <1>1, <1>2

LEMMA PlacedStep ==
    Covering /\ Types /\ Placed /\ [Next]_vars => Placed'
<1> SUFFICES ASSUME Covering, Types, Placed, [Next]_vars PROVE Placed'
    OBVIOUS
<1>1. CASE UNCHANGED vars
    BY <1>1 DEF Placed, Whole, Away, Kept, Newer, Runs, Replacing, vars, disk, flags, hist
<1> QED BY <1>1, LauncherPlaced, UpdaterPlaced, FinisherPlaced, KillPlaced DEF Next

LEMMA PlacedKeeps ==
    ASSUME Types, Placed PROVE OldKept
<1>1. base \in Versions
    BY DEF Types, TypeOK
<1> QED BY <1>1 DEF OldKept, Placed, Whole, Away, Kept

(* Wherever the programs are killed and however often an update is tried   *)
(* again, each file of the last complete release is in place or in a       *)
(* backup folder until the next release is complete, unless an operation   *)
(* on an installed file failed, or an updater took the lock for a release  *)
(* no newer than the installed one (ExtremeUpdater.cpp:1091,               *)
(* ExtremeExternalUpdater.cpp:316).                                        *)
THEOREM OldReleaseIsKept ==
    ASSUME Covering PROVE Spec => []OldKept
<1>1. Init => Types /\ Placed
    BY InitTypes, InitPlaced
<1>2. (Types /\ Placed) /\ [Next]_vars => (Types /\ Placed)'
    BY TypesStep, PlacedStep
<1>3. Types /\ Placed => OldKept
    BY PlacedKeeps
<1> QED BY <1>1, <1>2, <1>3, PTL DEF Spec
===============================================================================
