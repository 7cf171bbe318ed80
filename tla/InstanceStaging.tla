--------------------------- MODULE InstanceStaging ---------------------------
(***************************************************************************)
(* The InstanceStaging task of InstanceList.cpp around the task that fills *)
(* a staging folder (the child), the commit of that folder with its        *)
(* exponential backoff, and the two kinds of owner: the main window, which *)
(* runs the wrapper in a modal dialog, and the page of a managed pack,     *)
(* which builds the wrapper but runs the child.                            *)
(*                                                                         *)
(* A folder is abstracted to whether all of the new instance is in it.     *)
(***************************************************************************)
EXTENDS Naturals, Sequences

CONSTANTS
    MinBackoff,   \* minBackoff, 1
    MaxBackoff,   \* maxBackoff, 16
    MaxAttempts   \* bound: commits, those after the end of the task included

ASSUME BackoffAssumption ==
    /\ MinBackoff \in Nat \ {0} /\ MaxBackoff \in Nat /\ MinBackoff <= MaxBackoff
    /\ MaxAttempts \in Nat

VARIABLES
    owner,      \* "window" or "page"; never changes
    override,   \* m_child->shouldOverride(): replace an instance; never changes
    state,      \* m_state of the wrapper
    child,      \* m_state of m_child
    abortable,  \* m_child->canAbort()
    backoff,    \* m_current of the ExponentialSeries
    timer,      \* m_backoffTimer: 0 when stopped, else its interval
    staging,    \* m_stagingPath: "none", "whole", "part", "gone"
    target,     \* the instance to replace: "old", "mixed", "new"
    committed,  \* history: the instance folders a commit made, in order
    alive,      \* the wrapper and its child exist
    signals,    \* history: the terminal signals of the wrapper, in order
    attempts    \* history: the number of commits tried

config == <<owner, override>>
stagingDisk == <<staging, target, committed>>
stagingVars == <<config, state, child, abortable, backoff, timer, stagingDisk, alive, signals, attempts>>

TaskState == {"Inactive", "Running", "Succeeded", "Failed", "AbortedByUser"}
Terminal == {"Succeeded", "Failed", "AbortedByUser"}
Contents == {"whole", "part"}

StagingTypeOK ==
    /\ owner \in {"window", "page"} /\ override \in BOOLEAN
    /\ state \in TaskState /\ child \in TaskState
    /\ abortable \in BOOLEAN /\ alive \in BOOLEAN
    /\ backoff \in MinBackoff..MaxBackoff
    /\ timer \in {0} \cup MinBackoff..MaxBackoff
    /\ timer # 0 => child = "Succeeded" /\ attempts > 0
    /\ staging \in Contents \cup {"none", "gone"}
    /\ target \in {"old", "mixed", "new"}
    /\ committed \in Seq(Contents)
    /\ signals \in Seq(Terminal)
    /\ attempts \in 0..MaxAttempts

\* getStagedInstancePath may fail; what a page does then is left out.
StagingInit ==
    /\ owner \in {"window", "page"} /\ override \in BOOLEAN
    /\ state = "Inactive" /\ child = "Inactive"
    /\ abortable \in BOOLEAN
    /\ backoff = MinBackoff /\ timer = 0
    /\ staging \in IF owner = "window" THEN {"none", "part"} ELSE {"part"}
    /\ target = "old" /\ committed = <<>>
    /\ alive = TRUE /\ signals = <<>> /\ attempts = 0

Emit(outcome) ==
    IF state = "Running"
    THEN state' = outcome /\ signals' = Append(signals, outcome)
    ELSE UNCHANGED <<state, signals>>

-----------------------------------------------------------------------------
(* The commit.                                                             *)

\* FS::overrideFolder copies over the instance; the staging folder stays.
OverrideDone ==
    /\ override /\ staging \in Contents
    /\ target' = IF staging = "whole" THEN "new" ELSE "mixed"
    /\ UNCHANGED <<staging, committed>>

OverrideBlocked ==
    /\ override
    /\ target' \in IF staging \in Contents THEN {target, "mixed"} ELSE {target}
    /\ UNCHANGED <<staging, committed>>

\* FS::move renames, or copies and deletes.  The copy only reports how its last
\* file went, so it may have left some out.
MoveDone ==
    /\ ~override /\ staging \in Contents
    /\ \E content \in {staging, "part"} : committed' = Append(committed, content)
    /\ staging' = "gone"
    /\ UNCHANGED target

\* Nothing moved, a copy broken off, or a copy whose original could not be
\* deleted; the next commit takes another folder name.
MoveBlocked ==
    /\ ~override
    /\ \/ UNCHANGED <<committed, staging>>
       \/ /\ staging \in Contents
          /\ \/ committed' = Append(committed, "part") /\ UNCHANGED staging
             \/ /\ \E content \in {staging, "part"} : committed' = Append(committed, content)
                /\ staging' \in {staging, "part"}
    /\ UNCHANGED target

CommitDone == OverrideDone \/ MoveDone
CommitBlocked == OverrideBlocked \/ MoveBlocked

\* ExponentialSeries::operator()
NextBackoff == IF 2 * backoff > MaxBackoff THEN MaxBackoff ELSE 2 * backoff

\* mutant: the limit is passed before it is seen
GiveUpBeyond == backoff > MaxBackoff

\* after a commit that did not work, with the interval that is due
GiveUp == backoff = MaxBackoff

\* mutant: the timer is not started
RetryUntimed ==
    /\ CommitBlocked
    /\ IF GiveUp
       THEN Emit("Failed") /\ UNCHANGED timer
       ELSE UNCHANGED <<state, signals, timer>>

RetryOrGiveUp ==
    /\ CommitBlocked
    /\ IF GiveUp
       THEN Emit("Failed") /\ UNCHANGED timer
       ELSE timer' = backoff /\ UNCHANGED <<state, signals>>

\* mutant: success is reported whatever the commit said
CommitUnchecked ==
    /\ attempts < MaxAttempts
    /\ attempts' = attempts + 1
    /\ backoff' = NextBackoff
    /\ CommitDone \/ CommitBlocked
    /\ Emit("Succeeded") /\ UNCHANGED timer

\* InstanceStaging::childSucceeded, a slot of the child and of the timer.  The
\* timer is repeating and nothing stops it.
ChildSucceeded ==
    /\ attempts < MaxAttempts
    /\ attempts' = attempts + 1
    /\ backoff' = NextBackoff
    /\ \/ CommitDone /\ Emit("Succeeded") /\ UNCHANGED timer
       \/ RetryOrGiveUp

-----------------------------------------------------------------------------
(* The child.                                                              *)

\* childFailed and childAborted; nobody looks whether the folder could be deleted.
DestroyStaging ==
    /\ staging' \in IF staging \in Contents THEN {"gone", "part"} ELSE {staging}
    /\ UNCHANGED <<target, committed>>

\* setAbortable by the child while it works
SetAbortable ==
    /\ alive /\ child = "Running"
    /\ abortable' = ~abortable
    /\ UNCHANGED <<config, state, child, backoff, timer, stagingDisk, alive, signals, attempts>>

FillStaging ==
    /\ alive /\ child = "Running" /\ staging = "part"
    /\ staging' = "whole"
    /\ UNCHANGED <<config, state, child, abortable, backoff, timer, target, committed, alive, signals, attempts>>

ChildSucceeds ==
    /\ alive /\ child = "Running" /\ staging = "whole"
    /\ child' = "Succeeded"
    /\ ChildSucceeded
    /\ UNCHANGED <<config, abortable, alive>>

ChildFails ==
    /\ alive /\ child = "Running"
    /\ child' = "Failed"
    /\ DestroyStaging /\ Emit("Failed")
    /\ UNCHANGED <<config, abortable, backoff, timer, alive, attempts>>

ChildAborts ==
    /\ alive /\ child = "Running"
    /\ child' = "AbortedByUser"
    /\ DestroyStaging /\ Emit("AbortedByUser")
    /\ UNCHANGED <<config, abortable, backoff, timer, alive, attempts>>

BackoffTimeout ==
    /\ alive /\ timer # 0
    /\ ChildSucceeded
    /\ UNCHANGED <<config, child, abortable, alive>>

-----------------------------------------------------------------------------
(* The owner.                                                              *)

\* the dialog posts start() of the task it was given
StartWrapper ==
    /\ owner = "window" /\ state = "Inactive"
    /\ IF staging = "none"
       THEN state' = "Failed" /\ signals' = Append(signals, "Failed") /\ UNCHANGED child
       ELSE state' = "Running" /\ child' = "Running" /\ UNCHANGED signals
    /\ UNCHANGED <<config, abortable, backoff, timer, stagingDisk, alive, attempts>>

StartChild ==
    /\ owner = "page" /\ child = "Inactive"
    /\ child' = "Running"
    /\ UNCHANGED <<config, state, abortable, backoff, timer, stagingDisk, alive, signals, attempts>>

\* The Abort button of the window: InstanceStaging::abort asks the child, which
\* may stop at once, later, or not at all, and reports the abort either way.
AbortWrapper ==
    /\ owner = "window" /\ alive /\ state = "Running" /\ abortable
    /\ \/ child = "Running" /\ child' = "AbortedByUser" /\ DestroyStaging
       \/ UNCHANGED <<child, stagingDisk>>
    /\ Emit("AbortedByUser")
    /\ UNCHANGED <<config, abortable, backoff, timer, alive, attempts>>

DialogClosed ==
    IF owner = "window" THEN signals # <<>> ELSE child \in Terminal

\* The dialog is done, and the owner lets go of the wrapper.  Until then the timer
\* may fire once more, which is more than the event loop is likely to allow.
OwnerReturns ==
    /\ alive /\ DialogClosed
    /\ alive' = FALSE /\ timer' = 0
    /\ UNCHANGED <<config, state, child, abortable, backoff, stagingDisk, signals, attempts>>

\* The next start of the launcher deletes .tmp.
NextLaunch ==
    /\ ~alive /\ staging \in Contents
    /\ DestroyStaging
    /\ UNCHANGED <<config, state, child, abortable, backoff, timer, alive, signals, attempts>>

-----------------------------------------------------------------------------
StagingNext ==
    \/ SetAbortable
    \/ FillStaging
    \/ ChildSucceeds
    \/ ChildFails
    \/ ChildAborts
    \/ BackoffTimeout
    \/ StartWrapper
    \/ StartChild
    \/ AbortWrapper
    \/ OwnerReturns
    \/ NextLaunch

StagingSpec == StagingInit /\ [][StagingNext]_stagingVars

\* The child comes to an end, the timer fires, and the dialog starts its task
\* and returns.
Fairness ==
    /\ WF_stagingVars(StartWrapper \/ StartChild)
    /\ WF_stagingVars(FillStaging) /\ WF_stagingVars(ChildSucceeds \/ ChildFails \/ ChildAborts)
    /\ WF_stagingVars(BackoffTimeout)
    /\ WF_stagingVars(OwnerReturns)

FairSpec == StagingSpec /\ Fairness

-----------------------------------------------------------------------------
(* Properties.                                                             *)

\* Success is announced by a step that put the instance in its place: one more
\* folder and no staging folder, or the whole of the old instance replaced
\* (childSucceeded and commitStagedInstance, with every retry).
SuccessCommits ==
    [][signals # signals' /\ signals' = <<"Succeeded">> =>
          IF override
          THEN target' = "new"
          ELSE Len(committed') > Len(committed) /\ staging' = "gone"]_stagingVars

\* While the wrapper runs, the waits double up to the limit: the commit is tried
\* again only as often as the series has members below it.
Patience == state = "Running" => attempts = 0 \/ (timer < MaxBackoff /\ timer # 0)

\* The state of the back-off: a wrapper that is still running has its next try
\* ahead of it.
BackoffOK == StagingTypeOK /\ Patience

\* A started wrapper comes to an end, and its owner gets rid of it.
Ends == (state = "Running" \/ child = "Running") ~> ~alive
=============================================================================
