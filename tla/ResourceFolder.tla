---------------------------- MODULE ResourceFolder ----------------------------
(***************************************************************************)
(* A list of resource packs, texture packs or shader packs kept in step    *)
(* with a folder (launcher/minecraft/mod/ResourceFolderModel.cpp, with     *)
(* tasks/BasicFolderLoadTask.h and the Local...ParseTask classes).         *)
(*                                                                         *)
(* An update is a task: a worker thread reads the folder (ReadFolder) and  *)
(* posts its result to the GUI thread, where applyUpdates changes only     *)
(* what differs.  Each new row is parsed by a task of its own: the tasks   *)
(* run in the GUI thread, a few at a time, and post what they found.       *)
(* The folder changes at any moment, by the user of the page, by another   *)
(* program, or by the load task itself, which renames duplicates.          *)
(*                                                                         *)
(* A resource is named <<name, form>>: the form is the suffix of its file, *)
(* none, ".disabled", or one of ".duplicate", ".duplicate2" and so on.     *)
(* `events' is the event queue of the GUI thread, in order.                *)
(***************************************************************************)
EXTENDS Integers, Sequences, SequencesExt, FiniteSets

CONSTANTS Names,        \* the base names files can have
          Initial,      \* those the folder has at the start
          Packs,        \* those whose content is a pack of the kind listed
          Slots,        \* "NumberOfConcurrentTasks"
          MaxDuplicates,\* bound: duplicates of one name
          MaxChanges,   \* bound: changes of the folder by users and programs
          MaxVisits     \* bound: times the page is opened

ASSUME FolderAssumption ==
    /\ IsFiniteSet(Names) /\ Packs \subseteq Names /\ Initial \subseteq Names
    /\ Slots \in Nat \ {0}
    /\ MaxDuplicates \in Nat /\ MaxChanges \in Nat /\ MaxVisits \in Nat

VARIABLES
    folder,      \* id |-> last change, for the files that exist
    changes,     \* how many changes there have been (and the clock)
    watching,    \* m_is_watching
    visits,
    unseen,      \* the folder changed and the watcher has not said so
    update,      \* m_current_update_task: none, reading, posted
    scheduled,   \* m_scheduled_update
    result,      \* what the update task read
    rows,        \* m_resources
    index,       \* m_resources_index
    parse,       \* m_active_parse_tasks: ticket |-> its resource and state
    waiting,     \* queue of m_helper_thread_task
    doing,       \* its running tasks
    events,      \* posted to the GUI thread
    slipped,     \* history: a result was filed under a name without a row
    clashed,     \* history: a file was renamed to the name of another row
    mistaken,    \* history: a pack that was not deleted failed to parse for that
    alive        \* FALSE: a row outside the list was used

files    == <<folder, changes, unseen>>
page     == <<watching, visits>>
updating == <<update, scheduled, result>>
shown    == <<rows, index>>
parsing  == <<parse, waiting, doing>>
ghosts   == <<slipped, clashed, mistaken, alive>>
folderVars ==
    <<files, page, updating, shown, parsing, events, ghosts>>

On  == 0
Off == 1
Duplicates == 2..(1 + MaxDuplicates)
Ids == Names \X ({On, Off} \cup Duplicates)

\* A row whose resource is not being parsed.
NoTicket == 0

IsPack(id) == id[1] \in Packs /\ id[2] \in {On, Off}

Put(f, x, y) == [z \in (DOMAIN f) \cup {x} |-> IF z = x THEN y ELSE f[z]]

\* The place of every row, counted from 0.
Places(list_) == [id \in {list_[i].id : i \in DOMAIN list_} |->
                    (CHOOSE i \in DOMAIN list_ :
                        /\ list_[i].id = id
                        /\ \A j \in DOMAIN list_ : list_[j].id = id => j <= i) - 1]

FolderInit ==
    /\ folder = [id \in {<<n, On>> : n \in Initial} |-> 0]
    /\ changes = 0 /\ unseen = FALSE
    /\ watching = FALSE /\ visits = 0
    /\ update = "none" /\ scheduled = FALSE /\ result = << >>
    /\ rows = << >> /\ index = << >>
    /\ parse = << >> /\ waiting = << >> /\ doing = {}
    /\ events = << >>
    /\ slipped = FALSE /\ clashed = FALSE /\ mistaken = FALSE /\ alive = TRUE

-----------------------------------------------------------------------------
(* Updates. *)

\* Mutant: a request made during an update is dropped.
UpdateForgets ==
    IF update = "none"
    THEN update' = "reading" /\ UNCHANGED <<scheduled, result>>
    ELSE UNCHANGED updating

\* update(): one task at a time, a second request is remembered.
Update ==
    IF update = "none"
    THEN update' = "reading" /\ UNCHANGED <<scheduled, result>>
    ELSE scheduled' = TRUE /\ UNCHANGED <<update, result>>

\* getUniqueResourceName: a disabled file whose enabled twin exists gets the
\* first duplicate that is free.
Duplicated(id) == id[2] = Off /\ <<id[1], On>> \in DOMAIN folder
Free(n)        == {k \in Duplicates : <<n, k>> \notin DOMAIN folder}
UniqueName(id) == IF Duplicated(id) THEN <<id[1], Min(Free(id[1]))>> ELSE id

\* BasicFolderLoadTask::executeTask, in a worker thread.
ReadFolder ==
    /\ alive /\ update = "reading"
    /\ \A id \in DOMAIN folder : Duplicated(id) => Free(id[1]) # {}
    /\ LET after == [id \in {UniqueName(i) : i \in DOMAIN folder} |->
                       folder[CHOOSE i \in DOMAIN folder : UniqueName(i) = id]]
       IN /\ folder' = after
          /\ result' = after
          /\ unseen' = (unseen \/ (watching /\ after # folder))
    /\ update' = "posted"
    /\ events' = events \o << <<"loaded">>, <<"updated">> >>
    /\ UNCHANGED <<changes, page, scheduled, shown, parsing, ghosts>>

\* Mutant: the end of an update does not look at the request made meanwhile.
UpdateFinishedUnasked ==
    /\ alive /\ events # << >> /\ Head(events) = <<"updated">>
    /\ events' = Tail(events)
    /\ update' = "none"
    /\ UNCHANGED <<files, page, scheduled, result, shown, parsing, ghosts>>

\* The lambda on Task::finished of the update task.
UpdateFinished ==
    /\ alive /\ events # << >> /\ Head(events) = <<"updated">>
    /\ events' = Tail(events)
    /\ update' = IF scheduled THEN "reading" ELSE "none"
    /\ scheduled' = FALSE
    /\ UNCHANGED <<files, page, result, shown, parsing, ghosts>>

-----------------------------------------------------------------------------
(* applyUpdates. *)

\* The i-th smallest of a set of numbers.
Nth(S, i) == CHOOSE x \in S : Cardinality({y \in S : y <= x}) = i

\* n tickets that no task has: the numbers only grow in the code.
FreeTickets(n) ==
    LET free == (1..(n + Cardinality(DOMAIN parse))) \ DOMAIN parse
    IN  [i \in 1..n |-> Nth(free, i)]

\* The rows whose file is still there and has changed.  Two names can lead
\* to one row when one of them has none of its own: each then takes the row
\* in turn.
Changed(id) ==
    /\ id \in DOMAIN index /\ id \in DOMAIN result /\ index[id] < Len(rows)
    /\ \/ result[id] # rows[index[id] + 1].time
       \/ \E other \in (DOMAIN index) \cap (DOMAIN result) :
            other # id /\ index[other] = index[id]

\* The tasks of resources that leave the list are told to stop, and the
\* resources are deleted by an event posted now (QObject::deleteLater).
Leave(tickets) == [t \in DOMAIN parse |->
    IF t \in tickets THEN [parse[t] EXCEPT !.aborted = TRUE, !.object = "leaving"]
                     ELSE parse[t]]
Deletions(tickets) == SetToSeq({<<"delete", t>> : t \in tickets \cap DOMAIN parse})

\* A name the index holds, whose row does not exist.
Beyond(ids) == \E id \in ids : index[id] >= Len(rows)

\* The names `gone' lose their rows, the last ones first, and then the first
\* row as often as a name leads to it: the places of the others, and how often
\* the first row is erased.
Others(gone)  == {i \in DOMAIN rows : i = 1 \/ i - 1 \notin {index[id] : id \in gone}}
OnFirst(gone) == Cardinality({id \in gone : index[id] = 0})

ApplyUpdates ==
    LET current == DOMAIN index
        new     == DOMAIN result
        changed == {id \in current : Changed(id)}
        gone    == current \ new
        added   == new \ current
    IN \E last \in {s \in SUBSET changed :
                      /\ \A a, b \in s : index[a] = index[b] => a = b
                      /\ \A c \in changed : \E a \in s : index[a] = index[c]} :
       LET fresh   == SetToSeq(last) \o SetToSeq(added)
           ticket  == FreeTickets(Len(fresh))
           Given(id) == ticket[CHOOSE i \in DOMAIN fresh : fresh[i] = id]
           Fresh(id) == [id |-> id, time |-> result[id], ticket |-> Given(id),
                         unknown |-> FALSE]
           kept    == [i \in DOMAIN rows |->
                         IF \E id \in last : index[id] = i - 1
                         THEN Fresh(CHOOSE id \in last : index[id] = i - 1)
                         ELSE rows[i]]
           after   == [i \in 1..(Cardinality(Others(gone)) - OnFirst(gone)) |->
                         kept[Nth(Others(gone), i + OnFirst(gone))]]
           appended == [i \in 1..Cardinality(added) |-> Fresh(SetToSeq(added)[i])]
           left    == {rows[i].ticket : i \in DOMAIN rows}
                      \ {after[i].ticket : i \in DOMAIN after}
           \* a row given to a new resource and erased at once
           short   == {Given(id) : id \in last} \ {after[i].ticket : i \in DOMAIN after}
       IN IF Beyond(current \cap new) \/ Beyond(gone)
             \/ OnFirst(gone) > Cardinality(Others(gone))
          THEN alive' = FALSE /\ UNCHANGED <<shown, parsing, events>>
          ELSE /\ rows' = after \o appended
               /\ index' = Places(rows')
               /\ parse' = [t \in ToSet(ticket) \cup DOMAIN parse |->
                              IF t \notin ToSet(ticket) THEN Leave(left)[t]
                              ELSE [id |-> fresh[CHOOSE i \in DOMAIN fresh : ticket[i] = t],
                                    aborted |-> t \in short, unknown |-> FALSE,
                                    object |-> IF t \in short THEN "leaving" ELSE "listed"]]
               /\ waiting' = waiting \o ticket
               /\ events' = Tail(events) \o Deletions(left)
                            \o SetToSeq({<<"delete", t>> : t \in short})
               /\ UNCHANGED <<doing, alive>>

OnUpdateSucceeded ==
    /\ alive /\ events # << >> /\ Head(events) = <<"loaded">>
    /\ ApplyUpdates
    /\ UNCHANGED <<files, page, updating, slipped, clashed, mistaken>>

-----------------------------------------------------------------------------
(* Parse tasks. *)

\* m_helper_thread_task starts a sub task: its start is posted.
HelperStarts ==
    /\ alive /\ waiting # << >> /\ Cardinality(doing) < Slots
    /\ doing' = doing \cup {Head(waiting)}
    /\ waiting' = Tail(waiting)
    /\ events' = Append(events, <<"start", Head(waiting)>>)
    /\ UNCHANGED <<files, page, updating, shown, parse, ghosts>>

\* executeTask of the parse task: the flag of abort() is only looked at when
\* the file was read and is a pack.  A resource that was told to delete its
\* file has no type and reads as no pack, a deleted one as anything.
ParseRuns(t) ==
    /\ alive /\ events # << >> /\ Head(events) = <<"start", t>>
    /\ LET there == parse[t].id \in DOMAIN folder /\ IsPack(parse[t].id)
       IN \E ok \in IF parse[t].object = "gone" THEN BOOLEAN
                    ELSE {there /\ ~parse[t].unknown} :
            /\ events' = Tail(events)
                         \o (IF ok /\ parse[t].aborted THEN << >>
                             ELSE << <<"parsed", t, ok>> >>)
                         \o << <<"finished", t>> >>
            /\ mistaken' = (mistaken \/ (there /\ parse[t].unknown))
    /\ doing' = doing \ {t}
    /\ UNCHANGED <<files, page, updating, shown, parse, waiting, slipped, clashed, alive>>

\* Mutant: the index keeps the places of the rows before the removal.
ForgetRowOnly(place) ==
    IF place >= Len(rows)
    THEN alive' = FALSE /\ UNCHANGED <<shown, parse, events>>
    ELSE LET t == rows[place + 1].ticket IN
         /\ rows' = RemoveAt(rows, place + 1)
         /\ index' = [id \in DOMAIN index \ {rows[place + 1].id} |-> index[id]]
         /\ parse' = [u \in DOMAIN parse |->
                        IF u = t THEN [parse[u] EXCEPT !.object = "leaving"]
                                 ELSE parse[u]]
         /\ events' = Tail(events) \o Deletions({t})
         /\ UNCHANGED alive

\* onParseFailed: the row of a file that is no pack leaves the list.
ForgetRow(place) ==
    IF place >= Len(rows)
    THEN alive' = FALSE /\ UNCHANGED <<shown, parse, events>>
    ELSE LET t == rows[place + 1].ticket IN
         /\ rows' = RemoveAt(rows, place + 1)
         /\ index' = Places(rows')
         /\ parse' = [u \in DOMAIN parse |->
                        IF u = t THEN [parse[u] EXCEPT !.object = "leaving"]
                                 ELSE parse[u]]
         /\ events' = Tail(events) \o Deletions({t})
         /\ UNCHANGED alive

\* onParseSucceeded and onParseFailed look the name up with operator[], which
\* files an unknown name under place 0.  The task is still active: its
\* `finished' is behind this event.
ParseReports(t, ok) ==
    /\ alive /\ events # << >> /\ Head(events) = <<"parsed", t, ok>>
    /\ \E id \in IF parse[t].object = "gone" THEN Ids ELSE {parse[t].id} :
         LET known == id \in DOMAIN index IN
         /\ slipped' = (slipped \/ ~known \/ parse[t].object = "gone")
         /\ IF ok
            THEN /\ index' = IF known THEN index ELSE Put(index, id, 0)
                 /\ events' = Tail(events)
                 /\ UNCHANGED <<rows, parse, alive>>
            ELSE ForgetRow(IF known THEN index[id] ELSE 0)
    /\ UNCHANGED <<files, page, updating, waiting, doing, clashed, mistaken>>

Unposted(queue, event) ==
    IF event \in ToSet(queue)
    THEN RemoveAt(queue, CHOOSE i \in DOMAIN queue : queue[i] = event)
    ELSE queue

\* The lambda on Task::finished of a parse task; whether its resource is
\* deleted does not matter any more.
ParseEnds(t) ==
    /\ alive /\ events # << >> /\ Head(events) = <<"finished", t>>
    /\ events' = Unposted(Tail(events), <<"delete", t>>)
    /\ parse' = [u \in DOMAIN parse \ {t} |-> parse[u]]
    /\ rows' = [i \in DOMAIN rows |->
                  IF rows[i].ticket = t THEN [rows[i] EXCEPT !.ticket = NoTicket]
                                        ELSE rows[i]]
    /\ UNCHANGED <<files, page, updating, index, waiting, doing, ghosts>>

\* deleteLater: the resource is gone, its task may still be waiting.
ResourceDeleted(t) ==
    /\ alive /\ events # << >> /\ Head(events) = <<"delete", t>>
    /\ events' = Tail(events)
    /\ parse' = [u \in DOMAIN parse |->
                   IF u = t THEN [parse[u] EXCEPT !.object = "gone"] ELSE parse[u]]
    /\ UNCHANGED <<files, page, updating, shown, waiting, doing, ghosts>>

-----------------------------------------------------------------------------
(* The folder and the page. *)

Change(new) ==
    /\ alive /\ changes < MaxChanges
    /\ changes' = changes + 1
    /\ folder' = new
    /\ unseen' = (unseen \/ watching)

Without(id)   == [i \in DOMAIN folder \ {id} |-> folder[i]]
With(id, now) == Put(folder, id, now)

\* Another program writes, replaces or removes a file.
FileWritten(id) ==
    /\ id[2] \in {On, Off}
    /\ Change(With(id, changes + 1))
    /\ UNCHANGED <<page, updating, shown, parsing, events, ghosts>>

FileRemoved(id) ==
    /\ id \in DOMAIN folder
    /\ Change(Without(id))
    /\ UNCHANGED <<page, updating, shown, parsing, events, ghosts>>

\* installResource, of a file; the copy may fail once the old one is deleted.
InstallResource(id, copied) ==
    /\ id[2] = On
    /\ Change(IF copied THEN With(id, changes + 1) ELSE Without(id))
    /\ IF copied /\ ~watching THEN Update ELSE UNCHANGED updating
    /\ UNCHANGED <<page, shown, parsing, events, ghosts>>

\* uninstallResource and deleteResources: Resource::destroy forgets the type
\* before it deletes the file, which may not succeed; update() either way.
UninstallResource(i, deleted) ==
    /\ i \in DOMAIN rows
    /\ IF deleted THEN Change(Without(rows[i].id))
       ELSE /\ alive /\ changes < MaxChanges
            /\ changes' = changes + 1
            /\ UNCHANGED <<folder, unseen>>
    /\ rows' = [rows EXCEPT ![i].unknown = TRUE]
    /\ parse' = [t \in DOMAIN parse |->
                   IF t = rows[i].ticket THEN [parse[t] EXCEPT !.unknown = TRUE]
                                         ELSE parse[t]]
    /\ Update
    /\ UNCHANGED <<page, index, waiting, doing, events, ghosts>>

\* Resource::enable: the file is renamed.
EnabledName(id) ==
    IF id[2] = Off THEN <<id[1], On>>
    ELSE IF <<id[1], Off>> \in DOMAIN folder THEN UniqueName(<<id[1], Off>>)
    ELSE <<id[1], Off>>

\* setResourceEnabled: the row keeps its place under its new name.
SetResourceEnabled(i) ==
    /\ i \in DOMAIN rows /\ ~rows[i].unknown
    /\ LET old == rows[i].id
           new == EnabledName(old)
       IN /\ old[2] \in {On, Off}
          /\ Duplicated(<<old[1], Off>>) => Free(old[1]) # {}
          /\ old \in DOMAIN folder /\ new \notin DOMAIN folder
          /\ Change([id \in (DOMAIN folder \ {old}) \cup {new} |->
                       IF id = new THEN folder[old] ELSE folder[id]])
          /\ rows' = [rows EXCEPT ![i].id = new]
          /\ index' = Put([id \in DOMAIN index \ {old} |-> index[id]], new, i - 1)
          /\ clashed' = (clashed \/ \E j \in DOMAIN rows : rows[j].id = new)
          /\ parse' = [t \in DOMAIN parse |->
                         IF t = rows[i].ticket THEN [parse[t] EXCEPT !.id = new]
                                               ELSE parse[t]]
    /\ UNCHANGED <<page, updating, waiting, doing, events, slipped, mistaken, alive>>

\* directoryChanged, from the file system watcher.
DirectoryChanged ==
    /\ alive /\ watching /\ unseen
    /\ unseen' = FALSE
    /\ Update
    /\ UNCHANGED <<folder, changes, page, shown, parsing, events, ghosts>>

\* The page is opened and closed.
StartWatching ==
    /\ alive /\ ~watching /\ visits < MaxVisits
    /\ watching' = TRUE /\ visits' = visits + 1 /\ unseen' = FALSE
    /\ Update
    /\ UNCHANGED <<folder, changes, shown, parsing, events, ghosts>>

StopWatching ==
    /\ alive /\ watching
    /\ watching' = FALSE /\ unseen' = FALSE
    /\ UNCHANGED <<folder, changes, visits, updating, shown, parsing, events, ghosts>>

-----------------------------------------------------------------------------

GuiEvent ==
    \/ UpdateFinished
    \/ OnUpdateSucceeded
    \/ \E t \in DOMAIN parse :
         \/ ParseRuns(t)
         \/ \E ok \in BOOLEAN : ParseReports(t, ok)
         \/ ParseEnds(t)
         \/ ResourceDeleted(t)

Actors ==
    \/ \E id \in Ids : FileWritten(id) \/ FileRemoved(id)
    \/ \E id \in Ids, copied \in BOOLEAN : InstallResource(id, copied)
    \/ \E i \in DOMAIN rows, deleted \in BOOLEAN : UninstallResource(i, deleted)
    \/ \E i \in DOMAIN rows : SetResourceEnabled(i)
    \/ StartWatching
    \/ StopWatching

FolderNext == GuiEvent \/ ReadFolder \/ HelperStarts \/ DirectoryChanged \/ Actors

FolderSpec == FolderInit /\ [][FolderNext]_folderVars

\* The worker thread, the event loop and the watcher all get their turn.
FairFolderSpec == FolderSpec /\ WF_folderVars(GuiEvent) /\ WF_folderVars(ReadFolder)
                 /\ WF_folderVars(HelperStarts) /\ WF_folderVars(DirectoryChanged)

-----------------------------------------------------------------------------

\* Types.  A request is remembered only while an update runs, and an update
\* has two events in the queue until the last of them is served.
FolderTypeOK ==
    /\ DOMAIN folder \subseteq Ids /\ changes \in 0..MaxChanges
    /\ \A id \in DOMAIN folder : folder[id] \in 0..changes
    /\ watching \in BOOLEAN /\ visits \in 0..MaxVisits /\ unseen \in BOOLEAN
    /\ update \in {"none", "reading", "posted"} /\ scheduled \in BOOLEAN
    /\ scheduled => update # "none"
    /\ (update = "posted") <=> (\E i \in DOMAIN events : events[i] = <<"updated">>)
    /\ DOMAIN result \subseteq Ids
    /\ \A i \in DOMAIN rows :
         /\ rows[i].id \in Ids /\ rows[i].time \in 0..changes
         /\ rows[i].ticket \in (DOMAIN parse) \cup {NoTicket}
         /\ rows[i].unknown \in BOOLEAN
    /\ DOMAIN index \subseteq Ids
    /\ \A t \in DOMAIN parse : parse[t].id \in Ids /\ parse[t].unknown \in BOOLEAN
    /\ \A i \in DOMAIN waiting : waiting[i] \in DOMAIN parse
    /\ doing \subseteq DOMAIN parse /\ Cardinality(doing) <= Slots
    /\ {slipped, clashed, mistaken} \subseteq BOOLEAN /\ alive \in BOOLEAN

\* Every row is found under its own name at its own place, and no two rows
\* have one name: the next update, the parse results and the view address
\* rows by places that updates, failed parses and renamed files move.  A row
\* may be renamed to the name that another still has for a file long gone:
\* the code then loses one of them, and the property speaks of the time before.
IndexMatches ==
    ~clashed => \A i \in DOMAIN rows : /\ rows[i].id \in DOMAIN index
                                       /\ index[rows[i].id] = i - 1

\* What the list should show: the packs of the folder, as they are now.  A
\* file renamed to a duplicate by its own row may keep that row.
Agrees == {<<row.id, row.time>> : row \in {r \in ToSet(rows) : r.id[2] \in {On, Off}}}
            = {<<id, folder[id]>> : id \in {f \in DOMAIN folder : IsPack(f)}}

\* Once the folder rests, a page that is open shows its packs, whatever was
\* written, renamed or removed while updates and parse tasks ran; except after
\* a result was filed under a name without a row, or a pack that could not be
\* deleted lost its row to its own pending parse.
ListAgrees == <>[](~alive \/ slipped \/ mistaken \/ ~watching \/ Agrees)

\* The assertions of applyUpdates and onParseFailed that the row to remove
\* is a row of the list (Q_ASSERT(removed_it != m_resources.end())).
RemovalsInRange == alive
=============================================================================
