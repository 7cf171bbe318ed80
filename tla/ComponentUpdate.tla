--------------------------- MODULE ComponentUpdate ----------------------------
(***************************************************************************)
(* The component list of an instance (launcher/minecraft/PackProfile.cpp,  *)
(* Component.cpp) and the task that loads the metadata of its components   *)
(* and resolves their dependencies (ComponentUpdateTask.cpp).              *)
(*                                                                         *)
(* The task loads every component, performs the actions a version change   *)
(* left, and then adds, changes and removes dependencies; each addition or *)
(* change starts it again from the loading.  All of it is one callback,    *)
(* except the wait for the metadata server: `phase' says which part runs,  *)
(* and only in "wait" the user and the server are heard.  The waits inside *)
(* performUpdateActions, which spin an event loop of their own, are taken  *)
(* as one step.                                                            *)
(*                                                                         *)
(* Versions are numbers, NoVersion an empty string.                        *)
(***************************************************************************)
EXTENDS Integers, Sequences, SequencesExt, FiniteSets, FiniteSetsExt, TLC

CONSTANTS Order,       \* the uids, in the order a std::set has them
          Versions,
          Meta,        \* [uid |-> [version |-> set of requirements]]
          VolatileUids,\* whose metadata says "volatile"
          Important,   \* net.minecraft: its version changes are important
          FollowsGame, \* intermediary, hashed: their version is the game's
          Fallback,    \* [uid |-> the version a bare requirement gets]
          Recommended, \* [uid |-> [version of the game |-> version]]
          FirstList,   \* the components of the instance: <<uid, version>>
          MaxEdits     \* bound: requests of the user

Uids      == ToSet(Order)
NoVersion == 0
AnyVersion == Versions \cup {NoVersion}
Requirement == [uid : Uids, equals : AnyVersion, suggests : AnyVersion]

ASSUME ComponentAssumption ==
    /\ Versions \subseteq Nat \ {0} /\ IsFiniteSet(Versions)
    /\ Meta \in [Uids -> [Versions -> SUBSET Requirement]]
    /\ VolatileUids \subseteq Uids /\ FollowsGame \subseteq Uids
    /\ Important \in Uids
    /\ Fallback \in [Uids -> AnyVersion]
    /\ Recommended \in [Uids -> [Versions -> AnyVersion]]
    /\ FirstList \in Seq(Uids \X Versions)
    \* a second entry of one uid is ignored when the list is read
    /\ \A i, j \in DOMAIN FirstList : FirstList[i][1] = FirstList[j][1] => i = j
    /\ MaxEdits \in Nat

VARIABLES
    components,  \* d->components, with what each has cached of its metadata
    phase,       \* of d->m_updateTask
    online,      \* d->netmode
    loads,       \* d->remoteLoadStatusList: place of the component |-> its load
    cursor,      \* performUpdateActions: the component whose turn it is
    addedActions,
    toAdd,       \* resolveDependencies: uid |-> place and version of what is missing
    meta,        \* versions the metadata index has in memory
    disk,        \* versions in the metadata cache on disk
    edits,
    outcome,     \* how the last update ended
    misfiled,    \* history: a result was filed with another component
    blind        \* history: a wait for metadata ended without it
                 \* (both since the list was last read from its file)

task == <<phase, online, loads, cursor, addedActions, toAdd>>
vars == <<components, task, meta, disk, edits, outcome, misfiled, blind>>

NoAction == [kind |-> "none", version |-> NoVersion]

Component(uid, version, dependencyOnly) ==
    [uid |-> uid, version |-> version, cached |-> NoVersion, requires |-> {},
     volatile |-> FALSE, dependencyOnly |-> dependencyOnly,
     important |-> FALSE, loaded |-> FALSE,
     data |-> NoVersion,  \* m_metaVersion: which version's metadata
     action |-> NoAction]

Init ==
    /\ components = [i \in DOMAIN FirstList |->
                       [Component(FirstList[i][1], FirstList[i][2], FALSE)
                          EXCEPT !.important = (FirstList[i][1] = Important)]]
    /\ phase = "none" /\ online = TRUE /\ loads = << >>
    /\ cursor = 1 /\ addedActions = FALSE /\ toAdd = << >>
    /\ meta = {} /\ disk = {}
    /\ edits = 0 /\ outcome = "none" /\ misfiled = FALSE /\ blind = FALSE

-----------------------------------------------------------------------------
(* The list. *)

Listed(list) == {list[i].uid : i \in DOMAIN list}
Place(list, uid) == CHOOSE i \in DOMAIN list : list[i].uid = uid

\* updateCachedData, with the metadata versions in `known'.
Updated(c, known) ==
    IF <<c.uid, c.data>> \in known
    THEN [c EXCEPT !.cached = c.data, !.requires = Meta[c.uid][c.data],
                   !.volatile = (c.uid \in VolatileUids)]
    ELSE [c EXCEPT !.requires = {}]

\* Component::setVersion.
WithVersion(c, version, known) ==
    IF version = c.version THEN c
    ELSE IF ~c.loaded THEN [c EXCEPT !.version = version]
    ELSE LET ready == <<c.uid, version>> \in known IN
         Updated([c EXCEPT !.version = version, !.cached = version,
                           !.data = IF ready THEN version ELSE NoVersion,
                           !.loaded = ready], known)

\* What is kept of a component in mmc-pack.json: cachedVolatile is written
\* under that name and read as `volatile', so it is lost.
Reread(c) == [c EXCEPT !.volatile = FALSE, !.loaded = FALSE,
                       !.data = NoVersion, !.action = NoAction]

-----------------------------------------------------------------------------
(* loadComponents. *)

Ends(result) == phase' = "none" /\ outcome' = result

\* A component that is in memory is loaded at once, and offline one on disk
\* whose checksum is known: `hashed' are the uids whose version list was read
\* since the start.
AtHand(hashed) == meta \cup {what \in disk : ~online /\ what[1] \in hashed}
Loads(c, hashed) == ~c.loaded /\ <<c.uid, c.version>> \notin AtHand(hashed)
Loaded(c, hashed) ==
    IF Loads(c, hashed) THEN [c EXCEPT !.data = c.version]
    ELSE Updated(IF c.loaded THEN c ELSE [c EXCEPT !.data = c.version, !.loaded = TRUE],
                 AtHand(hashed))

LoadComponents(hashed) ==
    /\ phase = "load"
    /\ LET missing == {i \in DOMAIN components : Loads(components[i], hashed)}
       IN /\ components' = [i \in DOMAIN components |-> Loaded(components[i], hashed)]
          /\ meta' = meta \cup {<<components[i].uid, components[i].version>> :
                                  i \in {j \in DOMAIN components \ missing :
                                           ~components[j].loaded}}
          /\ loads' = [i \in missing |->
                         [what  |-> <<components[i].uid, components[i].version>>,
                          state |-> "running"]]
          /\ IF missing = {} THEN phase' = "actions" /\ UNCHANGED outcome
             ELSE IF online  THEN phase' = "wait" /\ UNCHANGED outcome
             ELSE Ends("failed")
    /\ cursor' = 1 /\ addedActions' = FALSE
    /\ UNCHANGED <<online, toAdd, disk, edits, misfiled, blind>>

Replied(place, state) == [loads EXCEPT ![place].state = state]

\* checkIfAllFinished, after the answer that makes the list `answers'.
CheckIfAllFinished(answers) ==
    IF \E j \in DOMAIN answers : answers[j].state = "running"
    THEN UNCHANGED <<phase, outcome>>
    ELSE IF \A j \in DOMAIN answers : answers[j].state = "succeeded"
         THEN phase' = "actions" /\ UNCHANGED outcome
         ELSE Ends("failed")

\* remoteLoadSucceeded: the result is filed with the component that is now
\* at the place the component had.  Without one the launcher crashes.
RemoteLoadSucceeded(place) ==
    /\ phase = "wait" /\ loads[place].state = "running"
    /\ loads[place].what[2] # NoVersion  \* the server has no such file
    /\ loads' = Replied(place, "succeeded")
    /\ meta' = meta \cup {loads[place].what}
    /\ disk' = disk \cup {loads[place].what}
    /\ IF place \in DOMAIN components
       THEN /\ components' = [components EXCEPT ![place] =
                                Updated([@ EXCEPT !.loaded = TRUE], meta')]
            /\ misfiled' = (misfiled \/ components[place].uid # loads[place].what[1])
            /\ CheckIfAllFinished(loads')
       ELSE phase' = "crashed" /\ UNCHANGED <<components, outcome, misfiled>>
    /\ UNCHANGED <<online, cursor, addedActions, toAdd, edits, blind>>

\* remoteLoadFailed.
RemoteLoadFailed(place) ==
    /\ phase = "wait" /\ loads[place].state = "running"
    /\ loads' = Replied(place, "failed")
    /\ CheckIfAllFinished(loads')
    /\ UNCHANGED <<components, online, cursor, addedActions, toAdd, meta, disk, edits,
                   misfiled, blind>>

-----------------------------------------------------------------------------
(* performUpdateActions. *)

\* setVersion and waitLoadMeta: the metadata is there, or arrives, or does not.
Waited(c, version, arrives) ==
    LET known == IF arrives THEN meta \cup {<<c.uid, version>>} ELSE meta
        set   == WithVersion(c, version, meta)
    IN IF set.loaded THEN set
       ELSE Updated([set EXCEPT !.data = version, !.loaded = TRUE], known)

ChangeVersion(i, version) ==
    \E arrives \in BOOLEAN :
       LET c    == components[i]
           what == <<c.uid, version>>
           had  == version = c.version \/ what \in meta
       IN /\ had => arrives
          /\ components' = [components EXCEPT ![i] =
                              [Waited(c, version, arrives) EXCEPT !.action = NoAction]]
          /\ IF had THEN UNCHANGED <<meta, disk, blind>>
             ELSE IF arrives
             THEN meta' = meta \cup {what} /\ disk' = disk \cup {what} /\ UNCHANGED blind
             ELSE blind' = TRUE /\ UNCHANGED <<meta, disk>>
          /\ cursor' = i + 1
          /\ UNCHANGED addedActions

Needs(c, uid) == \E r \in c.requires : r.uid = uid
Wish(r) == IF r.equals # NoVersion THEN r.equals ELSE r.suggests

\* UpdateActionImportantChanged: what only the old version needed goes, and
\* what is linked to the component follows it.
ImportantChanged(i) ==
    LET c       == components[i]
        old     == IF c.action.version = NoVersion THEN {}
                   ELSE Meta[c.uid][c.action.version]
        dropped == {r.uid : r \in old} \ {r.uid : r \in c.requires}
        Linked(d) == Needs(d, c.uid) \/ Needs(c, d.uid)
        Follow(d) ==
            LET r == CHOOSE q \in c.requires : q.uid = d.uid IN
            IF Needs(c, d.uid) /\ Wish(r) # NoVersion
            THEN [kind |-> "change", version |-> Wish(r)]
            ELSE [kind |-> "latest", version |-> c.cached]
    IN \E told \in BOOLEAN :  \* whether the old version's metadata arrives
          LET what   == <<c.uid, c.action.version>>
              known  == IF told /\ what[2] # NoVersion THEN {what} ELSE {}
              leaves == IF told THEN dropped ELSE {}
          IN
          /\ what \in meta => told
          /\ meta' = meta \cup known /\ disk' = disk \cup known
          /\ components' = [j \in DOMAIN components |->
               LET d == components[j] IN
               IF j = i THEN [d EXCEPT !.action = NoAction]
               ELSE IF Linked(d) THEN [d EXCEPT !.action = Follow(d)]
               ELSE IF d.uid \in leaves
                    THEN [d EXCEPT !.action = [kind |-> "remove", version |-> NoVersion]]
               ELSE d]
          /\ addedActions' = (addedActions \/ components' #
                                 [components EXCEPT ![i].action = NoAction])
    /\ cursor' = i + 1
    /\ UNCHANGED blind

\* UpdateActionRemove: the list shrinks while it is iterated over; the next
\* component is skipped or not, as the list has moved its elements.
RemoveComponent(i) ==
    /\ components' = IF components[i].important
                     THEN [components EXCEPT ![i].action = NoAction]
                     ELSE RemoveAt(components, i)
    /\ cursor' \in IF components[i].important THEN {i + 1} ELSE {i, i + 1}
    /\ UNCHANGED <<addedActions, meta, disk, blind>>

NothingToDo(i) ==
    /\ components' = [components EXCEPT ![i].action = NoAction]
    /\ cursor' = i + 1
    /\ UNCHANGED <<addedActions, meta, disk, blind>>

PerformAction(i) ==
    LET c == components[i] IN
    CASE c.action.kind = "change"    -> ChangeVersion(i, c.action.version)
      [] c.action.kind = "important" -> ImportantChanged(i)
      [] c.action.kind = "remove"    -> RemoveComponent(i)
      [] c.action.kind = "latest" /\ c.action.version # NoVersion
           /\ Recommended[c.uid][c.action.version] # NoVersion
                                     -> ChangeVersion(i, Recommended[c.uid][c.action.version])
      [] OTHER                       -> NothingToDo(i)

PerformUpdateActions ==
    /\ phase = "actions"
    /\ IF cursor \in DOMAIN components
       THEN PerformAction(cursor) /\ UNCHANGED phase
       ELSE /\ phase' = IF addedActions THEN "actions" ELSE "resolve"
            /\ cursor' = 1 /\ addedActions' = FALSE
            /\ UNCHANGED <<components, meta, disk, blind>>
    /\ UNCHANGED <<online, loads, toAdd, edits, outcome, misfiled>>

-----------------------------------------------------------------------------
(* resolveDependencies. *)

\* gatherRequirementsFromComponents and composeRequirement.
Asked(uid)      == {r \in UNION {components[i].requires : i \in DOMAIN components} :
                      r.uid = uid}
Required == {uid \in Uids : Asked(uid) # {}}
Exact(uid)      == {r.equals : r \in Asked(uid)} \ {NoVersion}
Suggested(uid)  == Max({r.suggests : r \in Asked(uid)})
FirstDependee(uid) == Min({i \in DOMAIN components : Needs(components[i], uid)})
Conflicting     == \E uid \in Required : Cardinality(Exact(uid)) > 1

\* Mutant: a volatile dependency goes although something requires it.
ObsoleteAlways == {c \in ToSet(components) : c.dependencyOnly /\ c.volatile}

\* getTrivialRemovals.
Obsolete == {c \in ToSet(components) : /\ c.dependencyOnly /\ c.volatile
                                       /\ c.uid \notin Required}
Removable == {i \in DOMAIN components :
                 components[i] \in Obsolete /\ ~components[i].important}

\* Mutant: what is in the list already is added again.
MissingAlways == Required

\* getTrivialComponentChanges.
Missing == Required \ Listed(components)
OtherVersion == {uid \in Required \cap Listed(components) :
                   \E v \in Exact(uid) : components[Place(components, uid)].cached # v}
Locked     == \E uid \in OtherVersion :
                  ~components[Place(components, uid)].dependencyOnly

\* The version of a component that is added.
Decided(uid) ==
    IF Exact(uid) # {} THEN CHOOSE v \in Exact(uid) : TRUE
    ELSE IF Suggested(uid) # NoVersion THEN Suggested(uid)
    ELSE IF uid \in FollowsGame /\ Important \in Listed(components)
         THEN components[Place(components, Important)].cached
    ELSE Fallback[uid]

WithChanges(list) ==
    [i \in DOMAIN list |->
       IF list[i].uid \in OtherVersion
       THEN WithVersion(list[i], CHOOSE v \in Exact(list[i].uid) : TRUE, meta)
       ELSE list[i]]

\* The requirements that nothing meets, with the places computed before the
\* first insertion.
Additions == [uid \in Missing |-> [place |-> FirstDependee(uid), version |-> Decided(uid)]]

\* Obsolete components go one by one, the first one first: those that nothing
\* required stay obsolete when one of them has gone.
ResolveDependencies ==
    /\ phase = "resolve"
    /\ IF Conflicting THEN Ends("failed") /\ UNCHANGED <<components, toAdd>>
       ELSE IF Removable # {}
       THEN /\ components' = RemoveAt(components, Min(Removable))
            /\ UNCHANGED <<phase, toAdd, outcome>>
       ELSE IF Obsolete # {} THEN UNCHANGED <<components, phase, toAdd, outcome>>
       ELSE IF Locked THEN Ends("failed") /\ UNCHANGED <<components, toAdd>>
       ELSE IF Missing \cup OtherVersion = {}
       THEN Ends("succeeded") /\ UNCHANGED <<components, toAdd>>
       ELSE IF ~online THEN Ends("failed") /\ UNCHANGED <<components, toAdd>>
       ELSE /\ components' = WithChanges(components)
            /\ toAdd' = Additions
            /\ phase' = "add" /\ UNCHANGED outcome
    /\ UNCHANGED <<online, loads, cursor, addedActions, meta, disk, edits, misfiled, blind>>

Before(uid, other) ==
    \E i, j \in DOMAIN Order : i <= j /\ Order[i] = uid /\ Order[j] = other

\* Mutant: what was added is not looked at again.
AddOnce ==
    /\ phase = "add"
    /\ IF DOMAIN toAdd = {}
       THEN Ends("succeeded") /\ UNCHANGED <<components, toAdd>>
       ELSE \E uid \in DOMAIN toAdd :
              /\ \A other \in DOMAIN toAdd : Before(uid, other)
              /\ components' = InsertAt(components, toAdd[uid].place,
                                        Component(uid, toAdd[uid].version, TRUE))
              /\ toAdd' = [other \in DOMAIN toAdd \ {uid} |-> toAdd[other]]
              /\ UNCHANGED <<phase, outcome>>
    /\ UNCHANGED <<online, loads, cursor, addedActions, meta, disk, edits,
                   misfiled, blind>>

\* In the order of their uids; then everything is loaded again.
AddMissing ==
    /\ phase = "add"
    /\ IF DOMAIN toAdd = {}
       THEN phase' = "load" /\ UNCHANGED <<components, toAdd>>
       ELSE \E uid \in DOMAIN toAdd :
              /\ \A other \in DOMAIN toAdd : Before(uid, other)
              /\ components' = InsertAt(components, toAdd[uid].place,
                                        Component(uid, toAdd[uid].version, TRUE))
              /\ toAdd' = [other \in DOMAIN toAdd \ {uid} |-> toAdd[other]]
              /\ UNCHANGED phase
    /\ UNCHANGED <<online, loads, cursor, addedActions, meta, disk, edits, outcome,
                   misfiled, blind>>

-----------------------------------------------------------------------------
(* The user. *)

\* resolve(): a running update is replaced.
Resolve(net) ==
    /\ phase' = "load" /\ online' = net /\ loads' = << >>
    /\ cursor' = 1 /\ addedActions' = FALSE
    /\ outcome' = "none" /\ UNCHANGED toAdd

\* Reading the list again forgets what was filed in memory.
Reads(list) ==
    /\ components' = [i \in DOMAIN list |-> Reread(list[i])]
    /\ misfiled' = FALSE /\ blind' = FALSE

UserActs ==
    /\ phase \in {"none", "wait"} /\ edits < MaxEdits
    /\ edits' = edits + 1

\* reload(): nothing while an update runs, which is in control.
Reload(list, net) ==
    IF phase = "wait"
    THEN components' = list /\ UNCHANGED <<task, outcome, misfiled, blind>>
    ELSE Reads(list) /\ Resolve(net)

\* setComponentVersion of a component of the list, from the version page or
\* the loader dialog.
SetComponentVersion(i, version) ==
    /\ UserActs
    /\ LET c   == components[i]
           set == WithVersion(c, version, meta)
           important == c.uid = Important
       IN /\ version # c.version
          /\ components' = [components EXCEPT ![i] =
                [set EXCEPT !.important = important,
                            !.action = IF important
                                       THEN [kind |-> "important", version |-> c.cached]
                                       ELSE c.action]]
    /\ Resolve(TRUE)
    /\ UNCHANGED <<meta, disk, misfiled, blind>>

\* The same of one that is not in it.
AddComponent(uid, version) ==
    /\ UserActs
    /\ uid \notin Listed(components)
    /\ components' = Append(components, Component(uid, version, FALSE))
    /\ Resolve(TRUE)
    /\ UNCHANGED <<meta, disk, misfiled, blind>>

\* The version page: remove() and reload().
RemoveRow(i) ==
    /\ UserActs
    /\ ~components[i].important
    /\ Reload(RemoveAt(components, i), TRUE)
    /\ UNCHANGED <<meta, disk>>

\* move(), of a component with the next.
Move(i) ==
    /\ UserActs
    /\ i + 1 \in DOMAIN components
    /\ components' = [components EXCEPT ![i] = components[i + 1],
                                        ![i + 1] = components[i]]
    /\ UNCHANGED <<task, outcome, misfiled, blind, meta, disk>>

\* The page is opened, or the instance is launched.
ReloadList(net) ==
    /\ UserActs
    /\ Reload(components, net)
    /\ UNCHANGED <<meta, disk>>

\* The launcher is closed and started: the cache on disk stays.
Restart ==
    /\ phase = "none" /\ UserActs
    /\ Reads(components)
    /\ meta' = {} /\ outcome' = "none"
    /\ UNCHANGED <<task, disk>>

-----------------------------------------------------------------------------

TaskStep ==
    \/ \E hashed \in SUBSET Uids : LoadComponents(hashed)
    \/ \E place \in DOMAIN loads : RemoteLoadSucceeded(place) \/ RemoteLoadFailed(place)
    \/ PerformUpdateActions
    \/ ResolveDependencies
    \/ AddMissing

User ==
    \/ \E i \in DOMAIN components, v \in Versions : SetComponentVersion(i, v)
    \/ \E uid \in Uids, v \in Versions : AddComponent(uid, v)
    \/ \E i \in DOMAIN components : RemoveRow(i) \/ Move(i)
    \/ \E net \in BOOLEAN : ReloadList(net)
    \/ Restart

Next == TaskStep \/ User

Spec == Init /\ [][Next]_vars

\* The GUI thread runs, and every request for metadata is answered (NetJob).
FairSpec == Spec /\ WF_vars(TaskStep)

-----------------------------------------------------------------------------

\* Types, and: a uid is listed once (the index of the list has one entry per
\* uid), and an update that waits has something to wait for.
TypeOK ==
    /\ \A i \in DOMAIN components : LET c == components[i] IN
         /\ c.uid \in Uids /\ c.version \in AnyVersion /\ c.cached \in AnyVersion
         /\ c.requires \subseteq Requirement /\ c.data \in AnyVersion
         /\ \A j \in DOMAIN components : components[j].uid = c.uid => j = i
         /\ c.action.kind \in {"none", "change", "latest", "important", "remove"}
    /\ phase \in {"none", "load", "wait", "actions", "resolve", "add", "crashed"}
    /\ phase = "wait" => \E place \in DOMAIN loads : loads[place].state = "running"
    /\ online \in BOOLEAN /\ addedActions \in BOOLEAN
    /\ meta \subseteq disk /\ disk \subseteq Uids \X AnyVersion
    /\ edits \in 0..MaxEdits /\ outcome \in {"none", "succeeded", "failed"}

\* An update that succeeds leaves a list that is closed: every component has
\* its metadata, everything that the metadata requires is in the list, in
\* the version asked for, and no volatile dependency is left that nothing
\* requires, whatever the user did before and meanwhile.  Not promised once a
\* result was filed with another component (the list was edited under the
\* update) or metadata did not arrive in performUpdateActions.
SuccessMeansResolved ==
    outcome = "succeeded" /\ ~misfiled /\ ~blind =>
      \A i \in DOMAIN components : LET c == components[i] IN
        /\ c.cached = c.version
        /\ \A r \in Meta[c.uid][c.version] :
             \E d \in ToSet(components) :
                d.uid = r.uid /\ r.equals \in {NoVersion, d.version}
        /\ c.dependencyOnly /\ c.uid \in VolatileUids =>
             \E d \in ToSet(components) :
                \E r \in Meta[d.uid][d.version] : r.uid = c.uid

\* Every update ends, however often it starts again from the loading; except
\* after a result was filed with another component: one that counts as loaded
\* without its metadata is changed to the version it already has, for ever.
UpdateEnds == phase = "load" ~> phase \in {"none", "crashed"} \/ misfiled
=============================================================================
