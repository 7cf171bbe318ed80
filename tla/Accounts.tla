------------------------------- MODULE Accounts -------------------------------
(***************************************************************************)
(* The account list, its background refresh, and the login of a launch.    *)
(*                                                                         *)
(* AccountList keeps a queue of account ids and refreshes one account at a *)
(* time: an hour after the queue ran empty it is filled again, and twenty  *)
(* seconds after a refresh ended the next one starts. A MinecraftAccount   *)
(* has at most one AuthFlow, a chain of network steps, which the list, a   *)
(* login or both wait for. LaunchController::login loops until the state   *)
(* of its account lets it launch or give up.                               *)
(*                                                                         *)
(* Handlers run to completion on the GUI thread; network replies, timers,  *)
(* deferred deletions and the user's answers come in any order.            *)
(***************************************************************************)
EXTENDS Naturals, FiniteSets, Sequences, SequencesExt

CONSTANTS
    Accounts,   \* the MinecraftAccount objects
    Loaded,     \* those in accounts.json, in their order
    Profile,    \* the profile id, also the profile name, of each account
    Steps,      \* the kinds of steps of a refresh of each account, in their order
    UserActs,   \* what may happen next to launches
    MaxActs,    \* bound on those
    MaxLaunches,
    None

ASSUME AccountsAssumption ==
    /\ IsFiniteSet(Accounts)
    /\ Loaded \in Seq(Accounts) /\ IsInjective(Loaded)
    /\ \A a \in Accounts :
         Steps[a] \in Seq({"msa", "service", "always"}) /\ Steps[a] # <<>>
    /\ UserActs \subseteq {"age", "remove", "add", "default", "refresh"}
    /\ MaxActs \in Nat /\ MaxLaunches \in Nat
    /\ None \notin Accounts

VARIABLES
    rows,      \* m_accounts, in order
    default,   \* m_defaultAccount
    acct,      \* AccountData of each account, and the games that use it
    flow,      \* m_currentTask of each account
    queue,     \* m_refreshQueue
    timers,    \* which of the list's timers are armed ("boot": not started yet)
    activity,  \* m_activityCount
    task,      \* m_currentTask of the list: whose flow, and what became of it
    login,     \* the LaunchController at work
    acts, launches,
    (***********************************************************************)
    (* History                                                             *)
    (***********************************************************************)
    lost,      \* rows that left the list while active
    cut        \* the refresh the list waited for was aborted or destroyed

list == <<rows, default, queue, timers, activity, task>>
done == <<acts, launches>>
vars == <<list, acct, flow, login, done, lost, cut>>

States     == {"Unchecked", "Working", "Offline", "Errored", "Expired", "Disabled", "Online"}
Validities == {"None", "Assumed", "Certain"}

NoFlow  == [st |-> "none", step |-> 0, heard |-> FALSE]
NoTask  == [of |-> None, fate |-> "live"]
NoLogin == [pc |-> "off", of |-> None, online |-> FALSE, tries |-> 0]

Active(a) == flow[a].st # "none"
InList(a) == a \in Range(rows)
Booted    == "boot" \notin timers

TypeOK ==
    /\ rows \in Seq(Accounts) /\ IsInjective(rows)
    /\ default \in Range(rows) \cup {None}
    /\ acct \in [Accounts -> [state : States, validity : Validities,
                              stale : BOOLEAN, uses : 0..MaxLaunches]]
    /\ flow \in [Accounts -> [st : {"none", "created", "running"},
                              step : Nat, heard : BOOLEAN]]
    /\ \A a \in Accounts : flow[a].step <= Len(Steps[a])
    /\ queue \in Seq(Accounts) /\ Len(queue) <= Cardinality(Accounts) + 1
    /\ timers \subseteq {"boot", "refresh", "next"}
    /\ activity \in Nat
    /\ task \in [of : Accounts \cup {None}, fate : {"live", "aborted", "silent"}]
    /\ login \in [pc : {"off", "check", "wait", "claim"}, of : Accounts \cup {None},
                  online : BOOLEAN, tries : 0..3]
    /\ acts \in 0..MaxActs /\ launches \in 0..MaxLaunches
    /\ lost \in Nat /\ cut \in BOOLEAN

Init ==
    /\ rows = Loaded
    /\ default \in Range(Loaded) \cup {None}
    /\ acct \in [Accounts -> [state : {"Unchecked"}, validity : {"Assumed"},
                              stale : {FALSE}, uses : {0}]]
    /\ flow = [a \in Accounts |-> NoFlow]
    /\ queue = <<>> /\ timers = {"boot"} /\ activity = 0
    /\ task = NoTask /\ login = NoLogin
    /\ acts = 0 /\ launches = 0 /\ lost = 0 /\ cut = FALSE

ShouldRefresh(a) ==
    /\ acct[a].uses = 0
    /\ acct[a].validity = "Assumed" \/ (acct[a].validity = "Certain" /\ acct[a].stale)

-----------------------------------------------------------------------------
(* The queue.                                                              *)

(* Mutant of TryNext: the id is read and not taken.                        *)
TryNextKept(q, armed) ==
    LET k == SelectInSeq(q, InList) IN
    /\ cut' = FALSE
    /\ IF k = 0
       THEN /\ queue' = <<>>
            /\ timers' = armed \cup {"refresh"}
            /\ UNCHANGED <<flow, acct, activity, task>>
       ELSE /\ queue' = SubSeq(q, k, Len(q))
            /\ timers' = armed
            /\ task' = [of |-> q[k], fate |-> "live"]
            /\ activity' = IF Active(q[k]) THEN activity ELSE activity + 1
            /\ flow' = [flow EXCEPT ![q[k]] = [st |-> "running", step |-> 1, heard |-> TRUE]]
            /\ acct' = [acct EXCEPT ![q[k]].state = "Working"]

(* Ids are dropped until one is still in the list; refresh() returns the   *)
(* flow that is already there, and starting a running one does nothing.    *)
TryNext(q, armed) ==
    LET k == SelectInSeq(q, InList) IN
    /\ cut' = FALSE
    /\ IF k = 0
       THEN /\ queue' = <<>>
            /\ timers' = armed \cup {"refresh"}
            /\ UNCHANGED <<flow, acct, activity, task>>
       ELSE LET a == q[k] IN
            /\ queue' = SubSeq(q, k + 1, Len(q))
            /\ timers' = armed
            /\ task' = [of |-> a, fate |-> "live"]
            /\ activity' = IF Active(a) THEN activity ELSE activity + 1
            /\ IF flow[a].st = "running"
               THEN flow' = [flow EXCEPT ![a].heard = TRUE] /\ UNCHANGED acct
               ELSE /\ flow' = [flow EXCEPT ![a] = [st |-> "running", step |-> 1,
                                                    heard |-> TRUE]]
                    /\ acct' = [acct EXCEPT ![a].state = "Working"]

(* The default account is queued first, whether or not it is queued; then  *)
(* the others that are due, in the order of the rows.                      *)
FillQueue(timer) ==
    /\ timer \in timers
    /\ LET q1 == IF default # None /\ ShouldRefresh(default) THEN Append(queue, default)
                                                              ELSE queue
           due == {a \in Range(rows) : /\ a # default /\ ShouldRefresh(a)
                                       /\ a \notin Range(q1)}
           Row(a) == CHOOSE i \in DOMAIN rows : rows[i] = a
       IN  \E more \in [1..Cardinality(due) -> due] :
             /\ \A i, j \in DOMAIN more : i < j => Row(more[i]) < Row(more[j])
             /\ TryNext(q1 \o more, timers \ {timer})
    /\ UNCHANGED <<rows, default, login, done, lost>>

NextTimeout ==
    /\ "next" \in timers
    /\ TryNext(queue, timers \ {"next"})
    /\ UNCHANGED <<rows, default, login, done, lost>>

(* To the front, and started unless some account of the list is active.    *)
RequestRefresh(a) ==
    LET q == <<a>> \o RemoveFirst(queue, a) IN
    IF activity = 0 THEN TryNext(q, timers)
    ELSE queue' = q /\ UNCHANGED <<flow, acct, activity, task, timers, cut>>

-----------------------------------------------------------------------------
(* A flow.                                                                 *)

(* How a step of each kind may end: the sign-in itself, the services it    *)
(* calls with the token, and the two whose failures are passed over.       *)
Outcomes(kind) ==
    CASE kind = "msa"     -> {"Working", "Offline", "Errored", "Expired", "Disabled"}
      [] kind = "service" -> {"Working", "Offline", "Errored"}
      [] OTHER            -> {"Working"}

(* The end of a flow reaches its account, then the list when it listens,   *)
(* then the dialog of a login that waits for it.                           *)
EndFlow(a, state) ==
    /\ acct' = [acct EXCEPT ![a].state = state,
                            ![a].stale = @ /\ state # "Online",
                            ![a].validity = CASE state = "Online"  -> "Certain"
                                              [] state = "Expired" -> "None"
                                              [] OTHER             -> @]
    /\ flow' = [flow EXCEPT ![a] = NoFlow]
    /\ activity' = IF InList(a) /\ activity > 0 THEN activity - 1 ELSE activity
    /\ IF flow[a].heard THEN task' = NoTask /\ timers' = timers \cup {"next"}
                        ELSE UNCHANGED <<task, timers>>
    /\ login' = IF login.pc = "wait" /\ login.of = a THEN [login EXCEPT !.pc = "check"]
                                                     ELSE login
    /\ UNCHANGED <<rows, default, queue, done, lost, cut>>

StepFinished(a) ==
    /\ flow[a].st = "running"
    /\ \E outcome \in Outcomes(Steps[a][flow[a].step]) :
         CASE outcome # "Working" -> EndFlow(a, outcome)
           [] outcome = "Working" /\ flow[a].step = Len(Steps[a]) -> EndFlow(a, "Online")
           [] OTHER -> /\ flow' = [flow EXCEPT ![a].step = @ + 1]
                       /\ acct' = [acct EXCEPT ![a].state = "Working"]
                       /\ UNCHANGED <<list, login, done, lost, cut>>

(* The start that the dialog of a login posted.                            *)
StartPosted(a) ==
    /\ flow[a].st = "created"
    /\ flow' = [flow EXCEPT ![a].st = "running", ![a].step = 1]
    /\ acct' = [acct EXCEPT ![a].state = "Working"]
    /\ UNCHANGED <<list, login, done, lost, cut>>

(* Play Offline in that dialog. The account drops the flow and keeps the   *)
(* state Working; the list does not listen to an abort.                    *)
AbortFlow ==
    LET a == login.of IN
    /\ login.pc = "wait" /\ login.online
    /\ flow[a].st = "running"
    /\ flow' = [flow EXCEPT ![a] = NoFlow]
    /\ activity' = IF InList(a) /\ activity > 0 THEN activity - 1 ELSE activity
    /\ task' = IF task.of = a THEN [task EXCEPT !.fate = "aborted"] ELSE task
    /\ cut' = (cut \/ flow[a].heard)
    /\ login' = [login EXCEPT !.pc = "check"]
    /\ UNCHANGED <<rows, default, acct, queue, timers, done, lost>>

(* The pointer of the list keeps an aborted flow alive, and the reply to   *)
(* its step still sets the state of the account.                           *)
LateReply ==
    /\ task.fate = "aborted"
    /\ task' = [task EXCEPT !.fate = "silent"]
    /\ \E kind \in Range(Steps[task.of]) : \E outcome \in Outcomes(kind) :
           acct' = [acct EXCEPT ![task.of].state = outcome]
    /\ UNCHANGED <<rows, default, queue, timers, activity, flow, login, done, lost, cut>>

(* An account nobody holds is deleted by the event loop, its flow with it. *)
DeleteAccount(a) ==
    /\ ~InList(a) /\ login.of # a /\ acct[a].uses = 0
    /\ Active(a)
    /\ flow' = [flow EXCEPT ![a] = NoFlow]
    /\ task' = IF task.of = a THEN [task EXCEPT !.fate = "silent"] ELSE task
    /\ cut' = (cut \/ flow[a].heard)
    /\ UNCHANGED <<rows, default, acct, queue, timers, activity, login, done, lost>>

-----------------------------------------------------------------------------
(* LaunchController::login.                                                *)

(* "Force account refresh": a request to the list, which may postpone it.  *)
StartLogin(a, online) ==
    /\ login.pc = "off" /\ Booted
    /\ launches < MaxLaunches /\ launches' = launches + 1
    /\ InList(a)
    /\ IF acct[a].state = "Offline" \/ ShouldRefresh(a) THEN RequestRefresh(a)
       ELSE UNCHANGED <<flow, acct, queue, timers, activity, task, cut>>
    /\ login' = [pc |-> "check", of |-> a, online |-> online, tries |-> 0]
    /\ UNCHANGED <<rows, default, acts, lost>>

(* "Do you want to continue trying?" after every third round.              *)
AnswerContinue(yes) ==
    /\ login.pc = "check" /\ login.tries = 3
    /\ login' = IF yes THEN [login EXCEPT !.tries = 0] ELSE NoLogin
    /\ UNCHANGED <<list, acct, flow, done, lost, cut>>

Round(state) ==
    /\ login.pc = "check" /\ login.tries < 3
    /\ acct[login.of].state = state

(* The account that ClaimAccount will find by the name of the profile.     *)
Claimed(a) == SelectInSeq(rows, LAMBDA r : Profile[r] = Profile[a])

(* The account is good: the launch goes on with it, or without it when the *)
(* player asked for a name or the account has left the list; or a profile  *)
(* was set up and the loop goes round; or the player gave up.              *)
RoundOnline ==
    /\ Round("Online")
    /\ LET k == Claimed(login.of) IN
       login' \in {NoLogin, [login EXCEPT !.tries = @ + 1]}
                 \cup (IF login.online /\ k # 0
                       THEN {[login EXCEPT !.pc = "claim", !.of = rows[k]]} ELSE {})
    /\ UNCHANGED <<list, acct, flow, done, lost, cut>>

(* Played under a chosen name, or given up, or a profile was set up.       *)
RoundOffline ==
    /\ Round("Offline")
    /\ login' \in {NoLogin, [login EXCEPT !.tries = @ + 1]}
    /\ UNCHANGED <<list, acct, flow, done, lost, cut>>

(* Mutant of RoundRefresh: the start of the flow is not counted.           *)
RoundRefreshUncounted(state) ==
    LET a == login.of IN
    /\ state \in {"Errored", "Unchecked"} /\ Round(state)
    /\ login' = [login EXCEPT !.pc = "wait", !.tries = @ + 1]
    /\ flow' = IF Active(a) THEN flow ELSE [flow EXCEPT ![a].st = "created"]
    /\ UNCHANGED <<list, acct, done, lost, cut>>

(* refresh(), then a dialog that waits for the flow.                       *)
RoundRefresh(state) ==
    LET a == login.of IN
    /\ state \in {"Errored", "Unchecked"} /\ Round(state)
    /\ login' = [login EXCEPT !.pc = "wait", !.tries = @ + 1]
    /\ IF Active(a) THEN UNCHANGED <<flow, activity>>
       ELSE /\ flow' = [flow EXCEPT ![a].st = "created"]
            /\ activity' = IF InList(a) THEN activity + 1 ELSE activity
    /\ UNCHANGED <<rows, default, acct, queue, timers, task, done, lost, cut>>

(* Mutant of RoundWorking: waits for a flow that is not there.             *)
RoundWaiting ==
    /\ Round("Working")
    /\ login' = [login EXCEPT !.tries = @ + 1, !.pc = "wait"]
    /\ UNCHANGED <<list, acct, flow, done, lost, cut>>

(* The dialog returns at once when there is no flow to wait for.           *)
RoundWorking ==
    /\ Round("Working")
    /\ login' = [login EXCEPT !.tries = @ + 1,
                              !.pc = IF Active(login.of) THEN "wait" ELSE "check"]
    /\ UNCHANGED <<list, acct, flow, done, lost, cut>>

RoundBroken(state) ==
    /\ state \in {"Expired", "Disabled"} /\ Round(state)
    /\ login' = NoLogin
    /\ UNCHANGED <<list, acct, flow, done, lost, cut>>

(* The launch has come to its step ClaimAccount; later, the game ends.     *)
Claim ==
    /\ login.pc = "claim"
    /\ acct' = [acct EXCEPT ![login.of].uses = @ + 1]
    /\ login' = NoLogin
    /\ UNCHANGED <<list, flow, done, lost, cut>>

GameEnds(a) ==
    /\ acct[a].uses > 0
    /\ acct' = [acct EXCEPT ![a].uses = @ - 1]
    /\ UNCHANGED <<list, flow, login, done, lost, cut>>

-----------------------------------------------------------------------------
(* The accounts page, and time.                                            *)

UserAct(kind) ==
    /\ kind \in UserActs /\ Booted
    /\ acts < MaxActs /\ acts' = acts + 1
    /\ UNCHANGED launches

(* Twelve hours before its end a token is due for a refresh.               *)
Age(a) ==
    /\ UserAct("age") /\ acct[a].validity = "Certain" /\ ~acct[a].stale
    /\ acct' = [acct EXCEPT ![a].stale = TRUE]
    /\ UNCHANGED <<list, flow, login, lost, cut>>

(* The button was enabled when its confirmation opened; by the time it is  *)
(* answered a refresh may have begun.                                      *)
RemoveAccount(a) ==
    /\ UserAct("remove") /\ InList(a)
    /\ rows' = RemoveFirst(rows, a)
    /\ default' = IF default = a THEN None ELSE default
    /\ lost' = lost + IF Active(a) THEN 1 ELSE 0
    /\ UNCHANGED <<acct, flow, queue, timers, activity, task, login, cut>>

(* An account that has just signed in. It takes the row of one with the    *)
(* same profile, whatever that one is doing.                               *)
AddAccount(a) ==
    /\ UserAct("add")
    /\ acct[a].state = "Unchecked" /\ a \notin Range(Loaded)   \* a new object
    /\ ~InList(a)
    /\ acct' = [acct EXCEPT ![a].state = "Online", ![a].validity = "Certain"]
    /\ LET k == Claimed(a) IN
       IF k = 0 THEN rows' = Append(rows, a) /\ UNCHANGED <<default, lost>>
       ELSE /\ rows' = [rows EXCEPT ![k] = a]
            /\ default' = IF default = rows[k] THEN a ELSE default
            /\ lost' = lost + IF Active(rows[k]) THEN 1 ELSE 0
    /\ UNCHANGED <<flow, queue, timers, activity, task, login, cut>>

(* Only accounts of the list become the default.                           *)
SetDefaultAccount(a) ==
    /\ UserAct("default")
    /\ a = None \/ InList(a)
    /\ default' = a
    /\ UNCHANGED <<rows, acct, flow, queue, timers, activity, task, login, lost, cut>>

RefreshClicked(a) ==
    /\ UserAct("refresh") /\ InList(a) /\ ~Active(a)
    /\ RequestRefresh(a)
    /\ UNCHANGED <<rows, default, login, lost>>

-----------------------------------------------------------------------------

LoginStep ==
    \/ RoundOnline \/ RoundOffline \/ RoundWorking
    \/ \E state \in States : RoundRefresh(state) \/ RoundBroken(state)
    \/ \E yes \in BOOLEAN : AnswerContinue(yes)

Timeout == NextTimeout \/ \E timer \in {"boot", "refresh"} : FillQueue(timer)

User ==
    \/ \E a \in Accounts :
         \/ Age(a) \/ RemoveAccount(a) \/ AddAccount(a) \/ RefreshClicked(a)
         \/ GameEnds(a)
         \/ \E online \in BOOLEAN : StartLogin(a, online)
    \/ \E a \in Accounts \cup {None} : SetDefaultAccount(a)
    \/ AbortFlow \/ Claim

Next ==
    \/ Timeout \/ LoginStep \/ User \/ LateReply
    \/ \E a \in Accounts : StepFinished(a) \/ StartPosted(a) \/ DeleteAccount(a)

(* Timers fire, replies and posted events arrive, and the login runs on    *)
(* the thread that handles them; the user owes nothing.                    *)
Fairness ==
    /\ WF_vars(NextTimeout) /\ WF_vars(FillQueue("boot")) /\ WF_vars(FillQueue("refresh"))
    /\ WF_vars(RoundWorking \/ \E state \in States : RoundRefresh(state))
    /\ \A a \in Accounts : /\ WF_vars(StepFinished(a))
                           /\ WF_vars(StartPosted(a))
                           /\ WF_vars(DeleteAccount(a))

Spec == Init /\ [][Next]_vars /\ Fairness

-----------------------------------------------------------------------------

(* m_activityCount is what requestRefresh decides by: it counts the active *)
(* rows, and those that were removed or replaced while they were active    *)
(* (AccountList.cpp:220, :610).                                            *)
ActivityCounted ==
    activity = lost + Cardinality({a \in Range(rows) : Active(a)})

(* The background refresh never falls asleep: some timer is armed or a     *)
(* flow that the list listens to is alive, unless the refresh it waited    *)
(* for was aborted or destroyed (AccountList.cpp:632, :657).               *)
ListAlive ==
    timers # {} \/ cut \/ \E a \in Accounts : flow[a].heard

(* The list never loses track of the refreshes: it knows whether one is     *)
(* active, and something will go on with the next.                         *)
ListOK == TypeOK /\ ActivityCounted /\ ListAlive

(* The queue is worked off: no account waits in it for ever, unless the    *)
(* refresh before it was aborted or destroyed (AccountList.cpp:623).       *)
QueueServed == queue # <<>> ~> (queue = <<>> \/ cut)

(* A login never hangs in its progress dialog (LaunchController.cpp:268).  *)
LoginAnswers == login.pc = "wait" ~> login.pc # "wait"

(* "Never refresh accounts that are being used by the game, it breaks the  *)
(* game session" (MinecraftAccount.cpp:204).                               *)
RefreshSparesGames ==
    [][\A a \in Accounts : flow[a].st # "running" /\ flow'[a].st = "running"
                             => acct[a].uses = 0]_vars
=============================================================================
