----------------------------- MODULE NetRequest -----------------------------
(***************************************************************************)
(* One Net::NetRequest with its sink (FileSink, or MetaCacheSink for a     *)
(* cached download) and an optional ChecksumValidator, as it is driven by  *)
(* its NetJob (start, again after a failure, abort) and by the signals of  *)
(* its QNetworkReply (readyRead, errorOccurred, finished).                 *)
(*                                                                         *)
(* The body of a reply is abstracted to whether the bytes received so far  *)
(* can still be the expected file; the target file to where its content    *)
(* came from. The cache index of HttpMetaCache takes part: requests for    *)
(* the same path follow each other, the launcher is restarted or crashes,  *)
(* entries are evicted.                                                    *)
(***************************************************************************)
EXTENDS HttpMetaCache, Sequences

CONSTANTS
    MaxStarts,     \* bound: starts of a request by its job (its retries)
    MaxRedirects,  \* bound: redirects the servers send
    MaxRequests,   \* bound: requests for the path
    MaxChanges     \* bound: mtime up to which others change the file

ASSUME BoundsAssumption == {MaxStarts, MaxRedirects, MaxRequests, MaxChanges} \subseteq Nat

VARIABLES
    cached,     \* the sink is a MetaCacheSink; never changes
    checked,    \* a validator knows the expected checksum; never changes
    useLocal,   \* Option::AcceptLocalFiles is set; never changes
    leftover,   \* replies may finish with bytes nobody has read; never changes
    alive,      \* there is a request
    state,      \* m_state
    reply,      \* m_reply: "none", "open", "errored" (finished() is due), "closed"
    temp,       \* m_output_file: "none", "open", "deleted", "cancelled"
    wrote,      \* wroteAnyData
    body,       \* the bytes in the temporary file: "empty", "good", "bad"
    asked,      \* the server was told what the cache holds
    crashed,    \* m_output_file was dereferenced while null
    signals,    \* history: the terminal signals of the current start
    starts,     \* history: the number of calls of start()
    redirects,  \* history: the redirects followed
    requests,   \* history: the number of requests made
    wiped       \* history: everything was evicted since the request was made

config == <<cached, checked, useLocal, leftover>>
sink == <<temp, wrote, body>>
life == <<alive, requests, wiped>>
vars == <<config, life, state, reply, sink, asked, file, cache, crashed, signals, starts, redirects>>

TaskState == {"Inactive", "Running", "Succeeded", "Failed", "AbortedByUser"}
Terminal == {"Succeeded", "Failed", "AbortedByUser"}

TypeOK ==
    /\ CacheTypeOK
    /\ {cached, checked, useLocal, leftover, alive, wrote, asked, crashed, wiped} \subseteq BOOLEAN
    /\ state \in TaskState
    /\ reply \in {"none", "open", "errored", "closed"}
    /\ temp \in {"none", "open", "deleted", "cancelled"}
    /\ body \in Bodies
    /\ signals \in Seq(Terminal)
    /\ starts \in 0..MaxStarts
    /\ redirects \in 0..MaxRedirects
    /\ requests \in 0..MaxRequests
    /\ state = "Running" /\ reply \in {"open", "errored"} => temp \in {"open", "deleted"}

Init ==
    /\ cached \in BOOLEAN /\ checked \in BOOLEAN /\ useLocal \in BOOLEAN /\ leftover \in BOOLEAN
    /\ CacheInit
    /\ alive = FALSE /\ requests = 0
    /\ state = "Inactive" /\ reply = "none"
    /\ temp = "none" /\ wrote = FALSE /\ body = "empty" /\ asked = FALSE
    /\ crashed = FALSE /\ signals = <<>>
    /\ starts = 0 /\ redirects = 0 /\ wiped = FALSE

\* mutant: a local file is taken for granted
HasLocalDataAlways == TRUE

HasLocalData == disk \notin {"absent", "empty"}

-----------------------------------------------------------------------------
(* The life of the request, and of the index.                              *)

Blank ==
    /\ state' = "Inactive" /\ reply' = "none"
    /\ temp' = "none" /\ wrote' = FALSE /\ body' = "empty" /\ asked' = FALSE
    /\ crashed' = FALSE /\ signals' = <<>>
    /\ starts' = 0 /\ redirects' = 0 /\ wiped' = FALSE

\* Download::makeCached and makeFile, once the request before is over.
NewRequest(expired) ==
    /\ ~crashed /\ requests < MaxRequests
    /\ ~alive \/ (state # "Running" /\ reply \in {"none", "closed"})
    /\ alive' = TRUE /\ requests' = requests + 1
    /\ Blank
    /\ IF cached THEN ResolveEntry(expired) ELSE UNCHANGED cache
    /\ UNCHANGED <<config, file>>

\* The launcher ends, in whatever state its requests are, and starts again.
Relaunch(orderly) ==
    /\ crashed => ~orderly
    /\ Restart(orderly)
    /\ alive' = FALSE
    /\ Blank
    /\ UNCHANGED <<config, file, requests>>

\* Between two sessions the file may be deleted or damaged.
ChangedOutside(content) ==
    /\ ~alive /\ mtime < MaxChanges
    /\ ChangeFile(content)
    /\ UNCHANGED <<config, life, state, reply, sink, asked, cache, crashed, signals, starts, redirects>>

SaveTimeout(ok) ==
    /\ ~crashed /\ SaveNow(ok)
    /\ UNCHANGED <<config, life, state, reply, sink, asked, file, crashed, signals, starts, redirects>>

\* What was fetched turned out to be useless (AssetUpdateTask).
Evict(expired) ==
    /\ cached /\ alive /\ signals = <<"Succeeded">> /\ reply # "open"
    /\ EvictEntry(expired)
    /\ UNCHANGED <<config, life, state, reply, sink, asked, file, crashed, signals, starts, redirects>>

\* At any time, under a running transfer too.
ClearMetadata(deleted, saved) ==
    /\ ~crashed /\ cached /\ mtime < MaxChanges
    /\ EvictAll(deleted, saved)
    /\ temp' = IF temp = "open" /\ deleted THEN "deleted" ELSE temp
    /\ wiped' = alive
    /\ UNCHANGED <<config, alive, requests, state, reply, wrote, body, asked, crashed, signals, starts, redirects>>

-----------------------------------------------------------------------------
(* executeTask, from Task::start and again for every redirect: "before"    *)
(* are the signals of this start so far, "held" is the finished reply that *)
(* m_reply still points to.                                                *)

NewTemp == temp' = "open" /\ wrote' = FALSE /\ body' = "empty"

FreshEntry == cached /\ ~entry.stale

CacheHit(before, held) ==
    /\ FreshEntry
    /\ state' = "Succeeded" /\ signals' = Append(before, "Succeeded")
    /\ reply' = held
    /\ UNCHANGED <<sink, asked>>

\* FileSink::init: no folder for the file, or it cannot be opened
InitFails(before, held) ==
    /\ ~FreshEntry
    /\ state' = "Failed" /\ signals' = Append(before, "Failed")
    /\ UNCHANGED sink \/ NewTemp
    /\ reply' = held
    /\ UNCHANGED asked

SendRequest(before) ==
    /\ ~FreshEntry
    /\ state' = "Running" /\ signals' = before
    /\ NewTemp
    /\ asked' = (cached /\ HasLocalData /\ entry.at # 0)   \* MetaCacheSink::initCache
    /\ reply' = "open"

ExecuteTask(before, held) ==
    CacheHit(before, held) \/ InitFails(before, held) \/ SendRequest(before)

-----------------------------------------------------------------------------
(* Calls of the job.                                                       *)

\* Task::start: ignored while m_state is Running.  The job starts a request
\* once, and again after the request reported a failure.
Start ==
    /\ alive /\ ~crashed /\ starts < MaxStarts
    /\ starts = 0 \/ signals = <<"Failed">>
    /\ starts' = starts + 1
    /\ \/ /\ state = "Running"
          /\ signals' = <<>>
          /\ UNCHANGED <<state, reply, sink, asked>>
       \/ /\ state # "Running"
          /\ ExecuteTask(<<>>, reply)
    /\ UNCHANGED <<config, life, file, cache, crashed, redirects>>

\* FileSink::abort goes through m_output_file without a check; then the
\* request reports.
AbortSink(output, outcome) ==
    IF output = "none"
    THEN temp' = output /\ crashed' = TRUE /\ UNCHANGED signals
    ELSE temp' = "cancelled" /\ signals' = Append(signals, outcome) /\ UNCHANGED crashed

-----------------------------------------------------------------------------
(* downloadFinished.                                                       *)

\* NetRequest::downloadError for anything but a cancelled operation
AfterError == IF useLocal /\ HasLocalData THEN "Succeeded" ELSE "Failed"

\* mutant: an aborted request drops its redirect without a word
FollowRedirectSilently(st) ==
    /\ redirects < MaxRedirects
    /\ redirects' = redirects + 1
    /\ IF st = "AbortedByUser"
       THEN /\ state' = st /\ reply' = "closed"
            /\ UNCHANGED <<signals, sink, asked>>
       ELSE ExecuteTask(signals, "closed")
    /\ UNCHANGED <<file, cache, crashed>>

\* handleRedirect: executeTask once more, which for an aborted request only
\* reports the abort.
FollowRedirect(st) ==
    /\ redirects < MaxRedirects
    /\ redirects' = redirects + 1
    /\ IF st = "AbortedByUser"
       THEN /\ state' = st /\ signals' = Append(signals, st)
            /\ reply' = "closed"
            /\ UNCHANGED <<sink, asked>>
       ELSE ExecuteTask(signals, "closed")
    /\ UNCHANGED <<file, cache, crashed>>

\* The request was decided before the reply finished.
ReportDecided(st) ==
    /\ st \in Terminal
    /\ state' = st
    /\ AbortSink(temp, st)
    /\ UNCHANGED <<wrote, body, asked, file, cache, redirects>>

\* Remaining bytes: a sink answers a successful write with Running, which is
\* not Succeeded, so this fails either way.
WriteRemaining(st) ==
    /\ st = "Running" /\ leftover
    /\ \/ /\ state' = "Running"
          /\ wrote' = TRUE /\ body' \in {"good", "bad"}
          /\ AbortSink(temp, "Failed")
       \/ /\ state' = "Failed"
          /\ wrote' = FALSE /\ UNCHANGED body
          /\ AbortSink("none", "Failed")
    /\ UNCHANGED <<asked, file, cache, redirects>>

\* FileSink::finalize commits unless the reply was "304 Not Modified" and
\* brought nothing; finalizeCache then records what was fetched.
Commits(status) == status = 200 \/ wrote
Valid == checked => body = "good"

FinalizeFails(st, status) ==
    /\ st = "Running" /\ Commits(status)
    /\ state' = "Failed"
    /\ AbortSink(temp, "Failed")   \* a validator objects, or the commit fails
    /\ UNCHANGED <<wrote, body, asked, file, cache, redirects>>

\* mutant: the entry keeps the checksum of the old file
Md5Kept == entry.md5

Md5 == IF wrote THEN body ELSE entry.md5

Finalize(st, status) ==
    /\ st = "Running"
    /\ Commits(status) => Valid /\ temp = "open"
    /\ state' = "Succeeded" /\ signals' = Append(signals, "Succeeded")
    /\ IF Commits(status) THEN ChangeFile(body) ELSE UNCHANGED file
    /\ temp' = "none"
    /\ IF cached THEN UpdateEntry(Md5, mtime') ELSE UNCHANGED cache
    /\ UNCHANGED <<wrote, body, asked, crashed, redirects>>

\* A server answers 304 only to a request that named what is in the cache.
\* (Bodiless answers that are neither, 204 say, are left out: finalize reports a
\* success for them whatever is on disk.)
Statuses == IF asked THEN {200, 304} ELSE {200}

Settle(st) ==
    /\ reply' = "closed"
    /\ \/ ReportDecided(st)
       \/ WriteRemaining(st)
       \/ \E status \in Statuses : FinalizeFails(st, status) \/ Finalize(st, status)

\* A Location header that cannot be parsed counts as an error of the download.
DownloadFinished(st) ==
    FollowRedirect(st) \/ Settle(st) \/ Settle(AfterError)

-----------------------------------------------------------------------------
(* The reply.                                                              *)

\* downloadReadyRead: FileSink::write
WriteChunk ==
    /\ ~crashed /\ reply = "open" /\ state = "Running"
    /\ wrote' = TRUE
    /\ body' \in IF body = "bad" THEN {"bad"} ELSE {"good", "bad"}
    /\ UNCHANGED <<config, life, state, reply, temp, asked, file, cache, crashed, signals, starts, redirects>>

WriteChunkFails ==
    /\ ~crashed /\ reply = "open" /\ state = "Running"
    /\ state' = "Failed"
    /\ temp' = "none" /\ wrote' = FALSE
    /\ UNCHANGED <<config, life, reply, body, asked, file, cache, crashed, signals, starts, redirects>>

\* mutant: an error is reported when it occurs, and again at the end
ErrorReported ==
    /\ ~crashed /\ reply = "open"
    /\ state' \in {"Failed", AfterError}
    /\ reply' = "errored"
    /\ signals' = Append(signals, "Failed")
    /\ UNCHANGED <<config, life, sink, asked, file, cache, crashed, starts, redirects>>

\* downloadError: a timeout cancels the operation, anything else may be
\* forgiven when an older file will do.
ErrorOccurred ==
    /\ ~crashed /\ reply = "open"
    /\ state' \in {"Failed", AfterError}
    /\ reply' = "errored"
    /\ UNCHANGED <<config, life, sink, asked, file, cache, crashed, signals, starts, redirects>>

ReplyFinished ==
    /\ ~crashed /\ reply \in {"open", "errored"}
    /\ DownloadFinished(state)
    /\ UNCHANGED <<config, life, starts>>

\* NetRequest::abort: QNetworkReply::abort() emits finished() before it returns
Abort ==
    /\ alive /\ ~crashed
    /\ signals \in {<<>>, <<"Failed">>}
    /\ IF reply \in {"open", "errored"}
       THEN DownloadFinished("AbortedByUser")
       ELSE /\ state' = "AbortedByUser"
            /\ UNCHANGED <<reply, sink, asked, file, cache, crashed, signals, redirects>>
    /\ UNCHANGED <<config, life, starts>>

-----------------------------------------------------------------------------
Next ==
    \/ Start
    \/ Abort
    \/ WriteChunk
    \/ WriteChunkFails
    \/ ErrorOccurred
    \/ ReplyFinished
    \/ \E expired \in BOOLEAN : NewRequest(expired) \/ Evict(expired)
    \/ \E orderly \in BOOLEAN : Relaunch(orderly)
    \/ \E content \in {"absent", "bad"} : ChangedOutside(content)
    \/ \E ok \in BOOLEAN : SaveTimeout(ok)
    \/ \E deleted, saved \in BOOLEAN : ClearMetadata(deleted, saved)

Spec == Init /\ [][Next]_vars

\* A posted start runs, and a reply finishes (RequestTimeout ends a stuck one).
FairSpec == Spec /\ WF_vars(Start) /\ WF_vars(ReplyFinished)

-----------------------------------------------------------------------------
(* Properties.                                                             *)

\* Whoever hears "succeeded" finds a file, unless the metadata were cleared
\* meanwhile (a "304 Not Modified" may then find it gone).  Where a checksum was
\* given and no older file was acceptable it is the expected one, except that a
\* cache entry which is fresh, or still good for the server, is not checked again.
SuccessMeansFile ==
    signals = <<"Succeeded">> /\ ~wiped =>
        /\ disk # "absent"
        /\ checked /\ ~useLocal => disk = "good" \/ (cached /\ disk = "old")

\* A start is answered at most once, and not while its reply is open.
OneReport ==
    /\ Len(signals) <= 1
    /\ reply \in {"open", "errored"} => signals = <<>>

\* A request in good order.
ReportsOK == TypeOK /\ OneReport

\* A resolved entry that counts as fresh describes the file on disk, whatever
\* crashes, lost saves and changes from outside came before.  (An empty "200" body
\* is committed without a new checksum.)
FreshEntryMatchesFile ==
    cached /\ alive /\ ~entry.stale /\ ~wiped /\ disk # "empty" => entry.md5 = disk

\* What was evicted is fetched again and not taken from the cache, restarts
\* included, as long as no crash comes before the index is saved
\* (HttpMetaCache.cpp:279, :294).
EvictionHolds == evicted # "no" /\ alive => entry.stale

\* Every start is answered, unless the process is gone, and as long as every
\* byte of a reply is announced: with bytes left at the end, the request says
\* "failed" while m_state is Running, and ignores the start of the retry.
EveryStartReports ==
    (starts > 0 /\ signals = <<>> /\ ~leftover) ~> (signals # <<>> \/ crashed \/ ~alive)

=============================================================================
