---------------------------- MODULE CollectionSync ----------------------------
(***************************************************************************)
(* vulntools/collection.py: the commands that copy the official sources     *)
(* into the source tables, each resumable through a cursor of sync_state.   *)
(*                                                                          *)
(*   sync --source nvd          sync_nvd, the stream of modified records    *)
(*   sync --source nvd --full   sync_nvd, the stream of all records         *)
(*   sync --source cve          sync_cve_delta, the rolling deltaLog.json   *)
(*   sync --source cve --full   sync_cve_directory, a checkout of cvelistV5 *)
(*   collect, collect-batch, retry-collection                               *)
(*                                                                          *)
(* The sources move while a command runs, every request may fail, and a     *)
(* process may be killed between any two of its transactions.  A version of *)
(* a record is named by the time it was published.                          *)
(***************************************************************************)
EXTENDS SourceStore, Sequences

CONSTANTS
    Overlap,     \* overlap_minutes, and the longest delay before NVD shows a change
    Lookback,    \* the day a first run starts before its end
    Span,        \* the 120 days of an NVD window
    PageSize, BatchSize,
    Sinces,      \* where an explicit --since lies from the clock
    Untils,      \* where an explicit --until lies from the clock
    Limits,      \* values of --max-records, NoLimit among them
    NoLimit,
    Retries,     \* attempts of HttpClient.request
    Malformed,   \* files of the baseline that cannot be parsed at first
    Uses,        \* ways to operate an installation: the commands given, which of Sinces
                 \* and Untils, and a bound on commands given and changes of the sources
    MaxKills     \* bound on killed processes

ASSUME CollectionAssumption ==
    /\ Sources = {"nvd", "cve", "avd"}
    /\ {Overlap, Lookback, Retries, MaxKills} \subseteq Nat
    /\ {Span, PageSize, BatchSize, NoLimit} \subseteq Nat \ {0}
    /\ Limits \subseteq 1..NoLimit
    /\ Sinces \cup Untils \subseteq Int
    /\ \A d \in Sinces \cup Untils : d >= -(Lookback + Overlap)
    /\ Malformed \subseteq Ids
    /\ Ids # {}     \* a deltaLog.json without events is refused
    /\ \A u \in Uses : u.events \in Nat
    /\ Lookback + Overlap < MaxTime

VARIABLES
    now,        \* the clock
    official,   \* the version each source publishes, 0 before the first
    log,        \* deltaLog.json: the CVE events it still lists
    readable,   \* files of the baseline that parse
    cursor,     \* sync_state
    run,        \* the command each process executes
    uses,       \* how this installation is operated
    events,     \* commands given and changes made
    kills,
    excused     \* NVD and CVE versions a run started behind, a page lost, or that
                \* were made behind a time an operator had put ahead of the clock

world == <<now, official, log, readable>>
counts == <<uses, events, kills>>
vars == <<storeVars, world, cursor, run, counts, excused>>

FirstTime == Lookback + Overlap + 1
FirstLogged == Lookback + 1              \* a first scan starts after NoTime
Times == 1..MaxTime
NoTime == 0
NoWindow == <<>>
Everything == <<NoTime, NoTime>>         \* the window of the full stream
NoEvent == [time |-> NoTime, id |-> NoRecord]

Lesser(a, b) == IF a < b THEN a ELSE b
Greater(a, b) == IF a < b THEN b ELSE a
Before(e, f) == e.time < f.time \/ (e.time = f.time /\ e.id < f.id)
Earliest(S) == CHOOSE e \in S : \A f \in S \ {e} : Before(e, f)
Last(S) == CHOOSE e \in S : \A f \in S \ {e} : Before(f, e)

NoRun == [kind |-> "none"]
NvdStream(full) == IF full THEN "full" ELSE "modified"

CollectionInit ==
    /\ StoreInit
    /\ now = FirstTime
    /\ official = [s \in Sources |-> [i \in Ids |-> IF s = "cve" THEN FirstLogged ELSE 1]]
    /\ log = {[time |-> FirstLogged, id |-> i] : i \in Ids}
    /\ readable = Ids \ Malformed
    /\ cursor = [modified |-> [window |-> NoWindow, next |-> 0, mark |-> NoTime],
                 full |-> [window |-> NoWindow, next |-> 0, mark |-> NoTime],
                 delta |-> [mark |-> NoTime, scan |-> NoTime, after |-> NoEvent],
                 baseline |-> [after |-> NoRecord, complete |-> FALSE]]
    /\ run = [p \in Procs |-> NoRun]
    /\ uses \in Uses
    /\ events = 0 /\ kills = 0
    /\ excused = [s \in Sources |-> {}]

-----------------------------------------------------------------------------
(* The sources *)

Tick ==
    /\ now < MaxTime
    /\ now' = now + 1
    /\ UNCHANGED <<storeVars, official, log, readable, cursor, run, counts, excused>>

\* The windows whose paging has begun and not ended: those of a process at
\* work and the one the cursor keeps.
OpenWindows ==
    {cursor["modified"].window} \cup
    {run[p].windows[1] : p \in {q \in Procs : run[q].kind = "nvd" /\ (run[q].index > 0 \/ run[q].pc # "fetch")}}

InWindow(w, t) == IF w = Everything THEN t > NoTime ELSE w[1] <= t /\ t <= w[2]

\* What paging by offset through an open window may step over when record i
\* changes at t: the records behind i move up when it leaves the window, and i
\* itself may land before the offset.
PagedOver(i, t) ==
    LET open == OpenWindows \ {NoWindow}
    IN {[id |-> i, time |-> t] : w \in {x \in open : InWindow(x, t)}} \cup
       {[id |-> j, time |-> official["nvd"][j]] : j \in {k \in Ids : k > i /\
            \E w \in open : InWindow(w, official["nvd"][i]) /\ InWindow(w, official["nvd"][k])}}

\* A change of a source some command of the installation reads.
Change(commands) ==
    /\ uses.commands \cap commands # {}
    /\ events < uses.events
    /\ events' = events + 1
    /\ UNCHANGED <<storeVars, now, cursor, run, uses, kills>>

\* Times before which the modified stream asks for nothing more: the overlap of
\* the watermark, and of a run or of an unfinished window the overlap of its end,
\* as far as the windows already passed reach.  They lie behind what NVD may
\* still publish, unless --until lay ahead of the clock.
Passed ==
    LET syncing == {p \in Procs : run[p].kind = "nvd" /\ run[p].stream = "modified"}
        marks == {cursor["modified"].mark} \cup {run[p].mark : p \in syncing}
        spans == ({cursor["modified"].window} \ {NoWindow}) \cup
                 {<<run[p].windows[1][1], run[p].end>> : p \in syncing}
    IN {m - Overlap : m \in marks} \cup {Lesser(s[1], s[2] - Overlap) : s \in spans}

Overtaken(i, t) == {[id |-> i, time |-> t] : x \in {y \in Passed : t < y}}

\* NVD shows a change at most Overlap after its lastModified time.
Modify(i) ==
    \E t \in (now - Overlap)..now :
        /\ t > official["nvd"][i]
        /\ Change({"nvd", "nvd-full"})
        /\ official' = [official EXCEPT !["nvd"][i] = t]
        /\ excused' = [excused EXCEPT !["nvd"] = @ \cup PagedOver(i, t) \cup Overtaken(i, t)]
        /\ UNCHANGED <<log, readable>>

\* What CVE publishes before the checkpoint of a scan: its --since lay ahead.
BeforeCheckpoint(i) ==
    LET checkpoints == {cursor.delta.scan} \cup {run[p].checkpoint : p \in {q \in Procs : run[q].kind = "delta"}}
    IN {[id |-> i, time |-> now] : c \in {d \in checkpoints : now <= d}}

\* One update of cvelistV5: its event is the newest of the log.
Publish(i) ==
    /\ \A e \in log : e.time < now
    /\ Change({"delta", "baseline"})
    /\ official' = [official EXCEPT !["cve"][i] = now]
    /\ log' = log \cup {[time |-> now, id |-> i]}
    /\ excused' = [excused EXCEPT !["cve"] = @ \cup BeforeCheckpoint(i)]
    /\ UNCHANGED readable

\* The oldest entry rolls out of the log.
Roll ==
    LET oldest == Min({e.time : e \in log})
    IN /\ \E e \in log : e.time > oldest
       /\ "delta" \in uses.commands
       /\ log' = {e \in log : e.time > oldest}
       /\ UNCHANGED <<storeVars, now, official, readable, cursor, run, counts, excused>>

\* A page of AVD is rewritten.
EditPage(i) ==
    /\ official["avd"][i] < now
    /\ Change({"batch", "collect"})
    /\ official' = [official EXCEPT !["avd"][i] = now]
    /\ UNCHANGED <<log, readable, excused>>

\* The file of the checkout that did not parse is restored.
RepairFile(i) ==
    /\ i \notin readable
    /\ readable' = readable \cup {i}
    /\ UNCHANGED <<storeVars, now, official, log, cursor, run, counts, excused>>

-----------------------------------------------------------------------------
(* Starting a command *)

Give(p, command) ==
    /\ run[p] = NoRun /\ events < uses.events
    /\ events' = events + 1
    /\ run' = [run EXCEPT ![p] = command]
    /\ UNCHANGED <<storeVars, world, uses, kills>>

\* The interval cut at every Span.
Split(a, b) ==
    [k \in 1..((b - a + Span - 1) \div Span) |-> <<a + (k - 1) * Span, Lesser(a + k * Span, b)>>]

\* Versions of a source that a scan starting at t leaves out.
Skipped(s, t) == {[id |-> i, time |-> official[s][i]] : i \in {j \in Ids : official[s][j] < t}}

\* NVD versions shown late before a window narrower than the overlap: resuming
\* the window does not look back.
ShownBehind(w) == Skipped("nvd", w[1]) \ Skipped("nvd", w[2] - Overlap)

\* Mutant: no overlap with the last watermark.
NvdStartNoOverlap(since, mark, end) ==
    CASE since # NoTime -> since
      [] since = NoTime /\ mark # NoTime -> mark
      [] OTHER -> end - Lookback

\* Where a run without an unfinished window starts.
NvdStart(since, mark, end) ==
    CASE since # NoTime -> since
      [] since = NoTime /\ mark # NoTime -> mark - Overlap
      [] OTHER -> end - Lookback

\* sync_nvd up to its first request.  An end before the unfinished window's,
\* or no later than the start, is refused.
StartNvd(p, full, since, end, limit) ==
    LET stream == NvdStream(full)
        saved == cursor[stream]
        resumed == ~full /\ since = NoTime /\ saved.window # NoWindow
        start == IF resumed THEN saved.window[2] ELSE NvdStart(since, saved.mark, end)
        windows == IF full THEN <<Everything>>
                   ELSE (IF resumed THEN <<saved.window>> ELSE <<>>) \o Split(start, end)
    IN /\ full \/ (IF resumed THEN start <= end ELSE start < end)
       /\ Give(p, [kind |-> "nvd", pc |-> "fetch", stream |-> stream, windows |-> windows,
                   index |-> IF saved.window = windows[1] THEN saved.next ELSE 0,
                   attempt |-> 1, left |-> limit, mark |-> saved.mark, end |-> end,
                   next |-> 0, total |-> 0, rows |-> 0])
       /\ excused' = [excused EXCEPT !["nvd"] = @ \cup
                         CASE ~full /\ resumed -> ShownBehind(saved.window)
                           [] ~full /\ ~resumed /\ (since # NoTime \/ saved.mark = NoTime) -> Skipped("nvd", start)
                           [] OTHER -> {}]
       /\ UNCHANGED cursor

\* The latest event of each record after the start of the scan.
Discovered(start) ==
    {e \in log : e.time > start /\ \A f \in log : f.id = e.id => ~Before(e, f)}

\* sync_cve_delta up to its first record.  A start the log no longer reaches
\* is refused.
StartDelta(p, since, limit) ==
    LET saved == cursor.delta
        asked == CASE since # NoTime -> since
                   [] since = NoTime /\ saved.scan # NoTime -> saved.scan
                   [] OTHER -> saved.mark
        newest == Max({e.time : e \in log})
        oldest == Min({e.time : e \in log})
        checkpoint == IF asked # NoTime THEN asked ELSE newest - Lookback
        after == IF since = NoTime THEN saved.after ELSE NoEvent
        found == {e \in Discovered(checkpoint - Overlap) : after = NoEvent \/ Before(after, e)}
        items == {e \in found : Cardinality({f \in found : Before(f, e)}) < limit}
    IN /\ asked # NoTime => oldest <= checkpoint
       /\ Give(p, [kind |-> "delta", pc |-> "item", items |-> items, failed |-> FALSE, attempt |-> 1,
                   truncated |-> items # found, last |-> IF items = {} THEN NoEvent ELSE Last(items),
                   checkpoint |-> checkpoint, newest |-> newest])
       /\ excused' = [excused EXCEPT !["cve"] = @ \cup
                         (IF since # NoTime \/ asked = NoTime
                          THEN Skipped("cve", Greater(oldest, checkpoint + 1)) ELSE {})]
       /\ UNCHANGED cursor

\* sync_cve_directory up to its first file.
StartBaseline(p, limit) ==
    LET after == IF cursor.baseline.complete THEN NoRecord ELSE cursor.baseline.after
    IN /\ Give(p, [kind |-> "baseline", pc |-> "file", files |-> {i \in Ids : i > after},
                   batch |-> EmptyBatch, left |-> limit, last |-> NoRecord, failed |-> FALSE,
                   after |-> after])
       /\ UNCHANGED <<cursor, excused>>

\* The key of a row of collection_failures.
Row(s, tag, a, b) == [source |-> s, tag |-> tag, a |-> a, b |-> b]
IdRow(s, i) == Row(s, "id", i, 0)
FileRow(i) == Row("cve", "file", i, 0)
\* The item of a page's row names the window's start and the index.
PageRow(r) == Row("nvd", "page", r.windows[1][1], r.index)

\* collect-batch over identifiers of one source, and collect over one.
StartBatch(p, s, ids) ==
    /\ ids # {}
    /\ Give(p, [kind |-> "batch", pc |-> "item", items |-> {IdRow(s, i) : i \in ids}, attempt |-> 1])
    /\ UNCHANGED <<cursor, excused>>

StartCollect(p, s, i) ==
    /\ Give(p, [kind |-> "collect", pc |-> "item", items |-> {IdRow(s, i)}, attempt |-> 1])
    /\ UNCHANGED <<cursor, excused>>

\* retry-collection: every open row but those of baseline files, whatever its
\* item id is the id of.
StartRetry(p) ==
    LET rows == {r \in failures : r.tag # "file"}
    IN /\ rows # {}
       /\ Give(p, [kind |-> "batch", pc |-> "item", items |-> rows, attempt |-> 1])
       /\ UNCHANGED <<cursor, excused>>

\* No --since, or one; no --until, or one.  Neither is compared with the clock.
Starts == {NoTime} \cup {now + d : d \in Sinces \cap uses.offsets}
Ends == {now} \cup {now + d : d \in Untils \cap uses.offsets}

Start(p) ==
    \/ /\ "nvd" \in uses.commands
       /\ \E since \in Starts, end \in Ends, limit \in Limits : StartNvd(p, FALSE, since, end, limit)
    \/ /\ "nvd-full" \in uses.commands
       /\ \E end \in Ends, limit \in Limits : StartNvd(p, TRUE, NoTime, end, limit)
    \/ "delta" \in uses.commands /\ \E since \in Starts, limit \in Limits : StartDelta(p, since, limit)
    \/ "baseline" \in uses.commands /\ \E limit \in Limits : StartBaseline(p, limit)
    \/ "batch" \in uses.commands /\ \E s \in Sources, ids \in SUBSET Ids : StartBatch(p, s, ids)
    \/ "collect" \in uses.commands /\ \E s \in Sources, i \in Ids : StartCollect(p, s, i)
    \/ "retry" \in uses.commands /\ StartRetry(p)

-----------------------------------------------------------------------------
(* A command at work *)

Finish(p) == run' = [run EXCEPT ![p] = NoRun]
quiet == <<world, counts, excused>>     \* what a command's own steps leave alone

Fetching(p) ==
    /\ Saved(p)
    /\ \/ run[p].kind = "nvd" /\ run[p].pc = "fetch"
       \/ run[p].kind \in {"delta", "batch", "collect"} /\ run[p].pc = "item" /\ run[p].items # {}

\* HttpClient.request waits and asks again after 429, a 5xx it retries, or a
\* lost connection, while attempts are left.
RequestAgain(p) ==
    /\ Fetching(p) /\ run[p].attempt < Retries
    /\ run' = [run EXCEPT ![p].attempt = @ + 1]
    /\ UNCHANGED <<storeVars, cursor, quiet>>

\* The rows of the page at the run's index, in the order of identifiers.
Matching(r) == {i \in Ids : InWindow(r.windows[1], official["nvd"][i])}
Position(i, S) == Cardinality({j \in S : j < i})
Page(r) == {i \in Matching(r) : r.index <= Position(i, Matching(r))
                             /\ Position(i, Matching(r)) < r.index + Lesser(PageSize, r.left)}
Version(s, i) == [time |-> official[s][i], body |-> official[s][i]]

FetchPage(p) ==
    /\ run[p].kind = "nvd" /\ Fetching(p)
    /\ LET rows == Page(run[p])
       IN /\ BeginSave(p, "nvd", [i \in rows |-> Version("nvd", i)])
          /\ run' = [run EXCEPT ![p].pc = "resolve", ![p].next = run[p].index + Cardinality(rows),
                                ![p].rows = Cardinality(rows), ![p].total = Cardinality(Matching(run[p]))]
    /\ UNCHANGED <<latest, failures, cursor, quiet>>

\* Every attempt failed, or one with an error that is not retried: the page is
\* written down and the command raises.  An answer that is not a page of records
\* raises too, and nothing is written down.
FetchPageFails(p) ==
    /\ run[p].kind = "nvd" /\ Fetching(p)
    /\ OpenFailure(PageRow(run[p])) \/ UNCHANGED failures
    /\ Finish(p)
    /\ UNCHANGED <<latest, saving, cursor, quiet>>

ResolvePage(p) ==
    /\ run[p].kind = "nvd" /\ run[p].pc = "resolve" /\ Saved(p)
    /\ CloseFailure(PageRow(run[p]))
    /\ run' = [run EXCEPT ![p].pc = "cursor"]
    /\ UNCHANGED <<latest, saving, cursor, quiet>>

\* Mutant: the next page is asked for at the index of this one.
NextIndexSame(r) == r.index
\* Where the next page starts.
NextIndex(r) == r.next

\* The cursor after a page, and what comes next: the end of the window, the
\* next page, or a stop at --max-records or at a page that came back empty.
SavePageCursor(p) ==
    LET r == run[p]
        left == IF r.left = NoLimit THEN NoLimit ELSE r.left - r.rows
        more == r.next < r.total
    IN /\ r.kind = "nvd" /\ r.pc = "cursor"
       /\ cursor' = [cursor EXCEPT ![r.stream] = [window |-> r.windows[1], next |-> r.next, mark |-> r.mark]]
       /\ run' = [run EXCEPT ![p] =
                     CASE ~more -> [r EXCEPT !.pc = "close", !.left = left]
                       [] more /\ (left <= 0 \/ r.rows = 0) -> NoRun
                       [] OTHER -> [r EXCEPT !.pc = "fetch", !.left = left, !.index = NextIndex(r), !.attempt = 1]]
       /\ UNCHANGED <<storeVars, quiet>>

\* Mutant: the overlap is added to the watermark.
ReachedAhead(r) == Greater(r.end, r.mark) + Overlap
\* The watermark a finished window sets.
Reached(r) == Greater(IF r.windows[1] = Everything THEN r.end ELSE r.windows[1][2], r.mark)

CloseWindow(p) ==
    LET r == run[p]
        stop == Len(r.windows) = 1 \/ r.left <= 0
    IN /\ r.kind = "nvd" /\ r.pc = "close"
       /\ cursor' = [cursor EXCEPT ![r.stream] = [window |-> NoWindow, next |-> 0, mark |-> Reached(r)]]
       /\ run' = [run EXCEPT ![p] =
                     IF stop THEN NoRun
                     ELSE [r EXCEPT !.pc = "fetch", !.windows = Tail(r.windows), !.index = 0,
                                    !.attempt = 1, !.mark = Reached(r)]]
       /\ UNCHANGED <<storeVars, quiet>>

\* The next record of a delta scan, or the next item of a batch.
Item(r) == IF r.kind = "delta" THEN Earliest(r.items) ELSE
           CHOOSE e \in r.items : \A f \in r.items : e.a < f.a \/ e.a = f.a
ItemRow(r) == IF r.kind = "delta" THEN IdRow("cve", Item(r).id) ELSE Item(r)

\* A page may state no revision time.
Answers(s, i) ==
    {Version(s, i)} \cup IF s = "avd" THEN {[time |-> NoTime, body |-> official[s][i]]} ELSE {}

FetchItem(p) ==
    /\ run[p].kind \in {"delta", "batch", "collect"} /\ Fetching(p)
    /\ LET row == ItemRow(run[p])
       IN /\ row.tag = "id"
          /\ \E record \in Answers(row.source, row.a) : BeginSave(p, row.source, [i \in {row.a} |-> record])
    /\ run' = [run EXCEPT ![p].pc = "resolve"]
    /\ UNCHANGED <<latest, failures, cursor, quiet>>

\* Rows are looked up under the item's name in upper case: that of a page names
\* no record, and a row under the new name is opened beside the old one.
Upper(row) == IF row.tag = "page" THEN [row EXCEPT !.tag = "PAGE"] ELSE row

FetchItemFails(p) ==
    LET r == run[p] IN
    /\ r.kind \in {"delta", "batch"} /\ Fetching(p)
    /\ OpenFailure(Upper(ItemRow(r)))
    /\ run' = [run EXCEPT ![p] = IF r.kind = "delta"
                  THEN [r EXCEPT !.items = @ \ {Item(r)}, !.failed = TRUE, !.attempt = 1]
                  ELSE [r EXCEPT !.items = @ \ {Item(r)}, !.attempt = 1]]
    /\ UNCHANGED <<latest, saving, cursor, quiet>>

\* collect writes no row when it fails.
CollectFails(p) ==
    /\ run[p].kind = "collect" /\ Fetching(p)
    /\ Finish(p)
    /\ UNCHANGED <<storeVars, cursor, quiet>>

ResolveItem(p) ==
    LET r == run[p] IN
    /\ r.kind \in {"delta", "batch", "collect"} /\ r.pc = "resolve" /\ Saved(p)
    /\ IF r.kind = "collect" THEN UNCHANGED failures ELSE CloseFailure(ItemRow(r))
    /\ run' = [run EXCEPT ![p].pc = "item", ![p].items = @ \ {Item(r)}, ![p].attempt = 1]
    /\ UNCHANGED <<latest, saving, cursor, quiet>>

\* A truncated scan is continued after its last record, a finished one from the
\* newest event it saw.
ScanCursor(r) ==
    IF r.truncated THEN [mark |-> NoTime, scan |-> r.checkpoint, after |-> r.last]
    ELSE [mark |-> r.newest, scan |-> NoTime, after |-> NoEvent]

\* Mutant: the cursor advances past the records that failed.
DeltaCursorAlways(r) == ScanCursor(r)

\* The cursor at the end of a scan: one that failed somewhere leaves it alone.
DeltaCursor(r) == IF r.failed THEN cursor.delta ELSE ScanCursor(r)

EndDelta(p) ==
    /\ run[p].kind = "delta" /\ run[p].pc = "item" /\ run[p].items = {}
    /\ cursor' = [cursor EXCEPT !.delta = DeltaCursor(run[p])]
    /\ Finish(p)
    /\ UNCHANGED <<storeVars, quiet>>

EndBatch(p) ==
    /\ run[p].kind \in {"batch", "collect"} /\ run[p].pc = "item" /\ run[p].items = {}
    /\ Finish(p)
    /\ UNCHANGED <<storeVars, cursor, quiet>>

\* A file is read, its row closed or opened, and its record kept in memory.
ReadFile(p) ==
    LET r == run[p]
        i == Min(r.files)
        batch == IF i \in readable THEN [j \in DOMAIN r.batch \cup {i} |-> [time |-> 1, body |-> 1]] ELSE r.batch
    IN /\ r.kind = "baseline" /\ r.pc = "file" /\ r.files # {} /\ r.left > 0
       /\ IF i \in readable THEN CloseFailure(FileRow(i)) ELSE OpenFailure(FileRow(i))
       /\ run' = [run EXCEPT ![p] =
                     [r EXCEPT !.files = @ \ {i}, !.batch = batch, !.last = i,
                               !.left = IF @ = NoLimit THEN @ ELSE @ - 1,
                               !.failed = @ \/ i \notin readable,
                               !.pc = IF Cardinality(DOMAIN batch) >= BatchSize THEN "flush" ELSE "file"]]
       /\ UNCHANGED <<latest, saving, cursor, quiet>>

\* A full batch is saved, or what is left of it at the end.
Flush(p) ==
    LET r == run[p]
        atEnd == r.pc = "file" /\ (r.files = {} \/ r.left = 0) /\ DOMAIN r.batch # {}
    IN /\ r.kind = "baseline" /\ (r.pc = "flush" \/ atEnd)
       /\ BeginSave(p, "cve", r.batch)
       /\ run' = [run EXCEPT ![p].batch = EmptyBatch, ![p].pc = IF atEnd THEN "file" ELSE "flushed"]
       /\ UNCHANGED <<latest, failures, cursor, quiet>>

\* Mutant: the cursor advances past a file that failed.
FlushedCursorAlways(r) == [after |-> r.last, complete |-> FALSE]
\* The cursor after a batch: only while no file has failed.
FlushedCursor(r) == IF r.failed THEN cursor.baseline ELSE [after |-> r.last, complete |-> FALSE]

AfterFlush(p) ==
    LET r == run[p]
    IN /\ r.kind = "baseline" /\ r.pc = "flushed" /\ Saved(p)
       /\ cursor' = [cursor EXCEPT !.baseline = FlushedCursor(r)]
       /\ run' = [run EXCEPT ![p].pc = "file"]
       /\ UNCHANGED <<storeVars, quiet>>

\* The cursor at the end: complete, back where the run started after a failure,
\* or at the last file.
BaselineCursor(r) ==
    CASE r.failed -> [after |-> r.after, complete |-> FALSE]
      [] ~r.failed /\ r.files = {} -> [after |-> NoRecord, complete |-> TRUE]
      [] ~r.failed /\ r.files # {} /\ r.last # NoRecord -> [after |-> r.last, complete |-> FALSE]
      [] OTHER -> cursor.baseline

EndBaseline(p) ==
    LET r == run[p]
    IN /\ r.kind = "baseline" /\ r.pc = "file" /\ (r.files = {} \/ r.left = 0)
       /\ DOMAIN r.batch = {} /\ Saved(p)
       /\ cursor' = [cursor EXCEPT !.baseline = BaselineCursor(r)]
       /\ Finish(p)
       /\ UNCHANGED <<storeVars, quiet>>

SaveStep(p) == Save(p) /\ UNCHANGED <<world, cursor, run, counts, excused>>

\* The process is killed; a transaction that has not committed is undone.
Kill(p) ==
    /\ kills < MaxKills /\ run[p] # NoRun
    /\ kills' = kills + 1
    /\ Finish(p)
    /\ saving' = [saving EXCEPT ![p] = NoCall]
    /\ UNCHANGED <<latest, failures, world, cursor, uses, events, excused>>

NvdStep(p) == FetchPage(p) \/ FetchPageFails(p) \/ ResolvePage(p) \/ SavePageCursor(p) \/ CloseWindow(p)
ItemStep(p) == FetchItem(p) \/ FetchItemFails(p) \/ CollectFails(p) \/ ResolveItem(p) \/ EndDelta(p) \/ EndBatch(p)
BaselineStep(p) == ReadFile(p) \/ Flush(p) \/ AfterFlush(p) \/ EndBaseline(p)
Work(p) == RequestAgain(p) \/ NvdStep(p) \/ ItemStep(p) \/ BaselineStep(p) \/ SaveStep(p)

World == Tick \/ Roll \/ \E i \in Ids : Modify(i) \/ Publish(i) \/ EditPage(i) \/ RepairFile(i)

Next == World \/ \E p \in Procs : Start(p) \/ Work(p) \/ Kill(p)

\* A process that was started goes on until it ends; operators and sources may stop.
Spec == CollectionInit /\ [][Next]_vars /\ \A p \in Procs : WF_vars(Work(p))
-----------------------------------------------------------------------------
(* Properties *)

\* Types.  The mark of the delta stream never lies in the future, and that of a
\* stream of NVD no further ahead than an --until did.
CollectionTypeOK ==
    /\ latest \in [Sources -> [Ids -> Snapshots]]
    /\ \A p \in Procs : saving[p].batch \in Batches /\ saving[p].source \in Sources
    /\ now \in FirstTime..MaxTime
    /\ official \in [Sources -> [Ids -> 0..MaxTime]]
    /\ cursor.delta.mark \in 0..now
    /\ \A s \in {"modified", "full"} : cursor[s].mark \in Nat /\ \E d \in {0} \cup Untils : cursor[s].mark <= now + d
    /\ events \in 0..uses.events /\ kills \in 0..MaxKills

\* What NVD changed before the overlap of the watermark is stored, or is one of
\* the changes an explicit start, a first start, a resumed window narrower than
\* the overlap or paging through a moving window steps over, or was made behind
\* a watermark or an end of a run that --until had put ahead of the clock: no
\* kill, failed page, --max-records stop or resumed window loses anything else.
WatermarkCovers ==
    \A i \in Ids :
        official["nvd"][i] < cursor["modified"].mark - Overlap =>
            \/ latest["nvd"][i].time >= official["nvd"][i]
            \/ [id |-> i, time |-> official["nvd"][i]] \in excused["nvd"]

\* What CVE published up to the watermark of the delta stream is stored, unless
\* the checkpoint of the first scan or of one with --since (it may lie ahead of
\* the clock), or the log it read, is later: truncated scans, failed records and
\* a log that rolls between two scans leave no gap.  (The overlap before such a
\* checkpoint is a margin: the log may roll past it before a truncated scan is
\* continued.)
DeltaCovers ==
    \A i \in Ids :
        official["cve"][i] <= cursor.delta.mark =>
            \/ latest["cve"][i].time >= official["cve"][i]
            \/ [id |-> i, time |-> official["cve"][i]] \in excused["cve"]

\* The files the baseline's cursor has passed, all of them once it is complete,
\* are in the store, whatever failed to parse or was cut short on the way.
BaselineIsWhole ==
    \A i \in Ids :
        cursor.baseline.complete \/ i <= cursor.baseline.after => latest["cve"][i] # NoSnapshot

\* A snapshot is never replaced by one with an older time or none.
NeverGoBack ==
    [][\A s \in Sources, i \in Ids : latest'[s][i].time >= latest[s][i].time]_vars

\* Every command ends: paging, retries and batches do not go round for ever.
CommandsEnd == \A p \in Procs : run[p] # NoRun ~> run[p] = NoRun
=============================================================================
