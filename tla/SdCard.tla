------------------------------- MODULE SdCard -------------------------------
(***************************************************************************)
(* The SD card as four tasks see it: RinexLogger on the base station task, *)
(* the files and export handlers on the HTTPS task, the delete dialog on   *)
(* the LVGL task, and the delete job of sd_delete.  The power may go at    *)
(* any step; what is not on the card by then is gone.                      *)
(*                                                                         *)
(* A path is the sequence of its names below the mount point: <<>> is      *)
(* /sdcard, <<"..">> a path safe_path() refuses, and a last name "" a      *)
(* trailing slash.                                                         *)
(***************************************************************************)
EXTENDS Integers, Sequences, FiniteSets, SequencesExt, FiniteSetsExt

CONSTANTS
    Stamps,         \* the file names of the epochs 1, 2, ..., in order
    EpochsPerFile,  \* kSecondsPerFile in epochs
    Lists,          \* the lists of paths each caller may ask to delete
    Entries,        \* the paths a delete or a rename of one entry may name
    Targets,        \* the paths a rename or a mkdir may make, without empty names
    Stuck,          \* files the card refuses to remove
    WalkCap,        \* kPreviewWalkCap, where a preview stops counting
    MaxRequests,    \* bound on the requests of the web and of the touch screen, each
    MaxLosses       \* bound on power losses

ASSUME SdAssumption ==
    /\ EpochsPerFile \in Nat \ {0} /\ WalkCap \in Nat
    /\ MaxRequests \in Nat /\ MaxLosses \in Nat
    /\ (UNION (Lists["web"] \cup Lists["ui"])) \cup Entries \cup Targets \subseteq Seq(STRING)
    /\ Stamps \in Seq(STRING) /\ "" \notin Range(Stamps) /\ IsInjective(Stamps)
    /\ \A p \in Targets : "" \notin Range(p)

VARIABLES
    mounted,   \* SdManager::mounted_
    dirs,      \* the directories on the card, the mount point left out
    files,     \* the files on the card
    card,      \* what the card holds of each RINEX file: its epochs and TIME OF LAST OBS
    now,       \* the GPS time of the next epoch
    log,       \* RinexLogger
    job,       \* sd_delete: g_state, g_paths, g_done, g_total, g_result
    task,      \* the delete task of each caller of sd_delete::start()
    at,        \* where each caller stands in its handler
    req,       \* the paths each caller asked to delete
    exp,       \* rinex_export_handler
    requests, losses,
    ghost      \* what the properties remember; no action reads it

vars == <<mounted, dirs, files, card, now, log, job, task, at, req, exp, requests, losses, ghost>>

Callers == {"web", "ui"}
Epochs == DOMAIN Stamps
NoFile == <<"">>
Managed == {<<"logs">>, <<"rawdata">>}
RinexPath(t) == <<"rawdata", Stamps[t]>>

\* Path arithmetic of the file system: a trailing slash names the same entry.
Normal(p) == IF p # <<>> /\ Last(p) = "" THEN Front(p) ELSE p
IsDir(p) == Normal(p) = <<>> \/ Normal(p) \in dirs
Exists(p) == IsDir(p) \/ Normal(p) \in files
Children(p) == {q \in dirs \cup files : Len(q) = Len(p) + 1 /\ IsPrefix(p, q)}
Below(p) == {q \in dirs \cup files : IsPrefix(p, q)}

\* safe_path() and check_deletable(): the mount point and the managed
\* directories are known by name, a trailing slash ignored.
safe_path(p) == p # NoFile /\ ".." \notin Range(p)
check_deletable(p) ==
    IF ~safe_path(p) THEN "kBadPath"
    ELSE IF Normal(p) = <<>> THEN "kMountRoot"
    ELSE IF Normal(p) \in Managed THEN "kManagedDir" ELSE "kAllowed"
Refused(p) == check_deletable(p) \in {"kBadPath", "kMountRoot"}

\* RinexLogger::status(), as any task may read it.
Active == IF log.active THEN log.cur ELSE NoFile

\* sd_delete::blocks_active_file() compares the strings it was given, so a
\* directory named with a trailing slash contains nothing.
blocks_active_file_NotInside(paths) == Active \in paths
blocks_active_file(paths) ==
    Active # NoFile /\ \E p \in paths : p = Active \/ IsStrictPrefix(p, Active)
selected_active_rinex_file_Never(paths) == FALSE
selected_active_rinex_file(paths) == Active \in paths
busy_Never == FALSE
busy == job.state = "kRunning"

\* preview_walk() and preview_delete_many(): the entries a delete would remove,
\* the shell of a managed directory left out, once for each path they are
\* below.  A preview stops at kPreviewWalkCap; the counts from there on are one.
preview_delete_WithShell(p) ==
    IF Exists(p) THEN {Normal(p)} \cup Below(Normal(p)) ELSE {}
KeepsShell(p) == IsDir(p) /\ check_deletable(p) = "kManagedDir"
preview_delete(p) ==
    IF Exists(p)
    THEN ({Normal(p)} \cup Below(Normal(p))) \ (IF KeepsShell(p) THEN {Normal(p)} ELSE {})
    ELSE {}
preview_delete_many(paths) ==
    LET n == Cardinality(UNION {{p} \X preview_delete(p) : p \in paths})
    IN IF n < WalkCap THEN n ELSE WalkCap

-----------------------------------------------------------------------------
NoResult == [deleted |-> 0, failed |-> 0, skipped |-> 0]
NoTask == [pc |-> "none", stack |-> <<>>, res |-> NoResult]
NoExport == [left |-> {}, last |-> 0, sent |-> {}, wanted |-> {}]
Quiet == [log |-> [active |-> FALSE, pc |-> "idle", file |-> NoFile, cur |-> NoFile,
                   open |-> 0, mem |-> {}, last |-> 0],
          job |-> [state |-> "kIdle", paths |-> {}, freed |-> FALSE,
                   done |-> 0, total |-> 0, result |-> NoResult]]

\* mount() and ensure_dirs(): a card that cannot be mounted stays unmounted
\* until the next start.
Booted(ok) ==
    /\ mounted' = ok
    /\ dirs' = IF ok THEN dirs \cup {d \in Managed : d \notin files} ELSE dirs

Init ==
    /\ mounted = TRUE /\ dirs = Managed \cup {<<"x">>}
    /\ files = {<<"x", "f">>} /\ card = [p \in {} |-> 0]
    /\ now = 1 /\ requests = [c \in Callers |-> 0] /\ losses = 0
    /\ log = Quiet.log /\ job = Quiet.job /\ exp = NoExport
    /\ task = [c \in Callers |-> NoTask]
    /\ at = [c \in Callers |-> "idle"]
    /\ req = [c \in Callers |-> {}]
    /\ ghost = [overlap |-> FALSE, still |-> TRUE, seen |-> [c \in Callers |-> NoFile],
                broken |-> FALSE, raced |-> FALSE, whole |-> TRUE,
                planted |-> FALSE]

\* The power goes and comes back: only the card is left, and the epoch that
\* was being written is past.
PowerLoss(ok) ==
    /\ losses < MaxLosses /\ losses' = losses + 1
    /\ Booted(ok)
    /\ log' = Quiet.log /\ job' = Quiet.job /\ exp' = NoExport
    /\ task' = [c \in Callers |-> NoTask]
    /\ at' = [c \in Callers |-> "idle"]
    /\ req' = [c \in Callers |-> {}]
    /\ ghost' = [ghost EXCEPT !.overlap = FALSE, !.raced = FALSE, !.seen = [c \in Callers |-> NoFile]]
    /\ now' = IF log.pc \in {"idle", "close"} THEN now ELSE now + 1
    /\ UNCHANGED <<files, card, requests>>

-----------------------------------------------------------------------------
(* RinexLogger, on the base station task                                   *)

LoggerUnchanged == UNCHANGED <<mounted, dirs, job, task, at, req, exp, requests, losses>>
Moved == ghost' = [ghost EXCEPT !.still = FALSE]

start ==
    /\ ~log.active /\ log.pc = "idle"
    /\ log' = [log EXCEPT !.active = TRUE, !.cur = NoFile]
    /\ UNCHANGED <<files, card, now, ghost>> /\ LoggerUnchanged

\* What fclose() or fsync() leaves on the card.  A file that was removed or
\* renamed while it was open is no longer reached by its handle.
Commit(f) ==
    card' = IF f \in files THEN [card EXCEPT ![f] = [data |-> log.mem, last |-> log.last]] ELSE card

\* process_message(): a message with an epoch of the 30-second grid closes
\* the file when its hour is over, opens one when there is none, and is
\* written.
feed == log.active /\ log.pc = "idle"
process_message == feed /\ now \in Epochs
rotate_if_needed == log.file # NoFile /\ now - log.open >= EpochsPerFile
Closing == (process_message /\ rotate_if_needed) \/ log.pc = "close"
Opening == (process_message /\ log.file = NoFile) \/ log.pc = "open"
Writing == (process_message /\ log.file # NoFile /\ ~rotate_if_needed) \/ log.pc = "write"

\* stop() clears active_ first, then closes the file.
stop ==
    /\ log.active /\ log.pc = "idle"
    /\ log' = [log EXCEPT !.active = FALSE, !.pc = IF log.file # NoFile THEN "close" ELSE "idle"]
    /\ UNCHANGED <<files, card, now, ghost>> /\ LoggerUnchanged

ClosedLog == [Quiet.log EXCEPT !.active = log.active, !.pc = IF log.active THEN "open" ELSE "idle"]
close_file ==
    /\ Closing
    /\ Commit(log.file)
    /\ log' = ClosedLog
    /\ UNCHANGED <<files, now, ghost>> /\ LoggerUnchanged

\* open_file(): fopen("w+") makes an empty file, or fails and the epoch is
\* lost; the name is published a step later.
CanOpen == mounted /\ <<"rawdata">> \in dirs /\ RinexPath(now) \notin dirs
open_file ==
    /\ Opening
    /\ \/ /\ CanOpen
          /\ files' = files \cup {RinexPath(now)}
          /\ card' = [p \in DOMAIN card \cup {RinexPath(now)} |->
                        IF p = RinexPath(now) THEN [data |-> {}, last |-> 0] ELSE card[p]]
          /\ log' = [log EXCEPT !.pc = "name", !.file = RinexPath(now), !.open = now]
          /\ Moved /\ now' = now
       \/ /\ ~CanOpen
          /\ log' = [log EXCEPT !.pc = "idle"]
          /\ now' = now + 1
          /\ UNCHANGED <<files, card, ghost>>
    /\ LoggerUnchanged

\* The header goes to the file's buffer, its own time as TIME OF LAST OBS.
write_header(l) == [l EXCEPT !.mem = {}, !.last = now]
publish_name ==
    /\ log.pc = "name"
    /\ log' = write_header([log EXCEPT !.pc = "write", !.cur = log.file])
    /\ UNCHANGED <<files, card, now, ghost>> /\ LoggerUnchanged

\* write_epoch(): an epoch without a satellite of a system in the header is
\* dropped.  The patched header may reach the card before the fsync() that
\* makes the epoch part of the file; epoch and header are on it afterwards.
DropEpoch ==
    /\ Writing
    /\ log' = [log EXCEPT !.pc = "idle"]
    /\ now' = now + 1
    /\ UNCHANGED <<files, card, ghost>> /\ LoggerUnchanged

PatchedTime_Placeholder == log.open
PatchedTime == now
write_epoch ==
    /\ Writing
    /\ log' = [log EXCEPT !.pc = "sync", !.mem = @ \cup {now}, !.last = PatchedTime]
    /\ card' \in IF log.file \in files
                 THEN {card, [card EXCEPT ![log.file].last = PatchedTime]} ELSE {card}
    /\ UNCHANGED <<files, now, ghost>> /\ LoggerUnchanged

sync_epoch ==
    /\ log.pc = "sync"
    /\ Commit(log.file)
    /\ log' = [log EXCEPT !.pc = "idle"]
    /\ now' = now + 1
    /\ UNCHANGED <<files, ghost>> /\ LoggerUnchanged

RinexLogger ==
    start \/ stop \/ close_file \/ open_file \/ publish_name
          \/ DropEpoch \/ write_epoch \/ sync_epoch

-----------------------------------------------------------------------------
(* sd_delete::start(), called by files_delete_batch_handler on the HTTPS    *)
(* task and by the delete dialog on the LVGL task                           *)

FsUnchanged == UNCHANGED <<mounted, dirs, files, card, now, log, exp, losses>>

\* The checks.  What status() said of the active file is remembered.
start_check(c, paths) ==
    /\ at[c] = "idle" /\ requests[c] < MaxRequests
    /\ mounted /\ ~busy /\ ~blocks_active_file(paths) /\ paths # {}
    /\ at' = [at EXCEPT ![c] = "checked"]
    /\ req' = [req EXCEPT ![c] = paths]
    /\ requests' = [requests EXCEPT ![c] = @ + 1]
    /\ ghost' = [ghost EXCEPT !.seen[c] = Active, !.overlap = \E d \in Callers : at[d] = "checked"]
    /\ UNCHANGED <<job, task>> /\ FsUnchanged

\* The claim: the path list is copied, the entries counted, the counters reset
\* and the task created, or not.  A task that is still reading the old list
\* reads freed strings from now on; what happens then is not modelled.
start_claim(c) ==
    /\ at[c] = "checked"
    /\ at' = [at EXCEPT ![c] = "idle"]
    /\ \E created \in BOOLEAN :
       /\ job' = [state |-> IF created THEN "kRunning" ELSE "kIdle", paths |-> req[c],
                  freed |-> \E d \in Callers : task[d] # NoTask,
                  done |-> 0, total |-> preview_delete_many(req[c]), result |-> NoResult]
       /\ task' = IF created THEN [task EXCEPT ![c] = [NoTask EXCEPT !.pc = "begin"]] ELSE task
       /\ req' = IF created THEN req ELSE [req EXCEPT ![c] = {}]
    /\ ghost' = [ghost EXCEPT !.still = TRUE]
    /\ UNCHANGED requests /\ FsUnchanged

-----------------------------------------------------------------------------
(* The delete task: SdManager::delete_paths() and remove_tree()            *)

TaskUnchanged == UNCHANGED <<mounted, now, log, at, exp, requests, losses>>

\* delete_paths() validates the whole list before it touches the card.
Frame(p, kids, keep) == [path |-> p, kids |-> kids, keep |-> keep]
delete_paths(c) ==
    /\ task[c].pc = "begin"
    /\ task' = [task EXCEPT ![c] =
            IF \E p \in job.paths : Refused(p)
            THEN [@ EXCEPT !.pc = "done", !.res.skipped = Cardinality(job.paths)]
            ELSE [@ EXCEPT !.pc = "walk", !.stack = <<Frame(NoFile, job.paths, FALSE)>>]]
    /\ UNCHANGED <<dirs, files, card, job, req, ghost>> /\ TaskUnchanged

Top(c) == Head(task[c].stack)
Kids(c) == IF task[c].stack = <<>> THEN {} ELSE Top(c).kids
Count(t, field, stack) == [t EXCEPT !.stack = stack, !.res[field] = @ + 1]
Counted(c, field, stack) == task' = [task EXCEPT ![c] = Count(@, field, stack)]
Progress == job' = [job EXCEPT !.done = @ + 1]

\* An entry is gone from the card.  The file the logger has open was removed
\* although the check knew it and every path was spelled plainly: that is
\* what the guard is for.
Removed(c, p) ==
    /\ files' = files \ {p} /\ dirs' = dirs \ {p}
    /\ card' = [q \in DOMAIN card \ {p} |-> card[q]]
    /\ ghost' = [ghost EXCEPT
            !.broken = @ \/ (/\ p = log.file /\ log.active /\ ghost.seen[c] = p
                             /\ \A r \in req[c] : r = Normal(r))]

\* remove_tree(), one entry: a missing one fails, a directory's names are
\* read before anything in it is removed, a file is removed or is not.
remove_entry(c, k) ==
    /\ task[c].pc = "walk"
    /\ LET p == Normal(k)
           rest == <<[Top(c) EXCEPT !.kids = @ \ {k}]>> \o Tail(task[c].stack) IN
       \/ /\ ~Exists(p)
          /\ Counted(c, "failed", rest)
          /\ UNCHANGED <<dirs, files, card, job, ghost>>
       \/ /\ IsDir(p)
          /\ task' = [task EXCEPT ![c].stack =
                <<Frame(p, Children(p), Len(rest) = 1 /\ check_deletable(k) = "kManagedDir")>>
                    \o rest]
          /\ UNCHANGED <<dirs, files, card, job, ghost>>
       \/ /\ p \in files \ Stuck
          /\ Counted(c, "deleted", rest) /\ Progress /\ Removed(c, p)
       \/ /\ p \in files \cap Stuck
          /\ Counted(c, "failed", rest)
          /\ UNCHANGED <<dirs, files, card, job, ghost>>
    /\ UNCHANGED req /\ TaskUnchanged

\* remove_tree(), at the end of a directory: its shell is kept or removed.
remove_shell(c) ==
    /\ task[c].pc = "walk" /\ Len(task[c].stack) > 1 /\ Top(c).kids = {}
    /\ \/ /\ Top(c).keep
          /\ Counted(c, "skipped", Tail(task[c].stack))
          /\ UNCHANGED <<dirs, files, card, job, ghost>>
       \/ /\ ~Top(c).keep /\ Top(c).path \in dirs /\ Children(Top(c).path) = {}
          /\ Counted(c, "deleted", Tail(task[c].stack)) /\ Progress /\ Removed(c, Top(c).path)
       \/ /\ ~Top(c).keep /\ ~(Top(c).path \in dirs /\ Children(Top(c).path) = {})
          /\ Counted(c, "failed", Tail(task[c].stack))
          /\ UNCHANGED <<dirs, files, card, job, ghost>>
    /\ UNCHANGED req /\ TaskUnchanged

\* delete_task(): the result, then the state, and the task ends.
DoneState(res) == IF res.failed > 0 THEN "kDoneFail" ELSE "kDoneOk"
delete_task(c) ==
    /\ \/ task[c].pc = "done"
       \/ task[c].pc = "walk" /\ Len(task[c].stack) = 1 /\ Top(c).kids = {}
    /\ job' = [job EXCEPT !.result = task[c].res, !.state = DoneState(task[c].res)]
    /\ task' = [task EXCEPT ![c] = NoTask]
    /\ req' = [req EXCEPT ![c] = {}]
    /\ ghost' = [ghost EXCEPT !.seen[c] = NoFile]
    /\ UNCHANGED <<dirs, files, card>> /\ TaskUnchanged

DeleteTask(c) ==
    \/ delete_paths(c) \/ remove_shell(c) \/ delete_task(c)
    \/ \E k \in Kids(c) : remove_entry(c, k)

-----------------------------------------------------------------------------
(* The other file handlers of the HTTPS task                               *)

Handler ==
    /\ at["web"] = "idle" /\ requests["web"] < MaxRequests
    /\ requests' = [requests EXCEPT !["web"] = @ + 1]
HandlerUnchanged == UNCHANGED <<mounted, now, log, job, task, at, req, exp, losses>>

\* files_delete_handler(): delete_entry() takes a file or an empty directory,
\* managed ones and the mount point excepted, and asks nobody about the
\* active file.
delete_entry(p) ==
    /\ Handler /\ mounted /\ check_deletable(p) = "kAllowed"
    /\ Normal(p) \in files \ Stuck \/ (Normal(p) \in dirs /\ Children(Normal(p)) = {})
    /\ files' = files \ {Normal(p)} /\ dirs' = dirs \ {Normal(p)}
    /\ card' = [q \in DOMAIN card \ {Normal(p)} |-> card[q]]
    /\ Moved /\ HandlerUnchanged

\* files_rename_handler(): any entry, the managed directories too.  A rename
\* that puts a file where RinexLogger keeps the file of an epoch is remembered.
rename_entry(from, to) ==
    /\ Handler /\ mounted /\ safe_path(from) /\ safe_path(to)
    /\ from \in dirs \cup files /\ ~Exists(to) /\ IsDir(Front(to)) /\ ~IsPrefix(from, to)
    /\ LET move(p) == IF IsPrefix(from, p) THEN to \o SubSeq(p, Len(from) + 1, Len(p)) ELSE p
       IN /\ files' = {move(p) : p \in files}
          /\ dirs' = {move(p) : p \in dirs}
          /\ card' = [q \in {move(p) : p \in DOMAIN card} |->
                        card[CHOOSE p \in DOMAIN card : move(p) = q]]
          /\ ghost' = [ghost EXCEPT !.still = FALSE,
                !.planted = @ \/ \E p \in files, t \in Epochs :
                                    move(p) # p /\ move(p) = RinexPath(t)]
    /\ HandlerUnchanged

files_mkdir(p) ==
    /\ Handler /\ mounted /\ safe_path(p)
    /\ p # <<>> /\ ~Exists(p) /\ IsDir(Front(p))
    /\ dirs' = dirs \cup {p}
    /\ UNCHANGED <<files, card>> /\ Moved /\ HandlerUnchanged

\* rinex_export_handler(): the files whose hour meets the range, to go out in
\* the order of their names; refused while one of them is being written.
ExportUnchanged == UNCHANGED <<mounted, dirs, files, card, now, log, job, task, req, losses>>
select_rinex_files(a, b) ==
    {t \in Epochs : t <= b /\ t + EpochsPerFile > a /\ RinexPath(t) \in files}

rinex_export(a, b) ==
    LET selected == select_rinex_files(a, b)
        paths == {RinexPath(t) : t \in selected} IN
    /\ Handler /\ paths # {} /\ ~selected_active_rinex_file(paths)
    /\ at' = [at EXCEPT !["web"] = "export"]
    /\ exp' = [NoExport EXCEPT !.left = selected]
    /\ ghost' = [ghost EXCEPT !.raced = log.pc = "name" /\ log.file \in paths]
    /\ ExportUnchanged

\* check_rinex_header() of every file; one bad header ends the request.
check_rinex_header(p) == p \in files /\ p \in DOMAIN card /\ card[p].data # {}
export_check ==
    /\ at["web"] = "export"
    /\ IF \A t \in exp.left : check_rinex_header(RinexPath(t))
       THEN /\ at' = [at EXCEPT !["web"] = "stream"]
            /\ exp' = [exp EXCEPT !.last = card[RinexPath(Max(exp.left))].last,
                    !.wanted = UNION {card[RinexPath(t)].data : t \in exp.left}]
       ELSE /\ at' = [at EXCEPT !["web"] = "idle"]
            /\ exp' = NoExport
    /\ UNCHANGED <<requests, ghost>> /\ ExportUnchanged

\* The first file goes out with the last file's TIME OF LAST OBS, the others
\* without their headers.  A file that is gone by now, or a client that is,
\* ends the stream.
export_file ==
    /\ at["web"] = "stream" /\ exp.left # {}
    /\ LET t == Min(exp.left) IN
       \/ /\ RinexPath(t) \in files
          /\ exp' = [exp EXCEPT !.left = @ \ {t}, !.sent = @ \cup card[RinexPath(t)].data]
          /\ UNCHANGED at
       \/ /\ exp' = NoExport
          /\ at' = [at EXCEPT !["web"] = "idle"]
    /\ UNCHANGED <<requests, ghost>> /\ ExportUnchanged

export_done ==
    /\ at["web"] = "stream" /\ exp.left = {}
    /\ exp' = NoExport
    /\ at' = [at EXCEPT !["web"] = "idle"]
    /\ ghost' = [ghost EXCEPT !.raced = FALSE,
            !.whole = @ /\ (\/ ghost.raced \/ ghost.planted
                           \/ /\ exp.wanted \subseteq exp.sent
                              /\ \A t \in exp.sent : t <= exp.last)]
    /\ UNCHANGED requests /\ ExportUnchanged

WebFiles ==
    \/ \E p \in Entries : delete_entry(p)
    \/ \E from \in Entries, to \in Targets : rename_entry(from, to)
    \/ \E p \in Targets : files_mkdir(p)
    \/ \E a \in Epochs : rinex_export(a, Len(Stamps))
    \/ export_check \/ export_file \/ export_done

StartDelete(c) ==
    \/ \E paths \in Lists[c] : start_check(c, paths)
    \/ start_claim(c)

Next ==
    /\ ~job.freed
    /\ \/ RinexLogger \/ WebFiles
       \/ \E c \in Callers : StartDelete(c) \/ DeleteTask(c)
       \/ \E ok \in BOOLEAN : PowerLoss(ok)

Spec == Init /\ [][Next]_vars

-----------------------------------------------------------------------------
\* Types; what is in memory is consistent with where each task stands.
TypeOK ==
    /\ mounted \in BOOLEAN /\ dirs \cap files = {}
    /\ \A p \in dirs \cup files : Front(p) = <<>> \/ Front(p) \in dirs
    /\ DOMAIN card \subseteq files /\ now \in 1..Len(Stamps) + 1
    /\ log.pc \in {"idle", "open", "name", "write", "sync", "close"}
    /\ log.pc \in {"name", "write", "sync", "close"} => log.file # NoFile
    /\ log.cur \in {NoFile, log.file}
    /\ job.state \in {"kIdle", "kRunning", "kDoneOk", "kDoneFail"}
    /\ at \in [Callers -> {"idle", "checked", "export", "stream"}]

\* sd_delete.hpp: "a delete can't run twice at once".  It can, with the list
\* of the first freed under it, but only when both callers had passed the
\* check of busy() before either of them claimed the job.
RunsOnceUnlessChecksOverlap ==
    job.freed \/ (\A c \in Callers : task[c] # NoTask) => ghost.overlap

\* delete_task() and start(): when a job is over, a list with a refused path
\* left the card alone, and a list of separate entries on a card nobody else
\* wrote to removed exactly what the preview promised, if nothing failed and
\* the preview was not cut short.
Separate(paths) == \A p, q \in paths : IsPrefix(Normal(p), Normal(q)) => p = q
ReportMatchesPreview ==
    job.state \in {"kDoneOk", "kDoneFail"} =>
        IF \E p \in job.paths : Refused(p)
        THEN job.result.deleted = 0 /\ job.state = "kDoneOk"
        ELSE /\ job.done = job.result.deleted
             /\ /\ ghost.still /\ Separate(job.paths)
                /\ job.result.failed = 0 /\ job.total < WalkCap
                => job.done = job.total

\* blocks_active_file(): a delete job removes the file the logger has open
\* only when the file was opened after the check, while it is being closed,
\* or when a path of the list ends in a slash.
ActiveFileGuarded == ~ghost.broken

\* write_epoch() and close_file(): whatever moment the power goes, a RINEX
\* file on the card never has a TIME OF LAST OBS before its last epoch.
HeaderCoversData ==
    \A p \in DOMAIN card : \A t \in card[p].data : t <= card[p].last

\* rinex_export_handler(): a complete export holds every epoch its files had
\* when they were checked and no epoch after its TIME OF LAST OBS, unless a
\* file was selected between its creation and the publication of its name, or
\* a rename had put another file in the place of one of the logger's.
ExportIsWhole == ghost.whole

\* start() and delete_task(): g_state says running only while there is a task
\* to end it, so no path leaves sd_delete busy for good.
BusyHasTask == busy => \E c \in Callers : task[c] # NoTask

\* start() and delete_task(): types, and who works on which job.
JobsConsistent == TypeOK /\ BusyHasTask /\ RunsOnceUnlessChecksOverlap
=============================================================================
