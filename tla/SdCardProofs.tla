----------------------------- MODULE SdCardProofs ------------------------------
(***************************************************************************)
(* Proofs about SdCard: for every number of epochs, requests and power     *)
(* losses, and every list of paths the callers may ask to delete, the      *)
(* header of a RINEX file covers its data, a delete job leaves the file    *)
(* that is being written alone and removes what its preview promised,      *)
(* there is one job at a time, and a complete export is whole, each with   *)
(* the exceptions its property names.                                      *)
(***************************************************************************)
EXTENDS SdCard, FiniteSetTheorems, WellFoundedInduction, TLAPS

\* The names in a path: strings, the ones the code spells out among them.
Names == STRING \cup {"", "rawdata", "logs", "x", "f"}
Paths == Seq(Names)

-----------------------------------------------------------------------------
(* The logger and its files.                                               *)

Logs == [active : BOOLEAN, pc : {"idle", "open", "name", "write", "sync", "close"},
         file : Paths, cur : Paths, open : Nat, mem : SUBSET Nat, last : Nat]
Contents == [data : SUBSET Nat, last : Nat]

LogTypes ==
    /\ mounted \in BOOLEAN /\ now \in 1..Len(Stamps) + 1 /\ log \in Logs
    /\ \A p \in DOMAIN card : card[p] \in Contents

\* Where the logger stands between two steps of process_message().
LogStands ==
    /\ log.pc \in {"open", "name", "write", "sync"} => now \in Epochs
    /\ log.pc \in {"name", "write", "sync", "close"} => log.file # NoFile
    /\ log.pc = "open" => log.file = NoFile
    /\ log.pc = "close" => ~log.active
    /\ log.cur \in {NoFile, log.file}

\* TIME OF LAST OBS covers what has been written, in memory and on the card,
\* and nothing is written before its time.
Covered ==
    /\ \A t \in log.mem : t <= log.last /\ t <= now
    /\ \A p \in DOMAIN card : \A t \in card[p].data : t <= card[p].last /\ t <= now

LogInv == LogTypes /\ LogStands /\ Covered

-----------------------------------------------------------------------------
(* The delete jobs.                                                        *)

Working(c) == task[c] # NoTask

Frames == [path : Paths, kids : SUBSET Paths, keep : BOOLEAN]

IsTask(t) ==
    /\ t = [pc |-> t.pc, stack |-> t.stack, res |-> t.res]
    /\ t.pc \in {"none", "begin", "walk", "done"} /\ t.stack \in Seq(Frames)

Ghosts == [overlap : BOOLEAN, still : BOOLEAN, seen : [Callers -> Paths],
           broken : BOOLEAN, raced : BOOLEAN, whole : BOOLEAN, planted : BOOLEAN]

JobTypes ==
    /\ job.state \in {"kIdle", "kRunning", "kDoneOk", "kDoneFail"}
    /\ job = [state |-> job.state, paths |-> job.paths, freed |-> job.freed,
              done |-> job.done, total |-> job.total, result |-> job.result]
    /\ at \in [Callers -> {"idle", "checked", "export", "stream"}]
    /\ req \in [Callers -> SUBSET Paths]
    /\ task = [c \in Callers |-> task[c]] /\ \A c \in Callers : IsTask(task[c])
    /\ ghost \in Ghosts

\* Two callers get past the check of busy() only together; the list of a job
\* that runs is the one its caller asked for.
OneJob ==
    /\ (\A c \in Callers : at[c] = "checked") => ghost.overlap
    /\ \A c, d \in Callers : at[c] = "checked" /\ Working(d) => ghost.overlap
    /\ job.freed => ghost.overlap
    /\ (\A c \in Callers : Working(c)) => job.freed
    /\ busy => \E c \in Callers : Working(c)
    /\ ~job.freed => \A c \in Callers : Working(c) => busy /\ job.paths = req[c]

\* What a task may still touch: the trees of the paths it was asked to delete.
Inside(paths, p) == \E r \in paths : IsPrefix(Normal(r), p)

StaysInside(paths, stack) ==
    \A i \in 1..Len(stack) :
        /\ \A k \in stack[i].kids : Inside(paths, Normal(k))
        /\ i < Len(stack) => Inside(paths, stack[i].path)

\* The check let none of the paths hold the file it was told of.
SparesSeen(c) == ghost.seen[c] # NoFile => \A r \in req[c] : ~IsPrefix(r, ghost.seen[c])

Guarded ==
    /\ ActiveFileGuarded
    /\ \A c \in Callers :
          /\ at[c] = "checked" => SparesSeen(c)
          /\ Working(c) /\ ~job.freed => SparesSeen(c) /\ StaysInside(req[c], task[c].stack)

JobInv == JobTypes /\ OneJob /\ Guarded

-----------------------------------------------------------------------------
(* The tree of the file system.                                            *)

Plain(p) == p \in Paths /\ "" \notin Range(p)

IsTree ==
    /\ \A p \in dirs \cup files : Plain(p)
    /\ \A p \in dirs \cup files : \A n \in 1..Len(p) - 1 : SubSeq(p, 1, n) \in dirs
    /\ dirs \cap files = {}
    /\ DOMAIN card \subseteq files

Inv == LogInv /\ JobInv /\ IsTree

-----------------------------------------------------------------------------
(* The actions.                                                            *)

Exporting ==
    \/ \E a \in Epochs : rinex_export(a, Len(Stamps))
    \/ export_check \/ export_file \/ export_done

LEMMA ByAction ==
  ASSUME Next
  PROVE  /\ ~job.freed
         /\ \/ start \/ stop \/ close_file \/ open_file \/ publish_name
            \/ DropEpoch \/ write_epoch \/ sync_epoch
            \/ (\E p \in Entries : delete_entry(p))
            \/ (\E from \in Entries, to \in Targets : rename_entry(from, to))
            \/ (\E p \in Targets : files_mkdir(p))
            \/ Exporting
            \/ (\E c \in Callers :
                  \/ (\E paths \in Lists[c] : start_check(c, paths))
                  \/ start_claim(c) \/ delete_paths(c) \/ remove_shell(c) \/ delete_task(c)
                  \/ \E k \in Kids(c) : remove_entry(c, k))
            \/ \E ok \in BOOLEAN : PowerLoss(ok)
  BY Zenon DEF Next, RinexLogger, WebFiles, StartDelete, DeleteTask, Exporting

\* The handlers and the delete task leave the logger alone, and what they
\* leave on the card was on it.
CardKept ==
    /\ UNCHANGED <<mounted, now, log>>
    /\ \A q \in DOMAIN card' : \E p \in DOMAIN card : card'[q] = card[p]

LEMMA KeptLog ==
  ASSUME LogInv, CardKept
  PROVE  LogInv'
  BY DEF LogInv, CardKept, LogTypes, LogStands, Covered

LEMMA RemovedCard ==
  ASSUME NEW c, NEW p, Removed(c, p) \/ UNCHANGED card
  PROVE  \A q \in DOMAIN card' : \E r \in DOMAIN card : card'[q] = card[r]
  BY DEF Removed

LEMMA OthersKeep ==
  ASSUME Next, ~RinexLogger, \A ok \in BOOLEAN : ~PowerLoss(ok)
  PROVE  CardKept
<1>1. ASSUME NEW p \in Entries, delete_entry(p) PROVE CardKept
  BY <1>1 DEF delete_entry, HandlerUnchanged, CardKept
<1>2. ASSUME NEW from \in Entries, NEW to \in Targets, rename_entry(from, to) PROVE CardKept
  <2> DEFINE move(p) == IF IsPrefix(from, p) THEN to \o SubSeq(p, Len(from) + 1, Len(p)) ELSE p
  <2>1. card' = [q \in {move(p) : p \in DOMAIN card} |-> card[CHOOSE p \in DOMAIN card : move(p) = q]]
    BY <1>2 DEF rename_entry
  <2> SUFFICES ASSUME NEW q \in DOMAIN card' PROVE \E p \in DOMAIN card : card'[q] = card[p]
    BY <1>2 DEF rename_entry, HandlerUnchanged, CardKept
  <2>2. \E p \in DOMAIN card : move(p) = q
    BY <2>1
  <2>3. (CHOOSE p \in DOMAIN card : move(p) = q) \in DOMAIN card
    BY <2>2
  <2> QED
    BY <2>1, <2>3
<1>3. ASSUME NEW p \in Targets, files_mkdir(p) PROVE CardKept
  BY <1>3 DEF files_mkdir, HandlerUnchanged, CardKept
<1>4. CASE Exporting
  BY <1>4 DEF Exporting, rinex_export, export_check, export_file, export_done, ExportUnchanged, CardKept
<1>5. ASSUME NEW c \in Callers,
             (\E paths \in Lists[c] : start_check(c, paths)) \/ start_claim(c)
      PROVE  CardKept
  BY <1>5 DEF start_check, start_claim, FsUnchanged, CardKept
<1>6. ASSUME NEW c \in Callers, delete_paths(c) \/ delete_task(c) PROVE CardKept
  BY <1>6 DEF delete_paths, delete_task, TaskUnchanged, CardKept
<1>7. ASSUME NEW c \in Callers, remove_shell(c) PROVE CardKept
  BY <1>7, RemovedCard DEF remove_shell, TaskUnchanged, CardKept
<1>8. ASSUME NEW c \in Callers, NEW k \in Kids(c), remove_entry(c, k) PROVE CardKept
  <2>1. Removed(c, Normal(k)) \/ UNCHANGED card
    BY <1>8 DEF remove_entry
  <2> QED
    BY <1>8, <2>1, RemovedCard DEF remove_entry, TaskUnchanged, CardKept
<1> QED
  BY <1>1, <1>2, <1>3, <1>4, <1>5, <1>6, <1>7, <1>8, ByAction, Zenon DEF RinexLogger

-----------------------------------------------------------------------------
(* The header of a file covers its data.                                   *)

LEMMA StampFacts ==
  /\ Len(Stamps) \in Nat /\ Epochs = 1..Len(Stamps)
  /\ NoFile \in Paths /\ <<>> \in Paths
  /\ \A t \in Epochs : RinexPath(t) \in Paths /\ RinexPath(t) # NoFile /\ Stamps[t] \in STRING
<1>1. Stamps \in Seq(STRING)
  BY SdAssumption
<1>2. ASSUME NEW S, NEW a \in S, NEW b \in S
      PROVE  <<>> \in Seq(S) /\ <<a>> \in Seq(S) /\ <<a, b>> \in Seq(S)
  OBVIOUS
<1>3. ASSUME NEW a, NEW b, NEW d PROVE <<a, b>> # <<d>>
  <2>1. Len(<<a, b>>) = 2 /\ Len(<<d>>) = 1
    OBVIOUS
  <2> QED
    BY <2>1
<1>4. Len(Stamps) \in Nat /\ Epochs = 1..Len(Stamps) /\ \A t \in 1..Len(Stamps) : Stamps[t] \in STRING
  BY <1>1 DEF Epochs
<1>5. "" \in Names /\ "rawdata" \in Names /\ \A t \in 1..Len(Stamps) : Stamps[t] \in Names
  BY <1>4 DEF Names
<1>6. ASSUME NEW t \in Epochs PROVE RinexPath(t) \in Paths /\ RinexPath(t) # NoFile
  <2>1. Stamps[t] \in Names
    BY <1>4, <1>5
  <2>2. <<"rawdata", Stamps[t]>> \in Seq(Names)
    BY <1>2, <1>5, <2>1
  <2>3. <<"rawdata", Stamps[t]>> # <<"">>
    BY <1>3
  <2> QED
    BY <2>2, <2>3 DEF RinexPath, Paths, NoFile
<1> QED
  BY <1>2, <1>4, <1>5, <1>6 DEF Paths, NoFile

\* What fclose() and fsync() leave on the card is covered.
LEMMA CommitCovers ==
  ASSUME LogInv, NEW f, Commit(f)
  PROVE  \A p \in DOMAIN card' :
            card'[p] \in Contents /\ \A t \in card'[p].data : t <= card'[p].last /\ t <= now
<1>1. [data |-> log.mem, last |-> log.last] \in Contents
  BY DEF LogInv, LogTypes, Logs, Contents
<1>2. \A p \in DOMAIN card' :
         p \in DOMAIN card /\ card'[p] \in {card[p], [data |-> log.mem, last |-> log.last]}
  BY DEF Commit
<1>3. /\ \A t \in log.mem : t <= log.last /\ t <= now
      /\ \A p \in DOMAIN card : card[p] \in Contents /\ \A t \in card[p].data : t <= card[p].last /\ t <= now
  BY DEF LogInv, LogTypes, Covered
<1> QED
  BY <1>1, <1>2, <1>3

LEMMA LogStep ==
  ASSUME LogInv, RinexLogger
  PROVE  LogInv'
<1> USE StampFacts
<1>0. /\ log \in Logs /\ now \in Nat /\ now >= 1 /\ now \in 1..Len(Stamps) + 1
      /\ mounted \in BOOLEAN
      /\ \A p \in DOMAIN card : card[p] \in Contents
      /\ \A t \in log.mem : t \in Nat /\ t <= log.last /\ t <= now
      /\ \A p \in DOMAIN card : \A t \in card[p].data : t \in Nat /\ t <= card[p].last /\ t <= now
  BY DEF LogInv, LogTypes, Covered, Logs, Contents
\* The next epoch.
<1>n. ASSUME now \in Epochs, now' = now + 1, log'.mem = log.mem, log'.last = log.last,
             \A p \in DOMAIN card' :
                 card'[p] \in Contents /\ \A t \in card'[p].data : t <= card'[p].last /\ t <= now
      PROVE  Covered' /\ now' \in 1..Len(Stamps) + 1
  <2>1. now' \in Nat /\ now' = now + 1 /\ now' \in 1..Len(Stamps) + 1
    BY <1>0, <1>n
  <2>2. ASSUME NEW t \in Nat, t <= now PROVE t <= now'
    BY <1>0, <2>1, <2>2
  <2>3. \A t \in log'.mem : t <= log'.last /\ t <= now'
    BY <1>0, <1>n, <2>2
  <2>4. \A p \in DOMAIN card' : \A t \in card'[p].data : t <= card'[p].last /\ t <= now'
    BY <1>n, <2>2 DEF Contents
  <2> QED
    BY <2>1, <2>3, <2>4 DEF Covered
<1>1. CASE start
  <2>1. PICK l : l = [log EXCEPT !.active = TRUE, !.cur = NoFile]
    OBVIOUS
  <2>2. /\ l \in Logs /\ l.active = TRUE /\ l.cur = NoFile /\ l.pc = log.pc /\ l.file = log.file
        /\ l.mem = log.mem /\ l.last = log.last
    BY <1>0, <2>1 DEF Logs
  <2>3. log' = l /\ UNCHANGED <<mounted, now, card>> /\ log.pc = "idle"
    BY <1>1, <2>1 DEF start, LoggerUnchanged
  <2> QED
    BY <1>0, <2>2, <2>3 DEF LogInv, LogTypes, LogStands, Covered
<1>2. CASE stop
  <2>1. PICK l : l = [log EXCEPT !.active = FALSE, !.pc = IF log.file # NoFile THEN "close" ELSE "idle"]
    OBVIOUS
  <2>2. /\ l \in Logs /\ l.active = FALSE /\ l.pc = (IF log.file # NoFile THEN "close" ELSE "idle")
        /\ l.file = log.file /\ l.cur = log.cur /\ l.mem = log.mem /\ l.last = log.last
    BY <1>0, <2>1 DEF Logs
  <2>3. log' = l /\ UNCHANGED <<mounted, now, card>>
    BY <1>2, <2>1 DEF stop, LoggerUnchanged
  <2> QED
    BY <1>0, <2>2, <2>3 DEF LogInv, LogTypes, LogStands, Covered
<1>3. CASE close_file
  <2>1. PICK l : l = ClosedLog
    OBVIOUS
  <2>2. /\ l \in Logs /\ l.active = log.active /\ l.pc = (IF log.active THEN "open" ELSE "idle")
        /\ l.file = NoFile /\ l.cur = NoFile /\ l.mem = {}
    BY <1>0, <2>1 DEF Logs, ClosedLog, Quiet
  <2>3. log' = l /\ UNCHANGED <<mounted, now>>
    BY <1>3, <2>1 DEF close_file, LoggerUnchanged
  <2>4. log.active => now \in Epochs
    BY <1>3 DEF close_file, Closing, process_message, LogInv, LogStands
  <2>5. \A p \in DOMAIN card' :
            card'[p] \in Contents /\ \A t \in card'[p].data : t <= card'[p].last /\ t <= now
    BY <1>3, CommitCovers DEF close_file
  <2> QED
    BY <1>0, <2>2, <2>3, <2>4, <2>5 DEF LogInv, LogTypes, LogStands, Covered
<1>4. CASE open_file
  <2>1. now \in Epochs /\ log.file = NoFile /\ log.cur = NoFile
    BY <1>4 DEF open_file, Opening, process_message, LogInv, LogStands
  <2>2. CASE CanOpen /\ now' = now
    <3>1. PICK l : l = [log EXCEPT !.pc = "name", !.file = RinexPath(now), !.open = now]
      OBVIOUS
    <3>2. /\ l \in Logs /\ l.pc = "name" /\ l.file = RinexPath(now) /\ l.cur = NoFile
          /\ l.mem = log.mem /\ l.last = log.last
      BY <1>0, <2>1, <3>1 DEF Logs
    <3>3. /\ log' = l /\ UNCHANGED <<mounted, now>>
          /\ \A p \in DOMAIN card' :
                card'[p] = [data |-> {}, last |-> 0] \/ (p \in DOMAIN card /\ card'[p] = card[p])
      BY <1>4, <2>2, <3>1 DEF open_file, LoggerUnchanged
    <3>4. [data |-> {}, last |-> 0] \in Contents /\ [data |-> {}, last |-> 0].data = {}
      BY DEF Contents
    <3>5. \A p \in DOMAIN card' :
            card'[p] \in Contents /\ \A t \in card'[p].data : t <= card'[p].last /\ t <= now
      BY <1>0, <3>3, <3>4
    <3> QED
      BY <1>0, <2>1, <3>2, <3>3, <3>5 DEF LogInv, LogTypes, LogStands, Covered
  <2>3. CASE ~CanOpen
    <3>1. PICK l : l = [log EXCEPT !.pc = "idle"]
      OBVIOUS
    <3>2. /\ l \in Logs /\ l.pc = "idle" /\ l.file = log.file /\ l.cur = log.cur
          /\ l.mem = log.mem /\ l.last = log.last
      BY <1>0, <3>1 DEF Logs
    <3>3. log' = l /\ UNCHANGED <<mounted, card>> /\ now' = now + 1
      BY <1>4, <2>3, <3>1 DEF open_file, LoggerUnchanged
    <3>4. Covered' /\ now' \in 1..Len(Stamps) + 1
      BY <1>0, <1>n, <2>1, <3>2, <3>3
    <3> QED
      BY <1>0, <2>1, <3>2, <3>3, <3>4 DEF LogInv, LogTypes, LogStands
  <2> QED
    BY <1>4, <2>2, <2>3 DEF open_file
<1>5. CASE publish_name
  <2>1. PICK l : l = write_header([log EXCEPT !.pc = "write", !.cur = log.file])
    OBVIOUS
  <2>2. /\ l \in Logs /\ l.pc = "write" /\ l.file = log.file /\ l.cur = log.file
        /\ l.mem = {} /\ l.last = now
    <3>1. PICK m : m = [log EXCEPT !.pc = "write", !.cur = log.file]
      OBVIOUS
    <3>2. m \in Logs /\ m.pc = "write" /\ m.file = log.file /\ m.cur = log.file
      BY <1>0, <3>1 DEF Logs
    <3> QED
      BY <1>0, <2>1, <3>1, <3>2 DEF Logs, write_header
  <2>3. log' = l /\ UNCHANGED <<mounted, now, card>> /\ log.pc = "name"
    BY <1>5, <2>1 DEF publish_name, LoggerUnchanged
  <2> QED
    BY <1>0, <2>2, <2>3 DEF LogInv, LogTypes, LogStands, Covered
<1>6. CASE DropEpoch
  <2>1. PICK l : l = [log EXCEPT !.pc = "idle"]
    OBVIOUS
  <2>2. /\ l \in Logs /\ l.pc = "idle" /\ l.file = log.file /\ l.cur = log.cur
        /\ l.mem = log.mem /\ l.last = log.last
    BY <1>0, <2>1 DEF Logs
  <2>3. /\ log' = l /\ UNCHANGED <<mounted, card>> /\ now' = now + 1
        /\ now \in Epochs
    BY <1>6, <2>1 DEF DropEpoch, LoggerUnchanged, Writing, process_message, LogInv, LogStands
  <2>4. Covered' /\ now' \in 1..Len(Stamps) + 1
    BY <1>0, <1>n, <2>2, <2>3
  <2> QED
    BY <1>0, <2>2, <2>3, <2>4 DEF LogInv, LogTypes, LogStands
<1>7. CASE write_epoch
  <2>1. PICK l : l = [log EXCEPT !.pc = "sync", !.mem = @ \cup {now}, !.last = now]
    OBVIOUS
  <2>2. /\ l \in Logs /\ l.pc = "sync" /\ l.file = log.file /\ l.cur = log.cur
        /\ l.mem = log.mem \cup {now} /\ l.last = now
    BY <1>0, <2>1 DEF Logs
  <2>3. /\ log' = l /\ UNCHANGED <<mounted, now>>
        /\ now \in Epochs /\ log.file # NoFile
    BY <1>7, <2>1
       DEF write_epoch, PatchedTime, LoggerUnchanged, Writing, process_message, LogInv, LogStands
  <2>4. \A p \in DOMAIN card' :
            card'[p] \in Contents /\ \A t \in card'[p].data : t <= card'[p].last /\ t <= now
    <3>1. card' = card \/ card' = [card EXCEPT ![log.file].last = now]
      BY <1>7 DEF write_epoch, PatchedTime
    <3>2. ASSUME NEW p \in DOMAIN card' PROVE
             p \in DOMAIN card /\ (card'[p] = card[p] \/ card'[p] = [card[p] EXCEPT !.last = now])
      BY <3>1
    <3>3. ASSUME NEW p \in DOMAIN card
          PROVE  LET c == [card[p] EXCEPT !.last = now] IN c \in Contents /\ c.data = card[p].data /\ c.last = now
      BY <1>0 DEF Contents
    <3> QED
      BY <1>0, <3>2, <3>3
  <2> QED
    BY <1>0, <2>2, <2>3, <2>4 DEF LogInv, LogTypes, LogStands, Covered
<1>8. CASE sync_epoch
  <2>1. PICK l : l = [log EXCEPT !.pc = "idle"]
    OBVIOUS
  <2>2. /\ l \in Logs /\ l.pc = "idle" /\ l.file = log.file /\ l.cur = log.cur
        /\ l.mem = log.mem /\ l.last = log.last
    BY <1>0, <2>1 DEF Logs
  <2>3. log' = l /\ UNCHANGED mounted /\ now' = now + 1 /\ now \in Epochs
    BY <1>8, <2>1 DEF sync_epoch, LoggerUnchanged, LogInv, LogStands
  <2>4. \A p \in DOMAIN card' :
            card'[p] \in Contents /\ \A t \in card'[p].data : t <= card'[p].last /\ t <= now
    BY <1>8, CommitCovers DEF sync_epoch
  <2>5. Covered' /\ now' \in 1..Len(Stamps) + 1
    BY <1>n, <2>2, <2>3, <2>4
  <2> QED
    BY <1>0, <2>2, <2>3, <2>4, <2>5 DEF LogInv, LogTypes, LogStands
<1> QED
  BY <1>1, <1>2, <1>3, <1>4, <1>5, <1>6, <1>7, <1>8 DEF RinexLogger

LEMMA PowerLog ==
  ASSUME LogInv, NEW ok \in BOOLEAN, PowerLoss(ok)
  PROVE  LogInv'
<1> USE StampFacts
<1>1. Quiet.log \in Logs /\ Quiet.log.pc = "idle" /\ Quiet.log.cur = NoFile /\ Quiet.log.mem = {}
  BY DEF Quiet, Logs
<1>2. log' = Quiet.log /\ mounted' = ok /\ card' = card
      /\ now' = IF log.pc \in {"idle", "close"} THEN now ELSE now + 1
  BY DEF PowerLoss, Booted
<1>3. now' \in 1..Len(Stamps) + 1 /\ now' >= now /\ now \in Nat
  BY <1>2 DEF LogInv, LogTypes, LogStands, Logs
<1>4. ASSUME NEW p \in DOMAIN card, NEW t \in card[p].data PROVE t <= card[p].last /\ t <= now'
  <2>1. t \in Nat /\ t <= card[p].last /\ t <= now
    BY DEF LogInv, LogTypes, Covered, Contents
  <2> QED
    BY <1>3, <2>1
<1> QED
  BY <1>1, <1>2, <1>3, <1>4 DEF LogInv, LogTypes, LogStands, Covered

-----------------------------------------------------------------------------
(* Paths.                                                                  *)

LEMMA StringPaths == Seq(STRING) \subseteq Paths
<1> SUFFICES ASSUME NEW s \in Seq(STRING) PROVE s \in Paths
  OBVIOUS
<1>1. Len(s) \in Nat /\ s \in [1..Len(s) -> STRING]
  OBVIOUS
<1>2. s \in [1..Len(s) -> Names]
  BY <1>1 DEF Names
<1> QED
  BY <1>1, <1>2 DEF Paths

LEMMA CallerPaths ==
  /\ \A c \in Callers : \A paths \in Lists[c] : paths \subseteq Seq(STRING)
  /\ Entries \subseteq Seq(STRING) /\ Targets \subseteq Seq(STRING)
  /\ \A p \in Targets : "" \notin Range(p)
<1> DEFINE S == Seq(STRING)
<1>1. /\ (UNION (Lists["web"] \cup Lists["ui"])) \cup Entries \cup Targets \subseteq S
      /\ \A p \in Targets : "" \notin Range(p)
  BY SdAssumption
<1> HIDE DEF S
<1>2. \A c \in Callers : \A paths \in Lists[c] : paths \subseteq S
  BY <1>1 DEF Callers
<1>3. Entries \subseteq S /\ Targets \subseteq S
  BY <1>1
<1> QED
  BY <1>1, <1>2, <1>3 DEF S

LEMMA SamePath ==
  ASSUME NEW s \in Paths, NEW t \in Paths, Len(s) = Len(t), \A i \in 1..Len(s) : s[i] = t[i]
  PROVE  s = t
  BY DEF Paths

LEMMA Start ==
  ASSUME NEW p \in Paths, NEW n \in 0..Len(p)
  PROVE  /\ SubSeq(p, 1, n) \in Paths /\ Len(SubSeq(p, 1, n)) = n
         /\ \A i \in 1..n : SubSeq(p, 1, n)[i] = p[i]
  BY DEF Paths

LEMMA PrefixAt ==
  ASSUME NEW s \in Paths, NEW t \in Paths
  PROVE  IsPrefix(s, t) <=> Len(s) <= Len(t) /\ \A i \in 1..Len(s) : s[i] = t[i]
<1>1. Len(s) \in Nat /\ Len(t) \in Nat
  BY DEF Paths
<1>2. SubSeq(s, 1, Len(s)) = s
  <2>1. Len(s) \in 0..Len(s)
    BY <1>1
  <2> QED
    BY <2>1, Start, SamePath
<1>3. ASSUME Len(s) <= Len(t) PROVE s = SubSeq(t, 1, Len(s)) <=> \A i \in 1..Len(s) : s[i] = t[i]
  <2> DEFINE u == SubSeq(t, 1, Len(s))
  <2>1. Len(s) \in 0..Len(t)
    BY <1>1, <1>3
  <2>2. u \in Paths /\ Len(u) = Len(s) /\ \A i \in 1..Len(s) : u[i] = t[i]
    BY <2>1, Start
  <2> HIDE DEF u
  <2>3. s = u <=> \A i \in 1..Len(s) : s[i] = t[i]
    BY <2>2, SamePath
  <2> QED
    BY <2>3 DEF u
<1> QED
  BY <1>2, <1>3 DEF IsPrefix

LEMMA PrefixFacts ==
  ASSUME NEW s \in Paths, NEW t \in Paths
  PROVE  /\ IsPrefix(s, s)
         /\ IsPrefix(s, t) /\ Len(s) = Len(t) => s = t
         /\ \A u \in Paths : IsPrefix(s, t) /\ IsPrefix(t, u) => IsPrefix(s, u)
         /\ \A n \in 0..Len(t) : IsPrefix(SubSeq(t, 1, n), t)
         /\ IsPrefix(s, t) => SubSeq(t, 1, Len(s)) = s
<1>1. Len(s) \in Nat /\ Len(t) \in Nat
  BY DEF Paths
<1>2. ASSUME NEW u \in Paths, IsPrefix(s, t), IsPrefix(t, u) PROVE IsPrefix(s, u)
  <2>1. Len(u) \in Nat
    BY DEF Paths
  <2>2. Len(s) <= Len(t) /\ Len(t) <= Len(u) /\ \A i \in 1..Len(s) : i \in 1..Len(t)
    BY <1>1, <1>2, <2>1, PrefixAt
  <2> QED
    BY <1>1, <1>2, <2>1, <2>2, PrefixAt
<1>3. ASSUME NEW n \in 0..Len(t) PROVE IsPrefix(SubSeq(t, 1, n), t)
  <2> DEFINE u == SubSeq(t, 1, n)
  <2>1. u \in Paths /\ Len(u) = n /\ \A i \in 1..n : u[i] = t[i]
    BY Start
  <2>2. n <= Len(t)
    BY <1>1
  <2> HIDE DEF u
  <2>3. IsPrefix(u, t)
    BY <2>1, <2>2, PrefixAt
  <2> QED
    BY <2>3 DEF u
<1>4. IsPrefix(s, s)
  BY <1>1, PrefixAt
<1>5. ASSUME IsPrefix(s, t) PROVE SubSeq(t, 1, Len(s)) = s
  <2> DEFINE u == SubSeq(t, 1, Len(s))
  <2>1. Len(s) \in 0..Len(t) /\ \A i \in 1..Len(s) : s[i] = t[i]
    BY <1>1, <1>5, PrefixAt
  <2>2. u \in Paths /\ Len(u) = Len(s) /\ \A i \in 1..Len(s) : u[i] = t[i]
    BY <2>1, Start
  <2> HIDE DEF u
  <2>3. u = s
    BY <2>1, <2>2, SamePath
  <2> QED
    BY <2>3 DEF u
<1>6. ASSUME IsPrefix(s, t), Len(s) = Len(t) PROVE s = t
  BY <1>6, PrefixAt, SamePath
<1> QED
  BY <1>2, <1>3, <1>4, <1>5, <1>6

LEMMA NormalFacts ==
  ASSUME NEW p \in Paths
  PROVE  /\ Normal(p) \in Paths
         /\ Plain(p) => Normal(p) = p
         /\ Normal(p) = p \/ (p # <<>> /\ Normal(p) = SubSeq(p, 1, Len(p) - 1))
<1>1. Len(p) \in Nat /\ DOMAIN p = 1..Len(p) /\ (p # <<>> => Len(p) >= 1 /\ Len(p) - 1 \in 0..Len(p))
  BY DEF Paths
<1>2. ASSUME Plain(p), p # <<>> PROVE p[Len(p)] # ""
  <2>1. Len(p) \in DOMAIN p
    BY <1>1, <1>2
  <2> QED
    BY <1>2, <2>1 DEF Plain, Range
<1> QED
  BY <1>1, <1>2, Start DEF Normal, Front, Last

\* An entry below a directory is in the tree of that directory.
LEMMA ChildFacts ==
  ASSUME IsTree, NEW p \in Paths, NEW q \in Children(p)
  PROVE  q \in Paths /\ IsPrefix(p, q) /\ Normal(q) = q
  BY NormalFacts DEF Children, IsTree, Plain

-----------------------------------------------------------------------------
(* The tree.                                                               *)

LEMMA QuietTree == ASSUME IsTree, UNCHANGED <<dirs, files>>, DOMAIN card' = DOMAIN card PROVE IsTree'
  BY DEF IsTree

Removes(p) ==
    /\ p \in dirs \cup files /\ (p \in files \/ Children(p) = {})
    /\ files' = files \ {p} /\ dirs' = dirs \ {p}
    /\ card' = [q \in DOMAIN card \ {p} |-> card[q]]

LEMMA RemoveTree ==
  ASSUME IsTree, NEW p, Removes(p)
  PROVE  IsTree'
<1>1. ASSUME NEW q \in dirs \cup files, NEW n \in 1..Len(q) - 1 PROVE SubSeq(q, 1, n) # p
  <2> SUFFICES ASSUME SubSeq(q, 1, n) = p PROVE FALSE
    OBVIOUS
  <2>1. q \in Paths /\ Len(q) \in Nat
    <3>1. q \in Paths
      BY DEF IsTree, Plain
    <3> QED
      BY <3>1 DEF Paths
  <2>2. n \in 0..Len(q) /\ n + 1 \in 0..Len(q) /\ n \in Nat
    BY <2>1
  <2>3. p \in dirs /\ p \notin files /\ p \in Paths /\ Len(p) = n /\ Children(p) = {}
    BY <2>1, <2>2, Start DEF IsTree, Removes
  <2> DEFINE r == SubSeq(q, 1, n + 1)
  <2>4. r \in Paths /\ Len(r) = n + 1 /\ \A i \in 1..n : r[i] = p[i]
    <3>1. \A i \in 1..n : i \in 1..n + 1
      BY <2>2
    <3> QED
      BY <2>1, <2>2, <3>1, Start
  <2>5. IsPrefix(p, r)
    <3> HIDE DEF r
    <3>1. Len(p) <= Len(r)
      BY <2>2, <2>3, <2>4
    <3> QED
      BY <2>3, <2>4, <3>1, PrefixAt
  <2>6. r \in dirs \cup files
    <3>1. CASE n + 1 \in 1..Len(q) - 1
      BY <3>1 DEF IsTree
    <3>2. CASE n + 1 = Len(q)
      <4>1. \A i \in 1..Len(q) : r[i] = q[i]
        BY <2>1, <2>2, <3>2, Start
      <4> HIDE DEF r
      <4>2. r = q
        BY <2>1, <2>4, <3>2, <4>1, SamePath
      <4> QED
        BY <4>2
    <3> QED
      BY <2>1, <2>2, <3>1, <3>2
  <2>7. r \in Children(p)
    BY <2>3, <2>4, <2>5, <2>6 DEF Children
  <2> QED
    BY <2>3, <2>7
<1> QED
  BY <1>1 DEF IsTree, Removes

\* A path is added whose parents are there.
Adds(p) ==
    /\ Plain(p) /\ p # <<>> /\ (Len(p) = 1 \/ SubSeq(p, 1, Len(p) - 1) \in dirs)
    /\ \/ /\ files' = files \cup {p} /\ dirs' = dirs /\ p \notin dirs
          /\ DOMAIN card' = DOMAIN card \cup {p}
       \/ /\ dirs' = dirs \cup {p} /\ files' = files /\ p \notin files
          /\ DOMAIN card' = DOMAIN card

LEMMA AddTree ==
  ASSUME IsTree, NEW p, Adds(p)
  PROVE  IsTree'
<1>1. p \in Paths /\ Len(p) \in Nat /\ Len(p) >= 1
  <2>1. p \in Seq(Names)
    BY DEF Adds, Plain, Paths
  <2> QED
    BY <2>1 DEF Adds, Paths
<1>2. ASSUME NEW n \in 1..Len(p) - 1 PROVE SubSeq(p, 1, n) \in dirs
  <2> DEFINE f == SubSeq(p, 1, Len(p) - 1)
  <2>1. /\ Len(p) - 1 \in 0..Len(p) /\ n \in 0..Len(p) /\ n \in 0..Len(p) - 1
        /\ Len(p) # 1 /\ n \in Nat
    <3> DEFINE m == Len(p)
    <3>1. m \in Nat /\ n \in 1..m - 1
      BY <1>1
    <3> HIDE DEF m
    <3>2. m - 1 \in 0..m /\ n \in 0..m /\ n \in 0..m - 1 /\ m # 1 /\ n \in Nat
      BY <3>1
    <3> QED
      BY <3>2 DEF m
  <2>2. f \in dirs /\ f \in Paths /\ Len(f) = Len(p) - 1 /\ \A i \in 1..Len(p) - 1 : f[i] = p[i]
    BY <1>1, <2>1, Start DEF Adds
  <2>3. \A i \in 1..n : i \in 1..Len(p) - 1
    BY <1>1
  <2>4. SubSeq(p, 1, n) = SubSeq(f, 1, n)
    BY <1>1, <2>1, <2>2, <2>3, Start, SamePath
  <2>5. CASE n = Len(p) - 1
    BY <2>2, <2>5
  <2>6. CASE n \in 1..Len(f) - 1
    BY <2>2, <2>4, <2>6 DEF IsTree
  <2> QED
    BY <1>1, <2>1, <2>2, <2>5, <2>6
<1> QED
  BY <1>2 DEF IsTree, Adds

\* files_rename_handler() moves an entry with everything below it.
NewPath(from, to, p) == IF IsPrefix(from, p) THEN to \o SubSeq(p, Len(from) + 1, Len(p)) ELSE p

LEMMA MovedAt ==
  ASSUME NEW from \in Paths, NEW to \in Paths, NEW p \in Paths, IsPrefix(from, p)
  PROVE  LET q == NewPath(from, to, p) IN
         /\ q \in Paths /\ Len(q) = Len(to) + Len(p) - Len(from)
         /\ \A i \in 1..Len(to) : q[i] = to[i]
         /\ \A i \in Len(from) + 1..Len(p) : q[i - Len(from) + Len(to)] = p[i]
<1> DEFINE r == SubSeq(p, Len(from) + 1, Len(p))
           q == to \o r
<1>1. Len(from) \in Nat /\ Len(to) \in Nat /\ Len(p) \in Nat /\ Len(from) <= Len(p)
  BY PrefixAt DEF Paths
<1>2. /\ r \in Paths /\ Len(r) = Len(p) - Len(from)
      /\ \A j \in 1..Len(r) : r[j] = p[j + Len(from)]
  BY <1>1 DEF Paths
<1> HIDE DEF r
<1>3. /\ q \in Paths /\ Len(q) = Len(to) + Len(r)
      /\ \A i \in 1..Len(to) : q[i] = to[i]
      /\ \A j \in 1..Len(r) : q[j + Len(to)] = r[j]
  <2>1. to \in Seq(Names) /\ r \in Seq(Names)
    BY <1>2 DEF Paths
  <2>2. q \in Seq(Names) /\ Len(q) = Len(to) + Len(r)
    BY <2>1
  <2>3. \A i \in 1..Len(to) + Len(r) : q[i] = IF i <= Len(to) THEN to[i] ELSE r[i - Len(to)]
    BY <2>1
  <2> HIDE DEF q
  <2>4. Len(r) \in Nat
    BY <2>1
  <2>5. ASSUME NEW j \in 1..Len(r) PROVE q[j + Len(to)] = r[j]
    <3>1. /\ j + Len(to) \in 1..Len(to) + Len(r) /\ ~(j + Len(to) <= Len(to))
          /\ (j + Len(to)) - Len(to) = j
      BY <1>1, <2>4
    <3> QED
      BY <2>3, <3>1
  <2>6. \A i \in 1..Len(to) : i \in 1..Len(to) + Len(r) /\ i <= Len(to)
    BY <1>1, <2>4
  <2> QED
    BY <2>2, <2>3, <2>5, <2>6 DEF Paths
<1> HIDE DEF q
<1>4. ASSUME NEW i \in Len(from) + 1..Len(p) PROVE q[i - Len(from) + Len(to)] = p[i]
  <2>1. i - Len(from) \in 1..Len(r) /\ (i - Len(from)) + Len(from) = i
    BY <1>1, <1>2
  <2>2. q[(i - Len(from)) + Len(to)] = r[i - Len(from)] /\ r[i - Len(from)] = p[(i - Len(from)) + Len(from)]
    BY <1>2, <1>3, <2>1
  <2> QED
    BY <2>1, <2>2
<1>5. NewPath(from, to, p) = q
  BY DEF NewPath, q, r
<1> QED
  BY <1>1, <1>2, <1>3, <1>4, <1>5

\* An entry that is moved is found below the new name, and comes from the old.
LEMMA MovedFacts ==
  ASSUME NEW from \in Paths, NEW to \in Paths, NEW p \in Paths, IsPrefix(from, p)
  PROVE  /\ IsPrefix(to, NewPath(from, to, p))
         /\ Plain(to) /\ Plain(p) => Plain(NewPath(from, to, p))
         /\ \A k \in Len(from)..Len(p) :
               /\ IsPrefix(from, SubSeq(p, 1, k))
               /\ NewPath(from, to, SubSeq(p, 1, k))
                    = SubSeq(NewPath(from, to, p), 1, k - Len(from) + Len(to))
<1> DEFINE q == NewPath(from, to, p)
<1>1. Len(from) \in Nat /\ Len(to) \in Nat /\ Len(p) \in Nat /\ Len(from) <= Len(p)
      /\ \A i \in 1..Len(from) : from[i] = p[i]
  BY PrefixAt DEF Paths
<1>2. /\ q \in Paths /\ Len(q) = Len(to) + Len(p) - Len(from)
      /\ \A i \in 1..Len(to) : q[i] = to[i]
      /\ \A i \in Len(from) + 1..Len(p) : q[i - Len(from) + Len(to)] = p[i]
  BY MovedAt
<1> HIDE DEF q
<1>3. IsPrefix(to, q)
  BY <1>1, <1>2, PrefixAt
<1>4. ASSUME Plain(to), Plain(p) PROVE Plain(q)
  <2>1. DOMAIN q = 1..Len(q) /\ DOMAIN to = 1..Len(to) /\ DOMAIN p = 1..Len(p)
    BY <1>2 DEF Paths
  <2>2. ASSUME NEW i \in 1..Len(q) PROVE q[i] # ""
    <3>1. CASE i \in 1..Len(to)
      BY <1>2, <1>4, <2>1, <3>1 DEF Plain, Range
    <3>2. CASE i \notin 1..Len(to)
      <4>1. /\ i - Len(to) + Len(from) \in Len(from) + 1..Len(p)
            /\ (i - Len(to) + Len(from)) - Len(from) + Len(to) = i
            /\ i - Len(to) + Len(from) \in 1..Len(p)
        BY <1>1, <1>2, <3>2
      <4>2. q[i] = p[i - Len(to) + Len(from)]
        BY <1>2, <4>1
      <4> QED
        BY <1>4, <2>1, <4>1, <4>2 DEF Plain, Range
    <3> QED
      BY <3>1, <3>2
  <2> QED
    BY <1>2, <2>1, <2>2 DEF Plain, Range
<1>5. ASSUME NEW k \in Len(from)..Len(p)
      PROVE  /\ IsPrefix(from, SubSeq(p, 1, k))
             /\ NewPath(from, to, SubSeq(p, 1, k)) = SubSeq(q, 1, k - Len(from) + Len(to))
  <2> DEFINE s == SubSeq(p, 1, k)
             n == k - Len(from) + Len(to)
             u == SubSeq(q, 1, n)
             v == NewPath(from, to, s)
  <2>1. k \in 0..Len(p) /\ k \in Nat /\ n \in 0..Len(q) /\ n \in Nat /\ Len(from) <= k
        /\ k <= Len(p) /\ n = k - Len(from) + Len(to)
    BY <1>1, <1>2
  <2>2. s \in Paths /\ Len(s) = k /\ \A i \in 1..k : s[i] = p[i]
    BY <2>1, Start
  <2>3. u \in Paths /\ Len(u) = n /\ \A i \in 1..n : u[i] = q[i]
    BY <1>2, <2>1, Start
  <2> HIDE DEF s, u, n
  <2>4. IsPrefix(from, s)
    <3>1. \A i \in 1..Len(from) : i \in 1..k
      BY <1>1, <2>1
    <3> QED
      BY <1>1, <2>1, <2>2, <3>1, PrefixAt
  <2>5. /\ v \in Paths /\ Len(v) = Len(to) + Len(s) - Len(from)
        /\ \A i \in 1..Len(to) : v[i] = to[i]
        /\ \A i \in Len(from) + 1..Len(s) : v[i - Len(from) + Len(to)] = s[i]
    BY <2>2, <2>4, MovedAt
  <2> HIDE DEF v
  <2>6. Len(v) = n
    BY <1>1, <2>1, <2>2, <2>5
  <2>7. ASSUME NEW i \in 1..n PROVE v[i] = u[i]
    <3>1. CASE i \in 1..Len(to)
      BY <1>2, <2>3, <2>5, <2>7, <3>1
    <3>2. CASE i \notin 1..Len(to)
      <4> DEFINE j == i - Len(to) + Len(from)
      <4>1. j \in Len(from) + 1..k /\ j \in Len(from) + 1..Len(p) /\ j \in 1..k /\ j - Len(from) + Len(to) = i
        BY <1>1, <2>1, <2>7, <3>2
      <4> HIDE DEF j
      <4>2. v[i] = s[j] /\ s[j] = p[j] /\ q[i] = p[j]
        BY <1>2, <2>2, <2>5, <4>1
      <4> QED
        BY <2>3, <2>7, <4>2
    <3> QED
      BY <3>1, <3>2
  <2>8. v = u
    BY <2>3, <2>5, <2>6, <2>7, SamePath
  <2> QED
    BY <2>4, <2>8 DEF s, u, v, n
<1> QED
  BY <1>3, <1>4, <1>5 DEF q

\* A name that mkdir and rename may give to a new entry: its parents are there.
LEMMA NewName ==
  ASSUME IsTree, NEW to \in Targets, ~Exists(to), IsDir(Front(to))
  PROVE  /\ to \in Paths /\ Plain(to) /\ to # <<>> /\ to \notin dirs \cup files
         /\ Len(to) = 1 \/ SubSeq(to, 1, Len(to) - 1) \in dirs
         /\ Len(to) \in Nat /\ Len(to) >= 1
<1>1. to \in Seq(STRING) /\ "" \notin Range(to)
  BY CallerPaths
<1>2. to \in Paths /\ Plain(to)
  BY <1>1, StringPaths DEF Plain
<1>3. Normal(<<>>) = <<>> /\ Normal(to) = to
  BY <1>2, NormalFacts DEF Normal
<1>4. ~Exists(to) /\ IsDir(Front(to))
  OBVIOUS
<1>5. to # <<>> /\ to \notin dirs \cup files
  BY <1>3, <1>4 DEF Exists, IsDir
<1>6. Len(to) \in Nat /\ Len(to) >= 1
  <2>1. to \in Seq(Names)
    BY <1>2 DEF Paths
  <2> QED
    BY <1>5, <2>1
<1>7. Len(to) - 1 \in 0..Len(to)
  BY <1>6
<1> DEFINE f == SubSeq(to, 1, Len(to) - 1)
<1>8. f \in Paths /\ Len(f) = Len(to) - 1 /\ \A i \in 1..Len(f) : f[i] = to[i]
  BY <1>2, <1>7, Start
<1>9. f = <<>> \/ f \in dirs
  <2>1. Plain(f)
    <3>1. DOMAIN f = 1..Len(f) /\ DOMAIN to = 1..Len(to) /\ \A i \in 1..Len(f) : i \in 1..Len(to)
      BY <1>2, <1>6, <1>8 DEF Paths
    <3> QED
      BY <1>1, <1>8, <3>1 DEF Plain, Range
  <2> QED
    BY <1>4, <1>8, <2>1, NormalFacts DEF IsDir, Front
<1> HIDE DEF f
<1>10. f = <<>> => Len(to) = 1
  BY <1>6, <1>8
<1> QED
  BY <1>2, <1>5, <1>6, <1>9, <1>10 DEF f

LEMMA RenameTree ==
  ASSUME IsTree, NEW from \in Paths, NEW to \in Targets, rename_entry(from, to)
  PROVE  IsTree'
<1> DEFINE move(p) == NewPath(from, to, p)
           entries == dirs \cup files
<1>1. /\ to \in Paths /\ Plain(to) /\ to # <<>> /\ to \notin entries
      /\ Len(to) = 1 \/ SubSeq(to, 1, Len(to) - 1) \in dirs
      /\ Len(to) \in Nat /\ Len(to) >= 1
  BY NewName DEF rename_entry
<1>2. /\ files' = {move(p) : p \in files} /\ dirs' = {move(p) : p \in dirs}
      /\ DOMAIN card' = {move(p) : p \in DOMAIN card}
      /\ ~IsPrefix(from, to) /\ from \in entries
  BY DEF rename_entry, NewPath
<1>3. \A p \in entries : p \in Paths /\ Plain(p) /\ Len(p) \in Nat
  <2>1. \A p \in entries : p \in Paths /\ Plain(p)
    BY DEF IsTree, Plain
  <2> QED
    BY <2>1 DEF Paths
<1>4. Len(from) \in Nat /\ Len(from) >= 1
  <2>1. Len(from) \in Nat
    BY DEF Paths
  <2>2. Len(from) # 0
    BY <1>1, <1>2, PrefixAt
  <2> QED
    BY <2>1, <2>2
<1> HIDE DEF move
<1>5. \A p \in entries : Plain(move(p))
  BY <1>1, <1>3, MovedFacts DEF move, NewPath
\* A directory that does not move stays where it is.
<1>6. \A r \in dirs : ~IsPrefix(from, r) => r \in dirs'
  BY <1>2 DEF move, NewPath
\* The parents of an entry are there.
<1>7. ASSUME NEW p \in entries, NEW n \in 1..Len(move(p)) - 1
      PROVE  SubSeq(move(p), 1, n) \in dirs'
  <2>1. CASE ~IsPrefix(from, p)
    <3> DEFINE r == SubSeq(p, 1, n)
    <3>1. move(p) = p
      BY <2>1 DEF move, NewPath
    <3>2. n \in 1..Len(p) - 1 /\ n \in 0..Len(p)
      BY <1>3, <1>7, <3>1
    <3>3. r \in dirs /\ r \in Paths
      BY <1>3, <3>2, Start DEF IsTree
    <3>4. IsPrefix(r, p)
      BY <1>3, <3>2, PrefixFacts
    <3>5. ~IsPrefix(from, r)
      BY <1>3, <2>1, <3>3, <3>4, PrefixFacts
    <3> QED
      BY <1>6, <3>1, <3>3, <3>5
  <2>2. CASE IsPrefix(from, p)
    <3> DEFINE q == move(p)
               r == SubSeq(q, 1, n)
    <3>1. /\ q \in Paths /\ Len(q) = Len(to) + Len(p) - Len(from)
          /\ \A i \in 1..Len(to) : q[i] = to[i]
      BY <1>1, <1>3, <2>2, MovedAt DEF move
    <3>2. Len(p) \in Nat /\ Len(from) <= Len(p)
      BY <1>3, <2>2, PrefixAt
    <3>3. n \in Nat /\ n >= 1 /\ n \in 0..Len(q) /\ n <= Len(q) - 1
      BY <1>1, <1>4, <1>7, <3>1, <3>2
    <3>4. r \in Paths /\ Len(r) = n /\ \A i \in 1..n : r[i] = q[i]
      BY <3>1, <3>3, Start
    <3>5. CASE n < Len(to)
      <4> DEFINE f == SubSeq(to, 1, Len(to) - 1)
      <4>1. Len(to) - 1 \in 0..Len(to) /\ n \in 0..Len(to) - 1 /\ Len(to) # 1
        <5> DEFINE m == Len(to)
        <5>1. m \in Nat /\ n \in Nat /\ n >= 1 /\ n < m
          BY <1>1, <3>3, <3>5
        <5> HIDE DEF m
        <5>2. m - 1 \in 0..m /\ n \in 0..m - 1 /\ m # 1
          BY <5>1
        <5> QED
          BY <5>2 DEF m
      <4>2. f \in dirs /\ f \in Paths /\ Len(f) = Len(to) - 1 /\ \A i \in 1..Len(f) : f[i] = to[i]
        BY <1>1, <4>1, Start
      <4> HIDE DEF f
      <4>3. \A i \in 1..n : r[i] = f[i]
        <5>1. \A i \in 1..n : i \in 1..Len(to) /\ i \in 1..Len(f)
          BY <1>1, <3>3, <3>5, <4>2
        <5> QED
          BY <3>1, <3>4, <4>2, <5>1
      <4>4. r = SubSeq(f, 1, n)
        <5>1. n \in 0..Len(f)
          BY <4>1, <4>2
        <5> DEFINE g == SubSeq(f, 1, n)
        <5>2. g \in Paths /\ Len(g) = n /\ \A i \in 1..n : g[i] = f[i]
          BY <4>2, <5>1, Start
        <5> HIDE DEF g, r
        <5>3. r = g
          BY <3>4, <4>3, <5>2, SamePath
        <5> QED
          BY <5>3 DEF g
      <4>5. r \in dirs
        <5>1. CASE n = Len(f)
          BY <3>4, <4>2, <4>3, <5>1, SamePath
        <5>2. CASE n \in 1..Len(f) - 1
          BY <4>2, <4>4, <5>2 DEF IsTree
        <5> QED
          BY <1>1, <3>3, <4>1, <4>2, <5>1, <5>2
      <4>6. IsPrefix(r, to)
        <5>1. n <= Len(to) /\ \A i \in 1..n : i \in 1..Len(to)
          BY <1>1, <3>3, <3>5
        <5> HIDE DEF r
        <5> QED
          BY <1>1, <3>1, <3>4, <5>1, PrefixAt
      <4>7. ~IsPrefix(from, r)
        BY <1>1, <1>2, <3>4, <4>6, PrefixFacts
      <4> QED
        BY <1>6, <4>5, <4>7
    <3>6. CASE n >= Len(to)
      <4> DEFINE k == n - Len(to) + Len(from)
                 s == SubSeq(p, 1, k)
      <4>1. k \in Len(from)..Len(p) /\ k \in 1..Len(p) - 1 /\ k - Len(from) + Len(to) = n
        BY <1>1, <1>4, <3>1, <3>2, <3>3, <3>6
      <4> HIDE DEF k
      <4>2. move(s) = r
        BY <1>1, <1>3, <2>2, <4>1, MovedFacts DEF move
      <4>3. s \in dirs
        BY <4>1 DEF IsTree
      <4> QED
        BY <1>2, <4>2, <4>3
    <3> QED
      BY <1>1, <3>3, <3>5, <3>6
  <2> QED
    BY <2>1, <2>2
\* Nothing has the new name, so that no two entries get one name.
<1>8. \A q \in entries : ~IsPrefix(to, q)
  <2> SUFFICES ASSUME NEW q \in entries, IsPrefix(to, q) PROVE FALSE
    OBVIOUS
  <2>1. SubSeq(q, 1, Len(to)) = to /\ Len(to) <= Len(q)
    BY <1>1, <1>3, PrefixFacts, PrefixAt
  <2>2. CASE Len(to) = Len(q)
    BY <1>1, <1>3, <2>2, PrefixFacts
  <2>3. CASE Len(to) \in 1..Len(q) - 1
    BY <1>1, <2>1, <2>3 DEF IsTree
  <2> QED
    BY <1>1, <1>3, <2>1, <2>2, <2>3
<1>9. ASSUME NEW p \in entries, NEW q \in entries, move(p) = move(q) PROVE p = q
  <2>1. ASSUME NEW u \in entries, IsPrefix(from, u) PROVE IsPrefix(to, move(u))
    BY <1>1, <1>3, <2>1, MovedFacts DEF move
  <2>2. ASSUME NEW u \in entries, ~IsPrefix(from, u) PROVE move(u) = u
    BY <2>2 DEF move, NewPath
  <2>3. IsPrefix(from, p) <=> IsPrefix(from, q)
    BY <1>8, <1>9, <2>1, <2>2
  <2>4. CASE ~IsPrefix(from, p)
    BY <1>9, <2>2, <2>3, <2>4
  <2>5. CASE IsPrefix(from, p)
    <3> DEFINE m == move(p)
    <3>1. /\ Len(m) = Len(to) + Len(p) - Len(from) /\ Len(m) = Len(to) + Len(q) - Len(from)
          /\ \A i \in Len(from) + 1..Len(p) : m[i - Len(from) + Len(to)] = p[i]
          /\ \A i \in Len(from) + 1..Len(q) : m[i - Len(from) + Len(to)] = q[i]
      <4>1. /\ Len(move(p)) = Len(to) + Len(p) - Len(from)
            /\ \A i \in Len(from) + 1..Len(p) : move(p)[i - Len(from) + Len(to)] = p[i]
        BY <1>1, <1>3, <2>5, MovedAt DEF move
      <4>2. /\ Len(move(q)) = Len(to) + Len(q) - Len(from)
            /\ \A i \in Len(from) + 1..Len(q) : move(q)[i - Len(from) + Len(to)] = q[i]
        BY <1>1, <1>3, <2>3, <2>5, MovedAt DEF move
      <4> QED
        BY <1>9, <4>1, <4>2
    <3>2. Len(p) = Len(q) /\ Len(p) \in Nat
      BY <1>1, <1>3, <1>4, <3>1
    <3>3. \A i \in 1..Len(from) : p[i] = from[i] /\ q[i] = from[i]
      BY <1>3, <2>3, <2>5, PrefixAt
    <3>4. ASSUME NEW i \in 1..Len(p) PROVE p[i] = q[i]
      <4>1. CASE i \in 1..Len(from)
        BY <3>3, <4>1
      <4>2. CASE i \in Len(from) + 1..Len(p)
        BY <3>1, <3>2, <4>2
      <4> QED
        BY <1>4, <3>2, <4>1, <4>2
    <3> QED
      BY <1>3, <3>2, <3>4, SamePath
  <2> QED
    BY <2>4, <2>5
<1>10. dirs' \cap files' = {}
  BY <1>2, <1>9 DEF IsTree
<1>11. DOMAIN card' \subseteq files'
  BY <1>2 DEF IsTree
<1> QED
  BY <1>2, <1>5, <1>7, <1>10, <1>11 DEF IsTree

LEMMA TupleFacts ==
  ASSUME NEW S, NEW a \in S, NEW b \in S
  PROVE  /\ <<a>> \in Seq(S) /\ Len(<<a>>) = 1 /\ <<a>>[1] = a
         /\ <<a, b>> \in Seq(S) /\ Len(<<a, b>>) = 2 /\ <<a, b>>[1] = a /\ <<a, b>>[2] = b
  OBVIOUS

LEMMA PlainAt ==
  ASSUME NEW p \in Paths
  PROVE  Plain(p) <=> \A i \in 1..Len(p) : p[i] # ""
<1>1. DOMAIN p = 1..Len(p)
  BY DEF Paths
<1> QED
  BY <1>1 DEF Plain, Range

LEMMA NoFileFacts == ~Plain(NoFile)
<1>1. "" \in Names /\ 1 \in 1..1
  BY DEF Names
<1>2. Len(NoFile) = 1 /\ NoFile[1] = ""
  BY <1>1, TupleFacts DEF NoFile
<1> QED
  BY <1>1, <1>2, StampFacts, PlainAt

LEMMA LogTree ==
  ASSUME LogInv, IsTree, RinexLogger
  PROVE  IsTree'
<1>1. CASE open_file
  <2>1. now \in Epochs
    BY <1>1 DEF open_file, Opening, process_message, LogInv, LogStands
  <2>2. CASE ~CanOpen
    BY <1>1, <2>2, QuietTree DEF open_file, LoggerUnchanged, CanOpen
  <2>3. CASE CanOpen
    <3> DEFINE p == RinexPath(now)
    <3>1. Stamps[now] # "" /\ Stamps[now] \in Names /\ "rawdata" \in Names
      <4>1. Stamps[now] \in Range(Stamps)
        BY <2>1 DEF Epochs, Range
      <4>2. Stamps[now] # ""
        BY <4>1, SdAssumption
      <4> QED
        BY <2>1, <4>2, StampFacts DEF Names
    <3>2. p \in Paths /\ Len(p) = 2 /\ p[1] = "rawdata" /\ p[2] = Stamps[now]
      BY <3>1, TupleFacts DEF Paths, RinexPath
    <3> HIDE DEF p
    <3>3. Plain(p) /\ p # <<>>
      <4>1. \A i \in 1..Len(p) : i = 1 \/ i = 2
        BY <3>2
      <4>2. \A i \in 1..Len(p) : p[i] # ""
        BY <3>1, <3>2, <4>1
      <4>3. p # <<>>
        <5>1. Len(<<>>) = 0
          OBVIOUS
        <5> QED
          BY <3>2, <5>1
      <4> QED
        BY <3>2, <4>2, <4>3, PlainAt
    <3>4. SubSeq(p, 1, 1) = <<"rawdata">>
      <4> DEFINE u == SubSeq(p, 1, 1)
                 v == <<"rawdata">>
      <4>1. u \in Paths /\ Len(u) = 1 /\ u[1] = "rawdata"
        <5>1. 1 \in 0..Len(p) /\ 1 \in 1..1
          BY <3>2
        <5> QED
          BY <3>2, <5>1, Start
      <4>3. v \in Paths /\ Len(v) = 1 /\ v[1] = "rawdata"
        BY <3>1, TupleFacts DEF Paths
      <4> HIDE DEF u, v
      <4>4. u = v
        BY <4>1, <4>3, SamePath
      <4> QED
        BY <4>4 DEF u, v
    <3>5. Adds(p)
      <4>1. files' = files \cup {p} /\ dirs' = dirs /\ DOMAIN card' = DOMAIN card \cup {p}
        BY <1>1, <2>3 DEF open_file, LoggerUnchanged, p
      <4>2. Len(p) - 1 = 1
        BY <3>2
      <4>3. SubSeq(p, 1, Len(p) - 1) \in dirs
        BY <2>3, <3>4, <4>2 DEF CanOpen
      <4>4. p \notin dirs
        BY <2>3 DEF CanOpen, p
      <4> QED
        BY <3>3, <4>1, <4>3, <4>4 DEF Adds
    <3> QED
      BY <3>5, AddTree
  <2> QED
    BY <2>2, <2>3
<1>2. CASE start \/ stop \/ publish_name \/ DropEpoch
  BY <1>2, QuietTree DEF start, stop, publish_name, DropEpoch, LoggerUnchanged
<1>3. CASE close_file \/ sync_epoch \/ write_epoch
  <2>1. DOMAIN card' = DOMAIN card
    BY <1>3 DEF close_file, sync_epoch, write_epoch, Commit
  <2> QED
    BY <1>3, <2>1, QuietTree DEF close_file, sync_epoch, write_epoch, LoggerUnchanged
<1> QED
  BY <1>1, <1>2, <1>3 DEF RinexLogger

LEMMA PowerTree ==
  ASSUME IsTree, NEW ok \in BOOLEAN, PowerLoss(ok)
  PROVE  IsTree'
<1> DEFINE New == {d \in Managed : d \notin files}
<1>1. UNCHANGED <<files, card>> /\ dirs' \in {dirs, dirs \cup New}
  BY DEF PowerLoss, Booted
<1>2. ASSUME NEW d \in Managed PROVE Plain(d) /\ Len(d) = 1
  <2>1. PICK name \in {"logs", "rawdata"} : d = <<name>>
    BY DEF Managed
  <2>2. name \in Names /\ name # ""
    BY <2>1 DEF Names
  <2>3. d \in Paths /\ Len(d) = 1 /\ d[1] = name
    BY <2>1, <2>2, TupleFacts DEF Paths
  <2>4. \A i \in 1..Len(d) : i = 1
    BY <2>3
  <2> QED
    BY <2>2, <2>3, <2>4, PlainAt
<1>3. ASSUME NEW d \in New, NEW n \in 1..Len(d) - 1 PROVE FALSE
  <2>1. Len(d) = 1
    BY <1>2, <1>3
  <2> QED
    BY <1>3, <2>1
<1> QED
  BY <1>1, <1>2, <1>3 DEF IsTree

LEMMA TreeStep ==
  ASSUME LogInv, IsTree, Next
  PROVE  IsTree'
<1>1. CASE RinexLogger
  BY <1>1, LogTree
<1>2. ASSUME NEW p \in Entries, delete_entry(p) PROVE IsTree'
  <2>1. Removes(Normal(p))
    BY <1>2 DEF delete_entry, Removes
  <2> QED
    BY <2>1, RemoveTree
<1>3. ASSUME NEW from \in Entries, NEW to \in Targets, rename_entry(from, to) PROVE IsTree'
  BY <1>3, CallerPaths, StringPaths, RenameTree
<1>4. ASSUME NEW p \in Targets, files_mkdir(p) PROVE IsTree'
  <2>1. ~Exists(p) /\ IsDir(Front(p)) /\ dirs' = dirs \cup {p} /\ UNCHANGED <<files, card>>
    BY <1>4 DEF files_mkdir
  <2>2. Adds(p)
    BY <2>1, NewName DEF Adds
  <2> QED
    BY <2>2, AddTree
<1>5. CASE Exporting
  BY <1>5, QuietTree
     DEF Exporting, rinex_export, export_check, export_file, export_done, ExportUnchanged
<1>6. ASSUME NEW c \in Callers,
             (\E paths \in Lists[c] : start_check(c, paths)) \/ start_claim(c)
      PROVE  IsTree'
  BY <1>6, QuietTree DEF start_check, start_claim, FsUnchanged
<1>7. ASSUME NEW c \in Callers, delete_paths(c) \/ delete_task(c) PROVE IsTree'
  BY <1>7, QuietTree DEF delete_paths, delete_task
<1>8. ASSUME NEW c \in Callers, remove_shell(c) PROVE IsTree'
  <2>1. Removes(Top(c).path) \/ UNCHANGED <<dirs, files, card>>
    BY <1>8 DEF remove_shell, Removed, Removes
  <2> QED
    BY <2>1, RemoveTree, QuietTree
<1>9. ASSUME NEW c \in Callers, NEW k \in Kids(c), remove_entry(c, k) PROVE IsTree'
  <2>1. Removes(Normal(k)) \/ UNCHANGED <<dirs, files, card>>
    BY <1>9 DEF remove_entry, Removed, Removes
  <2> QED
    BY <2>1, RemoveTree, QuietTree
<1>10. ASSUME NEW ok \in BOOLEAN, PowerLoss(ok) PROVE IsTree'
  BY <1>10, PowerTree
<1> QED
  BY <1>1, <1>2, <1>3, <1>4, <1>5, <1>6, <1>7, <1>8, <1>9, <1>10, ByAction, Zenon DEF RinexLogger

-----------------------------------------------------------------------------
(* The delete jobs.                                                        *)

LEMMA Pushed ==
  ASSUME NEW paths, NEW s \in Seq(Frames), StaysInside(paths, s), s # <<>>,
         NEW f \in Frames, Inside(paths, f.path), \A k \in f.kids : Inside(paths, Normal(k))
  PROVE  <<f>> \o s \in Seq(Frames) /\ StaysInside(paths, <<f>> \o s)
<1> DEFINE t == <<f>> \o s
<1>1. /\ t \in Seq(Frames) /\ Len(t) = Len(s) + 1 /\ Len(s) \in Nat
      /\ t[1] = f /\ \A i \in 2..Len(t) : t[i] = s[i - 1]
  OBVIOUS
<1> HIDE DEF t
<1>2. ASSUME NEW i \in 1..Len(t)
      PROVE  /\ \A k \in t[i].kids : Inside(paths, Normal(k))
             /\ i < Len(t) => Inside(paths, t[i].path)
  <2>1. CASE i = 1
    BY <1>1, <2>1
  <2>2. CASE i \in 2..Len(t)
    <3>1. i - 1 \in 1..Len(s) /\ (i < Len(t) => i - 1 < Len(s))
      BY <1>1, <2>2
    <3> QED
      BY <1>1, <2>2, <3>1 DEF StaysInside
  <2> QED
    BY <1>1, <2>1, <2>2
<1> QED
  BY <1>1, <1>2 DEF StaysInside, t

LEMMA Popped ==
  ASSUME NEW paths, NEW s \in Seq(Frames), StaysInside(paths, s), s # <<>>
  PROVE  /\ Tail(s) \in Seq(Frames) /\ StaysInside(paths, Tail(s))
         /\ Head(s) \in Frames /\ \A k \in Head(s).kids : Inside(paths, Normal(k))
         /\ Len(s) > 1 => Inside(paths, Head(s).path)
<1> DEFINE t == Tail(s)
<1>1. /\ t \in Seq(Frames) /\ Len(t) = Len(s) - 1 /\ Len(s) \in Nat /\ Len(s) >= 1
      /\ \A i \in 1..Len(t) : t[i] = s[i + 1]
      /\ Head(s) = s[1] /\ s[1] \in Frames
  OBVIOUS
<1> HIDE DEF t
<1>2. ASSUME NEW i \in 1..Len(t)
      PROVE  /\ \A k \in t[i].kids : Inside(paths, Normal(k))
             /\ i < Len(t) => Inside(paths, t[i].path)
  <2>1. i + 1 \in 1..Len(s) /\ (i < Len(t) => i + 1 < Len(s))
    BY <1>1
  <2> QED
    BY <1>1, <2>1 DEF StaysInside
<1>3. 1 \in 1..Len(s)
  BY <1>1
<1> QED
  BY <1>1, <1>2, <1>3 DEF StaysInside, t

\* The name at hand is taken from its frame.
LEMMA Taken ==
  ASSUME NEW paths, NEW s \in Seq(Frames), StaysInside(paths, s), s # <<>>, NEW k
  PROVE  LET t == <<[Head(s) EXCEPT !.kids = @ \ {k}]>> \o Tail(s) IN
         t \in Seq(Frames) /\ t # <<>> /\ StaysInside(paths, t)
<1> DEFINE f == [Head(s) EXCEPT !.kids = @ \ {k}]
           t == <<f>> \o Tail(s)
<1>1. Head(s) = s[1] /\ s[1] \in Frames /\ Len(s) \in Nat /\ Len(s) >= 1
  OBVIOUS
<1>2. f \in Frames /\ f.path = s[1].path /\ f.kids \subseteq s[1].kids
  BY <1>1 DEF Frames
<1> HIDE DEF f
<1>3. t \in Seq(Frames) /\ Len(t) = Len(s) /\ t[1] = f /\ \A i \in 2..Len(s) : t[i] = s[i]
  BY <1>2
<1> HIDE DEF t
<1>4. ASSUME NEW i \in 1..Len(t)
      PROVE  /\ \A j \in t[i].kids : Inside(paths, Normal(j))
             /\ i < Len(t) => Inside(paths, t[i].path)
  <2>1. t[i].path = s[i].path /\ t[i].kids \subseteq s[i].kids
    <3>1. i = 1 \/ i \in 2..Len(s)
      BY <1>1, <1>3
    <3> QED
      BY <1>2, <1>3, <3>1
  <2> QED
    BY <1>3, <2>1 DEF StaysInside
<1>5. t # <<>>
  <2>1. Len(<<>>) = 0
    OBVIOUS
  <2> QED
    BY <1>1, <1>3, <2>1
<1> QED
  BY <1>3, <1>4, <1>5 DEF StaysInside, t, f

\* A task that works makes a step and goes on.
Advances(c) ==
    /\ Working(c) /\ ~job.freed
    /\ \E t : /\ task' = [task EXCEPT ![c] = t]
              /\ IsTask(t) /\ t # NoTask /\ StaysInside(req[c], t.stack)
    /\ UNCHANGED <<at, req, ghost>>
    /\ UNCHANGED job \/ Progress

LEMMA Advanced ==
  ASSUME JobInv, NEW c \in Callers, Advances(c)
  PROVE  JobInv'
<1>1. PICK t : /\ task' = [task EXCEPT ![c] = t]
               /\ IsTask(t) /\ t # NoTask /\ StaysInside(req[c], t.stack)
  BY Zenon DEF Advances
<1>2. task = [d \in Callers |-> task[d]] /\ \A d \in Callers : IsTask(task[d])
  BY DEF JobInv, JobTypes
<1>3. task'[c] = t /\ \A d \in Callers : d # c => task'[d] = task[d]
  BY <1>1, <1>2
<1>4. task' = [d \in Callers |-> task'[d]]
  BY <1>1, <1>2
<1>5. UNCHANGED <<at, req, ghost>> /\ Working(c) /\ ~job.freed
  BY DEF Advances
<1>6. /\ job'.state = job.state /\ job'.freed = job.freed /\ job'.paths = job.paths
      /\ job' = [state |-> job'.state, paths |-> job'.paths, freed |-> job'.freed,
                 done |-> job'.done, total |-> job'.total, result |-> job'.result]
  <2>1. job = [state |-> job.state, paths |-> job.paths, freed |-> job.freed,
               done |-> job.done, total |-> job.total, result |-> job.result]
    BY DEF JobInv, JobTypes
  <2>2. job' = job \/ job' = [job EXCEPT !.done = @ + 1]
    BY DEF Advances, Progress
  <2> QED
    BY <2>1, <2>2
<1>7. \A d \in Callers : task'[d] # NoTask <=> task[d] # NoTask
  BY <1>1, <1>3, <1>5 DEF Working
<1>8. \A d \in Callers : IsTask(task'[d])
  BY <1>1, <1>2, <1>3, Zenon
<1>9. JobTypes'
  BY <1>4, <1>5, <1>6, <1>8 DEF JobInv, JobTypes
<1>10. OneJob'
  BY <1>5, <1>6, <1>7 DEF JobInv, OneJob, Working, busy
<1>11. Guarded'
  BY <1>1, <1>3, <1>5, <1>6, <1>7 DEF JobInv, Guarded, ActiveFileGuarded, SparesSeen, Working
<1> QED
  BY <1>9, <1>10, <1>11 DEF JobInv

\* A task that removes an entry inside its trees does not remove the file
\* that the check knew of.
LEMMA Unharmed ==
  ASSUME JobInv, IsTree, NEW c \in Callers, Working(c), ~job.freed,
         NEW p \in dirs \cup files, Inside(req[c], p), Removed(c, p)
  PROVE  UNCHANGED ghost
<1> DEFINE harm == /\ p = log.file /\ log.active /\ ghost.seen[c] = p
                   /\ \A r \in req[c] : r = Normal(r)
<1> HIDE DEF harm
<1>1. ~ghost.broken /\ SparesSeen(c)
  BY DEF JobInv, Guarded, ActiveFileGuarded
<1>2. p # NoFile
  BY NoFileFacts DEF IsTree
<1>3. ASSUME harm PROVE FALSE
  <2>1. PICK r \in req[c] : IsPrefix(Normal(r), p)
    BY DEF Inside
  <2> QED
    BY <1>1, <1>2, <1>3, <2>1 DEF SparesSeen, harm
<1>4. ghost' = [ghost EXCEPT !.broken = @ \/ harm]
  BY DEF Removed, harm
<1>5. ghost \in Ghosts
  BY DEF JobInv, JobTypes
<1>6. (ghost.broken \/ harm) = FALSE
  BY <1>1, <1>3
<1>7. ghost.broken = FALSE
  BY <1>1, <1>5
<1> QED
  BY <1>4, <1>5, <1>6, <1>7 DEF Ghosts

\* What a task is before its step.
LEMMA TaskFacts ==
  ASSUME JobInv, NEW c \in Callers, task[c].pc # "none", ~job.freed
  PROVE  /\ Working(c) /\ IsTask(task[c]) /\ task[c].stack \in Seq(Frames)
         /\ StaysInside(req[c], task[c].stack)
         /\ job.paths = req[c] /\ req[c] \subseteq Paths
<1>1. Working(c)
  BY DEF Working, NoTask
<1> QED
  BY <1>1 DEF JobInv, JobTypes, IsTask, OneJob, Guarded

LEMMA Walks ==
  ASSUME JobInv, NEW c \in Callers, task[c].pc = "walk", ~job.freed,
         NEW t, t = [pc |-> "walk", stack |-> t.stack, res |-> t.res],
         t.stack \in Seq(Frames), StaysInside(req[c], t.stack),
         task' = [task EXCEPT ![c] = t],
         UNCHANGED <<at, req, ghost>>, UNCHANGED job \/ Progress
  PROVE  JobInv'
<1>1. t.pc = "walk"
  OBVIOUS
<1>2. IsTask(t) /\ t # NoTask
  BY <1>1 DEF IsTask, NoTask
<1> QED
  BY <1>2, TaskFacts, Advanced DEF Advances

LEMMA DeletePathsJob ==
  ASSUME JobInv, NEW c \in Callers, delete_paths(c), ~job.freed
  PROVE  JobInv'
<1>1. /\ task[c].pc = "begin" /\ Working(c) /\ IsTask(task[c])
      /\ StaysInside(req[c], task[c].stack)
      /\ job.paths = req[c] /\ req[c] \subseteq Paths
  BY TaskFacts DEF delete_paths
<1>2. UNCHANGED <<at, req, ghost, job>>
  BY DEF delete_paths, TaskUnchanged
<1>3. CASE task' = [task EXCEPT ![c] = [@ EXCEPT !.pc = "done", !.res.skipped = Cardinality(job.paths)]]
  <2>1. PICK t : t = [task[c] EXCEPT !.pc = "done", !.res.skipped = Cardinality(job.paths)]
    OBVIOUS
  <2>2. t.pc = "done" /\ t.stack = task[c].stack /\ t = [pc |-> t.pc, stack |-> t.stack, res |-> t.res]
    BY <1>1, <2>1 DEF IsTask
  <2>3. IsTask(t) /\ t # NoTask
    BY <1>1, <2>2 DEF IsTask, NoTask
  <2>4. task' = [task EXCEPT ![c] = t] /\ StaysInside(req[c], t.stack)
    BY <1>1, <1>3, <2>1, <2>2
  <2> QED
    BY <1>1, <1>2, <2>3, <2>4, Advanced DEF Advances
<1>4. CASE task' = [task EXCEPT ![c] = [@ EXCEPT !.pc = "walk", !.stack = <<Frame(NoFile, job.paths, FALSE)>>]]
  <2> DEFINE f == Frame(NoFile, job.paths, FALSE)
  <2>1. f \in Frames /\ f.kids = req[c]
    BY <1>1, StampFacts DEF Frame, Frames
  <2> HIDE DEF f
  <2>2. <<f>> \in Seq(Frames) /\ Len(<<f>>) = 1 /\ <<f>>[1] = f
    BY <2>1, TupleFacts
  <2>3. \A k \in req[c] : Inside(req[c], Normal(k))
    BY <1>1, NormalFacts, PrefixFacts DEF Inside
  <2>4. StaysInside(req[c], <<f>>)
    BY <2>1, <2>2, <2>3 DEF StaysInside
  <2>5. PICK t : t = [task[c] EXCEPT !.pc = "walk", !.stack = <<f>>]
    OBVIOUS
  <2>6. t.pc = "walk" /\ t.stack = <<f>> /\ t = [pc |-> t.pc, stack |-> t.stack, res |-> t.res]
    BY <1>1, <2>5 DEF IsTask
  <2>7. IsTask(t) /\ t # NoTask
    BY <2>2, <2>6 DEF IsTask, NoTask
  <2>8. task' = [task EXCEPT ![c] = t] /\ StaysInside(req[c], t.stack)
    BY <1>4, <2>4, <2>5, <2>6 DEF f
  <2> QED
    BY <1>1, <1>2, <2>7, <2>8, Advanced DEF Advances
<1> QED
  BY <1>3, <1>4 DEF delete_paths

LEMMA RemoveEntryJob ==
  ASSUME JobInv, IsTree, NEW c \in Callers, NEW k \in Kids(c), remove_entry(c, k), ~job.freed
  PROVE  JobInv'
<1> DEFINE p == Normal(k)
           rest == <<[Top(c) EXCEPT !.kids = @ \ {k}]>> \o Tail(task[c].stack)
<1>1. /\ task[c].pc = "walk" /\ Working(c) /\ IsTask(task[c])
      /\ task[c].stack \in Seq(Frames) /\ StaysInside(req[c], task[c].stack)
  BY TaskFacts DEF remove_entry
<1>2. task[c].stack # <<>> /\ k \in Head(task[c].stack).kids
  BY DEF Kids, Top
<1>3. rest \in Seq(Frames) /\ rest # <<>> /\ StaysInside(req[c], rest)
  BY <1>1, <1>2, Taken DEF Top
<1>4. p \in Paths /\ Inside(req[c], p)
  <2>1. Head(task[c].stack) \in Frames /\ \A j \in Head(task[c].stack).kids : Inside(req[c], Normal(j))
    BY <1>1, <1>2, Popped
  <2>2. k \in Paths
    BY <1>2, <2>1 DEF Frames
  <2> QED
    BY <1>2, <2>1, <2>2, NormalFacts
<1>5. UNCHANGED <<at, req>>
  BY DEF remove_entry, TaskUnchanged
<1> HIDE DEF rest
\* The name at hand is gone from the frame, one way or the other.
<1>6. ASSUME NEW field, Counted(c, field, rest), UNCHANGED ghost, UNCHANGED job \/ Progress
      PROVE  JobInv'
  <2>1. PICK t : t = Count(task[c], field, rest)
    OBVIOUS
  <2>2. t = [pc |-> "walk", stack |-> rest, res |-> t.res] /\ t.stack = rest
    BY <1>1, <2>1 DEF IsTask, Count
  <2>3. task' = [task EXCEPT ![c] = t]
    BY <1>6, <2>1 DEF Counted
  <2> QED
    BY <1>1, <1>3, <1>5, <1>6, <2>2, <2>3, Walks
\* The names of a directory are read.
<1>7. CASE /\ task' = [task EXCEPT ![c].stack =
                <<Frame(p, Children(p), Len(rest) = 1 /\ check_deletable(k) = "kManagedDir")>> \o rest]
           /\ UNCHANGED <<ghost, job>>
  <2> DEFINE f == Frame(p, Children(p), Len(rest) = 1 /\ check_deletable(k) = "kManagedDir")
  <2>1. \A q \in Children(p) : q \in Paths /\ IsPrefix(p, q) /\ Normal(q) = q
    BY <1>4, ChildFacts
  <2>2. f \in Frames /\ f.path = p /\ f.kids = Children(p)
    BY <1>4, <2>1 DEF Frame, Frames
  <2>3. ASSUME NEW q \in f.kids PROVE Inside(req[c], Normal(q))
    <3>1. PICK r \in req[c] : IsPrefix(Normal(r), p)
      BY <1>4 DEF Inside
    <3>2. Normal(r) \in Paths
      BY <1>1, TaskFacts, NormalFacts
    <3>3. q \in Paths /\ IsPrefix(p, q) /\ Normal(q) = q
      BY <2>1, <2>2
    <3>4. IsPrefix(Normal(r), q)
      BY <1>4, <3>1, <3>2, <3>3, PrefixFacts
    <3> QED
      BY <3>3, <3>4 DEF Inside
  <2> HIDE DEF f
  <2>4. <<f>> \o rest \in Seq(Frames) /\ StaysInside(req[c], <<f>> \o rest)
    BY <1>3, <1>4, <2>2, <2>3, Pushed
  <2>5. PICK t : t = [task[c] EXCEPT !.stack = <<f>> \o rest]
    OBVIOUS
  <2>6. t = [pc |-> "walk", stack |-> <<f>> \o rest, res |-> t.res] /\ t.stack = <<f>> \o rest
    BY <1>1, <2>5 DEF IsTask
  <2>7. task' = [task EXCEPT ![c] = t]
    BY <1>7, <2>5 DEF f
  <2>8. t.stack \in Seq(Frames) /\ StaysInside(req[c], t.stack)
    BY <2>4, <2>6
  <2>9. t = [pc |-> "walk", stack |-> t.stack, res |-> t.res]
    BY <2>6
  <2> QED
    BY <1>1, <1>5, <1>7, <2>7, <2>8, <2>9, Walks
<1>8. CASE p \in files \ Stuck /\ Counted(c, "deleted", rest) /\ Progress /\ Removed(c, p)
  BY <1>1, <1>4, <1>6, <1>8, Unharmed
<1>9. CASE Counted(c, "failed", rest) /\ UNCHANGED <<job, ghost>>
  BY <1>6, <1>9
<1>10. \/ task' = [task EXCEPT ![c].stack =
                <<Frame(p, Children(p), Len(rest) = 1 /\ check_deletable(k) = "kManagedDir")>> \o rest]
          /\ UNCHANGED <<ghost, job>>
       \/ p \in files \ Stuck /\ Counted(c, "deleted", rest) /\ Progress /\ Removed(c, p)
       \/ Counted(c, "failed", rest) /\ UNCHANGED <<job, ghost>>
  BY DEF remove_entry, rest
<1> QED
  BY <1>7, <1>8, <1>9, <1>10

LEMMA RemoveShellJob ==
  ASSUME JobInv, IsTree, NEW c \in Callers, remove_shell(c), ~job.freed
  PROVE  JobInv'
<1> DEFINE rest == Tail(task[c].stack)
<1>1. /\ task[c].pc = "walk" /\ Len(task[c].stack) > 1 /\ Working(c) /\ IsTask(task[c])
      /\ task[c].stack \in Seq(Frames) /\ StaysInside(req[c], task[c].stack)
  BY TaskFacts DEF remove_shell
<1>2. task[c].stack # <<>>
  <2>1. Len(<<>>) = 0
    OBVIOUS
  <2> QED
    BY <1>1, <2>1
<1>3. rest \in Seq(Frames) /\ StaysInside(req[c], rest) /\ Inside(req[c], Top(c).path)
  BY <1>1, <1>2, Popped DEF Top
<1>4. UNCHANGED <<at, req>>
  BY DEF remove_shell, TaskUnchanged
<1> HIDE DEF rest
<1>5. ASSUME NEW field, Counted(c, field, rest), UNCHANGED ghost, UNCHANGED job \/ Progress
      PROVE  JobInv'
  <2>1. PICK t : t = Count(task[c], field, rest)
    OBVIOUS
  <2>2. t = [pc |-> "walk", stack |-> rest, res |-> t.res] /\ t.stack = rest
    BY <1>1, <2>1 DEF IsTask, Count
  <2>3. task' = [task EXCEPT ![c] = t]
    BY <1>5, <2>1 DEF Counted
  <2> QED
    BY <1>1, <1>3, <1>4, <1>5, <2>2, <2>3, Walks
<1>6. CASE Counted(c, "skipped", rest) /\ UNCHANGED <<job, ghost>>
  BY <1>5, <1>6
<1>7. CASE Counted(c, "failed", rest) /\ UNCHANGED <<job, ghost>>
  BY <1>5, <1>7
<1>8. CASE Top(c).path \in dirs /\ Counted(c, "deleted", rest) /\ Progress /\ Removed(c, Top(c).path)
  BY <1>1, <1>3, <1>5, <1>8, Unharmed
<1> QED
  BY <1>6, <1>7, <1>8 DEF remove_shell, rest

LEMMA DeleteTaskJob ==
  ASSUME JobInv, NEW c \in Callers, delete_task(c), ~job.freed
  PROVE  JobInv'
<1>1. /\ task' = [task EXCEPT ![c] = NoTask] /\ req' = [req EXCEPT ![c] = {}]
      /\ ghost' = [ghost EXCEPT !.seen[c] = NoFile] /\ UNCHANGED at
      /\ job' = [job EXCEPT !.result = task[c].res, !.state = DoneState(task[c].res)]
  BY DEF delete_task, TaskUnchanged
<1>2. Working(c)
  BY TaskFacts DEF delete_task
<1>3. /\ req \in [Callers -> SUBSET Paths] /\ ghost \in Ghosts
      /\ task = [d \in Callers |-> task[d]] /\ \A d \in Callers : IsTask(task[d])
  BY DEF JobInv, JobTypes
<1>4. /\ task' = [d \in Callers |-> task'[d]] /\ task'[c] = NoTask
      /\ \A d \in Callers : d # c => task'[d] = task[d]
  BY <1>1, <1>3
<1>5. IsTask(NoTask)
  BY DEF IsTask, NoTask
<1>6. \A d \in Callers : IsTask(task'[d])
  BY <1>3, <1>4, <1>5, Zenon
<1>7. req' \in [Callers -> SUBSET Paths] /\ req'[c] = {} /\ \A d \in Callers : d # c => req'[d] = req[d]
  BY <1>1, <1>3
<1>8. /\ ghost' \in Ghosts /\ ghost'.overlap = ghost.overlap /\ ghost'.broken = ghost.broken
      /\ ghost'.seen[c] = NoFile /\ \A d \in Callers : d # c => ghost'.seen[d] = ghost.seen[d]
  <2>1. NoFile \in Paths
    BY StampFacts
  <2> QED
    BY <1>1, <1>3, <2>1 DEF Ghosts
<1>9. /\ job'.state \in {"kDoneOk", "kDoneFail"} /\ job'.freed = job.freed
      /\ job' = [state |-> job'.state, paths |-> job'.paths, freed |-> job'.freed,
                 done |-> job'.done, total |-> job'.total, result |-> job'.result]
  <2>1. job = [state |-> job.state, paths |-> job.paths, freed |-> job.freed,
               done |-> job.done, total |-> job.total, result |-> job.result]
    BY DEF JobInv, JobTypes
  <2> QED
    BY <1>1, <2>1 DEF DoneState
\* Nobody else works.
<1>10. \A d \in Callers : task'[d] = NoTask
  <2>1. ~\A d \in Callers : Working(d)
    BY DEF JobInv, OneJob
  <2> QED
    BY <1>2, <1>4, <2>1 DEF Callers, Working
<1>11. JobTypes'
  BY <1>1, <1>4, <1>6, <1>7, <1>8, <1>9 DEF JobInv, JobTypes
<1>12. OneJob'
  BY <1>1, <1>8, <1>9, <1>10 DEF JobInv, OneJob, Working, busy
<1>13. Guarded'
  BY <1>1, <1>7, <1>8, <1>10 DEF JobInv, Guarded, ActiveFileGuarded, SparesSeen, Working
<1> QED
  BY <1>11, <1>12, <1>13 DEF JobInv

\* The logger, the other handlers and the export do not meddle with the jobs.
Aside ==
    /\ UNCHANGED <<job, task, req>>
    /\ at' = at \/ \E pc \in {"idle", "export", "stream"} :
                        at["web"] # "checked" /\ at' = [at EXCEPT !["web"] = pc]
    /\ ghost' \in Ghosts
    /\ ghost'.overlap = ghost.overlap /\ ghost'.broken = ghost.broken /\ ghost'.seen = ghost.seen

LEMMA AsideJob == ASSUME JobInv, Aside PROVE JobInv'
<1>1. UNCHANGED <<job, task, req>>
  BY DEF Aside
<1>2. /\ ghost' \in Ghosts
      /\ ghost'.overlap = ghost.overlap /\ ghost'.broken = ghost.broken /\ ghost'.seen = ghost.seen
  BY DEF Aside
<1>3. /\ at' \in [Callers -> {"idle", "checked", "export", "stream"}]
      /\ \A c \in Callers : at'[c] = "checked" <=> at[c] = "checked"
  <2>1. at \in [Callers -> {"idle", "checked", "export", "stream"}]
    BY DEF JobInv, JobTypes
  <2> QED
    BY <2>1 DEF Aside, Callers
<1>4. JobTypes'
  BY <1>1, <1>2, <1>3 DEF JobInv, JobTypes
<1>5. OneJob'
  BY <1>1, <1>2, <1>3 DEF JobInv, OneJob, Working, busy
<1>6. Guarded'
  BY <1>1, <1>2, <1>3 DEF JobInv, Guarded, ActiveFileGuarded, SparesSeen, Working
<1> QED
  BY <1>4, <1>5, <1>6 DEF JobInv

LEMMA Asides ==
  ASSUME JobInv, NEW g \in BOOLEAN,
         ghost' \in {ghost, [ghost EXCEPT !.still = FALSE], [ghost EXCEPT !.raced = g],
                     [ghost EXCEPT !.raced = FALSE, !.whole = g],
                     [ghost EXCEPT !.still = FALSE, !.planted = g]}
  PROVE  /\ ghost' \in Ghosts
         /\ ghost'.overlap = ghost.overlap /\ ghost'.broken = ghost.broken /\ ghost'.seen = ghost.seen
  BY DEF JobInv, JobTypes, Ghosts

LEMMA LoggerJob == ASSUME JobInv, RinexLogger PROVE JobInv'
<1>1. ghost' \in {ghost, [ghost EXCEPT !.still = FALSE]} /\ UNCHANGED <<job, task, req, at>>
  BY DEF RinexLogger, start, stop, close_file, open_file, publish_name, DropEpoch, write_epoch,
         sync_epoch, Moved, LoggerUnchanged
<1> QED
  BY <1>1, Asides, AsideJob DEF Aside

LEMMA FilesJob ==
  ASSUME JobInv,
         \/ \E p \in Entries : delete_entry(p)
         \/ \E from \in Entries, to \in Targets : rename_entry(from, to)
         \/ \E p \in Targets : files_mkdir(p)
  PROVE  JobInv'
<1>1. UNCHANGED <<job, task, req, at>>
  BY DEF delete_entry, rename_entry, files_mkdir, HandlerUnchanged
<1>2. CASE ghost' = [ghost EXCEPT !.still = FALSE]
  BY <1>1, <1>2, Asides, AsideJob DEF Aside
<1>3. CASE \E from \in Entries, to \in Targets : rename_entry(from, to)
  <2>1. PICK g : g \in BOOLEAN /\ ghost' = [ghost EXCEPT !.still = FALSE, !.planted = g]
    <3>1. PICK from \in Entries, to \in Targets : rename_entry(from, to)
      BY <1>3
    <3> DEFINE move(p) == NewPath(from, to, p)
               g == ghost.planted \/ \E p \in files, t \in Epochs : move(p) # p /\ move(p) = RinexPath(t)
    <3>2. ghost' = [ghost EXCEPT !.still = FALSE, !.planted = g]
      BY <3>1 DEF rename_entry, NewPath
    <3>3. g \in BOOLEAN
      OBVIOUS
    <3> HIDE DEF g
    <3> QED
      BY <3>2, <3>3
  <2> QED
    BY <1>1, <2>1, Asides, AsideJob DEF Aside
<1> QED
  BY <1>2, <1>3 DEF delete_entry, files_mkdir, Moved

LEMMA ExportJob == ASSUME JobInv, Exporting PROVE JobInv'
<1>1. UNCHANGED <<job, task, req>>
  BY DEF Exporting, rinex_export, export_check, export_file, export_done, ExportUnchanged
<1>2. at' = at \/ \E pc \in {"idle", "export", "stream"} :
                     at["web"] # "checked" /\ at' = [at EXCEPT !["web"] = pc]
  BY DEF Exporting, rinex_export, export_check, export_file, export_done, Handler
<1>3. \E g \in BOOLEAN : ghost' \in {ghost, [ghost EXCEPT !.raced = g],
                                     [ghost EXCEPT !.raced = FALSE, !.whole = g]}
  <2>1. ASSUME NEW a \in Epochs, rinex_export(a, Len(Stamps))
        PROVE  \E g \in BOOLEAN : ghost' = [ghost EXCEPT !.raced = g]
    BY <2>1 DEF rinex_export
  <2>2. CASE export_check \/ export_file
    BY <2>2 DEF export_check, export_file
  <2>3. ASSUME export_done PROVE \E g \in BOOLEAN : ghost' = [ghost EXCEPT !.raced = FALSE, !.whole = g]
    <3> DEFINE g == ghost.whole /\ (\/ ghost.raced \/ ghost.planted
                                   \/ /\ exp.wanted \subseteq exp.sent
                                      /\ \A t \in exp.sent : t <= exp.last)
    <3>1. ghost' = [ghost EXCEPT !.raced = FALSE, !.whole = g]
      BY <2>3 DEF export_done
    <3>2. g \in BOOLEAN
      OBVIOUS
    <3> HIDE DEF g
    <3> QED
      BY <3>1, <3>2
  <2> QED
    BY <2>1, <2>2, <2>3 DEF Exporting
<1> QED
  BY <1>1, <1>2, <1>3, Asides, AsideJob DEF Aside

LEMMA StartCheckJob ==
  ASSUME LogInv, JobInv, ~job.freed, NEW c \in Callers, NEW paths \in Lists[c], start_check(c, paths)
  PROVE  JobInv'
<1>1. /\ at' = [at EXCEPT ![c] = "checked"] /\ req' = [req EXCEPT ![c] = paths]
      /\ ghost' = [ghost EXCEPT !.seen[c] = Active, !.overlap = \E d \in Callers : at[d] = "checked"]
      /\ UNCHANGED <<job, task>> /\ at[c] = "idle" /\ ~busy /\ ~blocks_active_file(paths)
  BY DEF start_check
<1>2. paths \subseteq Paths
  BY CallerPaths, StringPaths
<1>3. Active \in Paths
  BY StampFacts DEF Active, LogInv, LogTypes, Logs
<1>4. \A r \in paths : Active # NoFile => ~IsPrefix(r, Active)
  BY <1>1 DEF blocks_active_file, IsStrictPrefix
<1>5. \A d \in Callers : ~Working(d)
  BY <1>1 DEF JobInv, OneJob
<1>6. /\ at \in [Callers -> {"idle", "checked", "export", "stream"}]
      /\ req \in [Callers -> SUBSET Paths] /\ ghost \in Ghosts
  BY DEF JobInv, JobTypes
<1>7. /\ at' \in [Callers -> {"idle", "checked", "export", "stream"}]
      /\ \A d \in Callers : d # c => at'[d] = at[d]
  BY <1>1, <1>6
<1>8. req' \in [Callers -> SUBSET Paths] /\ req'[c] = paths /\ \A d \in Callers : d # c => req'[d] = req[d]
  BY <1>1, <1>2, <1>6
<1>9. PICK o \in BOOLEAN : o = (\E d \in Callers : at[d] = "checked")
  OBVIOUS
<1>10. /\ ghost' \in Ghosts /\ ghost'.overlap = o /\ ghost'.broken = ghost.broken
       /\ ghost'.seen[c] = Active /\ \A d \in Callers : d # c => ghost'.seen[d] = ghost.seen[d]
  <2>1. ghost' = [ghost EXCEPT !.seen[c] = Active, !.overlap = o]
    BY <1>1, <1>9
  <2> HIDE DEF Active
  <2> QED
    BY <1>3, <1>6, <2>1 DEF Ghosts
<1>11. JobTypes'
  BY <1>1, <1>7, <1>8, <1>10 DEF JobInv, JobTypes
<1>12. OneJob'
  <2>1. (\A d \in Callers : at'[d] = "checked") => o
    BY <1>1, <1>7, <1>9 DEF Callers
  <2>2. busy' = busy /\ \A d \in Callers : ~Working(d)'
    BY <1>1, <1>5 DEF busy, Working
  <2> QED
    BY <1>1, <1>10, <2>1, <2>2 DEF JobInv, OneJob
<1>13. Guarded'
  <2>1. ~ghost'.broken
    BY <1>10 DEF JobInv, Guarded, ActiveFileGuarded
  <2>2. \A d \in Callers : ~Working(d)'
    BY <1>1, <1>5 DEF Working
  <2>3. SparesSeen(c)'
    BY <1>4, <1>8, <1>10 DEF SparesSeen
  <2>4. ASSUME NEW d \in Callers, d # c, at'[d] = "checked" PROVE SparesSeen(d)'
    BY <1>7, <1>8, <1>10, <2>4 DEF SparesSeen, JobInv, Guarded
  <2> QED
    BY <2>1, <2>2, <2>3, <2>4 DEF Guarded, ActiveFileGuarded
<1> QED
  BY <1>11, <1>12, <1>13 DEF JobInv

LEMMA StartClaimJob ==
  ASSUME JobInv, ~job.freed, NEW c \in Callers, start_claim(c)
  PROVE  JobInv'
<1>1. PICK created \in BOOLEAN :
        /\ job' = [state |-> IF created THEN "kRunning" ELSE "kIdle", paths |-> req[c],
                   freed |-> \E d \in Callers : task[d] # NoTask,
                   done |-> 0, total |-> preview_delete_many(req[c]), result |-> NoResult]
        /\ task' = IF created THEN [task EXCEPT ![c] = [NoTask EXCEPT !.pc = "begin"]] ELSE task
        /\ req' = IF created THEN req ELSE [req EXCEPT ![c] = {}]
  BY DEF start_claim
<1>2. at[c] = "checked" /\ at' = [at EXCEPT ![c] = "idle"] /\ ghost' = [ghost EXCEPT !.still = TRUE]
  BY DEF start_claim
<1>3. /\ at \in [Callers -> {"idle", "checked", "export", "stream"}]
      /\ req \in [Callers -> SUBSET Paths] /\ ghost \in Ghosts
      /\ task = [d \in Callers |-> task[d]] /\ \A d \in Callers : IsTask(task[d])
  BY DEF JobInv, JobTypes
<1>4. /\ at' \in [Callers -> {"idle", "checked", "export", "stream"}]
      /\ at'[c] = "idle" /\ \A d \in Callers : d # c => at'[d] = at[d]
  BY <1>2, <1>3
<1>5. /\ ghost' \in Ghosts /\ ghost'.overlap = ghost.overlap /\ ghost'.broken = ghost.broken
      /\ ghost'.seen = ghost.seen
  BY <1>2, <1>3 DEF Ghosts
<1>6. PICK freed \in BOOLEAN : freed = (\E d \in Callers : task[d] # NoTask)
  OBVIOUS
<1>7. /\ job'.state = (IF created THEN "kRunning" ELSE "kIdle") /\ job'.freed = freed
      /\ job'.paths = req[c]
      /\ job' = [state |-> job'.state, paths |-> job'.paths, freed |-> job'.freed,
                 done |-> job'.done, total |-> job'.total, result |-> job'.result]
  <2> DEFINE total == preview_delete_many(req[c])
  <2> HIDE DEF total
  <2>1. job' = [state |-> IF created THEN "kRunning" ELSE "kIdle", paths |-> req[c], freed |-> freed,
                done |-> 0, total |-> total, result |-> NoResult]
    BY <1>1, <1>6 DEF total
  <2> QED
    BY <2>1
<1>8. freed => ghost.overlap
  BY <1>2, <1>6 DEF JobInv, OneJob, Working
<1>9. CASE created
  <2> DEFINE t == [NoTask EXCEPT !.pc = "begin"]
  <2>1. t = [pc |-> "begin", stack |-> <<>>, res |-> NoResult]
    BY DEF NoTask
  <2> HIDE DEF t
  <2>2. IsTask(t) /\ t # NoTask /\ t.stack = <<>>
    BY <2>1 DEF IsTask, NoTask
  <2>3. task' = [task EXCEPT ![c] = t] /\ req' = req
    BY <1>1, <1>9 DEF t
  <2>4. /\ task' = [d \in Callers |-> task'[d]] /\ task'[c] = t
        /\ \A d \in Callers : d # c => task'[d] = task[d]
    BY <1>3, <2>3
  <2>5. \A d \in Callers : IsTask(task'[d])
    BY <1>3, <2>2, <2>4, Zenon
  <2>6. JobTypes'
    BY <1>4, <1>5, <1>7, <2>3, <2>4, <2>5, <1>9, <1>3 DEF JobTypes
  <2>7. ASSUME ~freed, NEW d \in Callers, Working(d)' PROVE d = c
    BY <1>6, <2>4, <2>7 DEF Working
  <2>8. OneJob'
    <3>1. busy' /\ Working(c)'
      BY <1>7, <1>9, <2>2, <2>4 DEF busy, Working
    <3>2. (\A d \in Callers : Working(d)') => freed
      BY <2>7 DEF Callers
    <3>3. ASSUME NEW d \in Callers, NEW e \in Callers, at'[d] = "checked", Working(e)' PROVE ghost.overlap
      <4>1. at[d] = "checked" /\ d # c
        BY <1>4, <3>3
      <4>2. \A x \in Callers : x = c \/ x = d
        BY <4>1 DEF Callers
      <4> QED
        BY <1>2, <4>1, <4>2 DEF JobInv, OneJob
    <3>4. ~\A d \in Callers : at'[d] = "checked"
      BY <1>4
    <3> QED
      BY <1>5, <1>7, <1>8, <2>3, <2>7, <3>1, <3>2, <3>3, <3>4 DEF OneJob
  <2>9. Guarded'
    <3>1. ~ghost'.broken
      BY <1>5 DEF JobInv, Guarded, ActiveFileGuarded
    <3>2. \A d \in Callers : SparesSeen(d)' = SparesSeen(d)
      BY <1>5, <2>3 DEF SparesSeen
    <3>3. StaysInside(req[c], t.stack)
      <4>1. Len(<<>>) = 0 /\ 1..0 = {}
        OBVIOUS
      <4> QED
        BY <2>2, <4>1 DEF StaysInside
    <3>4. \A d \in Callers : at'[d] = "checked" => SparesSeen(d)
      BY <1>4 DEF JobInv, Guarded
    <3>5. SparesSeen(c)
      BY <1>2 DEF JobInv, Guarded
    <3> QED
      BY <1>7, <2>3, <2>4, <2>7, <3>1, <3>2, <3>3, <3>4, <3>5 DEF Guarded, ActiveFileGuarded
  <2> QED
    BY <2>6, <2>8, <2>9 DEF JobInv
<1>10. CASE ~created
  <2>1. task' = task /\ req' = [req EXCEPT ![c] = {}]
    BY <1>1, <1>10
  <2>2. req' \in [Callers -> SUBSET Paths] /\ req'[c] = {} /\ \A d \in Callers : d # c => req'[d] = req[d]
    BY <1>3, <2>1
  <2>3. JobTypes'
    BY <1>3, <1>4, <1>5, <1>7, <1>10, <2>1, <2>2 DEF JobTypes
  <2>4. \A d \in Callers : Working(d)' <=> Working(d)
    BY <2>1 DEF Working
  <2>5. freed <=> \E d \in Callers : Working(d)
    BY <1>6 DEF Working
  <2>6. OneJob'
    <3>1. ~busy'
      BY <1>7, <1>10 DEF busy
    <3>2. Working(c)' => freed
      BY <2>4, <2>5
    <3>3. \A d, e \in Callers : at'[d] = "checked" /\ Working(e)' => ghost.overlap
      BY <1>8, <2>4, <2>5
    <3>4. ~\A d \in Callers : at'[d] = "checked"
      BY <1>4
    <3> QED
      BY <1>5, <1>7, <1>8, <2>4, <2>5, <3>1, <3>2, <3>3, <3>4 DEF OneJob
  <2>7. Guarded'
    <3>1. ~ghost'.broken
      BY <1>5 DEF JobInv, Guarded, ActiveFileGuarded
    <3>2. ASSUME NEW d \in Callers, at'[d] = "checked" PROVE SparesSeen(d)'
      BY <1>4, <1>5, <2>2, <3>2 DEF JobInv, Guarded, SparesSeen
    <3> QED
      BY <1>7, <2>4, <2>5, <3>1, <3>2 DEF Guarded, ActiveFileGuarded
  <2> QED
    BY <2>3, <2>6, <2>7 DEF JobInv
<1> QED
  BY <1>9, <1>10

\* Nobody asks for anything when the power comes back, as at the start.
Resting ==
    /\ job = Quiet.job
    /\ task = [c \in Callers |-> NoTask]
    /\ at = [c \in Callers |-> "idle"]
    /\ req = [c \in Callers |-> {}]
    /\ ghost \in Ghosts /\ ~ghost.broken

LEMMA RestingJob == ASSUME Resting PROVE JobInv
<1>1. /\ job.state = "kIdle" /\ ~job.freed
      /\ job = [state |-> job.state, paths |-> job.paths, freed |-> job.freed,
                done |-> job.done, total |-> job.total, result |-> job.result]
  BY DEF Resting, Quiet
<1>2. \A c \in Callers : task[c] = NoTask /\ at[c] = "idle" /\ req[c] = {}
  BY DEF Resting
<1>3. /\ task = [c \in Callers |-> task[c]] /\ req \in [Callers -> SUBSET Paths]
      /\ at \in [Callers -> {"idle", "checked", "export", "stream"}]
  BY DEF Resting
<1>4. IsTask(NoTask)
  BY DEF IsTask, NoTask
<1>5. JobTypes
  BY <1>1, <1>2, <1>3, <1>4 DEF JobTypes, Resting
<1>6. Callers # {}
  BY DEF Callers
<1>7. OneJob
  BY <1>1, <1>2, <1>6 DEF OneJob, Working, busy
<1>8. Guarded
  BY <1>1, <1>2 DEF Guarded, ActiveFileGuarded, Working, Resting
<1> QED
  BY <1>5, <1>7, <1>8 DEF JobInv

LEMMA RestingAgain == Resting' => JobInv'
<1>1. Resting => JobInv
  BY RestingJob
<1> QED
  BY <1>1, PTL

LEMMA PowerJob ==
  ASSUME JobInv, NEW ok \in BOOLEAN, PowerLoss(ok)
  PROVE  JobInv'
<1>1. ghost' \in Ghosts /\ ~ghost'.broken
  <2>1. ghost' = [ghost EXCEPT !.overlap = FALSE, !.raced = FALSE, !.seen = [c \in Callers |-> NoFile]]
    BY DEF PowerLoss
  <2>2. ghost \in Ghosts /\ ~ghost.broken
    BY DEF JobInv, JobTypes, Guarded, ActiveFileGuarded
  <2>3. [c \in Callers |-> NoFile] \in [Callers -> Paths]
    BY StampFacts
  <2> QED
    BY <2>1, <2>2, <2>3 DEF Ghosts
<1>2. Resting'
  BY <1>1 DEF PowerLoss, Resting
<1> QED
  BY <1>2, RestingAgain

LEMMA JobStep ==
  ASSUME LogInv, JobInv, IsTree, Next
  PROVE  JobInv'
<1>0. ~job.freed
  BY DEF Next
<1>1. CASE RinexLogger
  BY <1>1, LoggerJob
<1>2. CASE \/ \E p \in Entries : delete_entry(p)
           \/ \E from \in Entries, to \in Targets : rename_entry(from, to)
           \/ \E p \in Targets : files_mkdir(p)
  BY <1>2, FilesJob
<1>3. CASE Exporting
  BY <1>3, ExportJob
<1>4. ASSUME NEW c \in Callers, NEW paths \in Lists[c], start_check(c, paths) PROVE JobInv'
  BY <1>0, <1>4, StartCheckJob
<1>5. ASSUME NEW c \in Callers, start_claim(c) PROVE JobInv'
  BY <1>0, <1>5, StartClaimJob
<1>6. ASSUME NEW c \in Callers, delete_paths(c) \/ remove_shell(c) \/ delete_task(c) PROVE JobInv'
  BY <1>0, <1>6, DeletePathsJob, RemoveShellJob, DeleteTaskJob
<1>7. ASSUME NEW c \in Callers, NEW k \in Kids(c), remove_entry(c, k) PROVE JobInv'
  BY <1>0, <1>7, RemoveEntryJob
<1>8. ASSUME NEW ok \in BOOLEAN, PowerLoss(ok) PROVE JobInv'
  BY <1>8, PowerJob
<1> QED
  BY <1>1, <1>2, <1>3, <1>4, <1>5, <1>6, <1>7, <1>8, ByAction, Zenon DEF RinexLogger

-----------------------------------------------------------------------------
(* The invariant.                                                          *)

LEMMA InitInv == ASSUME Init PROVE Inv
<1>1. LogInv
  <2>1. /\ now = 1 /\ mounted = TRUE /\ log = Quiet.log /\ DOMAIN card = {}
    BY DEF Init
  <2>2. /\ log \in Logs /\ log.pc = "idle" /\ log.file = NoFile /\ log.cur = NoFile /\ log.mem = {}
    BY <2>1, StampFacts DEF Logs, Quiet
  <2>3. now \in 1..Len(Stamps) + 1
    BY <2>1, StampFacts
  <2> QED
    BY <2>1, <2>2, <2>3 DEF LogInv, LogTypes, LogStands, Covered
<1>2. JobInv
  <2>1. [c \in Callers |-> NoFile] \in [Callers -> Paths]
    BY StampFacts
  <2>2. ghost \in Ghosts /\ ~ghost.broken
    BY <2>1 DEF Init, Ghosts
  <2> QED
    BY <2>2, RestingJob DEF Init, Resting
<1>3. IsTree
  <2>1. dirs = {<<"logs">>, <<"rawdata">>, <<"x">>} /\ files = {<<"x", "f">>} /\ DOMAIN card = {}
    BY DEF Init, Managed
  <2>2. ASSUME NEW d \in dirs
        PROVE  d \in Paths /\ Len(d) = 1 /\ Plain(d)
    <3>1. PICK name \in {"logs", "rawdata", "x"} : d = <<name>>
      BY <2>1
    <3>2. name \in Names /\ name # ""
      BY <3>1 DEF Names
    <3>3. d \in Paths /\ Len(d) = 1 /\ d[1] = name
      BY <3>1, <3>2, TupleFacts DEF Paths
    <3>4. \A i \in 1..Len(d) : i = 1
      BY <3>3
    <3> QED
      BY <3>2, <3>3, <3>4, PlainAt
  <2> DEFINE p == <<"x", "f">>
  <2>3. "x" \in Names /\ "f" \in Names /\ <<"x">> \in dirs
    BY <2>1 DEF Names
  <2>4. p \in Paths /\ Len(p) = 2 /\ p[1] = "x" /\ p[2] = "f"
    BY <2>3, TupleFacts DEF Paths
  <2>5. <<"x">> \in Paths /\ Len(<<"x">>) = 1 /\ <<"x">>[1] = "x"
    BY <2>3, TupleFacts DEF Paths
  <2>6. files = {p}
    BY <2>1
  <2> HIDE DEF p
  <2>7. Plain(p)
    <3>1. \A i \in 1..Len(p) : i = 1 \/ i = 2
      BY <2>4
    <3> QED
      BY <2>4, <3>1, PlainAt
  <2>8. SubSeq(p, 1, 1) = <<"x">>
    <3> DEFINE u == SubSeq(p, 1, 1)
               v == <<"x">>
    <3>1. u \in Paths /\ Len(u) = 1 /\ u[1] = "x"
      <4>1. 1 \in 0..Len(p) /\ 1 \in 1..1
        BY <2>4
      <4> QED
        BY <2>4, <4>1, Start
    <3>2. v \in Paths /\ Len(v) = 1 /\ v[1] = "x"
      BY <2>5
    <3> HIDE DEF u, v
    <3>3. u = v
      <4>1. \A i \in 1..Len(u) : i = 1
        BY <3>1
      <4> QED
        BY <3>1, <3>2, <4>1, SamePath
    <3> QED
      BY <3>3 DEF u, v
  <2>9. \A q \in dirs \cup files : Plain(q)
    BY <2>2, <2>6, <2>7
  <2>10. \A q \in dirs \cup files : \A n \in 1..Len(q) - 1 : SubSeq(q, 1, n) \in dirs
    <3>1. ASSUME NEW q \in dirs, NEW n \in 1..Len(q) - 1 PROVE FALSE
      <4>1. Len(q) = 1
        BY <2>2
      <4> QED
        BY <3>1, <4>1
    <3>2. ASSUME NEW n \in 1..Len(p) - 1 PROVE SubSeq(p, 1, n) \in dirs
      <4>1. n = 1
        BY <2>4, <3>2
      <4> QED
        BY <2>3, <2>8, <4>1
    <3> QED
      BY <2>6, <3>1, <3>2
  <2>11. dirs \cap files = {}
    <3>1. p \notin dirs
      BY <2>2, <2>4
    <3> QED
      BY <2>6, <3>1
  <2> QED
    BY <2>1, <2>9, <2>10, <2>11 DEF IsTree
<1> QED
  BY <1>1, <1>2, <1>3 DEF Inv

LEMMA LogNext == ASSUME LogInv, Next PROVE LogInv'
<1>1. CASE RinexLogger
  BY <1>1, LogStep
<1>2. CASE \E ok \in BOOLEAN : PowerLoss(ok)
  BY <1>2, PowerLog
<1>3. CASE ~RinexLogger /\ \A ok \in BOOLEAN : ~PowerLoss(ok)
  BY <1>3, OthersKeep, KeptLog
<1> QED
  BY <1>1, <1>2, <1>3

\* The inductive invariant holds: every step of the logger, the jobs and the
\* file handlers, and every power loss, keeps its three parts.
THEOREM AlwaysInv == Spec => []Inv
<1>1. Init => Inv
  BY InitInv
<1>2. Inv /\ [Next]_vars => Inv'
  <2> SUFFICES ASSUME Inv, [Next]_vars PROVE Inv'
    OBVIOUS
  <2>1. CASE Next
    BY <2>1, LogNext, JobStep, TreeStep DEF Inv
  <2>2. CASE UNCHANGED vars
    <3>1. UNCHANGED <<mounted, now, log, card>> /\ UNCHANGED <<dirs, files>>
      BY <2>2 DEF vars
    <3>2. UNCHANGED <<job, task, at, req, ghost>>
      BY <2>2 DEF vars
    <3>3. LogInv'
      BY <3>1 DEF Inv, LogInv, LogTypes, LogStands, Covered
    <3>4. JobInv'
      <4>1. ghost \in Ghosts
        BY DEF Inv, JobInv, JobTypes
      <4>2. Aside
        BY <3>2, <4>1 DEF Aside
      <4> QED
        BY <4>2, AsideJob DEF Inv
    <3>5. IsTree'
      BY <3>1 DEF Inv, IsTree
    <3> QED
      BY <3>3, <3>4, <3>5 DEF Inv
  <2> QED
    BY <2>1, <2>2
<1> QED
  BY <1>1, <1>2, PTL DEF Spec

\* write_epoch() and close_file(): the header of a file on the card is never
\* behind its data, whenever the power goes.
THEOREM HeaderAlwaysCovers == Spec => []HeaderCoversData
<1>1. Inv => HeaderCoversData
  BY DEF Inv, LogInv, Covered, HeaderCoversData
<1> QED
  BY <1>1, AlwaysInv, PTL

\* blocks_active_file(): a delete job leaves the file that was being written
\* when it was checked alone.
THEOREM ActiveFileStaysGuarded == Spec => []ActiveFileGuarded
<1>1. Inv => ActiveFileGuarded
  BY DEF Inv, JobInv, Guarded
<1> QED
  BY <1>1, AlwaysInv, PTL

\* start() and delete_task(): a job that runs has a task to end it, and two
\* tasks meet only when two callers were checked at once.
THEOREM JobsStayConsistent == Spec => []JobsConsistent
<1>1. Inv => JobsConsistent
  <2> SUFFICES ASSUME Inv PROVE JobsConsistent
    OBVIOUS
  <2>1. ASSUME NEW p \in dirs \cup files PROVE Front(p) = <<>> \/ Front(p) \in dirs
    <3>1. p \in Paths /\ Len(p) \in Nat
      <4>1. p \in Paths
        BY DEF Inv, IsTree, Plain
      <4> QED
        BY <4>1 DEF Paths
    <3>2. CASE Len(p) <= 1
      BY <3>1, <3>2 DEF Front, Paths
    <3>3. CASE Len(p) > 1
      <4>1. Len(p) - 1 \in 1..Len(p) - 1
        BY <3>1, <3>3
      <4> QED
        BY <4>1 DEF Inv, IsTree, Front
    <3> QED
      BY <3>1, <3>2, <3>3
  <2>2. TypeOK
    BY <2>1 DEF Inv, IsTree, LogInv, LogTypes, LogStands, Logs, JobInv, JobTypes, TypeOK
  <2>3. BusyHasTask
    BY DEF Inv, JobInv, OneJob, Working, BusyHasTask
  <2>4. RunsOnceUnlessChecksOverlap
    BY DEF Inv, JobInv, OneJob, Working, RunsOnceUnlessChecksOverlap
  <2> QED
    BY <2>2, <2>3, <2>4 DEF JobsConsistent
<1> QED
  BY <1>1, AlwaysInv, PTL

-----------------------------------------------------------------------------
(* The export.                                                             *)

\* What the logger holds of the file it has open.
OpenFile ==
    /\ log.file = NoFile => log.mem = {}
    /\ log.pc \in {"open", "name"} => log.active
    /\ log.pc = "name" => log.mem = {}
    /\ log.file # NoFile =>
          /\ log.open \in Epochs /\ log.open <= now /\ log.file = RinexPath(log.open)
          /\ log.pc \notin {"name", "close"} => log.active /\ log.cur = log.file
          /\ \A d \in log.mem : log.open <= d
    /\ \A d \in log.mem : d < now \/ (d = now /\ log.pc = "sync")
    /\ \A p \in DOMAIN card : \A d \in card[p].data : d < now

\* The file of this very epoch.
Fresh(u) == u = now /\ log.open = u /\ log.pc \in {"name", "write", "sync"}

\* A file named after an epoch holds the epochs from its own to the next file.
InHours ==
    /\ \A u \in Epochs : RinexPath(u) \in files =>
          (u < now \/ Fresh(u)) /\ (log.file # NoFile => u <= log.open)
    /\ \A t \in Epochs : RinexPath(t) \in DOMAIN card => \A d \in card[RinexPath(t)].data : t <= d
    /\ \A t, u \in Epochs : t < u /\ RinexPath(t) \in DOMAIN card /\ RinexPath(u) \in files
          => \A d \in card[RinexPath(t)].data : d < u
    /\ log.file \in DOMAIN card /\ log.pc # "sync" => card[log.file].data = log.mem

LEMMA RinexFacts ==
  /\ \A t, u \in Epochs : RinexPath(t) = RinexPath(u) => t = u
  /\ \A t \in Epochs : t \in Nat /\ t >= 1
  /\ now \in Epochs => now \in Nat
<1>1. ASSUME NEW t \in Epochs, NEW u \in Epochs, RinexPath(t) = RinexPath(u) PROVE t = u
  <2>1. Stamps[t] = Stamps[u]
    <3>1. "rawdata" \in Names /\ Stamps[t] \in Names /\ Stamps[u] \in Names
      BY StampFacts DEF Names
    <3>2. <<"rawdata", Stamps[t]>>[2] = Stamps[t] /\ <<"rawdata", Stamps[u]>>[2] = Stamps[u]
      BY <3>1, TupleFacts
    <3> QED
      BY <1>1, <3>2 DEF RinexPath
  <2> QED
    BY <2>1, SdAssumption DEF IsInjective, Epochs
<1> QED
  BY <1>1, StampFacts

\* What a step of the logger makes of its card: the file it has open may get
\* what is in memory, and nothing else changes but for a new file.
LEMMA LoggerHours ==
  ASSUME LogInv, IsTree, OpenFile, RinexLogger
  PROVE  OpenFile' /\ (InHours => InHours')
<1> USE RinexFacts
<1>0. /\ log \in Logs /\ now \in Nat /\ now >= 1
      /\ \A p \in DOMAIN card : card[p] \in Contents
      /\ NoFile \notin DOMAIN card
  <2>1. NoFile \notin DOMAIN card
    BY NoFileFacts DEF IsTree
  <2> QED
    BY <2>1, StampFacts DEF LogInv, LogTypes
<1>f. \A d \in log.mem : d \in Nat
  BY <1>0 DEF Logs
<1>1. CASE start
  <2>1. /\ log'.pc = log.pc /\ log'.file = log.file /\ log'.open = log.open /\ log'.mem = log.mem
        /\ UNCHANGED <<files, card, now>> /\ ~log.active /\ log.pc = "idle"
    BY <1>0, <1>1 DEF start, Logs
  <2>2. log.file = NoFile
    BY <2>1 DEF OpenFile
  <2> QED
    BY <2>1, <2>2 DEF OpenFile, InHours, Fresh
<1>2. CASE stop
  <2>1. /\ log'.pc \in {"idle", "close"} /\ (log.file # NoFile => log'.pc = "close")
        /\ log'.file = log.file /\ log'.open = log.open /\ log'.mem = log.mem
        /\ UNCHANGED <<files, card, now>> /\ log.active /\ log.pc = "idle"
    BY <1>0, <1>2 DEF stop, Logs
  <2> QED
    BY <2>1 DEF OpenFile, InHours, Fresh
<1>c. ASSUME NEW f, Commit(f), log.file = f, f # NoFile
      PROVE  /\ DOMAIN card' = DOMAIN card
             /\ \A p \in DOMAIN card : p # f => card'[p] = card[p]
             /\ f \in DOMAIN card => card'[f].data = log.mem
  BY <1>c DEF Commit, IsTree
<1>3. CASE close_file
  <2>1. /\ log'.pc \in {"idle", "open"} /\ (log'.pc = "open" => log'.active)
        /\ log'.file = NoFile /\ log'.mem = {}
        /\ UNCHANGED <<files, now>> /\ Commit(log.file)
    BY <1>3 DEF close_file, ClosedLog, Quiet
  <2>2. log.pc \in {"idle", "close"} /\ log.file # NoFile
    BY <1>3 DEF close_file, Closing, process_message, feed, rotate_if_needed, LogInv, LogStands
  <2>3. /\ DOMAIN card' = DOMAIN card
        /\ \A p \in DOMAIN card : p # log.file => card'[p] = card[p]
        /\ log.file \in DOMAIN card => card'[log.file].data = log.mem
    BY <1>c, <2>1, <2>2
  <2>4. NoFile \notin DOMAIN card'
    BY <1>0, <2>3
  <2>5. OpenFile'
    BY <1>0, <2>1, <2>2, <2>3, <2>4 DEF OpenFile
  <2>6. ASSUME InHours PROVE InHours'
    <3>1. \A p \in DOMAIN card : card'[p].data = card[p].data
      BY <2>2, <2>3, <2>6 DEF InHours
    <3> QED
      BY <1>0, <2>1, <2>2, <2>3, <2>4, <2>6, <3>1 DEF InHours, Fresh
  <2> QED
    BY <2>5, <2>6
<1>4. CASE open_file /\ CanOpen
  <2> DEFINE f == RinexPath(now)
  <2>a. /\ log' = [log EXCEPT !.pc = "name", !.file = f, !.open = now]
        /\ now' = now /\ files' = files \cup {f}
        /\ card' = [p \in DOMAIN card \cup {f} |-> IF p = f THEN [data |-> {}, last |-> 0] ELSE card[p]]
    BY <1>4 DEF open_file
  <2>b. /\ log'.pc = "name" /\ log'.file = f /\ log'.open = now /\ log'.mem = log.mem
        /\ log'.active = log.active
    BY <1>0, <2>a DEF Logs
  <2>1. /\ log'.pc = "name" /\ log'.file = f /\ log'.open = now /\ log'.mem = log.mem
        /\ log'.active = log.active
        /\ now' = now /\ files' = files \cup {f}
        /\ DOMAIN card' = DOMAIN card \cup {f}
        /\ card'[f].data = {} /\ \A p \in DOMAIN card : p # f => card'[p] = card[p]
    BY <2>a, <2>b
  <2>2. /\ log.file = NoFile /\ log.active /\ now \in Epochs /\ log.mem = {}
        /\ log.pc \in {"idle", "open"}
    BY <1>4 DEF open_file, Opening, process_message, feed, LogInv, LogStands, OpenFile
  <2>3. f # NoFile
    BY <2>2, StampFacts
  <2> HIDE DEF f
  <2>4. OpenFile'
    <3>1. now <= now
      BY <1>0
    <3> QED
      BY <1>0, <2>1, <2>2, <2>3, <3>1 DEF OpenFile, f
  <2>5. ASSUME InHours PROVE InHours'
    <3>1. \A u \in Epochs : RinexPath(u) \in files => u < now
      BY <2>2, <2>5 DEF InHours, Fresh
    <3>2. \A u \in Epochs : RinexPath(u) \in files' => u < now \/ u = now
      BY <2>1, <2>2, <3>1 DEF f
    <3>3. \A p \in DOMAIN card' : \A d \in card'[p].data : d < now
      BY <2>1, <2>4 DEF OpenFile
    <3>4. \A u \in Epochs : RinexPath(u) \in files' => (u < now' \/ Fresh(u)') /\ u <= log'.open
      BY <1>0, <2>1, <2>2, <3>2 DEF Fresh
    <3>5. \A t \in Epochs : RinexPath(t) \in DOMAIN card' => \A d \in card'[RinexPath(t)].data : t <= d
      BY <2>1, <2>5 DEF InHours
    <3>6. ASSUME NEW t \in Epochs, NEW u \in Epochs, t < u,
                 RinexPath(t) \in DOMAIN card', RinexPath(u) \in files',
                 NEW d \in card'[RinexPath(t)].data
          PROVE  d < u
      <4>1. CASE RinexPath(u) = f
        BY <2>2, <3>3, <3>6, <4>1 DEF f
      <4>2. CASE RinexPath(u) # f
        BY <2>1, <2>5, <3>6, <4>2 DEF InHours
      <4> QED
        BY <4>1, <4>2
    <3>7. card'[log'.file].data = log'.mem
      BY <2>1, <2>2
    <3> QED
      BY <3>4, <3>5, <3>6, <3>7 DEF InHours
  <2> QED
    BY <2>4, <2>5
\* The epoch is past.
<1>n. ASSUME now' = now + 1, log'.pc = "idle", log'.mem = log.mem, log'.file = log.file,
             log'.open = log.open, log'.active = log.active, log'.cur = log.cur,
             log.file # NoFile => log.active /\ log.cur = log.file,
             files' = files, DOMAIN card' = DOMAIN card,
             \A p \in DOMAIN card : card'[p].data = card[p].data \/ p = log.file,
             log.file \in DOMAIN card => card'[log.file].data = log.mem \/ UNCHANGED card,
             log.pc = "sync" => (log.file \in DOMAIN card => card'[log.file].data = log.mem)
      PROVE  OpenFile' /\ (InHours => InHours')
  <2>1. \A x \in Nat : x < now \/ x = now => x < now'
    BY <1>0, <1>n
  <2>2. /\ \A u \in Epochs : u <= now => u <= now'
        /\ \A d \in log.mem : d < now'
    BY <1>0, <1>f, <1>n, <2>1 DEF OpenFile
  <2>3. \A p \in DOMAIN card' : \A d \in card'[p].data : d < now'
    <3> SUFFICES ASSUME NEW p \in DOMAIN card, NEW d \in card'[p].data PROVE d < now'
      BY <1>n
    <3>1. CASE d \in card[p].data
      <4>1. d \in Nat /\ d < now
        BY <1>0, <3>1 DEF OpenFile, Contents
      <4> QED
        BY <2>1, <4>1
    <3>2. CASE d \in log.mem
      BY <2>2, <3>2
    <3> QED
      BY <1>n, <3>1, <3>2
  <2>4. OpenFile'
    BY <1>n, <2>2, <2>3 DEF OpenFile
  <2>5. ASSUME InHours PROVE InHours'
    <3>1. \A u \in Epochs : RinexPath(u) \in files' => u < now' /\ (log'.file # NoFile => u <= log'.open)
      BY <1>n, <2>1, <2>5 DEF InHours, Fresh
    <3>2. \A t \in Epochs : RinexPath(t) \in DOMAIN card' => \A d \in card'[RinexPath(t)].data : t <= d
      <4> SUFFICES ASSUME NEW t \in Epochs, RinexPath(t) \in DOMAIN card, NEW d \in card'[RinexPath(t)].data
                   PROVE  t <= d
        BY <1>n
      <4>1. CASE d \in card[RinexPath(t)].data
        BY <2>5, <4>1 DEF InHours
      <4>2. CASE RinexPath(t) = log.file /\ d \in log.mem
        <5>1. log.file # NoFile
          BY <1>0, <4>2
        <5>2. t = log.open /\ log.open <= d
          BY <4>2, <5>1 DEF OpenFile
        <5> QED
          BY <5>2
      <4> QED
        BY <1>n, <4>1, <4>2
    <3>3. ASSUME NEW t \in Epochs, NEW u \in Epochs, t < u,
                 RinexPath(t) \in DOMAIN card', RinexPath(u) \in files',
                 NEW d \in card'[RinexPath(t)].data
          PROVE  d < u
      <4>1. CASE d \in card[RinexPath(t)].data
        BY <1>n, <2>5, <3>3, <4>1 DEF InHours
      <4>2. CASE RinexPath(t) = log.file
        <5>1. log.file # NoFile
          BY <1>0, <1>n, <3>3, <4>2
        <5>2. t = log.open /\ u <= log.open
          BY <1>n, <2>5, <3>3, <4>2, <5>1 DEF OpenFile, InHours
        <5> QED
          BY <3>3, <5>2
      <4> QED
        BY <1>n, <3>3, <4>1, <4>2
    <3>4. log'.file \in DOMAIN card' => card'[log'.file].data = log'.mem
      BY <1>n, <2>5 DEF InHours
    <3> QED
      BY <3>1, <3>2, <3>3, <3>4 DEF InHours
  <2> QED
    BY <2>4, <2>5
<1>5. CASE open_file /\ ~CanOpen
  <2>1. log' = [log EXCEPT !.pc = "idle"] /\ now' = now + 1 /\ UNCHANGED <<files, card>>
    BY <1>5 DEF open_file
  <2>2. /\ log.file = NoFile /\ log.pc # "sync"
    BY <1>5 DEF open_file, Opening, process_message, feed, LogInv, LogStands
  <2> QED
    BY <1>0, <1>n, <2>1, <2>2 DEF Logs
<1>6. CASE publish_name
  <2>1. /\ log.pc = "name" /\ log'.pc = "write" /\ log'.file = log.file /\ log'.cur = log.file
        /\ log'.open = log.open /\ log'.mem = {} /\ log'.active = log.active
        /\ UNCHANGED <<files, card, now>>
    BY <1>0, <1>6 DEF publish_name, write_header, Logs
  <2> QED
    BY <2>1 DEF OpenFile, InHours, Fresh
<1>w. ASSUME Writing
      PROVE  log.pc \in {"idle", "write"} /\ log.file # NoFile /\ log.active /\ log.cur = log.file
  BY <1>w DEF Writing, process_message, feed, LogInv, LogStands, OpenFile
<1>7. CASE DropEpoch
  <2>1. log' = [log EXCEPT !.pc = "idle"] /\ now' = now + 1 /\ UNCHANGED <<files, card>> /\ Writing
    BY <1>7 DEF DropEpoch
  <2> QED
    BY <1>0, <1>n, <1>w, <2>1 DEF Logs
<1>8. CASE write_epoch
  <2>1. /\ log'.pc = "sync" /\ log'.file = log.file /\ log'.cur = log.cur /\ log'.open = log.open
        /\ log'.mem = log.mem \cup {now} /\ log'.active = log.active
        /\ UNCHANGED <<files, now>> /\ Writing
    BY <1>0, <1>8 DEF write_epoch, Logs
  <2>2. DOMAIN card' = DOMAIN card /\ \A p \in DOMAIN card : card'[p].data = card[p].data
    BY <1>0, <1>8 DEF write_epoch, Contents
  <2>3. OpenFile'
    BY <1>0, <1>w, <2>1, <2>2 DEF OpenFile
  <2>4. ASSUME InHours PROVE InHours'
    <3>1. \A u \in Epochs : Fresh(u) => Fresh(u)'
      BY <2>1 DEF Fresh
    <3> QED
      BY <1>w, <2>1, <2>2, <2>4, <3>1 DEF InHours
  <2> QED
    BY <2>3, <2>4
<1>9. CASE sync_epoch
  <2>1. /\ log' = [log EXCEPT !.pc = "idle"] /\ now' = now + 1 /\ files' = files
        /\ Commit(log.file) /\ log.pc = "sync"
    BY <1>9 DEF sync_epoch
  <2>2. log.file # NoFile /\ log.active /\ log.cur = log.file
    BY <2>1 DEF LogInv, LogStands, OpenFile
  <2>3. /\ DOMAIN card' = DOMAIN card
        /\ \A p \in DOMAIN card : p # log.file => card'[p] = card[p]
        /\ log.file \in DOMAIN card => card'[log.file].data = log.mem
    BY <1>c, <2>1, <2>2
  <2> QED
    BY <1>0, <1>n, <2>1, <2>2, <2>3 DEF Logs
<1> QED
  BY <1>1, <1>2, <1>3, <1>4, <1>5, <1>6, <1>7, <1>8, <1>9 DEF RinexLogger, open_file

\* What the others leave of the files of epochs is as the logger left it.
HoursKept ==
    /\ CardKept /\ (ghost.planted => ghost'.planted)
    /\ ghost'.planted \/ \A t \in Epochs : RinexPath(t) \in files' =>
          /\ RinexPath(t) \in files
          /\ RinexPath(t) \in DOMAIN card <=> RinexPath(t) \in DOMAIN card'
          /\ RinexPath(t) \in DOMAIN card => card'[RinexPath(t)] = card[RinexPath(t)]

LEMMA KeptHours ==
  ASSUME OpenFile, HoursKept, IsTree'
  PROVE  OpenFile' /\ (InHours /\ ~ghost'.planted => InHours')
<1>1. UNCHANGED <<log, now>> /\ \A q \in DOMAIN card' : \E p \in DOMAIN card : card'[q] = card[p]
  BY DEF HoursKept, CardKept
<1>2. OpenFile'
  BY <1>1 DEF OpenFile
<1>3. ASSUME InHours, ~ghost'.planted PROVE InHours'
  <2>1. \A t \in Epochs : RinexPath(t) \in files' =>
          /\ RinexPath(t) \in files
          /\ RinexPath(t) \in DOMAIN card <=> RinexPath(t) \in DOMAIN card'
          /\ RinexPath(t) \in DOMAIN card => card'[RinexPath(t)] = card[RinexPath(t)]
    BY <1>3 DEF HoursKept
  <2>2. DOMAIN card' \subseteq files'
    BY DEF IsTree
  <2>3. log.file \in DOMAIN card' => log.file # NoFile
    BY NoFileFacts DEF IsTree, Plain
  <2>4. log.file \in DOMAIN card' /\ log.pc # "sync" => card'[log.file].data = log.mem
    BY <1>3, <2>1, <2>2, <2>3 DEF OpenFile, InHours
  <2> QED
    BY <1>1, <1>3, <2>1, <2>2, <2>4 DEF InHours, Fresh
<1> QED
  BY <1>2, <1>3

LEMMA OthersKeepHours ==
  ASSUME Inv, Next, ~RinexLogger, \A ok \in BOOLEAN : ~PowerLoss(ok)
  PROVE  HoursKept
<1>0. CardKept /\ ghost \in Ghosts /\ DOMAIN card \subseteq files
  BY OthersKeep DEF Inv, JobInv, JobTypes, IsTree
<1>r. ASSUME NEW p, files' = files \ {p}, card' = [q \in DOMAIN card \ {p} |-> card[q]],
             ghost'.planted = ghost.planted
      PROVE  HoursKept
  BY <1>0, <1>r DEF HoursKept
<1>u. ASSUME UNCHANGED <<files, card>>, ghost'.planted = ghost.planted PROVE HoursKept
  BY <1>0, <1>u DEF HoursKept
<1>1. ASSUME NEW p \in Entries, delete_entry(p) PROVE HoursKept
  BY <1>0, <1>r, <1>1 DEF delete_entry, Moved, Ghosts
<1>2. ASSUME NEW from \in Entries, NEW to \in Targets, rename_entry(from, to) PROVE HoursKept
  <2> DEFINE move(p) == NewPath(from, to, p)
             g == ghost.planted \/ \E p \in files, t \in Epochs : move(p) # p /\ move(p) = RinexPath(t)
  <2>1. /\ files' = {move(p) : p \in files}
        /\ card' = [q \in {move(p) : p \in DOMAIN card} |-> card[CHOOSE p \in DOMAIN card : move(p) = q]]
        /\ ghost' = [ghost EXCEPT !.still = FALSE, !.planted = g]
    BY <1>2 DEF rename_entry, NewPath
  <2>2. ghost'.planted = g
    BY <1>0, <2>1 DEF Ghosts
  <2> HIDE DEF move
  <2>3. ASSUME ~g, NEW t \in Epochs, NEW p \in files, move(p) = RinexPath(t) PROVE p = RinexPath(t)
    BY <2>3
  <2>4. ASSUME ~g, NEW t \in Epochs, RinexPath(t) \in files'
        PROVE  /\ RinexPath(t) \in files /\ move(RinexPath(t)) = RinexPath(t)
               /\ RinexPath(t) \in DOMAIN card <=> RinexPath(t) \in DOMAIN card'
               /\ RinexPath(t) \in DOMAIN card => card'[RinexPath(t)] = card[RinexPath(t)]
    <3>1. RinexPath(t) \in files /\ move(RinexPath(t)) = RinexPath(t)
      BY <2>1, <2>3, <2>4
    <3>2. RinexPath(t) \in DOMAIN card <=> RinexPath(t) \in DOMAIN card'
      BY <1>0, <2>1, <2>3, <2>4, <3>1
    <3>3. ASSUME RinexPath(t) \in DOMAIN card PROVE card'[RinexPath(t)] = card[RinexPath(t)]
      <4>1. \E p \in DOMAIN card : move(p) = RinexPath(t)
        BY <3>1, <3>3
      <4>2. (CHOOSE p \in DOMAIN card : move(p) = RinexPath(t)) = RinexPath(t)
        BY <1>0, <2>3, <2>4, <4>1
      <4> QED
        BY <2>1, <3>2, <3>3, <4>2
    <3> QED
      BY <3>1, <3>2, <3>3
  <2> HIDE DEF g
  <2>5. ghost.planted => g
    BY DEF g
  <2> QED
    BY <1>0, <2>2, <2>4, <2>5 DEF HoursKept
<1>3. ASSUME NEW p \in Targets, files_mkdir(p) PROVE HoursKept
  BY <1>0, <1>u, <1>3 DEF files_mkdir, Moved, Ghosts
<1>4. CASE Exporting
  BY <1>0, <1>u, <1>4 DEF Exporting, rinex_export, export_check, export_file, export_done, ExportUnchanged, Ghosts
<1>5. ASSUME NEW c \in Callers,
             (\E paths \in Lists[c] : start_check(c, paths)) \/ start_claim(c)
      PROVE  HoursKept
  BY <1>0, <1>u, <1>5 DEF start_check, start_claim, FsUnchanged, Ghosts
<1>6. ASSUME NEW c \in Callers, delete_paths(c) \/ delete_task(c) PROVE HoursKept
  BY <1>0, <1>u, <1>6 DEF delete_paths, delete_task, TaskUnchanged, Ghosts
<1>7. ASSUME NEW c \in Callers, NEW p, Removed(c, p) PROVE HoursKept
  BY <1>0, <1>r, <1>7 DEF Removed, Ghosts
<1>8. ASSUME NEW c \in Callers, remove_shell(c) PROVE HoursKept
  BY <1>7, <1>u, <1>8 DEF remove_shell
<1>9. ASSUME NEW c \in Callers, NEW k \in Kids(c), remove_entry(c, k) PROVE HoursKept
  <2>1. Removed(c, Normal(k)) \/ (UNCHANGED <<files, card>> /\ UNCHANGED ghost)
    BY <1>9 DEF remove_entry
  <2> QED
    BY <1>7, <1>u, <1>9, <2>1
<1> QED
  BY <1>1, <1>2, <1>3, <1>4, <1>5, <1>6, <1>8, <1>9, ByAction, Zenon DEF RinexLogger

LEMMA PowerHours ==
  ASSUME Inv, OpenFile, NEW ok \in BOOLEAN, PowerLoss(ok)
  PROVE  OpenFile' /\ (InHours => InHours')
<1> USE RinexFacts
<1>1. /\ UNCHANGED <<files, card>>
      /\ log' = Quiet.log /\ now' = IF log.pc \in {"idle", "close"} THEN now ELSE now + 1
  BY DEF PowerLoss
<1>2. log'.file = NoFile /\ log'.pc = "idle" /\ log'.mem = {}
  BY <1>1 DEF Quiet
<1>3. /\ now \in Nat /\ NoFile \notin DOMAIN card
      /\ \A p \in DOMAIN card : card[p] \in Contents
  <2>1. NoFile \notin DOMAIN card
    BY NoFileFacts DEF Inv, IsTree, Plain
  <2> QED
    BY <2>1, StampFacts DEF Inv, LogInv, LogTypes
<1>4. \A x \in Nat : x < now => x < now'
  BY <1>1, <1>3
<1>5. \A p \in DOMAIN card : \A d \in card[p].data : d < now'
  BY <1>3, <1>4 DEF OpenFile, Contents
<1>6. OpenFile'
  BY <1>1, <1>2, <1>5 DEF OpenFile
<1>7. ASSUME InHours PROVE InHours'
  <2>1. \A u \in Epochs : RinexPath(u) \in files => u < now'
    BY <1>1, <1>3, <1>4, <1>7 DEF InHours, Fresh
  <2> QED
    BY <1>1, <1>2, <1>3, <1>7, <2>1 DEF InHours, Fresh
<1> QED
  BY <1>6, <1>7

LEMMA Least ==
  ASSUME NEW T \in SUBSET Nat, T # {}
  PROVE  \E x \in T : \A y \in T : x <= y
<1> DEFINE R == OpToRel(<, Nat)
<1>1. R = {ss \in Nat \X Nat : ss[1] < ss[2]}
  BY DEF OpToRel
<1>2. IsWellFoundedOn(R, Nat)
  BY NatLessThanWellFounded
<1> HIDE DEF R
<1>3. PICK x \in T : \A y \in T : <<y, x>> \notin R
  BY <1>2, WFMin
<1>4. \A y \in T : ~(y < x)
  BY <1>1, <1>3
<1> QED
  BY <1>4

\* The first and the last of a list of epochs.
LEMMA EndsOf ==
  ASSUME NEW S \in SUBSET Epochs, S # {}
  PROVE  /\ Min(S) \in S
         /\ Max(S) \in S /\ \A t \in S : t <= Max(S)
<1> DEFINE n == Len(Stamps)
<1>1. n \in Nat /\ S \subseteq 1..n
  BY StampFacts
<1> HIDE DEF n
<1>2. \E x \in S : \A y \in S : x <= y
  BY <1>1, Least
<1>3. \E x \in S : \A y \in S : x >= y
  <2> DEFINE T == {n - t : t \in S}
  <2>1. T \in SUBSET Nat /\ T # {}
    BY <1>1
  <2>2. PICK m \in T : \A k \in T : m <= k
    BY <2>1, Least
  <2>3. PICK x \in S : m = n - x
    BY <2>2
  <2>4. ASSUME NEW y \in S PROVE x >= y
    <3>1. m <= n - y
      BY <2>2
    <3> QED
      BY <1>1, <2>3, <3>1
  <2> QED
    BY <2>4
<1>4. Min(S) \in S
  BY <1>2 DEF Min
<1>5. Max(S) \in S /\ \A y \in S : Max(S) >= y
  BY <1>3 DEF Max
<1> QED
  BY <1>1, <1>4, <1>5

Streams == at["web"] \in {"export", "stream"} /\ ~ghost.raced /\ ~ghost.planted

\* The files still to go out belong to the past: the logger is done with them,
\* but for one it is closing, of which the card has everything.
Selected ==
    /\ exp.left \subseteq Epochs /\ (at["web"] = "export" => exp.left # {} /\ exp.sent = {})
    /\ \A t \in exp.left : t < now /\ (log.file = RinexPath(t) => log.pc = "close")

\* What was promised is sent or still to be read, unless a file is gone.
Promised ==
    /\ \A d \in exp.sent : d <= exp.last
    /\ \A t \in exp.left : RinexPath(t) \in files =>
          RinexPath(t) \in DOMAIN card /\ \A d \in card[RinexPath(t)].data : d <= exp.last
    /\ (\A t \in exp.left : RinexPath(t) \in files) =>
          \A d \in exp.wanted : d \in exp.sent \/ \E t \in exp.left : d \in card[RinexPath(t)].data

ExportInv ==
    /\ ExportIsWhole
    /\ exp = [left |-> exp.left, last |-> exp.last, sent |-> exp.sent, wanted |-> exp.wanted]
    /\ Streams => Selected /\ (at["web"] = "stream" => Promised)

HourInv == OpenFile /\ (~ghost.planted => InHours) /\ ExportInv

\* The logger and the delete jobs leave the data of a file that is to go out
\* alone, or remove the file.
ExportKept ==
    /\ UNCHANGED exp /\ at'["web"] = at["web"] /\ ghost'.whole = ghost.whole
    /\ ghost'.raced = ghost.raced /\ ghost'.planted = ghost.planted
    /\ Streams => \A t \in exp.left :
          /\ t < now'
          /\ log'.file = RinexPath(t) => log'.pc = "close"
          /\ RinexPath(t) \in files' =>
                /\ RinexPath(t) \in files
                /\ RinexPath(t) \in DOMAIN card =>
                      RinexPath(t) \in DOMAIN card' /\ card'[RinexPath(t)].data = card[RinexPath(t)].data

LEMMA KeptExport == ASSUME ExportInv, ExportKept PROVE ExportInv'
<1>1. ASSUME Streams' PROVE Streams /\ Selected' /\ (at'["web"] = "stream" => Promised')
  <2>1. Streams /\ Selected
    BY <1>1 DEF Streams, ExportKept, ExportInv
  <2>2. Selected'
    BY <2>1 DEF Selected, ExportKept
  <2>3. ASSUME at'["web"] = "stream" PROVE Promised'
    <3>1. Promised
      BY <2>1, <2>3 DEF ExportInv, ExportKept
    <3> QED
      BY <2>1, <3>1 DEF Promised, ExportKept
  <2> QED
    BY <2>1, <2>2, <2>3
<1> QED
  BY <1>1 DEF ExportInv, ExportIsWhole, ExportKept

\* Nothing is to go out while no export is under way.
LEMMA NoStream ==
  ASSUME ExportInv, at'["web"] \notin {"export", "stream"}, exp' \in {exp, NoExport},
         ghost'.whole = ghost.whole
  PROVE  ExportInv'
<1>1. exp' = [left |-> exp'.left, last |-> exp'.last, sent |-> exp'.sent, wanted |-> exp'.wanted]
  BY DEF ExportInv, NoExport
<1> QED
  BY <1>1 DEF ExportInv, ExportIsWhole, Streams

LEMMA LoggerExport ==
  ASSUME Inv, HourInv, RinexLogger
  PROVE  ExportInv'
<1> USE RinexFacts
<1>0. /\ log \in Logs /\ now \in Nat /\ ghost \in Ghosts
      /\ \A p \in DOMAIN card : card[p] \in Contents
  BY StampFacts DEF Inv, LogInv, LogTypes, JobInv, JobTypes
<1>1. /\ UNCHANGED exp /\ at'["web"] = at["web"]
      /\ ghost'.whole = ghost.whole /\ ghost'.raced = ghost.raced /\ ghost'.planted = ghost.planted
  BY <1>0 DEF RinexLogger, start, stop, close_file, open_file, publish_name, DropEpoch, write_epoch,
         sync_epoch, Moved, LoggerUnchanged, Ghosts
<1>2. ASSUME Streams, NEW t \in exp.left
      PROVE  /\ t < now'
             /\ log'.file = RinexPath(t) => log'.pc = "close"
             /\ RinexPath(t) \in files' =>
                   /\ RinexPath(t) \in files
                   /\ RinexPath(t) \in DOMAIN card =>
                         RinexPath(t) \in DOMAIN card' /\ card'[RinexPath(t)].data = card[RinexPath(t)].data
  <2> DEFINE f == RinexPath(t)
  <2>1. t \in Epochs /\ t < now /\ (log.file = f => log.pc = "close")
    BY <1>2 DEF HourInv, ExportInv, Selected
  <2>2. t < now'
    BY <1>0, <2>1 DEF RinexLogger, start, stop, close_file, open_file, publish_name, DropEpoch,
           write_epoch, sync_epoch
  <2>3. f # NoFile /\ (now \in Epochs => f # RinexPath(now))
    BY <2>1, StampFacts
  <2> HIDE DEF f
  <2>c. ASSUME Commit(log.file), f \in DOMAIN card
        PROVE  f \in DOMAIN card' /\ card'[f].data = card[f].data
    <3>1. CASE log.file = f
      <4>1. card[f].data = log.mem
        BY <1>2, <2>1, <2>c, <3>1 DEF HourInv, InHours, Streams
      <4> QED
        BY <2>c, <3>1, <4>1 DEF Commit
    <3>2. CASE log.file # f
      BY <2>c, <3>2 DEF Commit
    <3> QED
      BY <3>1, <3>2
  <2>4. CASE start \/ stop \/ publish_name \/ DropEpoch
    <3>1. UNCHANGED <<files, card>> /\ log'.file = log.file
      BY <1>0, <2>4 DEF start, stop, publish_name, write_header, DropEpoch, Logs
    <3>2. log.pc # "close" \/ UNCHANGED log
      BY <2>4 DEF start, stop, publish_name, DropEpoch, Writing, process_message, feed
    <3> QED
      BY <2>1, <2>2, <3>1, <3>2 DEF f
  <2>5. CASE close_file
    <3>1. Commit(log.file) /\ files' = files /\ log'.file = NoFile
      BY <2>5 DEF close_file, ClosedLog, Quiet
    <3> QED
      BY <2>2, <2>3, <2>c, <3>1 DEF f
  <2>6. CASE open_file
    <3>1. now \in Epochs /\ log.file = NoFile
      BY <2>6 DEF open_file, Opening, process_message, feed, Inv, LogInv, LogStands
    <3>2. CASE CanOpen
      <4>1. /\ log'.file = RinexPath(now) /\ files' = files \cup {RinexPath(now)}
            /\ card' = [p \in DOMAIN card \cup {RinexPath(now)} |->
                            IF p = RinexPath(now) THEN [data |-> {}, last |-> 0] ELSE card[p]]
        BY <1>0, <2>6, <3>2 DEF open_file, Logs
      <4> QED
        BY <2>2, <2>3, <3>1, <4>1 DEF f
    <3>3. CASE ~CanOpen
      <4>1. log'.file = log.file /\ UNCHANGED <<files, card>>
        BY <1>0, <2>6, <3>3 DEF open_file, Logs
      <4> QED
        BY <2>2, <2>3, <3>1, <4>1 DEF f
    <3> QED
      BY <3>2, <3>3
  <2>7. CASE write_epoch
    <3>1. files' = files /\ log'.file = log.file /\ Writing
      BY <1>0, <2>7 DEF write_epoch, Logs
    <3>2. log.pc # "close"
      BY <3>1 DEF Writing, process_message, feed
    <3>3. DOMAIN card' = DOMAIN card /\ \A p \in DOMAIN card : card'[p].data = card[p].data
      BY <1>0, <2>7 DEF write_epoch, Contents
    <3> QED
      BY <2>1, <2>2, <3>1, <3>2, <3>3 DEF f
  <2>8. CASE sync_epoch
    <3>1. files' = files /\ log'.file = log.file /\ log.pc = "sync" /\ Commit(log.file)
      BY <1>0, <2>8 DEF sync_epoch, Logs
    <3> QED
      BY <2>1, <2>2, <2>c, <3>1 DEF f
  <2> QED
    BY <2>4, <2>5, <2>6, <2>7, <2>8 DEF RinexLogger
<1>3. ExportKept
  BY <1>1, <1>2 DEF ExportKept
<1> QED
  BY <1>3, KeptExport DEF HourInv

LEMMA OthersExport ==
  ASSUME Inv, HourInv, Next, ~RinexLogger, ~Exporting, \A ok \in BOOLEAN : ~PowerLoss(ok)
  PROVE  ExportInv'
<1>0. /\ ghost \in Ghosts /\ at \in [Callers -> {"idle", "checked", "export", "stream"}]
      /\ "web" \in Callers
  BY DEF Inv, JobInv, JobTypes, Callers
<1>1. ASSUME UNCHANGED exp, at'["web"] = at["web"], ghost'.whole = ghost.whole,
             ghost'.raced = ghost.raced, ghost'.planted = ghost.planted
      PROVE  ExportInv'
  <2>1. HoursKept
    BY OthersKeepHours
  <2>2. ExportKept
    <3>1. UNCHANGED <<log, now>>
      BY <2>1 DEF HoursKept, CardKept
    <3>2. ASSUME Streams, NEW t \in exp.left
          PROVE  /\ t \in Epochs /\ t < now /\ (log.file = RinexPath(t) => log.pc = "close")
                 /\ ~ghost'.planted
      BY <1>1, <3>2 DEF HourInv, ExportInv, Selected, Streams
    <3> QED
      BY <1>1, <2>1, <3>1, <3>2 DEF ExportKept, HoursKept
  <2> QED
    BY <2>2, KeptExport DEF HourInv
<1>2. ASSUME UNCHANGED exp, at'["web"] \in {"idle", "checked"}, ghost'.whole = ghost.whole
      PROVE  ExportInv'
  BY <1>2, NoStream DEF HourInv
<1>3. ASSUME NEW p \in Entries, delete_entry(p) PROVE ExportInv'
  BY <1>0, <1>2, <1>3 DEF delete_entry, Handler, HandlerUnchanged, Moved, Ghosts
<1>4. ASSUME NEW from \in Entries, NEW to \in Targets, rename_entry(from, to) PROVE ExportInv'
  <2>1. UNCHANGED <<exp, at>> /\ at["web"] = "idle"
    BY <1>4 DEF rename_entry, Handler, HandlerUnchanged
  <2>2. \E g : ghost' = [ghost EXCEPT !.still = FALSE, !.planted = g]
    BY <1>4 DEF rename_entry
  <2> QED
    BY <1>0, <1>2, <2>1, <2>2 DEF Ghosts
<1>5. ASSUME NEW p \in Targets, files_mkdir(p) PROVE ExportInv'
  BY <1>0, <1>2, <1>5 DEF files_mkdir, Handler, HandlerUnchanged, Moved, Ghosts
<1>6. ASSUME NEW c \in Callers, NEW paths \in Lists[c], start_check(c, paths) PROVE ExportInv'
  <2>1. /\ UNCHANGED exp /\ at' = [at EXCEPT ![c] = "checked"]
        /\ ghost'.whole = ghost.whole /\ ghost'.raced = ghost.raced /\ ghost'.planted = ghost.planted
    BY <1>0, <1>6 DEF start_check, FsUnchanged, Ghosts
  <2> QED
    BY <1>0, <1>1, <1>2, <2>1
<1>7. ASSUME NEW c \in Callers, start_claim(c) PROVE ExportInv'
  <2>1. /\ UNCHANGED exp /\ at' = [at EXCEPT ![c] = "idle"]
        /\ ghost'.whole = ghost.whole /\ ghost'.raced = ghost.raced /\ ghost'.planted = ghost.planted
    BY <1>0, <1>7 DEF start_claim, FsUnchanged, Ghosts
  <2> QED
    BY <1>0, <1>1, <1>2, <2>1
<1>r. ASSUME NEW c \in Callers, NEW p, Removed(c, p)
      PROVE  ghost'.whole = ghost.whole /\ ghost'.raced = ghost.raced /\ ghost'.planted = ghost.planted
  BY <1>0, <1>r DEF Removed, Ghosts
<1>8. ASSUME NEW c \in Callers, delete_paths(c) \/ delete_task(c) PROVE ExportInv'
  BY <1>0, <1>1, <1>8 DEF delete_paths, delete_task, TaskUnchanged, Ghosts
<1>9. ASSUME NEW c \in Callers, remove_shell(c) PROVE ExportInv'
  <2>1. UNCHANGED <<exp, at>>
    BY <1>9 DEF remove_shell, TaskUnchanged
  <2>2. Removed(c, Top(c).path) \/ UNCHANGED ghost
    BY <1>9 DEF remove_shell
  <2> QED
    BY <1>1, <1>r, <2>1, <2>2
<1>10. ASSUME NEW c \in Callers, NEW k \in Kids(c), remove_entry(c, k) PROVE ExportInv'
  <2>1. UNCHANGED <<exp, at>>
    BY <1>10 DEF remove_entry, TaskUnchanged
  <2>2. Removed(c, Normal(k)) \/ UNCHANGED ghost
    BY <1>10 DEF remove_entry
  <2> QED
    BY <1>1, <1>r, <2>1, <2>2
<1> QED
  BY <1>3, <1>4, <1>5, <1>6, <1>7, <1>8, <1>9, <1>10, ByAction, Zenon DEF RinexLogger

LEMMA SelectExport ==
  ASSUME Inv, HourInv, NEW a \in Epochs, rinex_export(a, Len(Stamps))
  PROVE  ExportInv'
<1> DEFINE b == Len(Stamps)
           paths == {RinexPath(t) : t \in select_rinex_files(a, b)}
<1>1. /\ exp' = [NoExport EXCEPT !.left = select_rinex_files(a, b)]
      /\ at' = [at EXCEPT !["web"] = "export"]
      /\ ghost' = [ghost EXCEPT !.raced = log.pc = "name" /\ log.file \in paths]
      /\ UNCHANGED <<now, log>> /\ paths # {} /\ Active \notin paths
  BY DEF rinex_export, selected_active_rinex_file, ExportUnchanged
<1>2. /\ ghost \in Ghosts /\ at \in [Callers -> {"idle", "checked", "export", "stream"}]
      /\ "web" \in Callers
  BY DEF Inv, JobInv, JobTypes, Callers
<1>3. PICK g : g \in BOOLEAN /\ g = (log.pc = "name" /\ log.file \in paths)
  OBVIOUS
<1>4. /\ ghost'.raced = g /\ ghost'.planted = ghost.planted /\ ghost'.whole = ghost.whole
      /\ at'["web"] = "export"
  <2>1. ghost' = [ghost EXCEPT !.raced = g]
    BY <1>1, <1>3
  <2> HIDE DEF paths
  <2> QED
    BY <1>1, <1>2, <2>1 DEF Ghosts
<1>5. select_rinex_files(a, b) \subseteq {t \in Epochs : RinexPath(t) \in files}
  BY DEF select_rinex_files
<1> DEFINE S == select_rinex_files(a, b)
<1>6. exp' = [left |-> S, last |-> 0, sent |-> {}, wanted |-> {}]
  BY <1>1 DEF NoExport
<1>7. ASSUME ~g, ~ghost.planted, NEW t \in S PROVE t < now /\ (log.file = RinexPath(t) => log.pc = "close")
  <2>1. t \in Epochs /\ RinexPath(t) \in files /\ RinexPath(t) \in paths
    BY <1>5
  <2>2. log.pc # "name" \/ log.file # RinexPath(t)
    BY <1>3, <1>7, <2>1
  <2>3. Active # RinexPath(t)
    BY <1>1, <2>1
  <2>4. RinexPath(t) # NoFile
    BY <2>1, StampFacts
  <2>5. log.file = RinexPath(t) => log.pc = "close"
    BY <2>2, <2>3, <2>4 DEF HourInv, OpenFile, Active
  <2>6. t < now \/ Fresh(t)
    BY <1>7, <2>1 DEF HourInv, InHours
  <2>7. ~Fresh(t)
    <3> SUFFICES ASSUME Fresh(t) PROVE FALSE
      OBVIOUS
    <3>1. log.file # NoFile
      BY DEF Fresh, Inv, LogInv, LogStands
    <3>2. log.file = RinexPath(t)
      BY <3>1 DEF Fresh, HourInv, OpenFile
    <3> QED
      BY <2>5, <3>2 DEF Fresh
  <2> QED
    BY <2>5, <2>6, <2>7
<1>8. S # {}
  BY <1>1
<1> HIDE DEF S, paths, b
<1>9. exp'.left = S /\ exp'.sent = {} /\ exp' = [left |-> exp'.left, last |-> exp'.last, sent |-> exp'.sent, wanted |-> exp'.wanted]
  BY <1>6
<1>10. Streams' => Selected'
  BY <1>1, <1>4, <1>5, <1>7, <1>8, <1>9 DEF Streams, Selected, S
<1> QED
  BY <1>4, <1>9, <1>10 DEF ExportInv, ExportIsWhole, HourInv

LEMMA CheckExport ==
  ASSUME Inv, HourInv, export_check
  PROVE  ExportInv'
<1>1. at["web"] = "export" /\ UNCHANGED <<ghost, now, log, files, card>>
  BY DEF export_check, ExportUnchanged
<1>2. at \in [Callers -> {"idle", "checked", "export", "stream"}] /\ "web" \in Callers
  BY DEF Inv, JobInv, JobTypes, Callers
<1>3. CASE ~\A t \in exp.left : check_rinex_header(RinexPath(t))
  <2>1. at' = [at EXCEPT !["web"] = "idle"] /\ exp' = NoExport
    BY <1>3 DEF export_check
  <2> QED
    BY <1>1, <1>2, <2>1, NoStream DEF HourInv
<1>4. CASE \A t \in exp.left : check_rinex_header(RinexPath(t))
  <2> DEFINE last == card[RinexPath(Max(exp.left))].last
             wanted == UNION {card[RinexPath(t)].data : t \in exp.left}
  <2>1. /\ at' = [at EXCEPT !["web"] = "stream"]
        /\ exp' = [exp EXCEPT !.last = last, !.wanted = wanted]
    BY <1>4 DEF export_check
  <2>2. /\ exp'.last = last /\ exp'.wanted = wanted /\ exp'.left = exp.left /\ exp'.sent = exp.sent
        /\ exp' = [left |-> exp'.left, last |-> exp'.last, sent |-> exp'.sent, wanted |-> exp'.wanted]
    BY <2>1 DEF HourInv, ExportInv
  <2>3. ASSUME Streams PROVE Selected' /\ Promised'
    <3>1. /\ exp.left \in SUBSET Epochs /\ exp.left # {}
          /\ \A t \in exp.left : t < now /\ (log.file = RinexPath(t) => log.pc = "close")
      BY <1>1, <2>3 DEF HourInv, ExportInv, Selected
    <3>2. Selected'
      BY <1>1, <1>2, <2>1, <2>2, <3>1 DEF Selected
    <3>3. \A t \in exp.left : RinexPath(t) \in DOMAIN card /\ card[RinexPath(t)].data # {}
      BY <1>4 DEF check_rinex_header
    <3> DEFINE m == Max(exp.left)
    <3>4. m \in exp.left /\ \A t \in exp.left : t <= m
      BY <3>1, EndsOf
    <3> HIDE DEF m
    <3>5. exp.sent = {}
      BY <1>1, <2>3 DEF HourInv, ExportInv, Selected
    <3>6. /\ \A p \in DOMAIN card : card[p] \in Contents /\ \A d \in card[p].data : d <= card[p].last
          /\ DOMAIN card \subseteq files
      BY DEF Inv, LogInv, LogTypes, Covered, IsTree
    <3>7. ASSUME NEW t \in exp.left, NEW d \in card[RinexPath(t)].data PROVE d <= last
      <4>1. last = card[RinexPath(m)].last /\ RinexPath(m) \in DOMAIN card /\ RinexPath(t) \in DOMAIN card
        BY <3>3, <3>4 DEF m
      <4>2. CASE t = m
        BY <3>6, <4>1, <4>2
      <4>3. CASE t # m
        <5>1. t < m /\ t \in Epochs /\ m \in Epochs /\ m \in Nat
          BY <3>1, <3>4, <4>3, RinexFacts
        <5>2. d < m
          BY <2>3, <3>6, <4>1, <5>1 DEF HourInv, InHours, Streams
        <5>3. PICK e \in card[RinexPath(m)].data : e <= last
          BY <3>3, <3>4, <3>6, <4>1
        <5>4. m <= e
          BY <2>3, <4>1, <5>1, <5>3 DEF HourInv, InHours, Streams
        <5>5. d \in Nat /\ e \in Nat /\ last \in Nat
          BY <3>6, <4>1, <5>3 DEF Contents
        <5> HIDE DEF last
        <5> QED
          BY <5>1, <5>2, <5>3, <5>4, <5>5
      <4> QED
        BY <4>2, <4>3
    <3> HIDE DEF last, wanted
    <3>8. ASSUME NEW d \in wanted PROVE \E t \in exp.left : d \in card[RinexPath(t)].data
      BY <3>8 DEF wanted
    <3>9. Promised'
      BY <1>1, <2>2, <3>3, <3>5, <3>7, <3>8 DEF Promised
    <3> QED
      BY <3>2, <3>9
  <2> QED
    BY <1>1, <1>2, <2>1, <2>2, <2>3 DEF ExportInv, ExportIsWhole, HourInv, Streams
<1> QED
  BY <1>3, <1>4

LEMMA FileExport ==
  ASSUME Inv, HourInv, export_file
  PROVE  ExportInv'
<1> DEFINE t == Min(exp.left)
           p == RinexPath(t)
<1>1. at["web"] = "stream" /\ exp.left # {} /\ UNCHANGED <<ghost, now, log, files, card>>
  BY DEF export_file, ExportUnchanged
<1>2. at \in [Callers -> {"idle", "checked", "export", "stream"}] /\ "web" \in Callers
  BY DEF Inv, JobInv, JobTypes, Callers
<1>3. CASE exp' = NoExport /\ at' = [at EXCEPT !["web"] = "idle"]
  BY <1>1, <1>2, <1>3, NoStream DEF HourInv
<1>4. CASE /\ p \in files /\ UNCHANGED at
           /\ exp' = [exp EXCEPT !.left = @ \ {t}, !.sent = @ \cup card[p].data]
  <2>1. /\ exp'.last = exp.last /\ exp'.wanted = exp.wanted
        /\ exp'.left = exp.left \ {t} /\ exp'.sent = exp.sent \cup card[p].data
        /\ exp' = [left |-> exp'.left, last |-> exp'.last, sent |-> exp'.sent, wanted |-> exp'.wanted]
    BY <1>4 DEF HourInv, ExportInv
  <2>2. ASSUME Streams PROVE Selected' /\ Promised'
    <3>1. Selected /\ Promised
      BY <1>1, <2>2 DEF HourInv, ExportInv
    <3>2. t \in exp.left
      BY <1>1, <3>1, EndsOf DEF Selected
    <3> HIDE DEF t
    <3>3. Selected'
      BY <1>1, <1>4, <2>1, <3>1 DEF Selected
    <3>4. \A d \in exp'.sent : d <= exp.last
      BY <1>4, <2>1, <3>1, <3>2 DEF Promised
    <3>5. (\A u \in exp'.left : RinexPath(u) \in files) => \A u \in exp.left : RinexPath(u) \in files
      BY <1>4, <2>1
    <3>6. (\A u \in exp'.left : RinexPath(u) \in files) =>
             \A d \in exp.wanted : d \in exp'.sent \/ \E u \in exp'.left : d \in card[RinexPath(u)].data
      BY <2>1, <3>1, <3>5 DEF Promised
    <3>7. Promised'
      BY <1>1, <2>1, <3>1, <3>4, <3>6 DEF Promised
    <3> QED
      BY <3>3, <3>7
  <2> QED
    BY <1>1, <1>4, <2>1, <2>2 DEF ExportInv, ExportIsWhole, HourInv, Streams
<1> QED
  BY <1>3, <1>4 DEF export_file

LEMMA DoneExport ==
  ASSUME Inv, HourInv, export_done
  PROVE  ExportInv'
<1> DEFINE good == /\ exp.wanted \subseteq exp.sent
                   /\ \A t \in exp.sent : t <= exp.last
<1>1. /\ at["web"] = "stream" /\ exp.left = {} /\ exp' = NoExport
      /\ at' = [at EXCEPT !["web"] = "idle"]
      /\ ghost' = [ghost EXCEPT !.raced = FALSE,
            !.whole = @ /\ (ghost.raced \/ ghost.planted \/ good)]
  BY DEF export_done
<1>2. /\ at \in [Callers -> {"idle", "checked", "export", "stream"}] /\ "web" \in Callers
      /\ ghost \in Ghosts
  BY DEF Inv, JobInv, JobTypes, Callers
<1>3. ASSUME Streams PROVE good
  BY <1>1, <1>3 DEF HourInv, ExportInv, Promised
<1>4. ghost.whole = TRUE /\ (ghost.raced \/ ghost.planted \/ good)
  BY <1>1, <1>2, <1>3 DEF Streams, HourInv, ExportInv, ExportIsWhole, Ghosts
<1> HIDE DEF good
<1>5. ghost'.whole = ghost.whole
  BY <1>1, <1>2, <1>4 DEF Ghosts
<1> QED
  BY <1>1, <1>2, <1>5, NoStream DEF HourInv

LEMMA HourStep ==
  ASSUME Inv, HourInv, Next, Inv'
  PROVE  HourInv'
<1>g. ghost \in Ghosts
  BY DEF Inv, JobInv, JobTypes
<1>1. CASE RinexLogger
  <2>1. OpenFile' /\ (InHours => InHours')
    BY <1>1, LoggerHours DEF Inv, HourInv
  <2>2. ghost'.planted = ghost.planted
    BY <1>1, <1>g DEF RinexLogger, start, stop, close_file, open_file, publish_name, DropEpoch,
           write_epoch, sync_epoch, Moved, Ghosts
  <2> QED
    BY <1>1, <2>1, <2>2, LoggerExport DEF HourInv
<1>2. ASSUME NEW ok \in BOOLEAN, PowerLoss(ok) PROVE HourInv'
  <2>1. OpenFile' /\ (InHours => InHours')
    BY <1>2, PowerHours DEF HourInv
  <2>2. ghost'.planted = ghost.planted /\ ghost'.whole = ghost.whole
    BY <1>2, <1>g DEF PowerLoss, Ghosts
  <2>3. at'["web"] = "idle" /\ exp' = NoExport
    BY <1>2 DEF PowerLoss, Callers
  <2> QED
    BY <2>1, <2>2, <2>3, NoStream DEF HourInv
<1>3. CASE ~RinexLogger /\ \A ok \in BOOLEAN : ~PowerLoss(ok)
  <2>1. HoursKept
    BY <1>3, OthersKeepHours
  <2>2. OpenFile' /\ (InHours /\ ~ghost'.planted => InHours')
    BY <2>1, KeptHours DEF Inv, HourInv
  <2>3. ~ghost'.planted => ~ghost.planted
    BY <2>1 DEF HoursKept
  <2>4. ExportInv'
    <3>1. CASE Exporting
      BY <3>1, SelectExport, CheckExport, FileExport, DoneExport DEF Exporting
    <3>2. CASE ~Exporting
      BY <1>3, <3>2, OthersExport
    <3> QED
      BY <3>1, <3>2
  <2> QED
    BY <2>2, <2>3, <2>4 DEF HourInv
<1> QED
  BY <1>1, <1>2, <1>3

LEMMA InitHours == ASSUME Init PROVE HourInv
<1>1. /\ log = Quiet.log /\ DOMAIN card = {} /\ exp = NoExport /\ at["web"] = "idle" /\ now = 1
      /\ files = {<<"x", "f">>} /\ ghost.whole = TRUE
  BY DEF Init, Callers
<1>2. log.file = NoFile /\ log.mem = {} /\ log.pc = "idle"
  BY <1>1 DEF Quiet
<1>3. OpenFile
  BY <1>1, <1>2 DEF OpenFile
<1>4. \A t \in Epochs : RinexPath(t) \notin files
  <2> SUFFICES ASSUME NEW t \in Epochs, <<"rawdata", Stamps[t]>> = <<"x", "f">> PROVE FALSE
    BY <1>1 DEF RinexPath
  <2>1. "rawdata" \in Names /\ Stamps[t] \in Names /\ "x" \in Names /\ "f" \in Names
    BY StampFacts DEF Names
  <2>2. <<"rawdata", Stamps[t]>>[1] = "rawdata" /\ <<"x", "f">>[1] = "x"
    BY <2>1, TupleFacts
  <2> QED
    BY <2>2
<1>5. InHours
  BY <1>1, <1>4 DEF InHours
<1>6. ExportInv
  BY <1>1 DEF ExportInv, ExportIsWhole, NoExport, Streams
<1> QED
  BY <1>3, <1>5, <1>6 DEF HourInv

\* The logger, the card and the export agree on which file holds which epochs.
THEOREM AlwaysHours == Spec => []HourInv
<1>1. Init => HourInv
  BY InitHours
<1>2. Inv /\ Inv' /\ HourInv /\ [Next]_vars => HourInv'
  <2> SUFFICES ASSUME Inv, Inv', HourInv, [Next]_vars PROVE HourInv'
    OBVIOUS
  <2>1. CASE Next
    BY <2>1, HourStep
  <2>2. CASE UNCHANGED vars
    <3>1. UNCHANGED <<log, now, files, card>> /\ UNCHANGED <<at, exp, ghost>>
      BY <2>2 DEF vars
    <3>2. OpenFile' /\ (~ghost'.planted => InHours')
      BY <3>1 DEF HourInv, OpenFile, InHours, Fresh
    <3>3. ExportInv'
      BY <3>1 DEF HourInv, ExportInv, ExportIsWhole, Streams, Selected, Promised
    <3> QED
      BY <3>2, <3>3 DEF HourInv
  <2> QED
    BY <2>1, <2>2
<1> QED
  BY <1>1, <1>2, AlwaysInv, PTL DEF Spec

\* rinex_export_handler(): whatever the logger, the delete jobs and the power
\* do during an export, one that is complete is whole.
THEOREM ExportStaysWhole == Spec => []ExportIsWhole
<1>1. HourInv => ExportIsWhole
  BY DEF HourInv, ExportInv
<1> QED
  BY <1>1, AlwaysHours, PTL

-----------------------------------------------------------------------------
(* The report of a delete job.                                             *)

AnyRefused == \E p \in job.paths : Refused(p)

\* What a job has to remove: the trees of its list, but for the shells of the
\* managed directories it names.
Kept(paths, q) == q \in Managed /\ \E r \in paths : Normal(r) = q
Doomed(paths) ==
    {q \in dirs \cup files : Inside(paths, q) /\ ~(q \in dirs /\ Kept(paths, q))}

\* The jobs whose preview has to come true if nothing fails.
Exact == ghost.still /\ Separate(job.paths) /\ job.total < WalkCap /\ ~AnyRefused

\* The stack of a walk: the list at the bottom, what lies below it in the
\* other frames, and a shell that is kept where the preview left it out.
Deeper(paths, q) == \E r \in paths : IsPrefix(Normal(r), q) /\ Normal(r) # q
Orderly(paths, s) ==
    \A i \in 1..Len(s) :
        /\ i = Len(s) => s[i].kids \subseteq paths
        /\ i < Len(s) => (s[i].keep <=> Kept(paths, s[i].path))
        /\ i < Len(s) => \A k \in s[i].kids : Deeper(paths, Normal(k))

\* What the stack has still to remove.
Pending(s, q) ==
    \E i \in 1..Len(s) :
        \/ \E k \in s[i].kids : IsPrefix(Normal(k), q)
        \/ i < Len(s) /\ ~s[i].keep /\ q = s[i].path

IsResult(r) ==
    /\ r = [deleted |-> r.deleted, failed |-> r.failed, skipped |-> r.skipped]
    /\ r.deleted \in Nat /\ r.failed \in Nat

\* A task has counted what it removed, what it has removed and what is left
\* make up what was promised, and what is left is on its stack, unless
\* something failed.
TaskReport(t) ==
    /\ IsResult(t.res) /\ job.done = t.res.deleted
    /\ t.pc = "begin" => t.res = NoResult
    /\ t.pc = "done" => AnyRefused /\ t.res.deleted = 0 /\ t.res.failed = 0
    /\ t.pc = "walk" => ~AnyRefused
    /\ Exact => job.done + Cardinality(Doomed(job.paths)) = job.total
    /\ Exact /\ t.pc = "walk" => Orderly(job.paths, t.stack)
    /\ Exact /\ t.pc = "walk" /\ t.res.failed = 0 =>
          \A q \in Doomed(job.paths) : Pending(t.stack, q)

ReportInv ==
    /\ IsFiniteSet(dirs \cup files)
    /\ ReportMatchesPreview
    /\ ~job.freed => \A c \in Callers : Working(c) => TaskReport(task[c])

LEMMA PushOrder ==
  ASSUME NEW paths, NEW s \in Seq(Frames), s # <<>>, Orderly(paths, s),
         NEW f \in Frames, f.keep <=> Kept(paths, f.path),
         \A k \in f.kids : Deeper(paths, Normal(k))
  PROVE  /\ Orderly(paths, <<f>> \o s)
         /\ \A q : \/ Pending(s, q) \/ \E k \in f.kids : IsPrefix(Normal(k), q)
                   \/ ~f.keep /\ q = f.path
                   => Pending(<<f>> \o s, q)
<1> DEFINE t == <<f>> \o s
<1>1. /\ t \in Seq(Frames) /\ Len(t) = Len(s) + 1 /\ Len(s) \in Nat /\ Len(s) >= 1
      /\ t[1] = f /\ \A i \in 2..Len(t) : t[i] = s[i - 1]
  OBVIOUS
<1> HIDE DEF t
<1>2. ASSUME NEW i \in 1..Len(t)
      PROVE  /\ i = Len(t) => t[i].kids \subseteq paths
             /\ i < Len(t) => (t[i].keep <=> Kept(paths, t[i].path))
             /\ i < Len(t) => \A k \in t[i].kids : Deeper(paths, Normal(k))
  <2>1. CASE i = 1
    BY <1>1, <2>1
  <2>2. CASE i \in 2..Len(t)
    <3>1. /\ i - 1 \in 1..Len(s) /\ (i < Len(t) => i - 1 < Len(s))
          /\ (i = Len(t) => i - 1 = Len(s)) /\ t[i] = s[i - 1]
      BY <1>1, <2>2
    <3> QED
      BY <3>1 DEF Orderly
  <2> QED
    BY <1>1, <2>1, <2>2
<1>3. 1 \in 1..Len(t) /\ 1 < Len(t)
  BY <1>1
<1>4. ASSUME NEW q, Pending(s, q) PROVE Pending(t, q)
  <2>1. PICK i \in 1..Len(s) : \/ \E k \in s[i].kids : IsPrefix(Normal(k), q)
                               \/ i < Len(s) /\ ~s[i].keep /\ q = s[i].path
    BY <1>4 DEF Pending
  <2>2. i + 1 \in 1..Len(t) /\ t[i + 1] = s[i] /\ (i < Len(s) => i + 1 < Len(t))
    <3>1. i + 1 \in 2..Len(t) /\ (i + 1) - 1 = i
      BY <1>1
    <3>2. t[i + 1] = s[(i + 1) - 1]
      BY <1>1, <3>1
    <3> QED
      BY <1>1, <3>1, <3>2
  <2> QED
    BY <2>1, <2>2 DEF Pending
<1>5. ASSUME NEW q, (\E k \in f.kids : IsPrefix(Normal(k), q)) \/ (~f.keep /\ q = f.path)
      PROVE  Pending(t, q)
  BY <1>1, <1>3, <1>5 DEF Pending
<1> QED
  BY <1>2, <1>4, <1>5 DEF Orderly, t

LEMMA PopOrder ==
  ASSUME NEW paths, NEW s \in Seq(Frames), Len(s) > 1, Orderly(paths, s)
  PROVE  /\ Orderly(paths, Tail(s))
         /\ Head(s) \in Frames
         /\ Head(s).keep <=> Kept(paths, Head(s).path)
         /\ \A q : Pending(s, q) => \/ Pending(Tail(s), q)
                                    \/ \E k \in Head(s).kids : IsPrefix(Normal(k), q)
                                    \/ ~Head(s).keep /\ q = Head(s).path
<1> DEFINE t == Tail(s)
<1>1. /\ t \in Seq(Frames) /\ Len(t) = Len(s) - 1 /\ Len(s) \in Nat
      /\ \A i \in 1..Len(t) : t[i] = s[i + 1]
      /\ Head(s) = s[1] /\ s[1] \in Frames
  <2>1. s # <<>>
    <3>1. Len(<<>>) = 0
      OBVIOUS
    <3> QED
      BY <3>1
  <2> QED
    BY <2>1
<1> HIDE DEF t
<1>2. ASSUME NEW i \in 1..Len(t)
      PROVE  /\ i = Len(t) => t[i].kids \subseteq paths
             /\ i < Len(t) => (t[i].keep <=> Kept(paths, t[i].path))
             /\ i < Len(t) => \A k \in t[i].kids : Deeper(paths, Normal(k))
  <2>1. /\ i + 1 \in 1..Len(s) /\ (i < Len(t) => i + 1 < Len(s))
        /\ (i = Len(t) => i + 1 = Len(s)) /\ t[i] = s[i + 1]
    BY <1>1
  <2> QED
    BY <2>1 DEF Orderly
<1>3. 1 \in 1..Len(s) /\ 1 < Len(s)
  BY <1>1
<1>4. ASSUME NEW q, Pending(s, q)
      PROVE  \/ Pending(t, q) \/ \E k \in s[1].kids : IsPrefix(Normal(k), q)
             \/ ~s[1].keep /\ q = s[1].path
  <2>1. PICK i \in 1..Len(s) : \/ \E k \in s[i].kids : IsPrefix(Normal(k), q)
                               \/ i < Len(s) /\ ~s[i].keep /\ q = s[i].path
    BY <1>4 DEF Pending
  <2>2. CASE i = 1
    BY <2>1, <2>2
  <2>3. CASE i # 1
    <3>1. i - 1 \in 1..Len(t) /\ (i - 1) + 1 = i /\ (i < Len(s) => i - 1 < Len(t))
      BY <1>1, <2>3
    <3>2. t[i - 1] = s[i]
      BY <1>1, <3>1
    <3> QED
      BY <2>1, <3>1, <3>2 DEF Pending
  <2> QED
    BY <2>2, <2>3
<1> QED
  BY <1>1, <1>2, <1>3, <1>4 DEF Orderly, t

LEMMA TakeOrder ==
  ASSUME NEW paths, NEW s \in Seq(Frames), s # <<>>, Orderly(paths, s), NEW k \in Head(s).kids
  PROVE  LET t == <<[Head(s) EXCEPT !.kids = @ \ {k}]>> \o Tail(s) IN
         /\ t \in Seq(Frames) /\ t # <<>> /\ Len(t) = Len(s) /\ Len(s) \in Nat /\ Orderly(paths, t)
         /\ IF Len(s) = 1 THEN k \in paths ELSE Deeper(paths, Normal(k))
         /\ \A q : Pending(s, q) => Pending(t, q) \/ IsPrefix(Normal(k), q)
<1> DEFINE f == [Head(s) EXCEPT !.kids = @ \ {k}]
           t == <<f>> \o Tail(s)
<1>1. Head(s) = s[1] /\ s[1] \in Frames /\ Len(s) \in Nat /\ Len(s) >= 1
  OBVIOUS
<1>2. f \in Frames /\ f.path = s[1].path /\ f.keep = s[1].keep /\ f.kids = s[1].kids \ {k}
  BY <1>1 DEF Frames
<1> HIDE DEF f
<1>3. t \in Seq(Frames) /\ Len(t) = Len(s) /\ t[1] = f /\ \A i \in 2..Len(s) : t[i] = s[i]
  BY <1>2
<1> HIDE DEF t
<1>4. ASSUME NEW i \in 1..Len(s)
      PROVE  /\ t[i].path = s[i].path /\ t[i].keep = s[i].keep /\ t[i].kids \subseteq s[i].kids
             /\ s[i].kids \subseteq t[i].kids \cup {k}
  <2>1. i = 1 \/ i \in 2..Len(s)
    BY <1>1
  <2> QED
    BY <1>2, <1>3, <2>1
<1>5. Orderly(paths, t)
  BY <1>3, <1>4 DEF Orderly
<1>6. ASSUME NEW q, Pending(s, q) PROVE Pending(t, q) \/ IsPrefix(Normal(k), q)
  BY <1>3, <1>4, <1>6 DEF Pending
<1>7. t # <<>>
  <2>1. Len(<<>>) = 0
    OBVIOUS
  <2> QED
    BY <1>1, <1>3, <2>1
<1>8. IF Len(s) = 1 THEN k \in paths ELSE Deeper(paths, Normal(k))
  <2>1. 1 \in 1..Len(s) /\ k \in s[1].kids
    BY <1>1
  <2>2. CASE Len(s) = 1
    BY <2>1, <2>2 DEF Orderly
  <2>3. CASE Len(s) # 1
    <3>1. \A n \in Nat : n >= 1 /\ n # 1 => 1 < n
      OBVIOUS
    <3>2. 1 < Len(s)
      BY <1>1, <2>3, <3>1
    <3> QED
      BY <2>1, <2>3, <3>2 DEF Orderly
  <2> QED
    BY <2>2, <2>3
<1> QED
  BY <1>1, <1>3, <1>5, <1>6, <1>7, <1>8 DEF t, f

\* Above an entry there are directories, and below them the way to it.
LEMMA WayDown ==
  ASSUME IsTree, NEW q \in dirs \cup files, NEW p \in Paths, p # <<>>, IsPrefix(p, q)
  PROVE  /\ q \in Paths /\ Plain(p) /\ (p = q \/ p \in dirs)
         /\ p # q => p \in dirs /\ \E k \in Children(p) : IsPrefix(k, q)
<1>1. q \in Paths /\ Plain(q)
  BY DEF IsTree, Plain
<1>2. Len(p) \in Nat /\ Len(q) \in Nat /\ Len(p) <= Len(q) /\ Len(p) >= 1
  <2>1. p \in Seq(Names) /\ q \in Seq(Names)
    BY <1>1 DEF Paths
  <2>2. Len(p) <= Len(q)
    BY <1>1, PrefixAt
  <2>3. Len(p) >= 1
    BY <2>1
  <2> QED
    BY <2>1, <2>2, <2>3
<1>3. Plain(p)
  <2>1. \A i \in 1..Len(p) : i \in 1..Len(q) /\ p[i] = q[i]
    BY <1>1, <1>2, PrefixAt
  <2> QED
    BY <1>1, <2>1, PlainAt
<1>4. SubSeq(q, 1, Len(p)) = p
  BY <1>1, PrefixFacts
<1>5. ASSUME p # q PROVE p \in dirs /\ \E k \in Children(p) : IsPrefix(k, q)
  <2>1. Len(p) # Len(q)
    BY <1>1, <1>5, PrefixFacts
  <2>2. Len(p) \in 1..Len(q) - 1 /\ Len(p) + 1 \in 0..Len(q)
        /\ (Len(p) + 1 \in 1..Len(q) - 1 \/ Len(p) + 1 = Len(q))
    BY <1>2, <2>1
  <2>3. p \in dirs
    BY <1>4, <2>2 DEF IsTree
  <2> DEFINE k == SubSeq(q, 1, Len(p) + 1)
  <2>4. k \in Paths /\ Len(k) = Len(p) + 1 /\ IsPrefix(k, q) /\ \A i \in 1..Len(p) + 1 : k[i] = q[i]
    BY <1>1, <2>2, Start, PrefixFacts
  <2>5. k \in dirs \cup files
    <3>1. CASE Len(p) + 1 \in 1..Len(q) - 1
      BY <3>1 DEF IsTree
    <3>2. CASE Len(p) + 1 = Len(q)
      <4> HIDE DEF k
      <4>1. k = q
        BY <1>1, <2>4, <3>2, PrefixFacts
      <4> QED
        BY <4>1
    <3> QED
      BY <2>2, <3>1, <3>2
  <2> HIDE DEF k
  <2>6. IsPrefix(p, k)
    <3>1. Len(p) <= Len(k) /\ \A i \in 1..Len(p) : i \in 1..Len(p) + 1
      BY <1>2, <2>4
    <3>2. \A i \in 1..Len(p) : p[i] = q[i]
      BY <1>1, PrefixAt
    <3> QED
      BY <2>4, <3>1, <3>2, PrefixAt
  <2> QED
    BY <2>3, <2>4, <2>5, <2>6 DEF Children
<1> QED
  BY <1>1, <1>3, <1>5

\* Two paths above one entry: one is above the other.
LEMMA BothAbove ==
  ASSUME NEW p \in Paths, NEW r \in Paths, NEW q \in Paths, IsPrefix(p, q), IsPrefix(r, q)
  PROVE  IsPrefix(p, r) \/ IsPrefix(r, p)
<1>1. Len(p) \in Nat /\ Len(r) \in Nat
  BY DEF Paths
<1>2. \A i \in 1..Len(p) : p[i] = q[i]
  BY PrefixAt
<1>3. \A i \in 1..Len(r) : r[i] = q[i]
  BY PrefixAt
<1>4. CASE Len(p) <= Len(r)
  <2>1. \A i \in 1..Len(p) : i \in 1..Len(r)
    BY <1>1, <1>4
  <2> QED
    BY <1>2, <1>3, <1>4, <2>1, PrefixAt
<1>5. CASE Len(r) <= Len(p)
  <2>1. \A i \in 1..Len(r) : i \in 1..Len(p)
    BY <1>1, <1>5
  <2> QED
    BY <1>2, <1>3, <1>5, <2>1, PrefixAt
<1> QED
  BY <1>1, <1>4, <1>5

\* A path that is not refused is below the mount point.
LEMMA NotRefused ==
  ASSUME NEW p \in Paths, ~Refused(p)
  PROVE  Normal(p) # <<>> /\ (check_deletable(p) = "kManagedDir" <=> Normal(p) \in Managed)
BY DEF Refused, check_deletable

\* preview_delete(): what one path promises is what has to go below it.
LEMMA OnePreview ==
  ASSUME IsTree, NEW paths \in SUBSET Paths, Separate(paths), \A p \in paths : ~Refused(p),
         NEW p \in paths, NEW q
  PROVE  q \in preview_delete(p) <=> q \in Doomed(paths) /\ IsPrefix(Normal(p), q)
<1> DEFINE n == Normal(p)
<1>1. n \in Paths /\ n # <<>> /\ (check_deletable(p) = "kManagedDir" <=> n \in Managed)
  BY NormalFacts, NotRefused
<1>2. Exists(p) <=> n \in dirs \cup files
  BY <1>1 DEF Exists, IsDir
<1>3. KeepsShell(p) <=> n \in dirs /\ n \in Managed
  BY <1>1 DEF KeepsShell, IsDir
<1>4. IsPrefix(n, n)
  BY <1>1, PrefixFacts
<1> HIDE DEF n
<1>5. q \in preview_delete(p) <=>
        /\ n \in dirs \cup files /\ q \in dirs \cup files /\ IsPrefix(n, q)
        /\ ~(q = n /\ KeepsShell(p))
  BY <1>2, <1>4 DEF preview_delete, Below, n
<1>6. ASSUME q \in dirs \cup files, IsPrefix(n, q) PROVE n \in dirs \cup files
  BY <1>1, <1>6, WayDown
<1>7. ASSUME q \in dirs \cup files, IsPrefix(n, q)
      PROVE  (q = n /\ KeepsShell(p)) <=> (q \in dirs /\ Kept(paths, q))
  <2>1. ASSUME q \in dirs, Kept(paths, q) PROVE q = n /\ KeepsShell(p)
    <3>1. PICK r \in paths : Normal(r) = q /\ q \in Managed
      BY <2>1 DEF Kept
    <3>2. p = r
      BY <1>7, <3>1 DEF Separate, n
    <3> QED
      BY <1>3, <2>1, <3>1, <3>2 DEF n
  <2>2. ASSUME q = n, KeepsShell(p) PROVE q \in dirs /\ Kept(paths, q)
    BY <1>3, <2>2 DEF Kept, n
  <2> QED
    BY <2>1, <2>2
<1>8. IsPrefix(n, q) => Inside(paths, q)
  BY DEF Inside, n
<1> QED
  BY <1>5, <1>6, <1>7, <1>8 DEF Doomed, n

\* preview_delete_many(): below its cap a preview counts every entry once.
LEMMA PreviewCounts ==
  ASSUME IsTree, IsFiniteSet(dirs \cup files),
         NEW paths \in SUBSET Paths, Separate(paths), \A p \in paths : ~Refused(p),
         preview_delete_many(paths) < WalkCap
  PROVE  preview_delete_many(paths) = Cardinality(Doomed(paths))
<1> DEFINE D == Doomed(paths)
           pairs == UNION {{p} \X preview_delete(p) : p \in paths}
           of(q) == CHOOSE p \in paths : IsPrefix(Normal(p), q)
           g == [q \in D |-> <<of(q), q>>]
<1>1. IsFiniteSet(D)
  <2>1. D \in SUBSET (dirs \cup files)
    BY DEF Doomed
  <2> HIDE DEF D
  <2> QED
    BY <2>1, FS_Subset
<1>2. ASSUME NEW q \in D PROVE of(q) \in paths /\ IsPrefix(Normal(of(q)), q) /\ q \in dirs \cup files
  BY DEF Doomed, Inside
<1>3. ASSUME NEW q \in D, NEW p \in paths, IsPrefix(Normal(p), q) PROVE of(q) = p
  <2>1. of(q) \in paths /\ IsPrefix(Normal(of(q)), q) /\ q \in Paths
    BY <1>2 DEF IsTree, Plain
  <2> HIDE DEF of
  <2>2. Normal(of(q)) \in Paths /\ Normal(p) \in Paths
    BY <2>1, NormalFacts
  <2>3. IsPrefix(Normal(p), Normal(of(q))) \/ IsPrefix(Normal(of(q)), Normal(p))
    BY <1>3, <2>1, <2>2, BothAbove
  <2> QED
    BY <2>1, <2>3 DEF Separate
<1> HIDE DEF of
<1>4. ASSUME NEW p \in paths, NEW q PROVE q \in preview_delete(p) <=> q \in D /\ IsPrefix(Normal(p), q)
  BY OnePreview
<1> HIDE DEF D
<1>5. ASSUME NEW x \in pairs PROVE \E p \in paths : \E q \in preview_delete(p) : x = <<p, q>>
  OBVIOUS
<1>6. ASSUME NEW p \in paths, NEW q \in preview_delete(p) PROVE <<p, q>> \in pairs
  OBVIOUS
<1> HIDE DEF pairs
<1>7. g \in [D -> pairs]
  BY <1>2, <1>4, <1>6
<1>8. ASSUME NEW q \in D, NEW r \in D, g[q] = g[r] PROVE q = r
  <2>1. <<of(q), q>> = <<of(r), r>>
    BY <1>8
  <2>2. \A a, b, c, d : <<a, b>> = <<c, d>> => b = d
    OBVIOUS
  <2> QED
    BY <2>1, <2>2
<1>9. ASSUME NEW x \in pairs PROVE \E q \in D : g[q] = x
  <2>0. PICK p \in paths : \E q \in preview_delete(p) : x = <<p, q>>
    BY <1>5
  <2>1. PICK q \in preview_delete(p) : x = <<p, q>>
    BY <2>0
  <2>2. q \in D /\ of(q) = p
    BY <1>3, <1>4
  <2> QED
    BY <2>1, <2>2
<1> HIDE DEF g
<1>10. g \in Injection(D, pairs) /\ g \in Surjection(D, pairs)
  <2>1. DOMAIN g = D
    BY <1>7
  <2> QED
    BY <1>7, <1>8, <1>9, <2>1 DEF Injection, Surjection, IsInjective
<1>11. ExistsBijection(D, pairs)
  BY <1>10 DEF ExistsBijection, Bijection
<1>12. Cardinality(pairs) = Cardinality(D)
  BY <1>1, <1>11, FS_Bijection
<1>13. WalkCap \in Nat
  BY SdAssumption
<1>14. preview_delete_many(paths) = IF Cardinality(pairs) < WalkCap THEN Cardinality(pairs) ELSE WalkCap
  BY DEF preview_delete_many, pairs
<1>15. Cardinality(pairs) < WalkCap
  BY <1>13, <1>14
<1> QED
  BY <1>12, <1>14, <1>15 DEF D

\* What is on the card stays a finite set.
LEMMA FiniteStep ==
  ASSUME IsFiniteSet(dirs \cup files), Next
  PROVE  IsFiniteSet((dirs \cup files)')
<1> DEFINE E == dirs \cup files
<1>1. ASSUME NEW p, (dirs \cup files)' \subseteq E \cup {p} PROVE IsFiniteSet((dirs \cup files)')
  <2> DEFINE F == (dirs \cup files)'
  <2>1. IsFiniteSet(E \cup {p})
    BY FS_AddElement
  <2>2. F \in SUBSET (E \cup {p})
    BY <1>1
  <2> HIDE DEF E, F
  <2>3. IsFiniteSet(F)
    BY <2>1, <2>2, FS_Subset
  <2> QED
    BY <2>3 DEF F
<1>2. CASE RinexLogger
  <2>1. (dirs \cup files)' \subseteq E \cup {RinexPath(now)}
    BY <1>2 DEF RinexLogger, start, stop, close_file, open_file, publish_name, DropEpoch, write_epoch,
         sync_epoch, LoggerUnchanged
  <2> QED
    BY <1>1, <2>1
<1>3. ASSUME NEW from \in Entries, NEW to \in Targets, rename_entry(from, to)
      PROVE  IsFiniteSet((dirs \cup files)')
  <2> DEFINE move(p) == IF IsPrefix(from, p) THEN to \o SubSeq(p, Len(from) + 1, Len(p)) ELSE p
             F == (dirs \cup files)'
             g == [p \in E |-> move(p)]
  <2>1. F = {move(p) : p \in E}
    BY <1>3 DEF rename_entry
  <2> HIDE DEF move, F
  <2>2. g \in Surjection(E, F)
    BY <2>1 DEF Surjection
  <2> HIDE DEF E, g
  <2>3. IsFiniteSet(F)
    BY <2>2, FS_Surjection DEF E
  <2> QED
    BY <2>3 DEF F
<1>4. ASSUME NEW p \in Targets, files_mkdir(p) PROVE IsFiniteSet((dirs \cup files)')
  BY <1>1, <1>4 DEF files_mkdir
<1>5. ASSUME NEW p \in Entries, delete_entry(p) PROVE IsFiniteSet((dirs \cup files)')
  <2>1. (dirs \cup files)' \subseteq E \cup {p}
    BY <1>5 DEF delete_entry
  <2> QED
    BY <1>1, <2>1
<1>6. CASE Exporting
  BY <1>6 DEF Exporting, rinex_export, export_check, export_file, export_done, ExportUnchanged
<1>7. ASSUME NEW c \in Callers,
             (\E paths \in Lists[c] : start_check(c, paths)) \/ start_claim(c)
      PROVE  IsFiniteSet((dirs \cup files)')
  BY <1>7 DEF start_check, start_claim, FsUnchanged
<1>8. ASSUME NEW c \in Callers, delete_paths(c) \/ delete_task(c)
      PROVE  IsFiniteSet((dirs \cup files)')
  BY <1>8 DEF delete_paths, delete_task
<1>9. ASSUME NEW c \in Callers, remove_shell(c) \/ \E k \in Kids(c) : remove_entry(c, k)
      PROVE  IsFiniteSet((dirs \cup files)')
  <2>1. (dirs \cup files)' \subseteq E \cup {<<>>}
    BY <1>9 DEF remove_shell, remove_entry, Removed
  <2> QED
    BY <1>1, <2>1
<1>10. ASSUME NEW ok \in BOOLEAN, PowerLoss(ok) PROVE IsFiniteSet((dirs \cup files)')
  <2> DEFINE F == (dirs \cup files)'
  <2>1. F \in SUBSET ((E \cup {<<"logs">>}) \cup {<<"rawdata">>})
    BY <1>10 DEF PowerLoss, Booted, Managed
  <2> HIDE DEF E, F
  <2>2. IsFiniteSet(E \cup {<<"logs">>})
    BY FS_AddElement DEF E
  <2>3. IsFiniteSet((E \cup {<<"logs">>}) \cup {<<"rawdata">>})
    BY <2>2, FS_AddElement
  <2>4. IsFiniteSet(F)
    BY <2>1, <2>3, FS_Subset
  <2> QED
    BY <2>4 DEF F
<1> QED
  BY <1>2, <1>3, <1>4, <1>5, <1>6, <1>7, <1>8, <1>9, <1>10, ByAction, Zenon DEF RinexLogger

\* One task works at a time, unless the list was freed.
LEMMA OnlyWorker ==
  ASSUME JobInv, NEW c \in Callers, Working(c), ~job.freed
  PROVE  busy /\ \A d \in Callers : d # c => ~Working(d)
BY DEF JobInv, OneJob, Callers

\* A step of the task at work leaves a true account behind.
LEMMA Worked ==
  ASSUME JobInv, ReportInv, NEW c \in Callers, Working(c), ~job.freed, NEW t,
         task' = [task EXCEPT ![c] = t], UNCHANGED job \/ Progress,
         IsFiniteSet((dirs \cup files)'), TaskReport(t)'
  PROVE  ReportInv'
<1>1. busy /\ \A d \in Callers : d # c => ~Working(d)
  BY OnlyWorker
<1>2. task = [d \in Callers |-> task[d]]
  BY DEF JobInv, JobTypes
<1>3. task'[c] = t /\ \A d \in Callers : d # c => task'[d] = task[d]
  BY <1>2
<1>4. job'.state = job.state
  <2>1. job = [state |-> job.state, paths |-> job.paths, freed |-> job.freed,
               done |-> job.done, total |-> job.total, result |-> job.result]
    BY DEF JobInv, JobTypes
  <2> QED
    BY <2>1 DEF Progress
<1>5. ReportMatchesPreview'
  BY <1>1, <1>4 DEF ReportMatchesPreview, busy
<1>6. \A d \in Callers : Working(d)' => TaskReport(task[d])'
  <2> SUFFICES ASSUME NEW d \in Callers, Working(d)' PROVE TaskReport(task[d])'
    OBVIOUS
  <2>1. d = c
    BY <1>1, <1>3 DEF Working
  <2>2. task'[d] = t
    BY <1>3, <2>1
  <2> QED
    BY <2>2
<1> QED
  BY <1>5, <1>6 DEF ReportInv

\* What the others do to the card a job is told of, when it matters.
LEMMA AsideReport ==
  ASSUME JobInv, ReportInv, UNCHANGED <<job, task>>, IsFiniteSet((dirs \cup files)'),
         ghost'.still => ghost.still /\ UNCHANGED <<dirs, files>>
  PROVE  ReportInv'
<1>1. ReportMatchesPreview'
  BY DEF ReportInv, ReportMatchesPreview
<1>2. ASSUME NEW c \in Callers, TaskReport(task[c]) PROVE TaskReport(task[c])'
  <2>1. Exact' => Exact /\ UNCHANGED <<dirs, files>>
    BY DEF Exact, AnyRefused
  <2>2. Exact' => Doomed(job.paths)' = Doomed(job.paths)
    BY <2>1 DEF Doomed
  <2>3. (Exact /\ UNCHANGED <<dirs, files>>) => Doomed(job.paths)' = Doomed(job.paths)
    BY DEF Doomed
  <2> QED
    BY <1>2, <2>1, <2>2 DEF TaskReport, AnyRefused
<1> QED
  BY <1>1, <1>2 DEF ReportInv, Working

LEMMA Counting ==
  ASSUME NEW u, IsTask(u), IsResult(u.res), NEW field \in {"deleted", "failed", "skipped"}, NEW stack
  PROVE  LET t == Count(u, field, stack) IN
         /\ t.pc = u.pc /\ t.stack = stack /\ IsResult(t.res)
         /\ t.res.deleted = u.res.deleted + (IF field = "deleted" THEN 1 ELSE 0)
         /\ t.res.failed = u.res.failed + (IF field = "failed" THEN 1 ELSE 0)
<1> DEFINE t == Count(u, field, stack)
<1>1. PICK a, b, r : u = [pc |-> a, stack |-> b, res |-> r]
  BY DEF IsTask
<1>2. PICK v : v = [u EXCEPT !.stack = stack]
  OBVIOUS
<1>3. u.pc = a /\ t.pc = a /\ t.stack = stack /\ t.res = [r EXCEPT ![field] = @ + 1]
      /\ r = u.res /\ IsResult(r)
  <2>1. v = [pc |-> a, stack |-> stack, res |-> r]
    BY <1>1, <1>2
  <2>2. t = [v EXCEPT !.res[field] = @ + 1]
    BY <1>2 DEF Count
  <2>3. t = [pc |-> a, stack |-> stack, res |-> [r EXCEPT ![field] = @ + 1]]
    BY <2>1, <2>2
  <2>4. u.pc = a /\ u.res = r
    BY <1>1
  <2> HIDE DEF t
  <2> QED
    BY <2>3, <2>4
<1> HIDE DEF t
<1>4. CASE field = "deleted"
  <2>1. t.res = [r EXCEPT !["deleted"] = @ + 1]
    BY <1>3, <1>4
  <2>2. t.res = [deleted |-> r.deleted + 1, failed |-> r.failed, skipped |-> r.skipped]
    BY <1>3, <2>1 DEF IsResult
  <2> QED
    BY <1>1, <1>3, <1>4, <2>2 DEF IsResult, t
<1>5. CASE field = "failed"
  <2>1. t.res = [r EXCEPT !["failed"] = @ + 1]
    BY <1>3, <1>5
  <2>2. t.res = [deleted |-> r.deleted, failed |-> r.failed + 1, skipped |-> r.skipped]
    BY <1>3, <2>1 DEF IsResult
  <2> QED
    BY <1>1, <1>3, <1>5, <2>2 DEF IsResult, t
<1>6. CASE field = "skipped"
  <2>1. t.res = [r EXCEPT !["skipped"] = @ + 1]
    BY <1>3, <1>6
  <2>2. t.res = [deleted |-> r.deleted, failed |-> r.failed, skipped |-> r.skipped + 1]
    BY <1>3, <2>1 DEF IsResult
  <2> QED
    BY <1>1, <1>3, <1>6, <2>2 DEF IsResult, t
<1> QED
  BY <1>4, <1>5, <1>6

LEMMA SameReport ==
  ASSUME UNCHANGED <<dirs, files, job, ghost>>
  PROVE  /\ AnyRefused' = AnyRefused /\ Exact' = Exact
         /\ Doomed(job.paths)' = Doomed(job.paths) /\ UNCHANGED job
BY DEF AnyRefused, Exact, Doomed

\* An entry that had to go is gone, and there is one less to remove.
LEMMA OneLess ==
  ASSUME JobInv, IsFiniteSet(dirs \cup files), NEW c, NEW p \in Doomed(job.paths), Removed(c, p),
         Progress, UNCHANGED ghost
  PROVE  /\ AnyRefused' = AnyRefused /\ Exact' = Exact
         /\ job'.done = job.done + 1 /\ job'.total = job.total
         /\ Doomed(job.paths)' = Doomed(job.paths) \ {p}
         /\ Cardinality(Doomed(job.paths)) \in Nat
         /\ Cardinality(Doomed(job.paths)') = Cardinality(Doomed(job.paths)) - 1
<1> DEFINE D == Doomed(job.paths)
<1>1. job' = [job EXCEPT !.done = @ + 1]
  BY DEF Progress
<1>2. /\ job'.done = job.done + 1 /\ job'.total = job.total /\ job'.paths = job.paths
  <2>1. job = [state |-> job.state, paths |-> job.paths, freed |-> job.freed,
               done |-> job.done, total |-> job.total, result |-> job.result]
    BY DEF JobInv, JobTypes
  <2> QED
    BY <1>1, <2>1
<1>3. AnyRefused' = AnyRefused /\ Exact' = Exact
  BY <1>2 DEF AnyRefused, Exact
<1>4. Doomed(job.paths)' = D \ {p}
  BY <1>2 DEF Removed, Doomed
<1>5. D \in SUBSET (dirs \cup files)
  BY DEF Doomed
<1>6. p \in D
  OBVIOUS
<1> HIDE DEF D
<1>7. IsFiniteSet(D)
  BY <1>5, FS_Subset
<1>8. Cardinality(D) \in Nat /\ Cardinality(D \ {p}) = Cardinality(D) - 1
  BY <1>6, <1>7, FS_CardinalityType, FS_RemoveElement
<1> QED
  BY <1>2, <1>3, <1>4, <1>8 DEF D

\* Where the task at work stands, and with it its account.
LEMMA WalkFacts ==
  ASSUME Inv, ReportInv, NEW c \in Callers, task[c].pc = "walk", ~job.freed
  PROVE  /\ Working(c) /\ IsTask(task[c]) /\ TaskReport(task[c]) /\ task[c].stack \in Seq(Frames)
         /\ job.paths \subseteq Paths /\ ~AnyRefused
         /\ task[c].stack # <<>> =>
               \A k \in Head(task[c].stack).kids : Normal(k) \in Paths /\ Inside(job.paths, Normal(k))
         /\ Len(task[c].stack) > 1 => Inside(job.paths, Head(task[c].stack).path)
<1>1. /\ Working(c) /\ IsTask(task[c]) /\ task[c].stack \in Seq(Frames)
      /\ StaysInside(req[c], task[c].stack) /\ job.paths = req[c] /\ req[c] \subseteq Paths
  BY TaskFacts DEF Inv
<1>2. TaskReport(task[c]) /\ ~AnyRefused
  BY <1>1 DEF ReportInv, TaskReport
<1>3. ASSUME task[c].stack # <<>>
      PROVE  /\ \A k \in Head(task[c].stack).kids : Normal(k) \in Paths /\ Inside(job.paths, Normal(k))
             /\ Len(task[c].stack) > 1 => Inside(job.paths, Head(task[c].stack).path)
  <2>1. /\ Head(task[c].stack) \in Frames
        /\ \A k \in Head(task[c].stack).kids : Inside(req[c], Normal(k))
        /\ Len(task[c].stack) > 1 => Inside(req[c], Head(task[c].stack).path)
    BY <1>1, <1>3, Popped
  <2>2. Head(task[c].stack).kids \subseteq Paths
    BY <2>1 DEF Frames
  <2> QED
    BY <1>1, <2>1, <2>2, NormalFacts
<1>4. Len(task[c].stack) > 1 => task[c].stack # <<>>
  <2>1. Len(<<>>) = 0
    OBVIOUS
  <2> QED
    BY <2>1
<1> QED
  BY <1>1, <1>2, <1>3, <1>4

LEMMA BelowMount ==
  ASSUME NEW paths \in SUBSET Paths, NEW p \in Paths, Deeper(paths, p)
  PROVE  p # <<>>
<1> SUFFICES ASSUME p = <<>> PROVE FALSE
  OBVIOUS
<1>1. PICK r \in paths : IsPrefix(Normal(r), p) /\ Normal(r) # p
  BY DEF Deeper
<1>2. Normal(r) \in Paths
  BY NormalFacts
<1>3. Len(Normal(r)) \in Nat /\ Len(<<>>) = 0
  <2>1. Len(<<>>) = 0
    OBVIOUS
  <2> QED
    BY <1>2, <2>1 DEF Paths
<1>4. Len(Normal(r)) <= Len(p)
  BY <1>1, <1>2, PrefixAt
<1>5. Len(Normal(r)) = Len(p)
  BY <1>3, <1>4
<1> QED
  BY <1>1, <1>2, <1>5, PrefixFacts

LEMMA DeletePathsReport ==
  ASSUME Inv, ReportInv, NEW c \in Callers, delete_paths(c), ~job.freed,
         IsFiniteSet((dirs \cup files)')
  PROVE  ReportInv'
<1>1. /\ task[c].pc = "begin" /\ Working(c) /\ IsTask(task[c])
      /\ job.paths = req[c] /\ req[c] \subseteq Paths
  BY TaskFacts DEF delete_paths, Inv
<1>2. UNCHANGED <<dirs, files, job, ghost>>
  BY DEF delete_paths
<1>3. TaskReport(task[c]) /\ task[c].res = NoResult
  BY <1>1 DEF ReportInv, TaskReport
<1>4. AnyRefused' = AnyRefused /\ Exact' = Exact /\ Doomed(job.paths)' = Doomed(job.paths)
  BY <1>2, SameReport
<1>5. CASE AnyRefused
  <2>1. task' = [task EXCEPT ![c] = [@ EXCEPT !.pc = "done", !.res.skipped = Cardinality(job.paths)]]
    BY <1>5 DEF delete_paths, AnyRefused
  <2>2. PICK t : t = [task[c] EXCEPT !.pc = "done", !.res.skipped = Cardinality(job.paths)]
    OBVIOUS
  <2>3. t.pc = "done" /\ t.res = [deleted |-> 0, failed |-> 0, skipped |-> Cardinality(job.paths)]
    <3>1. PICK a, b : task[c] = [pc |-> a, stack |-> b, res |-> NoResult]
      BY <1>1, <1>3 DEF IsTask
    <3>2. PICK v : v = [task[c] EXCEPT !.pc = "done"]
      OBVIOUS
    <3>3. v = [pc |-> "done", stack |-> b, res |-> NoResult]
      BY <3>1, <3>2
    <3>4. t = [v EXCEPT !.res.skipped = Cardinality(job.paths)]
      BY <2>2, <3>2
    <3>5. t = [pc |-> "done", stack |-> b, res |-> [NoResult EXCEPT !.skipped = Cardinality(job.paths)]]
      BY <3>3, <3>4
    <3> QED
      BY <3>5 DEF NoResult
  <2>4. IsResult(t.res) /\ t.res.deleted = 0 /\ t.res.failed = 0
    BY <2>3 DEF IsResult
  <2>5. task' = [task EXCEPT ![c] = t]
    BY <2>1, <2>2
  <2>6. job.done = 0
    BY <1>3 DEF TaskReport, NoResult
  <2>7. TaskReport(t)'
    BY <1>2, <1>4, <1>5, <2>3, <2>4, <2>6 DEF TaskReport, Exact
  <2> QED
    BY <1>1, <1>2, <2>5, <2>7, Worked DEF Inv
<1>6. CASE ~AnyRefused
  <2> DEFINE f == Frame(NoFile, job.paths, FALSE)
  <2>1. task' = [task EXCEPT ![c] = [@ EXCEPT !.pc = "walk", !.stack = <<f>>]]
    BY <1>6 DEF delete_paths, AnyRefused
  <2>2. f \in Frames /\ f.kids = job.paths
    BY <1>1, StampFacts DEF Frame, Frames
  <2> HIDE DEF f
  <2>3. Len(<<f>>) = 1 /\ <<f>>[1] = f
    BY <2>2, TupleFacts
  <2>4. PICK t : t = [task[c] EXCEPT !.pc = "walk", !.stack = <<f>>]
    OBVIOUS
  <2>5. t.pc = "walk" /\ t.stack = <<f>> /\ t.res = NoResult
    BY <1>1, <1>3, <2>4 DEF IsTask
  <2>6. task' = [task EXCEPT ![c] = t]
    BY <2>1, <2>4
  <2>7. Orderly(job.paths, t.stack)
    <3>1. \A i \in 1..Len(<<f>>) : i = 1 /\ ~(i < Len(<<f>>))
      BY <2>3
    <3> QED
      BY <2>2, <2>3, <2>5, <3>1 DEF Orderly
  <2>8. \A q \in Doomed(job.paths) : Pending(t.stack, q)
    <3>1. 1 \in 1..Len(<<f>>)
      BY <2>3
    <3> QED
      BY <2>2, <2>3, <2>5, <3>1 DEF Doomed, Inside, Pending
  <2>9. IsResult(NoResult) /\ NoResult.deleted = job.done
    BY <1>3 DEF TaskReport
  <2>10. TaskReport(t)'
    BY <1>2, <1>3, <1>4, <1>6, <2>5, <2>7, <2>8, <2>9 DEF TaskReport
  <2> QED
    BY <1>1, <1>2, <2>6, <2>10, Worked DEF Inv
<1> QED
  BY <1>5, <1>6

LEMMA RemoveEntryReport ==
  ASSUME Inv, ReportInv, NEW c \in Callers, NEW k \in Kids(c), remove_entry(c, k), ~job.freed,
         IsFiniteSet((dirs \cup files)')
  PROVE  ReportInv'
<1> DEFINE p == Normal(k)
           s == task[c].stack
           rest == <<[Head(s) EXCEPT !.kids = @ \ {k}]>> \o Tail(s)
           f == Frame(p, Children(p), Len(rest) = 1 /\ check_deletable(k) = "kManagedDir")
<1>1. task[c].pc = "walk" /\ s # <<>> /\ k \in Head(s).kids
  BY DEF remove_entry, Kids, Top
<1>2. /\ Working(c) /\ IsTask(task[c]) /\ TaskReport(task[c]) /\ s \in Seq(Frames)
      /\ job.paths \subseteq Paths /\ ~AnyRefused
      /\ p \in Paths /\ Inside(job.paths, p)
  BY <1>1, WalkFacts
<1>3. \/ Counted(c, "failed", rest) /\ UNCHANGED <<dirs, files, job, ghost>>
      \/ /\ p \in files /\ Counted(c, "deleted", rest) /\ Progress /\ Removed(c, p)
      \/ /\ IsDir(p) /\ task' = [task EXCEPT ![c].stack = <<f>> \o rest]
         /\ UNCHANGED <<dirs, files, job, ghost>>
  BY DEF remove_entry, Top
<1>4. IsTree /\ JobInv /\ IsFiniteSet(dirs \cup files)
  BY DEF Inv, ReportInv
\* What the frame without the name at hand says.
<1>5. ASSUME Exact
      PROVE  /\ rest \in Seq(Frames) /\ rest # <<>> /\ Orderly(job.paths, rest)
             /\ IF Len(rest) = 1 THEN k \in job.paths ELSE Deeper(job.paths, p)
             /\ task[c].res.failed = 0 =>
                   \A q \in Doomed(job.paths) : Pending(rest, q) \/ IsPrefix(p, q)
  <2>1. Orderly(job.paths, s)
    BY <1>1, <1>2, <1>5 DEF TaskReport
  <2>2. /\ rest \in Seq(Frames) /\ rest # <<>> /\ Len(rest) = Len(s) /\ Len(s) \in Nat
        /\ Orderly(job.paths, rest)
        /\ IF Len(s) = 1 THEN k \in job.paths ELSE Deeper(job.paths, p)
        /\ \A q : Pending(s, q) => Pending(rest, q) \/ IsPrefix(p, q)
    BY <1>1, <1>2, <2>1, TakeOrder
  <2> HIDE DEF rest, s, p
  <2> QED
    BY <1>1, <1>2, <1>5, <2>2 DEF TaskReport, s
<1> HIDE DEF rest, s
<1>6. CASE Counted(c, "failed", rest) /\ UNCHANGED <<dirs, files, job, ghost>>
  <2>1. PICK t : t = Count(task[c], "failed", rest)
    OBVIOUS
  <2>2. /\ t.pc = "walk" /\ t.stack = rest /\ IsResult(t.res)
        /\ t.res.deleted = task[c].res.deleted /\ t.res.failed # 0
    BY <1>1, <1>2, <2>1, Counting DEF TaskReport, IsResult
  <2>3. task' = [task EXCEPT ![c] = t]
    BY <1>6, <2>1 DEF Counted
  <2>4. AnyRefused' = AnyRefused /\ Exact' = Exact /\ Doomed(job.paths)' = Doomed(job.paths)
    BY <1>6, SameReport
  <2>5. TaskReport(t)'
    BY <1>2, <1>5, <1>6, <2>2, <2>4 DEF TaskReport
  <2> QED
    BY <1>2, <1>4, <1>6, <2>3, <2>5, Worked
<1>7. CASE p \in files /\ Counted(c, "deleted", rest) /\ Progress /\ Removed(c, p)
  <2>1. PICK t : t = Count(task[c], "deleted", rest)
    OBVIOUS
  <2>2. /\ t.pc = "walk" /\ t.stack = rest /\ IsResult(t.res)
        /\ t.res.deleted = task[c].res.deleted + 1 /\ t.res.failed = task[c].res.failed
    BY <1>1, <1>2, <2>1, Counting DEF TaskReport, IsResult
  <2>3. task' = [task EXCEPT ![c] = t]
    BY <1>7, <2>1 DEF Counted
  <2>4. p \in Doomed(job.paths) /\ p \notin dirs
    BY <1>2, <1>4, <1>7 DEF Doomed, IsTree
  <2>5. UNCHANGED ghost
    <3>1. job.paths = req[c]
      BY <1>1, <1>4, TaskFacts
    <3> QED
      BY <1>2, <1>4, <1>7, <3>1, Unharmed
  <2>6. /\ AnyRefused' = AnyRefused /\ Exact' = Exact
        /\ job'.done = job.done + 1 /\ job'.total = job.total /\ job'.paths = job.paths
        /\ Doomed(job.paths)' = Doomed(job.paths) \ {p}
        /\ Cardinality(Doomed(job.paths)) \in Nat
        /\ Cardinality(Doomed(job.paths)') = Cardinality(Doomed(job.paths)) - 1
    <3>1. job'.paths = job.paths
      BY <1>4, <1>7 DEF Progress, JobInv, JobTypes
    <3> QED
      BY <1>4, <1>7, <2>4, <2>5, <3>1, OneLess
  <2>7. Exact => job'.done + Cardinality(Doomed(job.paths)') = job'.total
    <3>1. job.done \in Nat /\ (Exact => job.done + Cardinality(Doomed(job.paths)) = job.total)
      BY <1>2 DEF TaskReport, IsResult
    <3> QED
      BY <2>6, <3>1
\* Nothing is below a file.
  <2>8. ASSUME Exact, task[c].res.failed = 0, NEW q \in Doomed(job.paths), q # p
        PROVE  Pending(rest, q)
    <3>1. p # <<>>
      <4>1. CASE Len(rest) = 1
        BY <1>2, <1>5, <2>8, <4>1, NotRefused DEF AnyRefused
      <4>2. CASE Len(rest) # 1
        BY <1>2, <1>5, <2>8, <4>2, BelowMount
      <4> QED
        BY <4>1, <4>2
    <3>2. q \in dirs \cup files
      BY DEF Doomed
    <3>3. ~IsPrefix(p, q)
      BY <1>2, <1>4, <2>4, <2>8, <3>1, <3>2, WayDown
    <3> QED
      BY <1>5, <2>8, <3>3
  <2>9. TaskReport(t)'
    BY <1>2, <1>5, <2>2, <2>6, <2>7, <2>8 DEF TaskReport
  <2> QED
    BY <1>2, <1>4, <1>7, <2>3, <2>9, Worked
<1>8. CASE /\ IsDir(p) /\ task' = [task EXCEPT ![c].stack = <<f>> \o rest]
           /\ UNCHANGED <<dirs, files, job, ghost>>
  <2>1. PICK t : t = [task[c] EXCEPT !.stack = <<f>> \o rest]
    OBVIOUS
  <2>2. t.pc = "walk" /\ t.stack = <<f>> \o rest /\ t.res = task[c].res
    BY <1>1, <1>2, <2>1 DEF IsTask
  <2>3. task' = [task EXCEPT ![c] = t]
    BY <1>8, <2>1
  <2>4. AnyRefused' = AnyRefused /\ Exact' = Exact /\ Doomed(job.paths)' = Doomed(job.paths)
    BY <1>8, SameReport
  <2>5. ASSUME Exact
        PROVE  /\ Orderly(job.paths, t.stack)
               /\ t.res.failed = 0 => \A q \in Doomed(job.paths) : Pending(t.stack, q)
    <3>1. f \in Frames /\ f.path = p /\ f.kids = Children(p)
          /\ (f.keep <=> Len(rest) = 1 /\ check_deletable(k) = "kManagedDir")
      <4>1. \A q \in Children(p) : q \in Paths
        BY <1>2, <1>4, ChildFacts
      <4> QED
        BY <1>2, <4>1 DEF Frame, Frames
    <3> HIDE DEF f
    <3>2. Separate(job.paths) /\ \A r \in job.paths : ~Refused(r) /\ Normal(r) \in Paths
      BY <1>2, <2>5, NormalFacts DEF Exact, AnyRefused
    <3>3. p # <<>> /\ (f.keep <=> Kept(job.paths, p)) /\ \E r \in job.paths : IsPrefix(Normal(r), p)
      <4>1. CASE Len(rest) = 1
        <5>1. k \in job.paths
          BY <1>5, <2>5, <4>1
        <5>2. p # <<>> /\ (check_deletable(k) = "kManagedDir" <=> p \in Managed)
          BY <1>2, <3>2, <5>1, NotRefused
        <5> QED
          BY <1>2, <3>1, <4>1, <5>1, <5>2 DEF Kept, Inside
      <4>2. CASE Len(rest) # 1
        <5>1. PICK r \in job.paths : IsPrefix(Normal(r), p) /\ Normal(r) # p
          BY <1>5, <2>5, <4>2 DEF Deeper
        <5>2. ~Kept(job.paths, p)
          BY <3>2, <5>1 DEF Kept, Separate
        <5>3. p # <<>>
          BY <1>2, <1>5, <2>5, <4>2, BelowMount
        <5> QED
          BY <3>1, <4>2, <5>1, <5>2, <5>3
      <4> QED
        BY <4>1, <4>2
    <3>4. ASSUME NEW q \in f.kids PROVE Deeper(job.paths, Normal(q))
      <4>1. q \in Paths /\ IsPrefix(p, q) /\ Normal(q) = q /\ q # p
        <5>1. q \in Paths /\ IsPrefix(p, q) /\ Normal(q) = q /\ Len(q) = Len(p) + 1
          BY <1>2, <1>4, <3>1, <3>4, ChildFacts DEF Children
        <5>2. Len(p) \in Nat
          BY <1>2 DEF Paths
        <5>3. Len(q) # Len(p)
          BY <5>1, <5>2
        <5> QED
          BY <5>1, <5>3
      <4>2. PICK r \in job.paths : IsPrefix(Normal(r), p)
        BY <3>3
      <4>3. IsPrefix(Normal(r), q)
        BY <1>2, <3>2, <4>1, <4>2, PrefixFacts
      <4>4. Normal(r) # q
        <5> SUFFICES ASSUME Normal(r) = q PROVE FALSE
          OBVIOUS
        <5>1. Len(p) \in Nat /\ Len(q) = Len(p) + 1 /\ Len(q) <= Len(p)
          <6>1. Len(p) \in Nat /\ Len(q) = Len(p) + 1
            BY <1>2, <3>1, <3>4 DEF Children, Paths
          <6> QED
            BY <1>2, <4>1, <4>2, <6>1, PrefixAt
        <5> QED
          BY <5>1
      <4> QED
        BY <4>1, <4>3, <4>4 DEF Deeper
    <3>5. /\ Orderly(job.paths, <<f>> \o rest)
          /\ \A q : \/ Pending(rest, q) \/ \E j \in f.kids : IsPrefix(Normal(j), q)
                    \/ ~f.keep /\ q = f.path
                    => Pending(<<f>> \o rest, q)
      BY <1>5, <2>5, <3>1, <3>3, <3>4, PushOrder
    <3>6. ASSUME task[c].res.failed = 0, NEW q \in Doomed(job.paths)
          PROVE  Pending(<<f>> \o rest, q)
      <4>1. q \in dirs \cup files /\ ~(q \in dirs /\ Kept(job.paths, q))
        BY DEF Doomed
      <4>2. CASE ~IsPrefix(p, q)
        BY <1>5, <2>5, <3>5, <3>6, <4>2
      <4>3. CASE IsPrefix(p, q) /\ q # p
        <5>1. PICK j \in Children(p) : IsPrefix(j, q)
          BY <1>2, <1>4, <3>3, <4>1, <4>3, WayDown
        <5>2. Normal(j) = j
          BY <1>2, <1>4, ChildFacts
        <5> QED
          BY <3>1, <3>5, <5>1, <5>2
      <4>4. CASE q = p
        <5>1. Plain(p)
          BY <1>4, <4>1, <4>4 DEF IsTree
        <5>2. p \in dirs
          BY <1>2, <1>8, <3>3, <5>1, NormalFacts DEF IsDir
        <5> QED
          BY <3>1, <3>3, <3>5, <4>1, <4>4, <5>2
      <4> QED
        BY <4>2, <4>3, <4>4
    <3> QED
      BY <2>2, <3>5, <3>6
  <2>6. TaskReport(t)'
    BY <1>1, <1>2, <1>8, <2>2, <2>4, <2>5 DEF TaskReport
  <2> QED
    BY <1>2, <1>4, <1>8, <2>3, <2>6, Worked
<1> QED
  BY <1>3, <1>6, <1>7, <1>8

LEMMA RemoveShellReport ==
  ASSUME Inv, ReportInv, NEW c \in Callers, remove_shell(c), ~job.freed,
         IsFiniteSet((dirs \cup files)')
  PROVE  ReportInv'
<1> DEFINE s == task[c].stack
           rest == Tail(s)
           p == Head(s).path
<1>1. task[c].pc = "walk" /\ Len(s) > 1 /\ Head(s).kids = {}
  BY DEF remove_shell, Top
<1>2. /\ Working(c) /\ IsTask(task[c]) /\ TaskReport(task[c]) /\ s \in Seq(Frames)
      /\ job.paths \subseteq Paths /\ ~AnyRefused /\ Inside(job.paths, p)
  BY <1>1, WalkFacts
<1>3. \/ Head(s).keep /\ Counted(c, "skipped", rest) /\ UNCHANGED <<dirs, files, job, ghost>>
      \/ /\ ~Head(s).keep /\ p \in dirs
         /\ Counted(c, "deleted", rest) /\ Progress /\ Removed(c, p)
      \/ Counted(c, "failed", rest) /\ UNCHANGED <<dirs, files, job, ghost>>
  BY DEF remove_shell, Top
<1>4. IsTree /\ JobInv /\ IsFiniteSet(dirs \cup files)
  BY DEF Inv, ReportInv
<1>5. ASSUME Exact
      PROVE  /\ Orderly(job.paths, rest)
             /\ Head(s).keep <=> Kept(job.paths, p)
             /\ task[c].res.failed = 0 =>
                   \A q \in Doomed(job.paths) : Pending(rest, q) \/ (~Head(s).keep /\ q = p)
  <2>1. Orderly(job.paths, s)
    BY <1>1, <1>2, <1>5 DEF TaskReport
  <2>2. /\ Orderly(job.paths, rest) /\ (Head(s).keep <=> Kept(job.paths, p))
        /\ \A q : Pending(s, q) => Pending(rest, q) \/ (~Head(s).keep /\ q = p)
    BY <1>1, <1>2, <2>1, PopOrder
  <2> HIDE DEF rest, s, p
  <2> QED
    BY <1>1, <1>2, <1>5, <2>2 DEF TaskReport, s
<1> DEFINE keep == Head(s).keep
<1> HIDE DEF rest, s, p, keep
<1>6. ASSUME NEW field \in {"failed", "skipped"}, field = "skipped" => keep,
             Counted(c, field, rest), UNCHANGED <<dirs, files, job, ghost>>
      PROVE  ReportInv'
  <2>1. PICK t : t = Count(task[c], field, rest)
    OBVIOUS
  <2>2. /\ t.pc = "walk" /\ t.stack = rest /\ IsResult(t.res)
        /\ t.res.deleted = task[c].res.deleted
        /\ t.res.failed = 0 => task[c].res.failed = 0 /\ keep
    <3>1. /\ t.pc = "walk" /\ t.stack = rest /\ IsResult(t.res)
          /\ t.res.deleted = task[c].res.deleted + (IF field = "deleted" THEN 1 ELSE 0)
          /\ t.res.failed = task[c].res.failed + (IF field = "failed" THEN 1 ELSE 0)
      BY <1>1, <1>2, <2>1, Counting DEF TaskReport
    <3>2. task[c].res.deleted \in Nat /\ task[c].res.failed \in Nat
      BY <1>2 DEF TaskReport, IsResult
    <3> QED
      BY <1>6, <3>1, <3>2
  <2>3. task' = [task EXCEPT ![c] = t]
    BY <1>6, <2>1 DEF Counted
  <2>4. AnyRefused' = AnyRefused /\ Exact' = Exact /\ Doomed(job.paths)' = Doomed(job.paths)
    BY <1>6, SameReport
  <2>5. TaskReport(t)'
    BY <1>2, <1>5, <1>6, <2>2, <2>4 DEF TaskReport, keep
  <2> QED
    BY <1>2, <1>4, <1>6, <2>3, <2>5, Worked
<1>7. CASE ~keep /\ p \in dirs /\ Counted(c, "deleted", rest) /\ Progress /\ Removed(c, p)
  <2>1. PICK t : t = Count(task[c], "deleted", rest)
    OBVIOUS
  <2>2. /\ t.pc = "walk" /\ t.stack = rest /\ IsResult(t.res)
        /\ t.res.deleted = task[c].res.deleted + 1 /\ t.res.failed = task[c].res.failed
    BY <1>1, <1>2, <2>1, Counting DEF TaskReport, IsResult
  <2>3. task' = [task EXCEPT ![c] = t]
    BY <1>7, <2>1 DEF Counted
  <2>4. job'.paths = job.paths
    BY <1>4, <1>7 DEF Progress, JobInv, JobTypes
  <2>5. UNCHANGED ghost
    <3>1. job.paths = req[c]
      BY <1>1, <1>4, TaskFacts
    <3> QED
      BY <1>2, <1>4, <1>7, <3>1, Unharmed
  <2>6. AnyRefused' = AnyRefused /\ Exact' = Exact
    <3>1. job'.total = job.total
      BY <1>4, <1>7 DEF Progress, JobInv, JobTypes
    <3> QED
      BY <2>4, <2>5, <3>1 DEF AnyRefused, Exact
  <2>7. job'.done = job.done + 1
    BY <1>4, <1>7 DEF Progress, JobInv, JobTypes
  <2>8. ASSUME Exact
        PROVE  /\ job'.done + Cardinality(Doomed(job.paths)') = job'.total
               /\ Doomed(job.paths)' = Doomed(job.paths) \ {p}
    <3>1. p \in Doomed(job.paths)
      BY <1>2, <1>5, <1>7, <2>8 DEF Doomed, keep
    <3>2. /\ job'.total = job.total
          /\ Doomed(job.paths)' = Doomed(job.paths) \ {p}
          /\ Cardinality(Doomed(job.paths)) \in Nat
          /\ Cardinality(Doomed(job.paths)') = Cardinality(Doomed(job.paths)) - 1
      BY <1>4, <1>7, <2>4, <2>5, <3>1, OneLess
    <3>3. job.done \in Nat /\ job.done + Cardinality(Doomed(job.paths)) = job.total
      BY <1>2, <2>8 DEF TaskReport, IsResult
    <3> QED
      BY <2>7, <3>2, <3>3
  <2>9. TaskReport(t)'
    BY <1>2, <1>5, <2>2, <2>4, <2>6, <2>7, <2>8 DEF TaskReport
  <2> QED
    BY <1>2, <1>4, <1>7, <2>3, <2>9, Worked
<1> QED
  BY <1>3, <1>6, <1>7 DEF keep

\* delete_task(): what was counted is reported.
LEMMA DeleteTaskReport ==
  ASSUME Inv, ReportInv, NEW c \in Callers, delete_task(c), ~job.freed,
         IsFiniteSet((dirs \cup files)')
  PROVE  ReportInv'
<1> DEFINE res == task[c].res
           s == task[c].stack
<1>1. /\ task[c].pc = "done" \/ (task[c].pc = "walk" /\ Len(s) = 1 /\ Head(s).kids = {})
      /\ job' = [job EXCEPT !.result = res, !.state = DoneState(res)]
      /\ task' = [task EXCEPT ![c] = NoTask]
      /\ ghost' = [ghost EXCEPT !.seen[c] = NoFile]
      /\ UNCHANGED <<dirs, files>>
  BY DEF delete_task, Top
<1>2. Working(c) /\ IsTask(task[c]) /\ s \in Seq(Frames) /\ TaskReport(task[c])
  <2>1. Working(c) /\ IsTask(task[c]) /\ s \in Seq(Frames)
    BY <1>1, TaskFacts DEF Inv
  <2> QED
    BY <2>1 DEF ReportInv
<1> HIDE DEF res, s
<1>3. /\ job'.result = res /\ job'.state = DoneState(res) /\ job'.paths = job.paths
      /\ job'.done = job.done /\ job'.total = job.total /\ ghost'.still = ghost.still
  <2>1. job = [state |-> job.state, paths |-> job.paths, freed |-> job.freed,
               done |-> job.done, total |-> job.total, result |-> job.result]
    BY DEF Inv, JobInv, JobTypes
  <2>2. ghost \in Ghosts
    BY DEF Inv, JobInv, JobTypes
  <2>3. ghost'.still = ghost.still
    BY <1>1, <2>2 DEF Ghosts
  <2> QED
    BY <1>1, <2>1, <2>3
<1>4. \A d \in Callers : ~Working(d)'
  <2>1. task = [d \in Callers |-> task[d]] /\ \A d \in Callers : d # c => ~Working(d)
    BY <1>2, OnlyWorker DEF Inv, JobInv, JobTypes
  <2> QED
    BY <1>1, <2>1 DEF Working
<1>5. CASE AnyRefused
  <2>1. res.deleted = 0 /\ res.failed = 0
    BY <1>1, <1>2, <1>5 DEF TaskReport, res
  <2>2. DoneState(res) = "kDoneOk"
    BY <2>1 DEF DoneState
  <2>3. ReportMatchesPreview'
    BY <1>3, <1>5, <2>1, <2>2 DEF AnyRefused, ReportMatchesPreview
  <2> QED
    BY <1>4, <2>3 DEF ReportInv
<1>6. CASE ~AnyRefused
  <2>1. task[c].pc = "walk" /\ Len(s) = 1 /\ Head(s).kids = {} /\ job.done = res.deleted
    BY <1>1, <1>2, <1>6 DEF TaskReport, res
  <2>2. ASSUME ghost.still, Separate(job.paths), job.total < WalkCap, res.failed = 0
        PROVE  job.done = job.total
    <3>1. Exact
      BY <1>6, <2>2 DEF Exact
    <3>2. \A q : ~Pending(s, q)
      <4>1. \A i \in 1..Len(s) : i = 1 /\ ~(i < Len(s))
        BY <2>1
      <4>2. Head(s) = s[1]
        <5>1. s # <<>>
          <6>1. Len(<<>>) = 0
            OBVIOUS
          <6> QED
            BY <2>1, <6>1
        <5> QED
          BY <1>2, <5>1
      <4> QED
        BY <2>1, <4>1, <4>2 DEF Pending
    <3>3. Doomed(job.paths) = {}
      BY <1>2, <2>1, <2>2, <3>1, <3>2 DEF TaskReport, res, s
    <3>4. job.done \in Nat /\ job.done + Cardinality(Doomed(job.paths)) = job.total
      BY <1>2, <3>1 DEF TaskReport, IsResult
    <3>5. Cardinality({}) = 0
      BY FS_EmptySet
    <3> QED
      BY <3>3, <3>4, <3>5
  <2>3. ReportMatchesPreview'
    BY <1>3, <1>6, <2>1, <2>2 DEF AnyRefused, ReportMatchesPreview
  <2> QED
    BY <1>4, <2>3 DEF ReportInv
<1> QED
  BY <1>5, <1>6

\* start(): the preview counts what the job will have to remove.
LEMMA StartClaimReport ==
  ASSUME Inv, ReportInv, NEW c \in Callers, start_claim(c), ~job.freed,
         IsFiniteSet((dirs \cup files)')
  PROVE  ReportInv'
<1> DEFINE t == [NoTask EXCEPT !.pc = "begin"]
<1>1. PICK created \in BOOLEAN :
         /\ job' = [state |-> IF created THEN "kRunning" ELSE "kIdle", paths |-> req[c],
                    freed |-> \E d \in Callers : task[d] # NoTask,
                    done |-> 0, total |-> preview_delete_many(req[c]), result |-> NoResult]
         /\ task' = IF created THEN [task EXCEPT ![c] = t] ELSE task
  BY DEF start_claim
<1>2. UNCHANGED <<dirs, files>>
  BY DEF start_claim, FsUnchanged
<1>3. ReportMatchesPreview'
  BY <1>1 DEF ReportMatchesPreview
<1>4. task = [d \in Callers |-> task[d]] /\ req[c] \in SUBSET Paths /\ IsTree /\ IsFiniteSet(dirs \cup files)
  BY DEF Inv, JobInv, JobTypes, ReportInv
<1>5. ASSUME ~job'.freed, NEW d \in Callers, Working(d)' PROVE TaskReport(task[d])'
  <2>1. ~Working(d)
    BY <1>1, <1>5 DEF Working
  <2>2. task'[d] = t
    BY <1>1, <1>4, <1>5, <2>1 DEF Working
  <2>3. t.pc = "begin" /\ t.res = NoResult
    BY DEF NoTask
  <2>4. IsResult(NoResult) /\ NoResult.deleted = 0
    BY DEF IsResult, NoResult
  <2>5. job'.paths = req[c] /\ job'.done = 0 /\ job'.total = preview_delete_many(req[c])
    BY <1>1
  <2>6. ASSUME Exact' PROVE Cardinality(Doomed(job.paths))' = job'.total
    <3>1. Separate(req[c]) /\ preview_delete_many(req[c]) < WalkCap /\ \A p \in req[c] : ~Refused(p)
      BY <2>5, <2>6 DEF Exact, AnyRefused
    <3>2. preview_delete_many(req[c]) = Cardinality(Doomed(req[c]))
      BY <1>4, <3>1, PreviewCounts
    <3>3. Doomed(job.paths)' = Doomed(req[c])
      BY <1>2, <2>5 DEF Doomed
    <3> QED
      BY <2>5, <3>2, <3>3
  <2>7. Exact' => job'.done + Cardinality(Doomed(job.paths))' = job'.total
    <3> SUFFICES ASSUME Exact' PROVE job'.done + Cardinality(Doomed(job.paths))' = job'.total
      OBVIOUS
    <3>1. Doomed(job.paths)' \in SUBSET (dirs \cup files)
      BY <1>2 DEF Doomed
    <3>2. IsFiniteSet(Doomed(job.paths)')
      BY <1>4, <3>1, FS_Subset
    <3>3. Cardinality(Doomed(job.paths)') \in Nat
      BY <3>2, FS_CardinalityType
    <3> QED
      BY <2>5, <2>6, <3>3
  <2> HIDE DEF t
  <2>8. TaskReport(t)'
    BY <2>3, <2>4, <2>5, <2>7 DEF TaskReport
  <2> QED
    BY <2>2, <2>8
<1> QED
  BY <1>3, <1>5 DEF ReportInv

LEMMA OthersReport ==
  ASSUME Inv, ReportInv, IsFiniteSet((dirs \cup files)'),
         \/ RinexLogger
         \/ \E p \in Entries : delete_entry(p)
         \/ \E from \in Entries, to \in Targets : rename_entry(from, to)
         \/ \E p \in Targets : files_mkdir(p)
         \/ Exporting
         \/ \E c \in Callers : \E paths \in Lists[c] : start_check(c, paths)
  PROVE  ReportInv'
<1>0. JobInv /\ ghost \in Ghosts
  BY DEF Inv, JobInv, JobTypes
<1>1. CASE RinexLogger
  <2>1. /\ UNCHANGED <<job, task, dirs>>
        /\ ghost' = [ghost EXCEPT !.still = FALSE] \/ (ghost' = ghost /\ UNCHANGED files)
    BY <1>1 DEF RinexLogger, start, stop, close_file, open_file, publish_name, DropEpoch, write_epoch,
         sync_epoch, LoggerUnchanged, Moved
  <2>2. ghost'.still => ghost.still /\ UNCHANGED <<dirs, files>>
    BY <1>0, <2>1 DEF Ghosts
  <2> QED
    BY <1>0, <2>1, <2>2, AsideReport
<1>2. CASE \/ \E p \in Entries : delete_entry(p)
           \/ \E from \in Entries, to \in Targets : rename_entry(from, to)
           \/ \E p \in Targets : files_mkdir(p)
  <2>1. UNCHANGED <<job, task>>
    BY <1>2 DEF delete_entry, rename_entry, files_mkdir, HandlerUnchanged
  <2>2. PICK g : ghost' \in {[ghost EXCEPT !.still = FALSE], [ghost EXCEPT !.still = FALSE, !.planted = g]}
    BY <1>2 DEF delete_entry, rename_entry, files_mkdir, Moved
  <2>3. ~ghost'.still
    BY <1>0, <2>2 DEF Ghosts
  <2> QED
    BY <1>0, <2>1, <2>3, AsideReport
<1>3. CASE Exporting
  <2>1. UNCHANGED <<job, task, dirs, files>>
    BY <1>3 DEF Exporting, rinex_export, export_check, export_file, export_done, ExportUnchanged
  <2>2. PICK g : ghost' \in {ghost, [ghost EXCEPT !.raced = g], [ghost EXCEPT !.raced = FALSE, !.whole = g]}
    BY <1>3 DEF Exporting, rinex_export, export_check, export_file, export_done
  <2>3. ghost'.still = ghost.still
    BY <1>0, <2>2 DEF Ghosts
  <2> QED
    BY <1>0, <2>1, <2>3, AsideReport
<1>4. ASSUME NEW c \in Callers, NEW paths \in Lists[c], start_check(c, paths) PROVE ReportInv'
  <2>1. UNCHANGED <<job, task, dirs, files>>
    BY <1>4 DEF start_check, FsUnchanged
  <2>2. PICK g : ghost' = [ghost EXCEPT !.seen[c] = Active, !.overlap = g]
    BY <1>4 DEF start_check
  <2>3. ghost'.still = ghost.still
    BY <1>0, <2>2 DEF Ghosts
  <2> QED
    BY <1>0, <2>1, <2>3, AsideReport
<1> QED
  BY <1>1, <1>2, <1>3, <1>4

\* Nobody works when the power comes back, as at the start.
LEMMA PowerReport ==
  ASSUME IsFiniteSet((dirs \cup files)'), NEW ok \in BOOLEAN, PowerLoss(ok)
  PROVE  ReportInv'
<1>1. job' = Quiet.job /\ \A c \in Callers : task'[c] = NoTask
  BY DEF PowerLoss
<1>2. job'.state = "kIdle"
  BY <1>1 DEF Quiet
<1> QED
  BY <1>1, <1>2 DEF ReportInv, ReportMatchesPreview, Working

LEMMA ReportStep ==
  ASSUME Inv, ReportInv, Next
  PROVE  ReportInv'
<1>1. IsFiniteSet((dirs \cup files)') /\ ~job.freed
  BY FiniteStep DEF ReportInv, Next
<1>2. ASSUME NEW c \in Callers, start_claim(c) PROVE ReportInv'
  BY <1>1, <1>2, StartClaimReport
<1>3. ASSUME NEW c \in Callers, delete_paths(c) \/ remove_shell(c) \/ delete_task(c) PROVE ReportInv'
  BY <1>1, <1>3, DeletePathsReport, RemoveShellReport, DeleteTaskReport
<1>4. ASSUME NEW c \in Callers, NEW k \in Kids(c), remove_entry(c, k) PROVE ReportInv'
  BY <1>1, <1>4, RemoveEntryReport
<1>5. ASSUME NEW ok \in BOOLEAN, PowerLoss(ok) PROVE ReportInv'
  BY <1>1, <1>5, PowerReport
<1>6. CASE \/ RinexLogger
           \/ \E p \in Entries : delete_entry(p)
           \/ \E from \in Entries, to \in Targets : rename_entry(from, to)
           \/ \E p \in Targets : files_mkdir(p)
           \/ Exporting
           \/ \E c \in Callers : \E paths \in Lists[c] : start_check(c, paths)
  BY <1>1, <1>6, OthersReport
<1> QED
  BY <1>2, <1>3, <1>4, <1>5, <1>6, ByAction, Zenon DEF RinexLogger

\* What the delete jobs have counted agrees with what they have promised.
THEOREM AlwaysReport == Spec => []ReportInv
<1>1. Init => ReportInv
  <2> SUFFICES ASSUME Init PROVE ReportInv
    OBVIOUS
  <2>1. IsFiniteSet(dirs \cup files)
    <3> DEFINE F == dirs \cup files
    <3>1. F \in SUBSET ((({<<"logs">>} \cup {<<"rawdata">>}) \cup {<<"x">>}) \cup {<<"x", "f">>})
      BY DEF Init, Managed
    <3> HIDE DEF F
    <3>2. IsFiniteSet({<<"logs">>})
      BY FS_Singleton
    <3>3. IsFiniteSet(({<<"logs">>} \cup {<<"rawdata">>}) \cup {<<"x">>})
      BY <3>2, FS_AddElement
    <3>4. IsFiniteSet((({<<"logs">>} \cup {<<"rawdata">>}) \cup {<<"x">>}) \cup {<<"x", "f">>})
      BY <3>3, FS_AddElement
    <3>5. IsFiniteSet(F)
      BY <3>1, <3>4, FS_Subset
    <3> QED
      BY <3>5 DEF F
  <2>2. job = Quiet.job /\ \A c \in Callers : task[c] = NoTask
    BY DEF Init
  <2>3. job.state = "kIdle"
    BY <2>2 DEF Quiet
  <2> QED
    BY <2>1, <2>2, <2>3 DEF ReportInv, ReportMatchesPreview, Working
<1>2. Inv /\ ReportInv /\ [Next]_vars => ReportInv'
  <2> SUFFICES ASSUME Inv, ReportInv, [Next]_vars PROVE ReportInv'
    OBVIOUS
  <2>1. CASE Next
    BY <2>1, ReportStep
  <2>2. CASE UNCHANGED vars
    <3>1. UNCHANGED <<job, task, dirs, files, ghost>>
      BY <2>2 DEF vars
    <3> QED
      BY <3>1, AsideReport DEF Inv, ReportInv
  <2> QED
    BY <2>1, <2>2
<1> QED
  BY <1>1, <1>2, AlwaysInv, PTL DEF Spec

\* start() and delete_task(): a finished job left the card alone, or counted
\* what it removed, and that is what its preview promised unless something
\* failed, somebody else wrote to the card, or the preview was cut short.
THEOREM ReportStaysTrue == Spec => []ReportMatchesPreview
<1>1. ReportInv => ReportMatchesPreview
  BY DEF ReportInv
<1> QED
  BY <1>1, AlwaysReport, PTL
=============================================================================
