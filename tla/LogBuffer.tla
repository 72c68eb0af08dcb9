----------------------------- MODULE LogBuffer ------------------------------
(***************************************************************************)
(* The ring of recent console output and the page that follows it.  Both   *)
(* functions of the ring run under its mutex, so each is one step; a byte  *)
(* is known by its number in the log.                                      *)
(***************************************************************************)
EXTENDS Naturals, Sequences

CONSTANTS
    Capacity,     \* kCapacity, and what the page keeps
    ConsoleTail,  \* kConsoleTailChars
    MaxLogged     \* bound on the bytes logged

ASSUME LogBufferAssumption ==
    Capacity \in Nat \ {0} /\ ConsoleTail \in Nat /\ MaxLogged \in Nat

EmptyLog == [ring |-> [i \in 0..Capacity - 1 |-> 0], head |-> 0, count |-> 0, total |-> 0]

append(log, byte) ==
    [ring |-> [log.ring EXCEPT ![log.head] = byte],
     head |-> (log.head + 1) % Capacity,
     count |-> IF log.count < Capacity THEN log.count + 1 ELSE log.count,
     total |-> log.total + 1]

\* Mutant of snapshot_since: the ring is read from its start when it is full.
snapshot_since_FromZero(log, since) ==
    LET oldest == log.total - log.count
        start == IF since < oldest THEN oldest ELSE since IN
    [next |-> log.total, truncated |-> since # 0 /\ since < oldest,
     text |-> [i \in 1..log.total - start |-> log.ring[(start - oldest + i - 1) % Capacity]]]
snapshot_since(log, since) ==
    LET oldest == log.total - log.count
        start == CASE since = 0 \/ since < oldest -> oldest
                   [] since > log.total -> log.total
                   [] OTHER -> since
        first == IF log.count = Capacity THEN log.head ELSE 0
        unread == log.count # 0 /\ since # log.total IN
    [next |-> log.total,
     truncated |-> unread /\ since # 0 /\ since < oldest,
     text |-> IF unread THEN [i \in 1..log.total - start |-> log.ring[(first + start - oldest + i - 1) % Capacity]]
                        ELSE <<>>]

\* The web server answers with the snapshot and its cursor; "Refresh now" asks
\* for all of it (full).  The page's script shows the text or, where it follows
\* what is shown, appends it and keeps the end.
logs_data_handler(log, page, full) == snapshot_since(log, IF full THEN 0 ELSE page.cursor)
Kept(text) == IF Len(text) > Capacity THEN SubSeq(text, Len(text) - Capacity + 1, Len(text)) ELSE text
load(page, full, answer) ==
    [shown |-> IF full \/ page.cursor = 0 \/ answer.truncated THEN answer.text ELSE Kept(page.shown \o answer.text),
     cursor |-> IF answer.next # 0 THEN answer.next ELSE page.cursor]

\* refresh_console_log(): a text too long for the console is cut after its
\* first newline from cut on (newlines says which bytes are), or at cut.
ConsoleStart(text, newlines) ==
    LET cut  == Len(text) - ConsoleTail
        ends == {i \in cut + 1..Len(text) : text[i] \in newlines} IN
    IF cut <= 0 THEN 0 ELSE IF ends = {} THEN cut ELSE CHOOSE i \in ends : \A j \in ends : i <= j
console_log(text, newlines) == SubSeq(text, ConsoleStart(text, newlines) + 1, Len(text))

-----------------------------------------------------------------------------
Logged[n \in 0..MaxLogged] == IF n = 0 THEN EmptyLog ELSE append(Logged[n - 1], n)
Recent(n) == LET k == IF n < Capacity THEN n ELSE Capacity IN [i \in 1..k |-> n - k + i]
Followed(page, full, n) == load(page, full, logs_data_handler(Logged[n], page, full))
NewPage == [shown |-> <<>>, cursor |-> 0]

\* The page after its first load and one more, with the log at m and at n.
PageFollowsLog ==
    \A m \in 0..MaxLogged, full \in BOOLEAN : \A n \in m..MaxLogged :
        Followed(Followed(NewPage, TRUE, m), full, n).shown = Recent(n)

\* What the console shows is the end of the log, at most ConsoleTail bytes of
\* it, from behind the first newline on where that many would not fit.
ConsoleIsTail ==
    \A n \in 0..MaxLogged, newlines \in SUBSET (1..MaxLogged) :
        LET text  == snapshot_since(Logged[n], 0).text
            start == Len(text) - Len(console_log(text, newlines)) IN
        /\ text = Recent(n)
        /\ start \in 0..Len(text) /\ Len(text) - start <= ConsoleTail
        /\ console_log(text, newlines) = SubSeq(text, start + 1, Len(text))
        /\ start > 0 =>
              \/ text[start] \in newlines
                 /\ \A i \in Len(text) - ConsoleTail + 1..start - 1 : text[i] \notin newlines
              \/ start = Len(text) - ConsoleTail
                 /\ \A i \in start + 1..Len(text) : text[i] \notin newlines
=============================================================================
