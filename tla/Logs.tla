---------------------------------- MODULE Logs ----------------------------------
(***************************************************************************)
(* The page of the logs: the last lines of one service's file, read by a   *)
(* request, older lines read as the user scrolls to the top, and the lines *)
(* that are written from then on, streamed.  React keeps the lines of the  *)
(* last full request; the list that is on the screen, LazyLog, has its own *)
(* copy, to which older and streamed lines are added.  A line is its place *)
(* in the service's file; the lines of a file are told apart (a line that  *)
(* repeats the one before it is counted by the server, not modelled).      *)
(***************************************************************************)
EXTENDS Integers, FiniteSets
LOCAL INSTANCE SequencesExt

CONSTANTS
  Services,        \* logTypes
  LogSeverities,   \* the severities that can be chosen
  FirstLogged,     \* lines of each service's file at first
  InitialLines,    \* lines of the first request (100)
  PageLines,       \* lines that the list shows at a time
  MaxLogged,       \* bound: lines of a file
  MaxLogActs       \* bound: things the user does

ASSUME LogsAssumption ==
  /\ "frigate" \in Services /\ IsFiniteSet(LogSeverities) /\ LogSeverities # {} /\ PageLines \in Nat \ {0} /\ InitialLines \in Nat \ {0}
  /\ FirstLogged \in Nat /\ MaxLogged \in Nat /\ FirstLogged <= MaxLogged /\ MaxLogActs \in Nat

VARIABLES
  logged,      \* how many lines each service's file has
  logPage,     \* Logs: logService, filterSeverity ({} is undefined), isLoading, streaming allowed
  logs,        \* the lines of the last full request
  rows,        \* the lines of LazyLog; none while it is not mounted
  lastFetched, \* lastFetchedIndexRef
  logAsks,     \* the requests that are not answered
  logStream,   \* the stream: its service and filter, the line it has reached (0: not open)
  openedLine,  \* selectedLog: <<>> or <<the line>>
  plain,       \* no two requests overlapped since the list was last filled
  logActs

logVars == <<logged, logPage, logs, rows, lastFetched, logAsks, logStream, openedLine, plain, logActs>>

LogLines == [svc : Services, n : 1..MaxLogged]
SeverityOf(line) == SetToSeq(LogSeverities)[1 + (line.n % Cardinality(LogSeverities))]
\* Without a filter all lines, else those of its severities.
Wanted(filter, lines) ==
  LET passed[i \in 0..Len(lines)] ==
        IF i = 0 THEN <<>>
        ELSE IF SeverityOf(lines[i]) \in filter THEN Append(passed[i - 1], lines[i]) ELSE passed[i - 1]
  IN IF filter = {} THEN lines ELSE passed[Len(lines)]
FileLines(svc, from, to) == [i \in 1..(to - from) |-> [svc |-> svc, n |-> from + i]]
NoStream == [svc |-> "", filter |-> {}, at |-> 0]
Pending == "none"

LogsTypeOK ==
  /\ logged \in [Services -> FirstLogged..MaxLogged] /\ lastFetched \in -1..MaxLogged
  /\ logPage \in [svc : Services, filter : SUBSET LogSeverities, loading : BOOLEAN, streaming : BOOLEAN]
  /\ ToSet(logs) \cup ToSet(rows) \cup ToSet(openedLine) \subseteq LogLines
  /\ \A a \in logAsks : a.kind \in {"initial", "copy", "range"} /\ a.svc \in Services /\ a.at \in 1..MaxLogActs + 1
  /\ logStream = NoStream \/ logStream.svc \in Services
  /\ plain \in BOOLEAN /\ logActs \in 0..MaxLogActs

Ask(kind, svc, filter, from, to) ==
  [kind |-> kind, svc |-> svc, filter |-> filter, streams |-> logPage.streaming, from |-> from, to |-> to,
   at |-> logActs + 1, answer |-> Pending, total |-> 0, lines |-> <<>>]
\* The last lines of the file, or with a filter all of them.
AskInitial(kind, svc, filter) == Ask(kind, svc, filter, IF filter = {} THEN -InitialLines ELSE 0, -1)

LogsInit ==
  /\ logged = [s \in Services |-> FirstLogged]
  /\ logPage = [svc |-> "frigate", filter |-> {}, loading |-> TRUE, streaming |-> TRUE]
  /\ logs = <<>> /\ rows = <<>> /\ lastFetched = -1
  /\ logActs = 0
  /\ logAsks = {AskInitial("initial", logPage.svc, {})}
  /\ logStream = NoStream /\ openedLine = <<>> /\ plain = TRUE

LogAct == logActs < MaxLogActs /\ logActs' = logActs + 1

(* What the user does. *)
\* The effect of another service or filter: the stream is cut, the list is emptied and asked for.
LoadLogs(svc, filter) ==
  /\ LogAct
  /\ logPage' = [logPage EXCEPT !.svc = svc, !.filter = filter, !.loading = TRUE]
  /\ logs' = <<>> /\ rows' = <<>> /\ lastFetched' = -1 /\ logStream' = NoStream
  /\ logAsks' = logAsks \cup {AskInitial("initial", svc, filter)}
  /\ plain' = (logAsks = {})
  /\ UNCHANGED <<logged, openedLine>>

ChooseService == \E s \in Services \ {logPage.svc} : LoadLogs(s, {})
AddSeverity == \E s \in LogSeverities \ logPage.filter : LoadLogs(logPage.svc, logPage.filter \cup {s})
RemoveSeverity == \E s \in logPage.filter : Cardinality(logPage.filter) > 1 /\ LoadLogs(logPage.svc, logPage.filter \ {s})
AllSeverities == logPage.filter # {} /\ LoadLogs(logPage.svc, {})
\* A click on the severity of a line asks again even when the filter is the same.
ClickSeverity == \E i \in 1..Len(rows) : LoadLogs(logPage.svc, {SeverityOf(rows[i])})

\* The switch is read when a list is next filled; a stream that runs goes on.
ToggleStreaming ==
  /\ LogAct
  /\ logPage' = [logPage EXCEPT !.streaming = ~@]
  /\ UNCHANGED <<logged, logs, rows, lastFetched, logAsks, logStream, openedLine, plain>>

\* isLoading is set and reset in one turn: it does not keep a second scroll from asking.
HandleScroll ==
  /\ LogAct
  /\ ~logPage.loading /\ rows # <<>> /\ lastFetched > 0
  /\ LET from == IF lastFetched > PageLines THEN lastFetched - PageLines ELSE 0
     IN  logAsks' = logAsks \cup {Ask("range", logPage.svc, logPage.filter, from, lastFetched)}
  /\ plain' = (plain /\ logAsks = {})
  /\ UNCHANGED <<logged, logPage, logs, rows, lastFetched, logStream, openedLine>>

\* Copying asks for the list again; what is copied are the lines of the last full request.
HandleCopyLogs ==
  /\ LogAct /\ logs # <<>>
  /\ logPage' = [logPage EXCEPT !.loading = TRUE] /\ rows' = <<>>
  /\ logAsks' = logAsks \cup {AskInitial("copy", logPage.svc, logPage.filter)}
  /\ plain' = (logAsks = {} /\ logStream = NoStream)
  /\ UNCHANGED <<logged, logs, lastFetched, logStream, openedLine>>

\* The row opens its own line, then the list opens the line that logs has at that place, if any.
HandleRowClick ==
  /\ LogAct
  /\ \E i \in 1..Len(rows) : openedLine' = <<IF i <= Len(logs) THEN logs[i] ELSE rows[i]>>
  /\ UNCHANGED <<logged, logPage, logs, rows, lastFetched, logAsks, logStream, plain>>
CloseLine ==
  /\ openedLine # <<>> /\ openedLine' = <<>>
  /\ UNCHANGED <<logged, logPage, logs, rows, lastFetched, logAsks, logStream, plain, logActs>>

(* The server. *)
LineLogged ==
  /\ \E s \in Services : logged[s] < MaxLogged /\ logged' = [logged EXCEPT ![s] = @ + 1]
  /\ UNCHANGED <<logPage, logs, rows, lastFetched, logAsks, logStream, openedLine, plain, logActs>>

ServeLog ==
  /\ \E a \in logAsks :
       /\ a.answer = Pending
       /\ LET total == logged[a.svc]
              from == IF a.from >= 0 THEN a.from ELSE IF total + a.from > 0 THEN total + a.from ELSE 0
              to == IF a.to >= 0 THEN a.to ELSE total
          IN  \E s \in {[a EXCEPT !.answer = "lines", !.total = total, !.lines = FileLines(a.svc, from, to)],
                        [a EXCEPT !.answer = "failed"]} :
                logAsks' = (logAsks \ {a}) \cup {s}
  /\ UNCHANGED <<logged, logPage, logs, rows, lastFetched, logStream, openedLine, plain, logActs>>

(* The answers, for the service and the filter they were asked with, and the stream. *)
\* fetchInitialLogs: LazyLog is mounted with the lines, or reads them again when they are others.
InitialAnswered(a) ==
  LET new == IF a.answer = "lines" THEN Wanted(a.filter, a.lines) ELSE logs
  IN  /\ a.kind \in {"initial", "copy"}
      /\ logs' = new
      /\ rows' = IF logPage.loading \/ new # logs THEN new ELSE rows
      /\ lastFetched' = IF a.answer = "lines" THEN a.total - Len(new) ELSE lastFetched
      /\ logPage' = [logPage EXCEPT !.loading = FALSE]
      /\ logStream' = IF a.kind = "initial" /\ a.streams
                      THEN [svc |-> a.svc, filter |-> a.filter, at |-> 0] ELSE logStream
      /\ plain' = (plain /\ ~(a.kind = "copy" /\ a.answer = "failed"))

RangeAnswered_KeepsIndex(a) ==
  LET older == Wanted(a.filter, a.lines)
  IN  /\ a.kind = "range"
      /\ rows' = IF logPage.loading THEN rows ELSE older \o rows
      /\ UNCHANGED <<lastFetched, logs, logPage, logStream, plain>>

\* fetchLogRange: the lines go before those of the list, if it is mounted.
RangeAnswered(a) ==
  LET older == Wanted(a.filter, a.lines)
  IN  /\ a.kind = "range"
      /\ rows' = IF logPage.loading THEN rows ELSE older \o rows
      /\ lastFetched' = IF older = <<>> THEN lastFetched ELSE a.from
      /\ UNCHANGED <<logs, logPage, logStream, plain>>

Answered ==
  /\ \E a \in logAsks :
       /\ a.answer # Pending
       /\ InitialAnswered(a) \/ RangeAnswered(a)
       /\ logAsks' = logAsks \ {a}
  /\ UNCHANGED <<logged, openedLine, logActs>>

\* The server goes to the end of the file, and streams what is written after that.
StreamOpens ==
  /\ logStream # NoStream /\ logStream.at = 0
  /\ logStream' = [logStream EXCEPT !.at = logged[logStream.svc] + 1]
  /\ UNCHANGED <<logged, logPage, logs, rows, lastFetched, logAsks, openedLine, plain, logActs>>

\* Lines that come while LazyLog is not mounted are dropped.
StreamChunk ==
  /\ logStream.at > 0
  /\ logStream.at <= logged[logStream.svc]
  /\ rows' = IF logPage.loading THEN rows
             ELSE rows \o Wanted(logStream.filter, FileLines(logStream.svc, logStream.at - 1, logStream.at))
  /\ logStream' = [logStream EXCEPT !.at = @ + 1]
  /\ UNCHANGED <<logged, logPage, logs, lastFetched, logAsks, openedLine, plain, logActs>>

StreamFails ==
  /\ logStream # NoStream /\ logStream' = NoStream
  /\ UNCHANGED <<logged, logPage, logs, rows, lastFetched, logAsks, openedLine, plain, logActs>>

LogsNext ==
  \/ ChooseService \/ AddSeverity \/ RemoveSeverity \/ AllSeverities \/ ClickSeverity
  \/ ToggleStreaming \/ HandleScroll \/ HandleCopyLogs \/ HandleRowClick \/ CloseLine
  \/ LineLogged \/ ServeLog \/ Answered \/ StreamOpens \/ StreamChunk \/ StreamFails

LogsSpec == LogsInit /\ [][LogsNext]_logVars

(* What the list shows. *)
Gaps(s) == {i \in 1..(Len(s) - 1) : s[i + 1].n # s[i].n + 1}

\* While no two requests overlap, the list has the chosen service's lines and, without a
\* filter, each once and in order: only the lines written between the request and the start
\* of the stream are missing, and the next older page begins where the list does.  With a
\* filter it has only the severities that are chosen.
LogIsWhole ==
  plain /\ ~logPage.loading =>
    /\ \A i \in 1..Len(rows) : rows[i].svc = logPage.svc
    /\ IF logPage.filter # {} THEN \A i \in 1..Len(rows) : SeverityOf(rows[i]) \in logPage.filter
       ELSE /\ \A i \in 1..(Len(rows) - 1) : rows[i].n < rows[i + 1].n
            /\ Cardinality(Gaps(rows)) <= 1
            /\ logs # <<>> => rows[1].n = lastFetched + 1
=================================================================================
