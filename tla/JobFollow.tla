------------------------------ MODULE JobFollow ------------------------------
(***************************************************************************)
(* A page that follows a job it started: watchJob (lib/api.ts) and its     *)
(* hook (lib/use-job-watch.ts), on top of the server's event stream and    *)
(* the job runner.                                                         *)
(*                                                                         *)
(* The browser retries a broken EventSource by itself; after three errors  *)
(* in a row the page closes it and asks for the job's row.  Every stream   *)
(* replays the log from its first byte.  The events of one poll arrive     *)
(* together, or the connection is cut.                                     *)
(***************************************************************************)
EXTENDS JobWatch, FiniteSets

CONSTANTS
  MaxPieces,  \* bound: pieces of log a job writes
  MaxCuts     \* bound: cut connections and unanswered requests, beside restarts

ASSUME FollowAssumption == MaxPieces \in Nat /\ MaxCuts \in Nat

VARIABLES
  written,    \* written[j]: pieces in the job's log
  page,       \* page[j]: phase of the watch, errors in a row
  offset,     \* offset[j]: pieces the stream has sent
  seen,       \* seen[j]: pieces of this stream that arrived
  delivered,  \* delivered[j]: pieces of all streams handed to the page
  log,        \* log[j]: the pieces the page shows
  status,     \* status[j]: the status the page shows
  last,       \* last[j]: the status the watch itself was told last
  reply,      \* reply[j]: what the cancel route said, on its way
  result,     \* result[j]: the job's row carries a result
  cuts

logVars == <<offset, seen, delivered, log>>
pageVars == <<written, page, logVars, status, last, reply, cuts>>
followVars == <<pageVars, result>>
everything == <<allVars, followVars>>

ErrorTicks == 3
NoAnswer == "none"
Reply == {NoAnswer} \cup Unfinished \cup Terminal

FollowTypeOK ==
  /\ WatchTypeOK
  /\ written \in [Job -> 0..MaxPieces]
  /\ page \in [Job -> [at : {"off", "connecting", "open", "asking", "waiting", "closed"},
                       errors : 0..(ErrorTicks - 1)]]
  /\ offset \in [Job -> 0..MaxPieces] /\ seen \in [Job -> 0..MaxPieces]
  /\ delivered \in [Job -> 0..MaxPieces] /\ log \in [Job -> Seq(1..MaxPieces)]
  /\ status \in [Job -> Reply] /\ last \in [Job -> Reply] /\ reply \in [Job -> Reply]
  /\ result \in [Job -> BOOLEAN]
  /\ cuts \in 0..MaxCuts

NotTracking == [at |-> "off", errors |-> 0]

FollowInit ==
  /\ WatchInit
  /\ written = [j \in Job |-> 0]
  /\ page = [j \in Job |-> NotTracking]
  /\ offset = [j \in Job |-> 0] /\ seen = [j \in Job |-> 0]
  /\ delivered = [j \in Job |-> 0] /\ log = [j \in Job |-> <<>>]
  /\ status = [j \in Job |-> NoAnswer] /\ last = [j \in Job |-> NoAnswer]
  /\ reply = [j \in Job |-> NoAnswer] /\ result = [j \in Job |-> FALSE]
  /\ cuts = 0

At(j, s) == [page EXCEPT ![j].at = s]

-----------------------------------------------------------------------------
Shows(j, s) == status' = [status EXCEPT ![j] = s]
Told(j, s) == Shows(j, s) /\ last' = [last EXCEPT ![j] = s]

\* track(jobId), once the job was accepted.
Track(j) ==
  /\ page[j].at = "off" /\ row[j] # "none"
  /\ page' = At(j, "connecting") /\ Told(j, "running")
  /\ UNCHANGED <<allVars, written, logVars, reply, result, cuts>>

\* The page is cleared, or left.  An answer of the cancel route still comes to a
\* page that was cleared.
Clear(j) ==
  /\ page[j].at # "off" \/ status[j] # NoAnswer
  /\ page' = [page EXCEPT ![j] = NotTracking] /\ Told(j, NoAnswer)
  /\ UNCHANGED reply \/ reply' = [reply EXCEPT ![j] = NoAnswer]
  /\ delivered' = [delivered EXCEPT ![j] = 0]
  /\ log' = [log EXCEPT ![j] = <<>>]
  /\ watch' = [watch EXCEPT ![j] = "off"]
  /\ told' = [told EXCEPT ![j] = "none"]
  /\ UNCHANGED <<vars, written, offset, seen, result, cuts>>

\* onopen
Connect(j) ==
  /\ page[j].at = "connecting"
  /\ OpenStream(j)
  /\ page' = At(j, "open")
  /\ offset' = [offset EXCEPT ![j] = 0]
  /\ seen' = [seen EXCEPT ![j] = 0]
  /\ UNCHANGED <<written, delivered, log, status, last, reply, result, cuts>>

\* Three errors without a status event between them: the page asks for the row.
Failed(j) ==
  page' = [page EXCEPT ![j] =
             IF @.errors + 1 = ErrorTicks THEN [at |-> "asking", errors |-> 0]
             ELSE [at |-> "connecting", errors |-> @.errors + 1]]

Trouble == \/ ~up /\ UNCHANGED cuts
           \/ up /\ cuts < MaxCuts /\ cuts' = cuts + 1

ConnectFails(j) ==
  /\ page[j].at = "connecting"
  /\ Trouble
  /\ Failed(j)
  /\ UNCHANGED <<allVars, written, logVars, status, last, reply, result>>

\* A stream that ended, or died with its server, is an error to the EventSource
\* like one that was cut.
StreamCloses(j) ==
  /\ page[j].at = "open"
  /\ \/ watch[j] \in {"ended", "off"} /\ UNCHANGED cuts
     \/ watch[j] \notin {"ended", "off"} /\ Trouble
  /\ Failed(j)
  /\ watch' = [watch EXCEPT ![j] = "off"]
  /\ told' = [told EXCEPT ![j] = "none"]
  /\ UNCHANGED <<vars, written, logVars, status, last, reply, result>>

\* What a status event says of an orphaned job is "failed".
Says(s) == IF s = "orphaned" THEN "failed" ELSE s

\* Mistake: what an earlier stream delivered is not skipped.
NewPiecesOfAll(j) == [k \in 1..(written[j] - offset[j]) |-> offset[j] + k]

\* The log events of a poll: the pieces past those already delivered.
NewPieces(j) ==
  LET length == written[j] - offset[j]
      ahead == delivered[j] - seen[j]
      skip == IF ahead < 0 THEN 0 ELSE IF ahead < length THEN ahead ELSE length
  IN [k \in 1..(length - skip) |-> offset[j] + skip + k]

\* A poll's events arrive: log, status, and the result of a job that ended on its
\* runner or was cancelled, which closes the watch.  A row that the start-up failed
\* has none.
Receive(j) ==
  /\ page[j].at = "open"
  /\ PollRow(j)
  /\ log' = [log EXCEPT ![j] = @ \o NewPieces(j)]
  /\ delivered' = [delivered EXCEPT ![j] = @ + Len(NewPieces(j))]
  /\ seen' = [seen EXCEPT ![j] = @ + (written[j] - offset[j])]
  /\ offset' = [offset EXCEPT ![j] = written[j]]
  /\ Told(j, Says(told'[j]))
  /\ page' = [page EXCEPT ![j] =
                [at |-> IF told'[j] \in Terminal /\ result[j] THEN "closed" ELSE "open",
                 errors |-> 0]]
  /\ UNCHANGED <<written, reply, result, cuts>>

\* The row answers: a terminal one ends the watch, another one opens a new stream.
RowAnswers(j) ==
  /\ up /\ Told(j, row[j])
  /\ page' = At(j, IF row[j] \in Terminal THEN "closed" ELSE "connecting")
  /\ UNCHANGED cuts

\* Mistake: the page gives up on the first row that does not answer.
GiveUp(j) ==
  /\ page[j].at = "asking"
  /\ \/ RowAnswers(j)
     \/ Trouble /\ page' = At(j, "closed") /\ UNCHANGED <<status, last>>
  /\ UNCHANGED <<allVars, written, logVars, reply, result>>

\* checkJob.  Without an answer the page shows "reconnecting..." with the status the
\* watch knows, whatever else was shown, and asks again later.
CheckJob(j) ==
  /\ page[j].at = "asking"
  /\ \/ RowAnswers(j)
     \/ Trouble /\ page' = At(j, "waiting") /\ Shows(j, last[j]) /\ UNCHANGED last
  /\ UNCHANGED <<allVars, written, logVars, reply, result>>

CheckAgain(j) ==
  /\ page[j].at = "waiting"
  /\ page' = At(j, "asking")
  /\ UNCHANGED <<allVars, written, logVars, status, last, reply, result, cuts>>

\* The cancel button: the route answers with the row's status of that moment.
AskCancel(j) ==
  /\ page[j].at # "off" /\ reply[j] = NoAnswer /\ up
  /\ status[j] \in Unfinished
  /\ reply' = [reply EXCEPT ![j] = row[j]]
  /\ UNCHANGED <<allVars, written, page, logVars, status, last, result, cuts>>

\* Mistake: the answer is shown whatever the page shows by then.
CancelAnswersLate(j) ==
  /\ reply[j] # NoAnswer
  /\ Shows(j, reply[j])
  /\ reply' = [reply EXCEPT ![j] = NoAnswer]
  /\ UNCHANGED <<allVars, written, page, logVars, last, result, cuts>>

\* The answer does not replace an outcome; the watch does not learn of it.
CancelAnswers(j) ==
  /\ reply[j] # NoAnswer
  /\ Shows(j, IF status[j] \in Terminal THEN status[j] ELSE reply[j])
  /\ reply' = [reply EXCEPT ![j] = NoAnswer]
  /\ UNCHANGED <<allVars, written, page, logVars, last, result, cuts>>

Page(j) == \/ Track(j) \/ Clear(j) \/ Connect(j) \/ ConnectFails(j) \/ StreamCloses(j)
           \/ Receive(j) \/ CheckJob(j) \/ CheckAgain(j) \/ AskCancel(j) \/ CancelAnswers(j)

\* The job writes its log; the server's stream reads twice per poll.
WriteLog(j) ==
  /\ stage[j] = "running" /\ written[j] < MaxPieces
  /\ written' = [written EXCEPT ![j] = @ + 1]
  /\ UNCHANGED <<allVars, page, logVars, status, last, reply, result, cuts>>

\* What a runner or a cancel writes as an outcome comes with a result.
Results == result' = [j \in Job |-> IF row'[j] = row[j] THEN result[j]
                                    ELSE row'[j] \in Terminal /\ up]

FollowNext ==
  \/ System /\ Results /\ UNCHANGED pageVars
  \/ \E j \in Job :
       \/ PollLiveness(j) /\ UNCHANGED followVars
       \/ WriteLog(j)
       \/ Page(j)

FollowSpec == FollowInit /\ [][FollowNext]_everything

\* The server polls as long as the client stays, the browser retries, and a
\* request is answered or fails.
FollowFairSpec ==
  /\ FollowSpec /\ Fairness
  /\ \A j \in Job : /\ WF_everything(PollLiveness(j) /\ UNCHANGED followVars)
                    /\ WF_everything(Connect(j)) /\ WF_everything(Receive(j))
                    /\ WF_everything(StreamCloses(j)) /\ WF_everything(CheckJob(j))
                    /\ WF_everything(CheckAgain(j))
-----------------------------------------------------------------------------
\* However often the connection breaks and the log is replayed, the page shows
\* every piece of it once and in order.
LogOnce == \A j \in Job : log[j] = [k \in 1..delivered[j] |-> k]

\* An outcome the page shows is not taken back: no late answer of the cancel route,
\* no replayed stream and no row turns it into a running job again.  What may is the
\* "reconnecting..." of a watch that was never told the outcome, which the page has
\* from the cancel route.  (The "failed" of an orphaned job is the stream's, not the
\* row's.)
SettledStays ==
  [][\A j \in Job : /\ status[j] \in Terminal /\ row[j] \in Terminal
                    /\ page[j].at # "off" /\ page'[j].at # "off"
       => \/ status'[j] \in Terminal
          \/ last[j] \notin Terminal /\ page[j].at = "asking" /\ page'[j].at = "waiting"]_everything

\* A page that follows a job to its end shows the outcome, whatever was cut, lost or
\* restarted on the way, and the watch knows it, so that it is not taken back.
WatchSettles ==
  \A j \in Job : (page[j].at # "off" /\ row[j] \in Terminal) ~>
                 (page[j].at = "off" \/ {status[j], last[j]} \subseteq Terminal)
=============================================================================
