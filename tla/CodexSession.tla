---------------------------- MODULE CodexSession ----------------------------
(***************************************************************************)
(* internal/codex/session.go: one session of a run with its app-server, a  *)
(* child process spoken to in lines over stdin and stdout, and the loop    *)
(* of turns in internal/cli/runtime.go that drives it.  The server is      *)
(* external: it answers in any order of events the protocol allows, late,  *)
(* or not at all, and may exit.                                            *)
(***************************************************************************)
EXTENDS Naturals, Sequences, SequencesExt

CONSTANTS
  MaxTurns,     (* agent.max_turns                                          *)
  Request,      (* the ids the server gives its own requests                *)
  AutoApprove,  (* codex.approval_policy is "never"                         *)
  MaxInbox      (* bound: lines the server is ahead of the session          *)

ASSUME SessionAssumption ==
  /\ MaxTurns \in Nat \ {0}
  /\ Request \subseteq Nat
  /\ AutoApprove \in BOOLEAN
  /\ MaxInbox \in Nat \ {0}

(* The ids of the session's requests; every turn uses the same.            *)
initializeID == 1
threadStartID == 2
turnStartID == 3

VARIABLES
  phase,      (* what the session is doing                                  *)
  turn,       (* turns begun                                                *)
  outcome,    (* of the last call of StartSession or RunTurn                *)
  expired,    (* the read timeout, or the turn timeout, of the call is over *)
  call,       (* the server request a tool handler works on                 *)
  writing,    (* the line of a write that blocks, as a sequence of one      *)
  cancelled,  (* the context of the run has ended                           *)
  closed,     (* Session.closed                                             *)
  proc,       (* the child process                                          *)
  outbox,     (* lines in stdin                                             *)
  inbox,      (* lines in stdout and in the channel reads                   *)
  owed,       (* server: the session's request it has not answered, or 0    *)
  active,     (* server: the turn under way, or 0                           *)
  done,       (* server: turns it has ended                                 *)
  asked,      (* server: its requests without an answer                     *)
  early       (* history: those it made before it answered turn/start       *)

client == <<phase, turn, outcome, expired, call, writing>>
server == <<owed, active, done, asked, early>>
vars == <<client, cancelled, closed, proc, outbox, inbox, server>>

Awaiting == [init |-> initializeID, thread |-> threadStartID, start |-> turnStartID]
Asks == {"approval", "input", "tool"}

(* A line: its kind ("response", "error", "notice", "completed", "failed", *)
(* "eof", one of Asks), and the id or the turn it is about.                *)
Msg(k, n) == [kind |-> k, id |-> n]
Eof == Msg("eof", 0)

Writable == proc = "running" /\ ~closed

Init ==
  /\ phase = "new" /\ turn = 0 /\ outcome = "none" /\ expired = FALSE /\ call = 0
  /\ writing = <<>>
  /\ cancelled = FALSE /\ closed = FALSE /\ proc = "none"
  /\ outbox = <<>> /\ inbox = <<>>
  /\ owed = 0 /\ active = 0 /\ done = 0 /\ asked = {} /\ early = {}

-----------------------------------------------------------------------------
(* The calls of the session.                                               *)

(* A call returns an error: runCodexLoop leaves and closes the session, as *)
(* StartSession closes the transport.                                      *)
Fail(why) ==
  /\ phase' = "closing"
  /\ outcome' = why
  /\ expired' = FALSE
  /\ call' = 0
  /\ writing' = <<>>
  /\ UNCHANGED turn

(* WriteJSON looks at no context: when the pipe has no room for the line,  *)
(* because the server has not read, the session waits in the write.        *)
Write(line) ==
  \/ outbox' = Append(outbox, line) /\ UNCHANGED writing
  \/ writing' = <<line>> /\ UNCHANGED outbox

(* Write a request and wait for its response, or fail to write it.  The    *)
(* timeout of the call begins after the write.                             *)
Send(id, next) ==
  IF Writable
    THEN /\ Write(Msg("request", id))
         /\ phase' = next
         /\ expired' = FALSE
         /\ UNCHANGED <<outcome, call>>
    ELSE Fail("io") /\ UNCHANGED outbox

(* The workspace is not a directory inside the root, or the process does   *)
(* not start.                                                              *)
Refused ==
  /\ phase' = "over"
  /\ outcome' = "refused"
  /\ UNCHANGED <<turn, expired, call, writing, proc, outbox>>

(* StartSession: unless it is refused the process starts and gets          *)
(* initialize.                                                             *)
StartSession ==
  /\ phase = "new"
  /\ \/ Refused
     \/ /\ ~cancelled
        /\ proc' = "running"
        /\ Write(Msg("request", initializeID))
        /\ phase' = "init"
        /\ UNCHANGED <<turn, outcome, expired, call>>
  /\ UNCHANGED <<cancelled, closed, inbox, server>>

(* RunTurn, for the first turn or a continuation.                          *)
RunTurn ==
  /\ phase = "idle"
  /\ turn < MaxTurns
  /\ IF Writable
       THEN turn' = turn + 1 /\ Send(turnStartID, "start")
       ELSE Fail("io") /\ UNCHANGED outbox
  /\ UNCHANGED <<cancelled, closed, proc, inbox, server>>

(* The caller has no further turn for this session.                        *)
LeaveLoop ==
  /\ phase = "idle"
  /\ phase' = "closing"
  /\ UNCHANGED <<turn, outcome, expired, call, writing, cancelled, closed, proc,
                 outbox, inbox, server>>

Reads(phases) ==
  /\ phase \in phases
  /\ writing = <<>>
  /\ inbox # <<>>
  /\ inbox' = Tail(inbox)
  /\ UNCHANGED <<cancelled, closed, proc, server>>

(* sameID compares ids and nothing else: a request of the server may be    *)
(* taken for the response.                                                 *)
Matches(line, id) ==
  line.kind \in {"response", "error"} \cup Asks /\ line.id = id

(* awaitResponse: lines that do not match are reported as unknown.         *)
AwaitResponse ==
  /\ Reads(DOMAIN Awaiting)
  /\ LET line == Head(inbox)
         id == Awaiting[phase]
     IN  \/ /\ line.kind = "eof"
            /\ Fail("io")
            /\ UNCHANGED outbox
         \/ /\ line.kind # "eof"
            /\ ~Matches(line, id)
            /\ UNCHANGED <<client, outbox>>
         \/ /\ Matches(line, id)
            /\ line.kind # "response"
            /\ Fail("protocol")
            /\ UNCHANGED outbox
         \/ /\ Matches(line, id)
            /\ line.kind = "response"
            /\ UNCHANGED turn
            /\ CASE phase = "init" -> Send(threadStartID, "thread")
                 [] phase = "thread" -> /\ phase' = "idle"
                                        /\ expired' = FALSE
                                        /\ UNCHANGED <<outcome, call, writing, outbox>>
                 [] phase = "start" -> /\ phase' = "stream"
                                       /\ expired' = FALSE
                                       /\ UNCHANGED <<outcome, call, writing, outbox>>

(* Answer a request of the server and go on with the turn.                 *)
AnswerWith(id) ==
  IF Writable
    THEN /\ Write(Msg("answer", id))
         /\ phase' = "stream"
         /\ call' = 0
         /\ UNCHANGED <<turn, outcome, expired>>
    ELSE Fail("io") /\ UNCHANGED outbox

(* Altered: a process that exits has finished its turn.                    *)
EofCompletes(line) ==
  /\ line.kind \in {"completed", "failed", "eof"}
  /\ IF line.kind = "failed" THEN Fail("failed")
       ELSE /\ phase' = "idle"
            /\ outcome' = "completed"
            /\ expired' = FALSE
            /\ UNCHANGED <<turn, call, writing>>
  /\ UNCHANGED outbox

(* A terminal event ends the turn, whatever turn it names; runCodexLoop    *)
(* goes on after a completed turn only.                                    *)
TurnEnds(line) ==
  /\ line.kind \in {"completed", "failed", "eof"}
  /\ IF line.kind # "completed"
       THEN Fail(IF line.kind = "eof" THEN "io" ELSE "failed")
       ELSE /\ phase' = "idle"
            /\ outcome' = "completed"
            /\ expired' = FALSE
            /\ UNCHANGED <<turn, call, writing>>
  /\ UNCHANGED outbox

(* An approval that nobody may give, or a form without questions, or with  *)
(* one that has no id, ends the turn.                                      *)
CannotAnswer == Fail("approval") /\ UNCHANGED outbox

(* handleApproval and handleUserInput.                                     *)
HandleAsk(line) ==
  \/ /\ line.kind = "approval"
     /\ IF AutoApprove THEN AnswerWith(line.id) ELSE CannotAnswer
  \/ /\ line.kind = "input"
     /\ AnswerWith(line.id) \/ CannotAnswer

(* RunTurn's loop; a tool call goes to the handler.                        *)
Stream ==
  /\ Reads({"stream"})
  /\ LET line == Head(inbox)
     IN  \/ TurnEnds(line)
         \/ HandleAsk(line)
         \/ /\ line.kind = "tool"
            /\ phase' = "tool"
            /\ call' = line.id
            /\ UNCHANGED <<turn, outcome, expired, writing, outbox>>
         \/ /\ line.kind \in {"notice", "response", "error"}
            /\ UNCHANGED <<client, outbox>>

(* Altered: a tool that is not supported gets no answer.                   *)
UnsupportedIgnored ==
  /\ phase = "tool"
  /\ \/ AnswerWith(call)
     \/ /\ phase' = "stream" /\ call' = 0
        /\ UNCHANGED <<turn, outcome, expired, writing, outbox>>
  /\ UNCHANGED <<cancelled, closed, proc, inbox, server>>

(* The tool handler returns, with a result, an error or "unsupported": the *)
(* server gets an answer in every case.  The handler has the context of    *)
(* the run, not that of the turn.                                          *)
ToolReturns ==
  /\ phase = "tool"
  /\ AnswerWith(call)
  /\ UNCHANGED <<cancelled, closed, proc, inbox, server>>

(* Altered: the handler is called with a background context.               *)
ToolWithoutContext == FALSE /\ UNCHANGED vars

ToolInterrupted == cancelled /\ ToolReturns

(* Altered: the turn is read with the context of the run.                  *)
OnlyReadsTimeOut ==
  /\ phase \in DOMAIN Awaiting
  /\ writing = <<>>
  /\ ~expired
  /\ expired' = TRUE
  /\ UNCHANGED <<phase, turn, outcome, call, writing, cancelled, closed, proc, outbox,
                 inbox, server>>

Deadline ==
  /\ phase \in {"stream", "tool"} \/ (phase \in DOMAIN Awaiting /\ writing = <<>>)
  /\ ~expired
  /\ expired' = TRUE
  /\ UNCHANGED <<phase, turn, outcome, call, writing, cancelled, closed, proc, outbox,
                 inbox, server>>

(* ReadLine returns the error of its context, and scopedTimeoutError tells *)
(* whose it was.  With a line at hand too, select takes either.  A session *)
(* that waits in a write does not read.                                    *)
ReadGivesUp ==
  /\ phase \in DOMAIN Awaiting \cup {"stream"}
  /\ writing = <<>>
  /\ cancelled \/ expired
  /\ Fail(IF cancelled THEN "cancelled"
            ELSE IF phase = "stream" THEN "turnTimeout" ELSE "readTimeout")
  /\ UNCHANGED <<cancelled, closed, proc, outbox, inbox, server>>

(* The server has read enough for the line of a write that blocked.        *)
WriteGoesThrough ==
  /\ writing # <<>>
  /\ Writable
  /\ outbox' = outbox \o writing
  /\ writing' = <<>>
  /\ UNCHANGED <<phase, turn, outcome, expired, call, cancelled, closed, proc, inbox,
                 server>>

(* The pipe was closed at either end.                                      *)
WriteBreaks ==
  /\ writing # <<>>
  /\ ~Writable
  /\ Fail("io")
  /\ UNCHANGED <<cancelled, closed, proc, outbox, inbox, server>>

-----------------------------------------------------------------------------
(* The process and its end.                                                *)

(* The context of the run ends (StopRun, Close of the worker manager).     *)
Cancel ==
  /\ phase # "over"
  /\ ~cancelled
  /\ cancelled' = TRUE
  /\ UNCHANGED <<client, closed, proc, outbox, inbox, server>>

(* The process ends by itself, or CommandContext kills it when the context *)
(* ends.                                                                   *)
Exit ==
  /\ proc = "running"
  /\ proc' = "exited"
  /\ inbox' = Append(inbox, Eof)
  /\ UNCHANGED <<client, cancelled, closed, outbox, server>>

(* processTransport.Close kills and reaps the process; lines the scanner   *)
(* had not read are gone, what it had read stays in the channel.           *)
Reap ==
  IF proc \in {"none", "reaped"} THEN UNCHANGED <<proc, inbox>>
    ELSE /\ proc' = "reaped"
         /\ \E n \in 0..Len(inbox) : inbox' = Append(SubSeq(inbox, 1, n), Eof)

(* runHandle.stop: after the context, the session, if it was started.      *)
CloseByStop ==
  /\ cancelled
  /\ phase \in {"idle", "start", "stream", "tool"}
  /\ ~closed
  /\ closed' = TRUE
  /\ Reap
  /\ UNCHANGED <<client, cancelled, outbox, server>>

(* Altered: a session that failed to start is left alone.                  *)
CloseUnlessFailed ==
  /\ phase = "closing"
  /\ phase' = "over"
  /\ closed' = TRUE
  /\ IF turn = 0 THEN UNCHANGED <<proc, inbox>> ELSE Reap
  /\ UNCHANGED <<turn, outcome, expired, call, writing, cancelled, outbox, server>>

(* The deferred Close of runCodexLoop, or the one of StartSession.         *)
Close ==
  /\ phase = "closing"
  /\ phase' = "over"
  /\ closed' = TRUE
  /\ Reap
  /\ UNCHANGED <<turn, outcome, expired, call, writing, cancelled, outbox, server>>

-----------------------------------------------------------------------------
(* The server.                                                             *)

ServerStep == proc = "running" /\ UNCHANGED <<client, cancelled, closed, proc>>
Says(line) == /\ Len(inbox) < MaxInbox
              /\ inbox' = Append(inbox, line)
              /\ UNCHANGED outbox

ServerReads ==
  /\ ServerStep
  /\ outbox # <<>>
  /\ outbox' = Tail(outbox)
  /\ LET line == Head(outbox)
     IN  IF line.kind = "answer"
           THEN asked' = asked \ {line.id} /\ UNCHANGED owed
           ELSE owed' = line.id /\ UNCHANGED asked
  /\ UNCHANGED <<inbox, active, done, early>>

ServerResponds ==
  /\ ServerStep
  /\ owed # 0
  /\ owed' = 0
  /\ \/ Says(Msg("error", owed)) /\ UNCHANGED active
     \/ /\ Says(Msg("response", owed))
        /\ active' = IF owed = turnStartID THEN done + 1 ELSE active
  /\ UNCHANGED <<done, asked, early>>

(* During a turn, or before the answer to its turn/start.                  *)
ServerAsks ==
  /\ ServerStep
  /\ active # 0 \/ owed = turnStartID
  /\ \E k \in Asks, r \in Request \ asked :
       /\ Says(Msg(k, r))
       /\ asked' = asked \cup {r}
       /\ early' = IF owed = turnStartID THEN early \cup {r} ELSE early
  /\ UNCHANGED <<owed, active, done>>

(* Lines that are not JSON and notifications the session does not know.    *)
ServerNotifies == ServerStep /\ Says(Msg("notice", 0)) /\ UNCHANGED server

(* A turn ends when its requests are answered; the server may have given   *)
(* up those that were dropped.                                             *)
ServerEndsTurn ==
  /\ ServerStep
  /\ active # 0
  /\ asked \subseteq early
  /\ \E k \in {"completed", "failed"} : Says(Msg(k, active))
  /\ active' = 0
  /\ done' = active
  /\ UNCHANGED <<owed, asked, early>>

Server ==
  ServerReads \/ ServerResponds \/ ServerAsks \/ ServerNotifies \/ ServerEndsTurn

Over == phase = "over" /\ UNCHANGED vars

(* What the session does, the return of a tool call excepted.              *)
Session ==
  \/ StartSession \/ RunTurn \/ LeaveLoop \/ AwaitResponse \/ Stream
  \/ Deadline \/ ReadGivesUp \/ WriteGoesThrough \/ WriteBreaks
  \/ Cancel \/ Exit \/ CloseByStop \/ Close

(* Timers fire and the session takes its steps; select does not take lines *)
(* for ever while its context is done; a tool handler returns when its     *)
(* context ends.  Nothing is assumed of the server, nor that a tool call   *)
(* ends by itself: the HTTP client of the tool bridge has no timeout.  A   *)
(* process whose context has ended is killed, and a write to a closed pipe *)
(* returns; that any other write returns is not assumed.                   *)
Fairness ==
  /\ WF_vars(StartSession)
  /\ WF_vars(cancelled /\ LeaveLoop)
  /\ WF_vars(ToolInterrupted)
  /\ WF_vars(Deadline)
  /\ SF_vars(ReadGivesUp)
  /\ WF_vars(WriteBreaks)
  /\ WF_vars(cancelled /\ Exit)
  /\ WF_vars(Close)

-----------------------------------------------------------------------------

(* A turn reported as completed is the turn the server has completed: what *)
(* is left over from one turn never ends the next, though all turns share  *)
(* a request id and terminal events are not compared with the turn         *)
(* (session.go:366, 392).                                                  *)
TurnsAgree ==
  phase = "idle" /\ turn > 0 => outcome = "completed" /\ done = turn /\ active = 0

(* Every request of the server is answered once, but for those it makes    *)
(* before it has answered turn/start, which awaitResponse drops            *)
(* (session.go:482): until the session ends a request is on its way to the *)
(* session, with a tool handler, or its one answer is being written or on  *)
(* its way, and nothing else is answered.  "The system MUST answer         *)
(* approval requests according to the configured approval policy"          *)
(* (openspec codex-app-server-protocol, line 48).                          *)
RequestsAnsweredOnce ==
  LET written == outbox \o writing
  IN  /\ \A m, n \in DOMAIN written :
           written[m].kind = "answer" /\ written[m] = written[n] => m = n
      /\ \A n \in DOMAIN written :
           written[n].kind = "answer" => written[n].id \in asked \ early
      /\ \A r \in asked \ early :
           \/ phase \in {"closing", "over"}
           \/ proc # "running" \/ closed
           \/ \E k \in Asks : Contains(inbox, Msg(k, r))
           \/ phase = "tool" /\ call = r
           \/ Contains(written, Msg("answer", r))

(* The process of a session does not outlive it, also when the bootstrap   *)
(* or a turn fails (session.go:289, runtime.go:532).                       *)
NoOrphanProcess == phase = "over" => proc \in {"none", "reaped"}

(* The whole-turn timeout ends every turn, of a server that says nothing   *)
(* more as of one that never stops talking, as long as the tool calls of   *)
(* the turn end by themselves and the server reads what is written to it:  *)
(* tool handlers and writes do not see the context of the turn             *)
(* (session.go:411, 571, 676).                                             *)
TurnsEnd ==
  LET InTurn == phase \in {"stream", "tool"}
      Blocked == writing # <<>>
  IN  (phase = "tool" ~> phase # "tool") /\ (Blocked ~> ~Blocked)
        => (InTurn ~> ~InTurn)

(* A session whose context has ended goes away, tool calls included.       *)
StoppedSessionEnds == cancelled ~> phase = "over"
=============================================================================
