--------------------------- MODULE ExecutionHost ---------------------------
(***************************************************************************)
(* One RunCommand of runner/execution_host.go: a hook or a workspace       *)
(* command of several lines runs below `sh -lc`, or through ssh below      *)
(* `bash -lc` of a worker host, with a deadline.  What is below the shell  *)
(* matters: a line may leave a process behind that holds the output pipe,  *)
(* and the deadline kills the local shell or the local ssh only.           *)
(*                                                                         *)
(* Text is a sequence of one-character strings where the code quotes or    *)
(* splits it; the command itself is one opaque character.                  *)
(***************************************************************************)
EXTENDS Integers, Sequences, SequencesExt

CONSTANTS Dirs,    \* working directories, as text
          Hosts    \* worker hosts, as [user, name, port], each a text

ASSUME DirAssumption == \A dir \in Dirs : dir \in Seq(STRING)

VARIABLES req,       \* the CommandRequest; "there": its directory exists
          caller,    \* RunCommand: "calling", "waiting" or "returned"
          expired,   \* the deadline of the request has passed
          shell,     \* the local process, sh or ssh
          script,    \* the shell script: its next line, its status so far
          ran,       \* the directories in which its lines ran
          holders,   \* processes of the script that hold its output
          result     \* what RunCommand returned

vars == <<req, caller, expired, shell, script, ran, holders, result>>

Local == [user |-> <<>>, name |-> <<>>, port |-> <<>>]    \* the empty host
Remote == req.host # Local
Home == <<"~">>
Command == <<"x">>
-----------------------------------------------------------------------------
(* Quoting: shellQuote here, and its copy quoteShell in the workspace. *)

Safe == {"/", ".", "_", "-"} \cup {"a", "b", "c", "d", "h", "l", "u", "x", "0", "1", "2"}

QuoteNoEscape(text) == <<"'">> \o text \o <<"'">>    \* altered

Escaped(text) ==
  LET upTo[i \in 0 .. Len(text)] ==
        IF i = 0 THEN <<>>
        ELSE upTo[i - 1] \o (IF text[i] = "'" THEN <<"'", "\\", "'", "'">> ELSE <<text[i]>>)
  IN  upTo[Len(text)]

ShellQuote(text) ==
  CASE text = <<>> -> <<"'", "'">>
    [] text # <<>> /\ \A i \in DOMAIN text : text[i] \in Safe -> text
    [] OTHER -> <<"'">> \o Escaped(text) \o <<"'">>

RemoteScript == <<"c", "d", " ">> \o ShellQuote(req.dir) \o <<" ", "&", "&", " ">> \o Command
SSHCommand == <<"b", " ", "l", " ">> \o ShellQuote(RemoteScript)

(* How a POSIX shell splits a line into words. *)
ReadChar(s, c) ==
  CASE s.mode = "quoted" /\ c = "'" -> [s EXCEPT !.mode = "bare"]
    [] s.mode = "quoted" /\ c # "'" -> [s EXCEPT !.word = Append(@, c)]
    [] s.mode = "escaped" -> [s EXCEPT !.word = Append(@, c), !.mode = "bare"]
    [] s.mode \in {"blank", "bare"} /\ c = "'" -> [s EXCEPT !.mode = "quoted"]
    [] s.mode \in {"blank", "bare"} /\ c = "\\" -> [s EXCEPT !.mode = "escaped"]
    [] s.mode = "bare" /\ c = " " ->
         [mode |-> "blank", word |-> <<>>, words |-> Append(s.words, s.word)]
    [] s.mode = "blank" /\ c = " " -> s
    [] OTHER -> [s EXCEPT !.word = Append(@, c), !.mode = "bare"]

Read(from, text) ==
  LET upTo[i \in 0 .. Len(text)] == IF i = 0 THEN from ELSE ReadChar(upTo[i - 1], text[i])
  IN  upTo[Len(text)]

Words(text) ==
  LET end == Read([mode |-> "blank", word |-> <<>>, words |-> <<>>], text)
  IN  IF end.mode = "bare" THEN Append(end.words, end.word) ELSE end.words

(* The directory the remote bash changes to: sshd's shell reads the        *)
(* command, bash reads its third word.                                     *)
CdTarget == Words(Words(SSHCommand)[3])[2]
-----------------------------------------------------------------------------
(* splitHostPort: the destination and the port handed to ssh. *)

Colons(text) == {i \in DOMAIN text : text[i] = ":"}
IsPort(text) == text # <<>> /\ \A i \in DOMAIN text : text[i] \in {"0", "1", "2"}

SplitAtLastColon(host) ==    \* altered: bare IPv6 addresses not told apart
  LET cuts == {i \in Colons(host) : i > 1 /\ i < Len(host) /\ IsPort(SubSeq(host, i + 1, Len(host)))}
  IN  IF cuts = {} THEN [target |-> host, port |-> <<>>]
      ELSE LET i == CHOOSE i \in cuts : \A j \in cuts : j <= i
           IN  [target |-> SubSeq(host, 1, i - 1), port |-> SubSeq(host, i + 1, Len(host))]

SplitHostPort(host) ==
  LET ats  == {i \in DOMAIN host : host[i] = "@"}
      at   == IF ats = {} THEN 0 ELSE CHOOSE i \in ats : \A j \in ats : j <= i
      name == SubSeq(host, at + 1, Len(host))
      PortAt(i) == i > 1 /\ i < Len(name) /\ name[i] = ":" /\ IsPort(SubSeq(name, i + 1, Len(name)))
      cuts == {i \in DOMAIN name :
                 /\ PortAt(i)
                 /\ IF name[1] = "[" THEN SelectInSeq(name, LAMBDA c : c = "]") = i - 1
                                     ELSE Colons(name) = {i}}
  IN  IF cuts = {} THEN [target |-> host, port |-> <<>>]
      ELSE LET i == CHOOSE i \in cuts : TRUE
           IN  [target |-> SubSeq(host, 1, at + i - 1), port |-> SubSeq(name, i + 1, Len(name))]

Named(h) == (IF h.user = <<>> THEN <<>> ELSE Append(h.user, "@")) \o h.name
Written(h) == Named(h) \o (IF h.port = <<>> THEN <<>> ELSE <<":">> \o h.port)
-----------------------------------------------------------------------------
Init ==
  /\ req \in [host : Hosts \cup {Local}, dir : Dirs, there : BOOLEAN, lines : 1 .. 2]
  /\ caller = "calling" /\ expired = FALSE /\ shell = "none"
  /\ script = [next |-> 0, status |-> 0]
  /\ ran = <<>> /\ holders = 0
  /\ result = [kind |-> "none", status |-> 0]

Return(r) == caller' = "returned" /\ result' = r

(* cmd.Start: it fails when the context is over or the directory missing. *)
Start ==
  /\ caller = "calling"
  /\ \/ /\ ~expired /\ (Remote \/ req.there)
        /\ caller' = "waiting" /\ shell' = "running"
        /\ script' = [script EXCEPT !.next = IF Remote THEN 0 ELSE 1]
        /\ UNCHANGED result
     \/ /\ expired /\ Return([kind |-> "timeout", status |-> 0])
        /\ UNCHANGED <<shell, script>>
     \/ /\ ~expired /\ ~Remote /\ ~req.there
        /\ Return([kind |-> "error", status |-> 0])
        /\ UNCHANGED <<shell, script>>
  /\ UNCHANGED <<req, expired, ran, holders>>

Alive == shell # "none" /\ script.next \in 0 .. req.lines /\ (Remote \/ shell = "running")

(* `cd dir && first line`: without the directory the first line is         *)
(* skipped, and the next one runs where the login shell starts.            *)
ChangeDir ==
  /\ Alive /\ script.next = 0
  /\ script' = IF req.there THEN [script EXCEPT !.next = 1] ELSE [next |-> 2, status |-> 1]
  /\ UNCHANGED <<req, caller, expired, shell, ran, holders, result>>

RunLine ==
  /\ Alive /\ script.next > 0
  /\ \E status \in {0, 1}, left \in {0, 1} :
       /\ script' = [next |-> script.next + 1, status |-> status]
       /\ holders' = holders + left
  /\ ran' = Append(ran, CASE ~Remote -> req.dir
                          [] Remote /\ req.there -> CdTarget
                          [] OTHER -> Home)
  /\ UNCHANGED <<req, caller, expired, shell, result>>

HolderEnds ==
  /\ holders > 0 /\ holders' = holders - 1
  /\ UNCHANGED <<req, caller, expired, shell, script, ran, result>>

(* The shell exits after its last line; ssh after that and once nothing    *)
(* holds the remote output, or with status 255 when the connection breaks. *)
ScriptOver == script.next > req.lines
ShellExits ==
  /\ shell = "running" /\ ScriptOver /\ (Remote => holders = 0)
  /\ shell' = "exited"
  /\ UNCHANGED <<req, caller, expired, script, ran, holders, result>>

ConnectionLost ==
  /\ shell = "running" /\ Remote /\ shell' = "disconnected"
  /\ UNCHANGED <<req, caller, expired, script, ran, holders, result>>

Deadline ==
  /\ caller # "returned" /\ ~expired /\ expired' = TRUE
  /\ UNCHANGED <<req, caller, shell, script, ran, holders, result>>

KillNothing == FALSE /\ UNCHANGED vars    \* altered: exec.Command without a context

(* CommandContext kills the one process it started.  A line that the local *)
(* shell had in progress goes on by itself and still holds the pipe.       *)
Kill ==
  /\ expired /\ shell = "running" /\ shell' = "killed"
  /\ holders' \in IF Remote \/ ScriptOver THEN {holders} ELSE {holders, holders + 1}
  /\ UNCHANGED <<req, caller, expired, script, ran, result>>

OverAtExit == shell \in {"exited", "killed", "disconnected"}   \* altered: does not wait for the pipe

(* CombinedOutput: the process is gone and nothing holds the pipe. *)
OutputOver == shell \in {"exited", "killed", "disconnected"} /\ (Remote \/ holders = 0)

ExitStatus == CASE shell = "exited" -> script.status
                [] shell = "disconnected" -> 255
                [] shell = "killed" -> -1

OutcomeExitFirst == [kind |-> "status", status |-> ExitStatus]   \* altered: ctx.Err() looked at last

Outcome == IF expired THEN [kind |-> "timeout", status |-> 0]
                      ELSE [kind |-> "status", status |-> ExitStatus]

Finish ==
  /\ caller = "waiting" /\ OutputOver /\ Return(Outcome)
  /\ UNCHANGED <<req, expired, shell, script, ran, holders>>

Next == \/ Start \/ ChangeDir \/ RunLine \/ HolderEnds \/ ShellExits
        \/ ConnectionLost \/ Deadline \/ Kill \/ Finish

(* Processes left behind end one day; lines of the script need not. *)
Spec == Init /\ [][Next]_vars
        /\ WF_vars(Start) /\ WF_vars(HolderEnds) /\ WF_vars(Kill) /\ WF_vars(Finish)
-----------------------------------------------------------------------------
(* Only a shell that exited by itself yields a status, and status 0 means  *)
(* that the script came to its end; a timeout is reported only after the   *)
(* deadline, an error only when nothing ran (RunCommand's order of tests). *)
ResultIsHonest ==
  caller = "returned" =>
    /\ result.kind = "timeout" => expired
    /\ result.kind = "error" => ran = <<>>
    /\ result.kind = "status" => shell # "killed"
    /\ result.kind = "status" /\ result.status = 0 =>
         /\ ScriptOver /\ script.status = 0
         /\ Len(ran) = req.lines \/ (Remote /\ ~req.there)

(* Every line runs in the directory of the request, whatever characters    *)
(* its name has, through two shells on a worker host (buildSSHArgs).  The  *)
(* exception is what the code does: on a host without the directory `cd`   *)
(* keeps back the first line only.                                         *)
RunsInItsDirectory ==
  \A i \in DOMAIN ran : ran[i] = req.dir \/ (Remote /\ ~req.there /\ ran[i] = Home)

(* After RunCommand nothing that writes to its pipe goes on in the local   *)
(* workspace: the caller may remove it (CombinedOutput waits for the pipe, *)
(* not only for the shell).                                                *)
QuietAfterReturn == caller = "returned" /\ ~Remote => shell # "running" /\ holders = 0

(* ssh is asked for the host and the port that the setting names: user     *)
(* prefixes stay, colons of IPv6 addresses are no ports (splitHostPort).   *)
ReachesItsHost ==
  Remote => SplitHostPort(Written(req.host)) = [target |-> Named(req.host), port |-> req.host.port]

(* A command that hangs returns after its deadline, provided the processes *)
(* it left behind end (the fairness of HolderEnds): the manager's callers  *)
(* wait without another timeout.                                           *)
TimedOutReturns == expired ~> caller = "returned"
=============================================================================
