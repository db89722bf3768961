------------------------ MODULE ExecutionHostProofs ------------------------
(***************************************************************************)
(* What RunCommand returns is true and what it leaves is quiet, for every  *)
(* set of directories and hosts.  The invariant follows the script below   *)
(* the shell: how far it came, what may still run it, and what the result  *)
(* was taken from.                                                         *)
(***************************************************************************)
EXTENDS ExecutionHost, LoopTheorems, SequenceTheorems, TLAPS

(* Where a line may run.                                                   *)
Places == {req.dir, CdTarget, Home}

HostType ==
  /\ req \in [host : Hosts \cup {Local}, dir : Dirs, there : BOOLEAN, lines : 1 .. 2]
  /\ caller \in {"calling", "waiting", "returned"}
  /\ expired \in BOOLEAN
  /\ shell \in {"none", "running", "exited", "disconnected", "killed"}
  /\ script \in [next : Nat, status : {0, 1}]
  /\ ran \in Seq(Places)
  /\ holders \in Nat
  /\ result \in [kind : {"none", "timeout", "error", "status"}, status : {-1, 0, 1, 255}]

(* The script has run the lines before its next one, except on a host      *)
(* without the directory, where `cd` keeps back the first.                 *)
Progress ==
  /\ shell = "none" => script.next = 0 /\ holders = 0
  /\ ~Remote /\ shell # "none" => script.next > 0
  /\ script.next = 0 => ran = <<>>
  /\ script.next > 0 => Len(ran) = script.next - 1 \/ (Remote /\ ~req.there)
  /\ script.next <= req.lines + 1

(* A local shell that exits has come to the end of its script, only ssh is *)
(* disconnected, and a shell is killed at the deadline only.               *)
ShellInv ==
  /\ shell = "exited" => ScriptOver
  /\ shell = "disconnected" => Remote
  /\ shell = "killed" => expired

(* What the caller returned with, and what was over by then.               *)
CallerInv ==
  /\ caller = "calling" => shell = "none"
  /\ caller = "waiting" => shell # "none"
  /\ caller = "returned" =>
       /\ shell # "running"
       /\ result.kind \in {"timeout", "error", "status"}
       /\ result.kind = "timeout" => expired
       /\ result.kind = "error" => shell = "none"
       /\ result.kind = "status" => ~expired /\ shell \in {"exited", "disconnected"}
       /\ result.kind = "status" /\ shell = "exited" => result.status = script.status
       /\ result.kind = "status" /\ shell = "disconnected" => result.status = 255
       /\ Remote \/ holders = 0

HostInv == HostType /\ Progress /\ ShellInv /\ CallerInv

(* The request is never written, and with it what it says of hosts stays.  *)
LEMMA RequestStays ==
  ASSUME req' = req
  PROVE  Remote' = Remote /\ CdTarget' = CdTarget
BY DEF Remote, CdTarget, SSHCommand, RemoteScript

LEMMA InitHostInv ==
  ASSUME Init
  PROVE  HostInv
<1>1. HostType
  <2>1. /\ req \in [host : Hosts \cup {Local}, dir : Dirs, there : BOOLEAN, lines : 1 .. 2]
        /\ script \in [next : Nat, status : {0, 1}]
        /\ result \in [kind : {"none", "timeout", "error", "status"}, status : {-1, 0, 1, 255}]
    BY DEF Init
  <2>2. ran \in Seq(Places) /\ holders \in Nat
    BY DEF Init
  <2> QED BY <2>1, <2>2 DEF Init, HostType
<1>2. Progress /\ ShellInv /\ CallerInv
  BY DEF Init, Progress, ShellInv, CallerInv
<1> QED BY <1>1, <1>2 DEF HostInv

(* What the exit status is made of.                                        *)
LEMMA OutcomeType ==
  ASSUME HostType, OutputOver
  PROVE  Outcome \in [kind : {"timeout", "status"}, status : {-1, 0, 1, 255}]
<1>1. script.status \in {0, 1}
  BY DEF HostType
<1>2. ExitStatus \in {-1, 0, 1, 255}
  BY <1>1 DEF ExitStatus, OutputOver
<1> QED BY <1>2 DEF Outcome

(* Every step keeps the types.                                             *)
LEMMA NextHostType ==
  ASSUME HostInv, Next
  PROVE  HostType'
<1> USE DEF HostInv
<1>0. req' = req
  BY DEF Next, Start, ChangeDir, RunLine, HolderEnds, ShellExits, ConnectionLost, Deadline, Kill, Finish
<1>1. Places' = Places
  BY <1>0, RequestStays DEF Places, Home
<1>2. CASE Start
  BY <1>0, <1>1, <1>2 DEF Start, Return, HostType
<1>3. CASE ChangeDir
  BY <1>0, <1>1, <1>3 DEF ChangeDir, HostType
<1>4. CASE RunLine
  <2>1. PICK status \in {0, 1}, left \in {0, 1} :
          /\ script' = [next |-> script.next + 1, status |-> status]
          /\ holders' = holders + left
    BY <1>4 DEF RunLine
  <2>2. \E d \in Places : ran' = Append(ran, d)
    BY <1>4 DEF RunLine, Places
  <2>3. ran' \in Seq(Places)
    BY <2>2 DEF HostType
  <2>4. script' \in [next : Nat, status : {0, 1}] /\ holders' \in Nat
    BY <2>1 DEF HostType
  <2> QED BY <1>0, <1>1, <1>4, <2>3, <2>4 DEF RunLine, HostType
<1>5. CASE HolderEnds
  BY <1>0, <1>1, <1>5 DEF HolderEnds, HostType
<1>6. CASE ShellExits \/ ConnectionLost \/ Deadline
  <2>1. CASE ShellExits
    BY <1>0, <1>1, <2>1 DEF ShellExits, HostType
  <2>2. CASE ConnectionLost
    BY <1>0, <1>1, <2>2 DEF ConnectionLost, HostType
  <2>3. CASE Deadline
    BY <1>0, <1>1, <2>3 DEF Deadline, HostType
  <2> QED BY <1>6, <2>1, <2>2, <2>3
<1>7. CASE Kill
  <2>1. holders' \in Nat
    BY <1>7 DEF Kill, HostType
  <2> QED BY <1>0, <1>1, <1>7, <2>1 DEF Kill, HostType
<1>8. CASE Finish
  <2>1. result' \in [kind : {"timeout", "status"}, status : {-1, 0, 1, 255}]
    BY <1>8, OutcomeType DEF Finish, Return
  <2> QED BY <1>0, <1>1, <1>8, <2>1 DEF Finish, Return, HostType
<1> QED BY <1>2, <1>3, <1>4, <1>5, <1>6, <1>7, <1>8 DEF Next

(* Every step keeps the invariant.                                         *)
LEMMA NextHostInv ==
  ASSUME HostInv, Next
  PROVE  HostInv'
<1>0. req' = req
  BY DEF Next, Start, ChangeDir, RunLine, HolderEnds, ShellExits, ConnectionLost, Deadline, Kill, Finish
<1>1. Remote' = Remote
  BY <1>0, RequestStays
<1>2. HostType /\ HostType' /\ Progress /\ ShellInv /\ CallerInv
  BY NextHostType DEF HostInv
<1>3. req.lines \in 1 .. 2 /\ script.next \in Nat /\ holders \in Nat /\ ran \in Seq(Places)
  BY <1>2 DEF HostType
<1> SUFFICES Progress' /\ ShellInv' /\ CallerInv'
  BY <1>2 DEF HostInv
<1>4. CASE Start
  <2>1. shell = "none" /\ script.next = 0 /\ holders = 0 /\ ran = <<>> /\ Len(ran) = 0
    BY <1>2, <1>4 DEF Start, CallerInv, Progress
  <2>2. Progress'
    BY <1>0, <1>1, <1>2, <1>3, <1>4, <2>1 DEF Start, Return, Progress, HostType
  <2>3. ShellInv' /\ CallerInv'
    BY <1>0, <1>1, <1>2, <1>4, <2>1 DEF Start, Return, ShellInv, CallerInv
  <2> QED BY <2>2, <2>3
<1>5. CASE ChangeDir
  <2>1. script.next = 0 /\ Remote /\ ran = <<>> /\ Len(ran) = 0 /\ shell # "none" /\ ~ScriptOver
    BY <1>2, <1>3, <1>5 DEF ChangeDir, Alive, Progress, ScriptOver
  <2>2. Progress'
    BY <1>0, <1>1, <1>2, <1>3, <1>5, <2>1 DEF ChangeDir, Progress, HostType
  <2>3. ShellInv' /\ CallerInv'
    BY <1>0, <1>1, <1>2, <1>5, <2>1 DEF ChangeDir, ShellInv, CallerInv
  <2> QED BY <2>2, <2>3
<1>6. CASE RunLine
  <2>1. /\ script.next > 0 /\ shell # "none" /\ ~ScriptOver /\ script.next <= req.lines
        /\ Remote \/ shell = "running"
    BY <1>3, <1>6 DEF RunLine, Alive, ScriptOver
  <2>2. script'.next = script.next + 1
    BY <1>6 DEF RunLine
  <2>3. Len(ran') = Len(ran) + 1 /\ Len(ran) \in Nat
    <3>1. \E d \in Places : ran' = Append(ran, d)
      BY <1>6 DEF RunLine, Places
    <3> QED BY <1>3, <3>1
  <2>4. Progress'
    BY <1>0, <1>1, <1>2, <1>3, <1>6, <2>1, <2>2, <2>3 DEF RunLine, Progress
  <2>5. shell # "exited" /\ (caller = "returned" => Remote)
    BY <1>2, <2>1 DEF ShellInv, CallerInv
  <2>6. ShellInv' /\ CallerInv'
    BY <1>0, <1>1, <1>2, <1>6, <2>5 DEF RunLine, ShellInv, CallerInv
  <2> QED BY <2>4, <2>6
<1>7. CASE HolderEnds
  <2>1. shell # "none" /\ holders > 0 /\ (caller = "returned" => Remote)
    BY <1>2, <1>7 DEF HolderEnds, Progress, CallerInv
  <2>2. Progress'
    BY <1>0, <1>1, <1>2, <1>7, <2>1 DEF HolderEnds, Progress
  <2>3. ShellInv' /\ CallerInv'
    BY <1>0, <1>1, <1>2, <1>7, <2>1 DEF HolderEnds, ShellInv, CallerInv, ScriptOver
  <2> QED BY <2>2, <2>3
<1>8. CASE ShellExits \/ ConnectionLost \/ Deadline
  <2>1. Progress'
    BY <1>0, <1>1, <1>2, <1>8 DEF ShellExits, ConnectionLost, Deadline, Progress
  <2>2. ShellInv'
    BY <1>0, <1>1, <1>2, <1>8 DEF ShellExits, ConnectionLost, Deadline, ShellInv, ScriptOver
  <2>3. CallerInv'
    BY <1>0, <1>1, <1>2, <1>8 DEF ShellExits, ConnectionLost, Deadline, CallerInv
  <2> QED BY <2>1, <2>2, <2>3
<1>9. CASE Kill
  <2>1. Progress'
    BY <1>0, <1>1, <1>2, <1>9 DEF Kill, Progress
  <2>2. ShellInv' /\ CallerInv'
    BY <1>0, <1>1, <1>2, <1>9 DEF Kill, ShellInv, CallerInv
  <2> QED BY <2>1, <2>2
<1>10. CASE Finish
  <2>1. Progress' /\ ShellInv'
    BY <1>0, <1>1, <1>2, <1>10 DEF Finish, Progress, ShellInv, ScriptOver
  <2>2. shell # "running" /\ (Remote \/ holders = 0)
    BY <1>10 DEF Finish, OutputOver
  <2>3. CASE expired
    <3>1. result' = [kind |-> "timeout", status |-> 0]
      BY <1>10, <2>3 DEF Finish, Return, Outcome
    <3> QED BY <1>1, <1>10, <2>1, <2>2, <2>3, <3>1 DEF Finish, Return, CallerInv
  <2>4. CASE ~expired
    <3>1. shell \in {"exited", "disconnected"}
      BY <1>2, <1>10, <2>4 DEF Finish, OutputOver, ShellInv
    <3>2. result' = [kind |-> "status",
                     status |-> IF shell = "exited" THEN script.status ELSE 255]
      BY <1>10, <2>4, <3>1 DEF Finish, Return, Outcome, ExitStatus
    <3> QED BY <1>1, <1>10, <2>1, <2>2, <2>4, <3>1, <3>2 DEF Finish, Return, CallerInv
  <2> QED BY <1>2, <2>3, <2>4 DEF HostType
<1> QED
  <2>1. Next
    OBVIOUS
  <2> QED BY <1>4, <1>5, <1>6, <1>7, <1>8, <1>9, <1>10, <2>1 DEF Next

LEMMA HostInvHolds == Spec => []HostInv
<1>1. Init => HostInv
  BY InitHostInv
<1>2. HostInv /\ [Next]_vars => HostInv'
  <2> SUFFICES ASSUME HostInv, [Next]_vars PROVE HostInv'
    OBVIOUS
  <2>1. CASE Next
    BY <2>1, NextHostInv
  <2>2. CASE UNCHANGED vars
    <3>1. req' = req /\ Remote' = Remote /\ Places' = Places
      BY <2>2, RequestStays DEF vars, Places, Home
    <3> QED
      BY <2>2, <3>1 DEF vars, HostInv, HostType, Progress, ShellInv, CallerInv, ScriptOver
  <2> QED BY <2>1, <2>2
<1> QED BY <1>1, <1>2, PTL DEF Spec

(* Only a shell that exited by itself yields a status, status 0 means that *)
(* the script came to its end, a timeout is reported only after the        *)
(* deadline and an error only when nothing ran: the order in which         *)
(* RunCommand looks at the context and at the exit of its shell.           *)
THEOREM ResultsAreHonest == Spec => []ResultIsHonest
<1>1. HostInv => ResultIsHonest
  <2> SUFFICES ASSUME HostInv, caller = "returned" PROVE ResultIsHonest
    BY DEF ResultIsHonest
  <2>1. HostType /\ Progress /\ ShellInv /\ CallerInv
    BY DEF HostInv
  <2>2. /\ result.kind = "timeout" => expired
        /\ result.kind = "error" => ran = <<>>
        /\ result.kind = "status" => shell # "killed"
    BY <2>1 DEF CallerInv, Progress
  <2>3. ASSUME result.kind = "status", result.status = 0
        PROVE  /\ ScriptOver /\ script.status = 0
               /\ Len(ran) = req.lines \/ (Remote /\ ~req.there)
    <3>1. shell = "exited" /\ script.status = 0
      BY <2>1, <2>3 DEF CallerInv
    <3>2. ScriptOver
      BY <2>1, <3>1 DEF ShellInv
    <3>3. req.lines \in 1 .. 2 /\ script.next \in Nat
      BY <2>1 DEF HostType
    <3>4. script.next = req.lines + 1 /\ script.next > 0
      BY <2>1, <3>2, <3>3 DEF Progress, ScriptOver
    <3> QED BY <2>1, <3>1, <3>2, <3>3, <3>4 DEF Progress
  <2> QED BY <2>2, <2>3 DEF ResultIsHonest
<1> QED BY <1>1, HostInvHolds, PTL

(* When RunCommand has returned, no process writes to its pipe any more in *)
(* a local workspace: CombinedOutput waits for the pipe and not only for   *)
(* the shell, so that the caller may remove the directory.                 *)
THEOREM ReturnLeavesQuiet == Spec => []QuietAfterReturn
<1>1. HostInv => QuietAfterReturn
  BY DEF HostInv, CallerInv, QuietAfterReturn
<1> QED BY <1>1, HostInvHolds, PTL
-----------------------------------------------------------------------------
(* The characters of a text; those that the code adds are named because    *)
(* the provers take no literal for a STRING.                               *)
Char == STRING \cup Safe \cup {":", "@", "'", "\\", " ", "&"}

(* The hosts that a setting may name: nothing of the name reads as a user, *)
(* brackets close at its end, and only a name without colons, or one in    *)
(* brackets, takes a port.                                                 *)
WellWritten(h) ==
  /\ h.user \in Seq(Char) /\ h.name \in Seq(Char) /\ h.port \in Seq(Char)
  /\ h.name # <<>> /\ \A i \in DOMAIN h.name : h.name[i] # "@"
  /\ h.name[1] = "[" => /\ h.name[Len(h.name)] = "]"
                        /\ \A i \in 1 .. Len(h.name) - 1 : h.name[i] # "]"
  /\ h.name[1] # "[" => /\ Colons(h.name) # {} => h.port = <<>>
                        /\ \A i \in DOMAIN h.name : Colons(h.name) # {i}
  /\ h.port = <<>> \/ IsPort(h.port)

UserText(h) == IF h.user = <<>> THEN <<>> ELSE Append(h.user, "@")
PortText(h) == IF h.port = <<>> THEN <<>> ELSE <<":">> \o h.port

(* What a text joined of two is made of.                                   *)
LEMMA Joined ==
  ASSUME NEW S, NEW s \in Seq(S), NEW t \in Seq(S)
  PROVE  /\ s \o t \in Seq(S) /\ Len(s) \in Nat /\ Len(t) \in Nat
         /\ DOMAIN (s \o t) = 1 .. Len(s) + Len(t)
         /\ Len(s \o t) = Len(s) + Len(t)
         /\ \A i \in 1 .. Len(s) : (s \o t)[i] = s[i]
         /\ \A i \in 1 .. Len(t) : (s \o t)[Len(s) + i] = t[i]
OBVIOUS

LEMMA JoinedInTwoWays == \A s, t, u \in Seq(Char) : (s \o t) \o u = s \o (t \o u)
BY ConcatAssociative

LEMMA FrontOfJoined ==
  ASSUME NEW S, NEW s \in Seq(S), NEW t \in Seq(S)
  PROVE  SubSeq(s \o t, 1, Len(s)) = s
<1> DEFINE u == SubSeq(s \o t, 1, Len(s))
<1>1. u \in Seq(S) /\ Len(u) = Len(s)
  OBVIOUS
<1>2. \A i \in 1 .. Len(u) : u[i] = s[i]
  OBVIOUS
<1> QED BY <1>1, <1>2, SeqEqual

LEMMA BackOfJoined ==
  ASSUME NEW S, NEW s \in Seq(S), NEW t \in Seq(S)
  PROVE  SubSeq(s \o t, Len(s) + 1, Len(s \o t)) = t
<1> DEFINE u == SubSeq(s \o t, Len(s) + 1, Len(s \o t))
<1>1. u \in Seq(S) /\ Len(u) = Len(t)
  OBVIOUS
<1>2. \A i \in 1 .. Len(u) : u[i] = t[i]
  OBVIOUS
<1> QED BY <1>1, <1>2, SeqEqual

(* The parts of SplitHostPort: where the user ends, where a port begins,   *)
(* and what is read there.                                                 *)
UserEnd(host) ==
  LET ats == {i \in DOMAIN host : host[i] = "@"}
  IN  IF ats = {} THEN 0 ELSE CHOOSE i \in ats : \A j \in ats : j <= i

PortFrom(name, i) ==
  i > 1 /\ i < Len(name) /\ name[i] = ":" /\ IsPort(SubSeq(name, i + 1, Len(name)))

CutAt(name, i) ==
  /\ PortFrom(name, i)
  /\ IF name[1] = "[" THEN SelectInSeq(name, LAMBDA c : c = "]") = i - 1
                      ELSE Colons(name) = {i}

Cuts(name) == {i \in DOMAIN name : CutAt(name, i)}

SplitAfter(host, at, name) ==
  IF Cuts(name) = {} THEN [target |-> host, port |-> <<>>]
  ELSE LET i == CHOOSE i \in Cuts(name) : TRUE
       IN  [target |-> SubSeq(host, 1, at + i - 1), port |-> SubSeq(name, i + 1, Len(name))]

LEMMA SplitInParts ==
  ASSUME NEW host
  PROVE  SplitHostPort(host) =
           SplitAfter(host, UserEnd(host), SubSeq(host, UserEnd(host) + 1, Len(host)))
BY DEF SplitHostPort, SplitAfter, UserEnd, Cuts, CutAt, PortFrom

(* The last @ of a text is where nothing but other characters follow it.   *)
LEMMA UserEndIs ==
  ASSUME NEW w \in Seq(Char), NEW n \in 0 .. Len(w), n = 0 \/ w[n] = "@",
         \A i \in n + 1 .. Len(w) : w[i] # "@"
  PROVE  UserEnd(w) = n
<1> DEFINE ats == {i \in DOMAIN w : w[i] = "@"}
<1>1. DOMAIN w = 1 .. Len(w) /\ Len(w) \in Nat
  BY LenProperties
<1>2. \A i \in ats : i \in 1 .. n
  BY <1>1
<1>3. CASE n = 0
  BY <1>2, <1>3 DEF UserEnd
<1>4. CASE n # 0
  <2>1. n \in ats /\ \A j \in ats : j <= n
    BY <1>1, <1>2, <1>4
  <2>2. \A i \in ats : (\A j \in ats : j <= i) => i = n
    BY <1>2, <2>1
  <2>3. UserEnd(w) = CHOOSE i \in ats : \A j \in ats : j <= i
    BY <2>1 DEF UserEnd
  <2> QED BY <2>1, <2>2, <2>3
<1> QED BY <1>3, <1>4

(* The closing bracket is found where it stands first.                     *)
LEMMA BracketIs ==
  ASSUME NEW w \in Seq(Char), NEW n \in 1 .. Len(w), w[n] = "]",
         \A i \in 1 .. n - 1 : w[i] # "]"
  PROVE  SelectInSeq(w, LAMBDA c : c = "]") = n
<1> DEFINE I == {i \in 1 .. Len(w) : w[i] = "]"}
<1>1. Len(w) \in Nat
  BY LenProperties
<1>2. n \in I /\ \A i \in I : n <= i
  BY <1>1
<1>3. \A i \in I : (\A j \in I : i <= j) => i = n
  BY <1>1, <1>2
<1>4. Min(I) = n
  BY <1>2, <1>3 DEF Min
<1> QED BY <1>2, <1>4 DEF SelectInSeq

(* Without a port there is nothing behind the name that could be one.      *)
LEMMA NoCuts ==
  ASSUME NEW h, WellWritten(h), h.port = <<>>
  PROVE  Cuts(h.name) = {}
<1>1. /\ h.name \in Seq(Char) /\ DOMAIN h.name = 1 .. Len(h.name) /\ Len(h.name) \in Nat
      /\ Len(h.name) # 0
  BY EmptySeq, LenProperties DEF WellWritten
<1>2. CASE h.name[1] = "["
  <2>1. SelectInSeq(h.name, LAMBDA c : c = "]") = Len(h.name)
    <3>1. Len(h.name) \in 1 .. Len(h.name)
      BY <1>1
    <3> QED BY <1>1, <1>2, <3>1, BracketIs DEF WellWritten
  <2>2. \A i \in DOMAIN h.name : Len(h.name) # i - 1
    BY <1>1
  <2> QED BY <1>2, <2>1, <2>2 DEF Cuts, CutAt
<1>3. CASE h.name[1] # "["
  BY <1>3 DEF WellWritten, Cuts, CutAt
<1> QED BY <1>2, <1>3

(* A name, a colon and a port, seen as one text.                           *)
NamePort(rest, name, port) ==
  /\ rest \in Seq(Char) /\ DOMAIN rest = 1 .. Len(rest)
  /\ Len(name) \in Nat \ {0} /\ Len(port) \in Nat \ {0}
  /\ Len(rest) = Len(name) + 1 + Len(port)
  /\ DOMAIN name = 1 .. Len(name) /\ DOMAIN port = 1 .. Len(port)
  /\ \A i \in 1 .. Len(name) : rest[i] = name[i]
  /\ rest[Len(name) + 1] = ":"
  /\ \A i \in 1 .. Len(port) : rest[Len(name) + 1 + i] = port[i]
  /\ SubSeq(rest, Len(name) + 2, Len(rest)) = port

LEMMA NamePortIs ==
  ASSUME NEW name \in Seq(Char), NEW port \in Seq(Char), name # <<>>, port # <<>>
  PROVE  NamePort(name \o (<<":">> \o port), name, port)
<1> DEFINE head == name \o <<":">>
           rest == head \o port
<1>1. /\ Len(name) \in Nat \ {0} /\ Len(port) \in Nat \ {0}
      /\ DOMAIN name = 1 .. Len(name) /\ DOMAIN port = 1 .. Len(port)
  OBVIOUS
<1>2. <<":">> \in Seq(Char)
  <2>1. ":" \in Char
    BY DEF Char
  <2> QED BY <2>1
<1>3. /\ head \in Seq(Char) /\ Len(head) = Len(name) + 1 /\ head[Len(name) + 1] = ":"
      /\ \A i \in 1 .. Len(name) : head[i] = name[i]
  BY <1>2
<1>4. name \o (<<":">> \o port) = rest
  BY <1>2, JoinedInTwoWays
<1> HIDE DEF head
<1>5. /\ rest \in Seq(Char) /\ DOMAIN rest = 1 .. Len(rest) /\ Len(rest) = Len(head) + Len(port)
      /\ \A i \in 1 .. Len(head) : rest[i] = head[i]
      /\ \A i \in 1 .. Len(port) : rest[Len(head) + i] = port[i]
      /\ SubSeq(rest, Len(head) + 1, Len(rest)) = port
  <2>1. /\ rest \in Seq(Char) /\ Len(rest) = Len(head) + Len(port)
        /\ DOMAIN rest = 1 .. Len(head) + Len(port)
        /\ \A i \in 1 .. Len(head) : rest[i] = head[i]
        /\ \A i \in 1 .. Len(port) : rest[Len(head) + i] = port[i]
    <3>1. head \in Seq(Char) /\ port \in Seq(Char)
      BY <1>3
    <3>2. \A s, t \in Seq(Char) :
            /\ s \o t \in Seq(Char) /\ Len(s \o t) = Len(s) + Len(t)
            /\ DOMAIN (s \o t) = 1 .. Len(s) + Len(t)
            /\ \A i \in 1 .. Len(s) : (s \o t)[i] = s[i]
            /\ \A i \in 1 .. Len(t) : (s \o t)[Len(s) + i] = t[i]
      BY Joined
    <3> QED BY <3>1, <3>2, Zenon
  <2>2. SubSeq(rest, Len(head) + 1, Len(rest)) = port
    BY <1>3, BackOfJoined
  <2> HIDE DEF rest
  <2> QED BY <2>1, <2>2
<1> HIDE DEF rest
<1>6. Len(rest) = Len(name) + 1 + Len(port) /\ Len(head) + 1 = Len(name) + 2
  BY <1>1, <1>3, <1>5
<1>7. \A i \in 1 .. Len(name) : i \in 1 .. Len(head)
  BY <1>1, <1>3
<1>8. Len(name) + 1 \in 1 .. Len(head)
  BY <1>1, <1>3
<1>9. \A i \in 1 .. Len(name) : rest[i] = name[i]
  BY <1>3, <1>5, <1>7
<1>10. rest[Len(name) + 1] = ":"
  BY <1>3, <1>5, <1>8
<1>11. SubSeq(rest, Len(name) + 2, Len(rest)) = port
  BY <1>5, <1>6
<1>12. \A i \in 1 .. Len(port) : rest[Len(name) + 1 + i] = port[i]
  BY <1>3, <1>5
<1> QED BY <1>1, <1>4, <1>5, <1>6, <1>9, <1>10, <1>11, <1>12 DEF NamePort

(* The port behind the name is the one cut, and nothing of the name is.    *)
LEMMA PortCut ==
  ASSUME NEW h, WellWritten(h), h.port # <<>>, NEW rest, NamePort(rest, h.name, h.port)
  PROVE  Cuts(rest) = {Len(h.name) + 1}
<1> DEFINE n == Len(h.name)
           p == Len(h.port)
<1>1. /\ n \in Nat \ {0} /\ p \in Nat \ {0} /\ Len(rest) = n + 1 + p
      /\ DOMAIN rest = 1 .. n + 1 + p
  BY DEF NamePort
<1>2. DOMAIN h.name = 1 .. n /\ DOMAIN h.port = 1 .. p
  BY DEF NamePort
<1>3. \A i \in 1 .. n : rest[i] = h.name[i]
  BY DEF NamePort
<1>4. \A i \in 1 .. p : rest[n + 1 + i] = h.port[i]
  BY DEF NamePort
<1>5. rest[n + 1] = ":" /\ SubSeq(rest, n + 2, Len(rest)) = h.port
  BY DEF NamePort
<1>6. rest \in Seq(Char)
  BY DEF NamePort
<1> HIDE DEF n, p
<1>7. PortFrom(rest, n + 1)
  <2>1. n + 1 > 1 /\ n + 1 < Len(rest) /\ n + 1 + 1 = n + 2
    BY <1>1
  <2>2. IsPort(h.port)
    BY DEF WellWritten
  <2> QED BY <1>5, <2>1, <2>2 DEF PortFrom
<1>8. n + 1 \in DOMAIN rest /\ n \in 1 .. n /\ 1 \in 1 .. n
  BY <1>1
<1>9. rest[1] = h.name[1]
  BY <1>3, <1>8
<1>10. CASE h.name[1] = "["
  <2>1. SelectInSeq(rest, LAMBDA c : c = "]") = n
    <3>1. h.name[n] = "]" /\ \A i \in 1 .. n - 1 : h.name[i] # "]"
      BY <1>10 DEF WellWritten, n
    <3>2. n \in 1 .. Len(rest) /\ \A i \in 1 .. n - 1 : i \in 1 .. n
      BY <1>1
    <3>3. rest[n] = "]" /\ \A i \in 1 .. n - 1 : rest[i] # "]"
      BY <1>3, <1>8, <3>1, <3>2
    <3> QED BY <1>6, <3>2, <3>3, BracketIs
  <2>2. \A i \in DOMAIN rest : n = i - 1 <=> i = n + 1
    BY <1>1
  <2>3. \A i \in DOMAIN rest : CutAt(rest, i) <=> PortFrom(rest, i) /\ i = n + 1
    BY <1>9, <1>10, <2>1, <2>2 DEF CutAt
  <2> QED BY <1>7, <1>8, <2>3 DEF Cuts, n
<1>11. CASE h.name[1] # "["
  <2>1. \A i \in 1 .. n : rest[i] # ":"
    <3>1. Colons(h.name) = {}
      BY <1>11 DEF WellWritten
    <3> QED BY <1>2, <1>3, <3>1 DEF Colons
  <2>2. ASSUME NEW i \in DOMAIN rest, i # n + 1 PROVE rest[i] # ":"
    <3>1. CASE i \in 1 .. n
      BY <2>1, <3>1
    <3>2. CASE i \notin 1 .. n
      <4>1. i - n - 1 \in 1 .. p /\ n + 1 + (i - n - 1) = i
        BY <1>1, <2>2, <3>2
      <4>2. h.port[i - n - 1] \in {"0", "1", "2"}
        BY <1>2, <4>1 DEF WellWritten, IsPort
      <4> QED BY <1>4, <4>1, <4>2
    <3> QED BY <3>1, <3>2
  <2>3. Colons(rest) = {n + 1}
    BY <1>5, <1>8, <2>2 DEF Colons
  <2>4. Cuts(rest) = {n + 1}
    BY <1>7, <1>8, <1>9, <1>11, <2>3 DEF Cuts, CutAt
  <2> QED BY <2>4 DEF n
<1> QED BY <1>10, <1>11

(* splitHostPort undoes what the setting spells.                           *)
LEMMA SplitOfWritten ==
  ASSUME NEW h, WellWritten(h)
  PROVE  SplitHostPort(Written(h)) = [target |-> Named(h), port |-> h.port]
<1> DEFINE user == UserText(h)
           rest == h.name \o PortText(h)
           host == Written(h)
<1>1. h.user \in Seq(Char) /\ h.name \in Seq(Char) /\ h.port \in Seq(Char) /\ "@" \in Char
      /\ <<":">> \in Seq(Char)
  <2>1. ":" \in Char /\ "@" \in Char
    BY DEF Char
  <2> QED BY <2>1 DEF WellWritten
<1>2. PortText(h) \in Seq(Char) /\ rest \in Seq(Char)
  BY <1>1, Joined DEF PortText
<1>3. user \in Seq(Char) /\ (Len(user) = 0 \/ user[Len(user)] = "@")
  <2>1. CASE h.user = <<>>
    BY <2>1 DEF UserText
  <2>2. CASE h.user # <<>>
    <3>1. user = Append(h.user, "@")
      BY <2>2 DEF UserText
    <3> QED BY <1>1, <3>1
  <2> QED BY <2>1, <2>2
<1>4. Named(h) = user \o h.name
  BY DEF Named, UserText
<1>5. host = Named(h) \o PortText(h)
  BY DEF Written, PortText
<1>6. host = user \o rest
  <2>1. (user \o h.name) \o PortText(h) = user \o (h.name \o PortText(h))
    <3>1. user \in Seq(Char) /\ h.name \in Seq(Char) /\ PortText(h) \in Seq(Char)
      BY <1>1, <1>2, <1>3
    <3> HIDE DEF user
    <3> QED BY <3>1, JoinedInTwoWays
  <2> QED BY <1>4, <1>5, <2>1
<1>7. ASSUME NEW i \in 1 .. Len(rest) PROVE rest[i] # "@"
  <2>1. /\ Len(h.name) \in Nat /\ Len(PortText(h)) \in Nat
        /\ Len(rest) = Len(h.name) + Len(PortText(h))
        /\ \A j \in 1 .. Len(h.name) : rest[j] = h.name[j]
        /\ \A j \in 1 .. Len(PortText(h)) : rest[Len(h.name) + j] = PortText(h)[j]
    BY <1>1, <1>2, Joined
  <2>2. CASE i \in 1 .. Len(h.name)
    <3>1. DOMAIN h.name = 1 .. Len(h.name)
      BY <1>1, LenProperties
    <3> QED BY <2>1, <2>2, <3>1 DEF WellWritten
  <2>3. CASE i \notin 1 .. Len(h.name)
    <3>1. i - Len(h.name) \in 1 .. Len(PortText(h)) /\ Len(h.name) + (i - Len(h.name)) = i
      BY <1>7, <2>1, <2>3
    <3>2. h.port # <<>>
      BY <3>1 DEF PortText
    <3>3. ASSUME NEW j \in 1 .. Len(PortText(h)) PROVE PortText(h)[j] # "@"
      <4>1. PortText(h) = <<":">> \o h.port /\ Len(<<":">>) = 1 /\ <<":">>[1] = ":"
        BY <3>2 DEF PortText
      <4>2. /\ Len(PortText(h)) = 1 + Len(h.port) /\ PortText(h)[1] = ":" /\ Len(h.port) \in Nat
            /\ \A k \in 1 .. Len(h.port) : PortText(h)[1 + k] = h.port[k]
        BY <1>1, <4>1, Joined
      <4>3. CASE j = 1
        BY <4>2, <4>3
      <4>4. CASE j # 1
        <5>1. j - 1 \in 1 .. Len(h.port) /\ 1 + (j - 1) = j
          BY <4>2, <4>4
        <5>2. DOMAIN h.port = 1 .. Len(h.port)
          BY <1>1, LenProperties
        <5>3. h.port[j - 1] \in {"0", "1", "2"}
          BY <3>2, <5>1, <5>2 DEF WellWritten, IsPort
        <5> QED BY <4>2, <5>1, <5>3
      <4> QED BY <4>3, <4>4
    <3> QED BY <2>1, <3>1, <3>3
  <2> QED BY <2>2, <2>3
<1> HIDE DEF user, rest, host
<1>8. UserEnd(host) = Len(user)
  <2>1. /\ host \in Seq(Char) /\ Len(user) \in Nat /\ Len(rest) \in Nat
        /\ Len(host) = Len(user) + Len(rest)
        /\ \A i \in 1 .. Len(user) : host[i] = user[i]
        /\ \A i \in 1 .. Len(rest) : host[Len(user) + i] = rest[i]
    BY <1>2, <1>3, <1>6, Joined
  <2>2. Len(user) \in 0 .. Len(host) /\ (Len(user) = 0 \/ Len(user) \in 1 .. Len(user))
    BY <2>1
  <2>3. Len(user) = 0 \/ host[Len(user)] = "@"
    BY <1>3, <2>1, <2>2
  <2>4. ASSUME NEW i \in Len(user) + 1 .. Len(host) PROVE host[i] # "@"
    <3>1. i - Len(user) \in 1 .. Len(rest) /\ Len(user) + (i - Len(user)) = i
      BY <2>1
    <3> QED BY <1>7, <2>1, <3>1
  <2> QED BY <2>1, <2>2, <2>3, <2>4, UserEndIs
<1>9. SubSeq(host, Len(user) + 1, Len(host)) = rest
  BY <1>2, <1>3, <1>6, BackOfJoined
<1>10. SplitHostPort(host) = SplitAfter(host, Len(user), rest)
  BY <1>8, <1>9, SplitInParts
<1>11. CASE h.port = <<>>
  <2>1. rest = h.name /\ host = Named(h)
    <3>1. Named(h) \in Seq(Char)
      BY <1>1, <1>3, <1>4, Joined
    <3> QED BY <1>1, <1>5, <1>11, <3>1, ConcatEmptySeq DEF rest, PortText
  <2>2. Cuts(rest) = {}
    BY <1>11, <2>1, NoCuts
  <2> QED BY <1>10, <1>11, <2>1, <2>2 DEF SplitAfter, host
<1>12. CASE h.port # <<>>
  <2>1. Cuts(rest) = {Len(h.name) + 1} /\ SubSeq(rest, Len(h.name) + 2, Len(rest)) = h.port
    <3>1. h.name # <<>>
      BY DEF WellWritten
    <3>2. NamePort(rest, h.name, h.port)
      BY <1>1, <1>12, <3>1, NamePortIs DEF rest, PortText
    <3>3. Cuts(rest) = {Len(h.name) + 1}
      BY <1>12, <3>2, PortCut
    <3> QED BY <3>2, <3>3 DEF NamePort
  <2>2. (CHOOSE i \in Cuts(rest) : TRUE) = Len(h.name) + 1
    BY <2>1
  <2>3. Len(h.name) \in Nat /\ Len(user) \in Nat
    BY <1>1, <1>3, LenProperties
  <2>4. /\ Len(user) + (Len(h.name) + 1) - 1 = Len(user) + Len(h.name)
        /\ Len(h.name) + 1 + 1 = Len(h.name) + 2
    BY <2>3
  <2>5. SplitAfter(host, Len(user), rest) =
          [target |-> SubSeq(host, 1, Len(user) + Len(h.name)), port |-> h.port]
    BY <2>1, <2>2, <2>4 DEF SplitAfter
  <2>6. Named(h) \in Seq(Char) /\ Len(Named(h)) = Len(user) + Len(h.name)
    BY <1>1, <1>3, <1>4, Joined
  <2>7. SubSeq(host, 1, Len(user) + Len(h.name)) = Named(h)
    BY <1>2, <1>5, <2>6, FrontOfJoined
  <2> QED BY <1>10, <2>5, <2>7 DEF host
<1> QED BY <1>11, <1>12

(* ssh is asked for the host and the port that the setting names, for      *)
(* every list of well written hosts: user prefixes stay and the colons of  *)
(* IPv6 addresses are no ports (splitHostPort).                            *)
THEOREM SettingReachesItsHost ==
  (\A h \in Hosts : WellWritten(h)) => (Spec => []ReachesItsHost)
<1> SUFFICES ASSUME \A h \in Hosts : WellWritten(h) PROVE Spec => []ReachesItsHost
  OBVIOUS
<1>1. HostInv => ReachesItsHost
  <2> SUFFICES ASSUME HostInv, Remote
               PROVE  SplitHostPort(Written(req.host)) = [target |-> Named(req.host), port |-> req.host.port]
    BY DEF ReachesItsHost
  <2>1. req.host \in Hosts
    BY DEF HostInv, HostType, Remote
  <2> QED BY <2>1, SplitOfWritten
<1> QED BY <1>1, HostInvHolds, PTL
-----------------------------------------------------------------------------
(* Quoting, read back by a shell.                                          *)

State(mode, word, words) == [mode |-> mode, word |-> word, words |-> words]
ReaderType ==
  [mode : {"blank", "bare", "quoted", "escaped"}, word : Seq(Char), words : Seq(Seq(Char))]

LEMMA StateType ==
  ASSUME NEW m \in {"blank", "bare", "quoted", "escaped"},
         NEW w \in Seq(Char), NEW ws \in Seq(Seq(Char))
  PROVE  State(m, w, ws) \in ReaderType
BY DEF State, ReaderType

LEMMA ReadCharType ==
  ASSUME NEW s \in ReaderType, NEW c \in Char
  PROVE  ReadChar(s, c) \in ReaderType
<1>1. /\ s.word \in Seq(Char) /\ s.words \in Seq(Seq(Char))
      /\ s.mode \in {"blank", "bare", "quoted", "escaped"}
      /\ s = State(s.mode, s.word, s.words)
  BY DEF ReaderType, State
<1>2. Append(s.word, c) \in Seq(Char) /\ Append(s.words, s.word) \in Seq(Seq(Char)) /\ <<>> \in Seq(Char)
  BY <1>1, AppendProperties
<1> QED BY <1>1, <1>2 DEF ReadChar, ReaderType

(* What a mark does in each state, and what any other character does.      *)
LEMMA MarkIsRead ==
  ASSUME NEW w, NEW ws
  PROVE  /\ ReadChar(State("quoted", w, ws), "'") = State("bare", w, ws)
         /\ ReadChar(State("bare", w, ws), "'") = State("quoted", w, ws)
         /\ ReadChar(State("blank", w, ws), "'") = State("quoted", w, ws)
         /\ ReadChar(State("bare", w, ws), "\\") = State("escaped", w, ws)
         /\ ReadChar(State("bare", w, ws), " ") = State("blank", <<>>, Append(ws, w))
BY DEF ReadChar, State

LEMMA CharIsRead ==
  ASSUME NEW w, NEW ws, NEW c
  PROVE  /\ c # "'" => ReadChar(State("quoted", w, ws), c) = State("quoted", Append(w, c), ws)
         /\ ReadChar(State("escaped", w, ws), c) = State("bare", Append(w, c), ws)
         /\ c \notin {"'", "\\", " "} =>
              /\ ReadChar(State("blank", w, ws), c) = State("bare", Append(w, c), ws)
              /\ ReadChar(State("bare", w, ws), c) = State("bare", Append(w, c), ws)
BY DEF ReadChar, State

(* Read takes one character after the other.                               *)
ReadStep(text) == [q \in (1 .. Len(text)) \X ReaderType |-> ReadChar(q[2], text[q[1]])]

LEMMA ReadLoop ==
  ASSUME NEW s \in ReaderType, NEW text \in Seq(Char)
  PROVE  \E f : Follows(f, Len(text), ReaderType, s, ReadStep(text)) /\ Read(s, text) = f[Len(text)]
<1> DEFINE N == Len(text)
           Body(g) == [i \in 0 .. N |-> IF i = 0 THEN s ELSE ReadChar(g[i - 1], text[i])]
           step == ReadStep(text)
<1>1. N \in Nat /\ \A i \in 1 .. N : text[i] \in Char
  OBVIOUS
<1>2. \A i \in 1 .. N, x \in ReaderType : step[<<i, x>>] = ReadChar(x, text[i])
  BY DEF ReadStep
<1>3. step \in Steps(N, ReaderType)
  <2> SUFFICES ASSUME NEW q \in (1 .. N) \X ReaderType PROVE ReadChar(q[2], text[q[1]]) \in ReaderType
    BY DEF Steps, ReadStep
  <2>1. q[1] \in 1 .. N /\ q[2] \in ReaderType
    OBVIOUS
  <2> QED BY <1>1, <2>1, ReadCharType
<1> HIDE DEF step, N
<1>4. PICK f : Follows(f, N, ReaderType, s, step)
  BY <1>1, <1>3, StepsDefine
<1>5. f \in [0 .. N -> ReaderType] /\ f[0] = s /\ \A i \in 1 .. N : f[i] = step[<<i, f[i - 1]>>]
  BY <1>4 DEF Follows
<1>6. f = Body(f)
  <2>1. \A i \in 1 .. N : i - 1 \in 0 .. N
    BY <1>1
  <2>2. \A i \in 1 .. N : f[i] = ReadChar(f[i - 1], text[i])
    BY <1>2, <1>5, <2>1
  <2>3. \A i \in 0 .. N : i # 0 => i \in 1 .. N
    BY <1>1
  <2>4. \A i \in 0 .. N : f[i] = Body(f)[i]
    BY <1>5, <2>2, <2>3
  <2>5. f = [i \in 0 .. N |-> f[i]] /\ Body(f) = [i \in 0 .. N |-> Body(f)[i]]
    BY <1>5
  <2> HIDE DEF Body
  <2> QED BY <2>4, <2>5
<1> DEFINE g == CHOOSE h : h = Body(h)
<1>7. g = Body(g)
  <2> HIDE DEF Body
  <2> QED BY <1>6
<1>8. Read(s, text) = g[N]
  BY DEF Read, N
<1> HIDE DEF g
<1>9. \A i \in 0 .. N : g[i] = IF i = 0 THEN s ELSE ReadChar(g[i - 1], text[i])
  BY <1>7
<1>10. g[0] = s /\ \A i \in 1 .. N : g[i] = ReadChar(g[i - 1], text[i])
  <2>1. 0 \in 0 .. N /\ \A i \in 1 .. N : i \in 0 .. N /\ i # 0
    BY <1>1
  <2> QED BY <1>9, <2>1
<1>11. \A i \in 1 .. N : g[i - 1] \in ReaderType => g[i] = step[<<i, g[i - 1]>>]
  BY <1>2, <1>10
<1>12. g[N] = f[N]
  <2>1. Tracks(g, N, ReaderType, s, step)
    BY <1>10, <1>11 DEF Tracks
  <2> QED BY <1>1, <1>4, <2>1, StepsAgree
<1> QED BY <1>4, <1>8, <1>12 DEF N, step

LEMMA ReadNothing ==
  ASSUME NEW s \in ReaderType
  PROVE  Read(s, <<>>) = s
<1>1. <<>> \in Seq(Char) /\ Len(<<>>) = 0
  OBVIOUS
<1>2. PICK f : Follows(f, 0, ReaderType, s, ReadStep(<<>>)) /\ Read(s, <<>>) = f[0]
  BY <1>1, ReadLoop
<1> QED BY <1>2 DEF Follows

LEMMA ReadMore ==
  ASSUME NEW s \in ReaderType, NEW text \in Seq(Char), NEW c \in Char
  PROVE  /\ Read(s, text) \in ReaderType
         /\ Read(s, Append(text, c)) = ReadChar(Read(s, text), c)
<1> DEFINE N == Len(text)
           longer == Append(text, c)
<1>1. /\ N \in Nat /\ longer \in Seq(Char) /\ Len(longer) = N + 1
      /\ (\A i \in 1 .. N : longer[i] = text[i]) /\ longer[N + 1] = c
  BY AppendProperties
<1>2. PICK f : Follows(f, N, ReaderType, s, ReadStep(text)) /\ Read(s, text) = f[N]
  BY ReadLoop
<1> HIDE DEF longer
<1>3. PICK g : Follows(g, Len(longer), ReaderType, s, ReadStep(longer)) /\ Read(s, longer) = g[Len(longer)]
  BY <1>1, ReadLoop
<1>4. /\ g \in [0 .. N + 1 -> ReaderType] /\ g[0] = s
      /\ \A i \in 1 .. N + 1 : g[i] = ReadStep(longer)[<<i, g[i - 1]>>]
  BY <1>1, <1>3 DEF Follows
<1>5. \A i \in 1 .. N + 1 : g[i - 1] \in ReaderType /\ g[i] = ReadChar(g[i - 1], longer[i])
  <2> TAKE i \in 1 .. N + 1
  <2> HIDE DEF N
  <2>1. i - 1 \in 0 .. N + 1
    BY <1>1
  <2>2. g[i - 1] \in ReaderType
    BY <1>4, <2>1
  <2>3. ReadStep(longer)[<<i, g[i - 1]>>] = ReadChar(g[i - 1], longer[i])
    BY <1>1, <2>2 DEF ReadStep
  <2> QED BY <1>4, <2>2, <2>3
<1>6. \A i \in 1 .. N : g[i - 1] \in ReaderType => g[i] = ReadStep(text)[<<i, g[i - 1]>>]
  <2> TAKE i \in 1 .. N
  <2> SUFFICES ASSUME g[i - 1] \in ReaderType PROVE g[i] = ReadStep(text)[<<i, g[i - 1]>>]
    OBVIOUS
  <2>1. ReadStep(text)[<<i, g[i - 1]>>] = ReadChar(g[i - 1], text[i])
    BY DEF ReadStep
  <2>2. i \in 1 .. N + 1 /\ longer[i] = text[i]
    BY <1>1
  <2> QED BY <1>5, <2>1, <2>2
<1>7. g[N] = f[N] /\ f[N] \in ReaderType
  <2> DEFINE step == ReadStep(text)
  <2>1. Tracks(g, N, ReaderType, s, step)
    BY <1>4, <1>6 DEF Tracks
  <2>2. Follows(f, N, ReaderType, s, step) /\ N \in Nat
    BY <1>1, <1>2
  <2>3. f[N] \in ReaderType
    BY <1>1, <1>2 DEF Follows
  <2> HIDE DEF N, step
  <2> QED BY <2>1, <2>2, <2>3, StepsAgree
<1>8. g[N + 1] = ReadChar(g[N], c)
  <2>1. N + 1 \in 1 .. N + 1 /\ N + 1 - 1 = N
    BY <1>1
  <2> QED BY <1>1, <1>5, <2>1
<1> QED BY <1>1, <1>2, <1>3, <1>7, <1>8 DEF longer

LEMMA ReadJoined ==
  ASSUME NEW s \in ReaderType, NEW a \in Seq(Char), NEW b \in Seq(Char)
  PROVE  Read(s, a \o b) = Read(Read(s, a), b)
<1> DEFINE T == {t \in Seq(Char) : Read(s, a \o t) = Read(Read(s, a), t)}
<1>1. Read(s, a) \in ReaderType
  <2>1. \E c : c \in Char
    BY DEF Char
  <2> QED BY <2>1, ReadMore
<1>2. <<>> \in T
  <2>1. a \o <<>> = a
    BY ConcatEmptySeq
  <2> QED BY <1>1, <2>1, ReadNothing
<1>3. ASSUME NEW t \in T, NEW c \in Char PROVE Append(t, c) \in T
  <2>1. t \in Seq(Char) /\ Read(s, a \o t) = Read(Read(s, a), t)
    OBVIOUS
  <2>2. Append(t, c) \in Seq(Char) /\ a \o t \in Seq(Char)
    BY <2>1
  <2>3. a \o Append(t, c) = Append(a \o t, c)
    <3>1. <<c>> \in Seq(Char)
      OBVIOUS
    <3>2. Append(t, c) = t \o <<c>> /\ Append(a \o t, c) = (a \o t) \o <<c>>
      BY <2>1, <2>2, AppendIsConcat
    <3> QED BY <2>1, <3>1, <3>2, JoinedInTwoWays
  <2>4. Read(s, Append(a \o t, c)) = ReadChar(Read(s, a \o t), c)
    BY <2>2, ReadMore
  <2>5. Read(Read(s, a), Append(t, c)) = ReadChar(Read(Read(s, a), t), c)
    BY <1>1, <2>1, ReadMore
  <2> QED BY <2>1, <2>2, <2>3, <2>4, <2>5
<1>4. T \in SUBSET Seq(Char)
  OBVIOUS
<1> HIDE DEF T
<1>5. b \in T
  BY <1>2, <1>3, <1>4, AllSequences
<1> QED BY <1>5 DEF T

LEMMA ReadOne ==
  ASSUME NEW s \in ReaderType, NEW c \in Char
  PROVE  Read(s, <<c>>) = ReadChar(s, c)
<1>1. <<>> \in Seq(Char) /\ Append(<<>>, c) = <<c>>
  OBVIOUS
<1> QED BY <1>1, ReadNothing, ReadMore

(* The characters that the code itself writes.                             *)
LEMMA LiteralChars ==
  /\ Safe \subseteq Char
  /\ {"'", "\\", " ", "&", "b", "l", "c", "d", "x"} \subseteq Char
  /\ \A c \in Safe : c \notin {"'", "\\", " "}
BY DEF Char, Safe

(* The escaping of one character ...                                       *)
Piece(c) == IF c = "'" THEN <<"'", "\\", "'", "'">> ELSE <<c>>

LEMMA PieceType == \A c \in Char : Piece(c) \in Seq(Char)
<1>1. "'" \in Char /\ "\\" \in Char
  BY LiteralChars
<1> QED BY <1>1 DEF Piece

LEMMA PieceIsRead ==
  ASSUME NEW w \in Seq(Char), NEW ws \in Seq(Seq(Char)), NEW c \in Char
  PROVE  Read(State("quoted", w, ws), Piece(c)) = State("quoted", Append(w, c), ws)
<1> DEFINE s == State("quoted", w, ws)
<1>1. s \in ReaderType
  BY StateType
<1>2. CASE c # "'"
  <2>1. Read(s, <<c>>) = ReadChar(s, c)
    BY <1>1, ReadOne
  <2>2. Piece(c) = <<c>>
    BY <1>2 DEF Piece
  <2>3. ReadChar(s, c) = State("quoted", Append(w, c), ws)
    BY <1>2, CharIsRead
  <2> QED BY <2>1, <2>2, <2>3
<1>3. CASE c = "'"
  <2> DEFINE a == <<"'">>
             b == Append(a, "\\")
             d == Append(b, "'")
  <2>1. "'" \in Char /\ "\\" \in Char
    BY LiteralChars
  <2>2. a \in Seq(Char) /\ b \in Seq(Char) /\ d \in Seq(Char)
    BY <2>1
  <2>3. Piece(c) = Append(d, "'")
    BY <1>3 DEF Piece
  <2>4. /\ Read(s, a) = ReadChar(s, "'")
        /\ Read(s, b) = ReadChar(Read(s, a), "\\")
        /\ Read(s, d) = ReadChar(Read(s, b), "'")
        /\ Read(s, Append(d, "'")) = ReadChar(Read(s, d), "'")
    <3>1. Read(s, a) = ReadChar(s, "'")
      BY <1>1, <2>1, ReadOne
    <3> HIDE DEF s, a
    <3>2. Read(s, b) = ReadChar(Read(s, a), "\\")
      BY <1>1, <2>1, <2>2, ReadMore
    <3> HIDE DEF b
    <3>3. Read(s, d) = ReadChar(Read(s, b), "'")
      BY <1>1, <2>1, <2>2, ReadMore
    <3> HIDE DEF d
    <3>4. Read(s, Append(d, "'")) = ReadChar(Read(s, d), "'")
      BY <1>1, <2>1, <2>2, ReadMore
    <3> QED BY <3>1, <3>2, <3>3, <3>4
  <2>5. Read(s, a) = State("bare", w, ws)
    BY <2>4, MarkIsRead
  <2> HIDE DEF a, b, d
  <2>6. Read(s, b) = State("escaped", w, ws)
    BY <2>4, <2>5, MarkIsRead
  <2>7. Read(s, d) = State("bare", Append(w, "'"), ws)
    <3>1. ReadChar(State("escaped", w, ws), "'") = State("bare", Append(w, "'"), ws)
      BY CharIsRead, Zenon
    <3> QED BY <2>4, <2>6, <3>1, Zenon
  <2>8. Read(s, Append(d, "'")) = State("quoted", Append(w, "'"), ws)
    BY <2>4, <2>7, MarkIsRead
  <2> QED BY <1>3, <2>3, <2>8
<1> QED BY <1>2, <1>3

(* ... and of a text, one after the other.                                 *)
EscapeStep(text) == [q \in (1 .. Len(text)) \X Seq(Char) |-> q[2] \o Piece(text[q[1]])]

LEMMA EscapeLoop ==
  ASSUME NEW text \in Seq(Char)
  PROVE  \E f : /\ Follows(f, Len(text), Seq(Char), <<>>, EscapeStep(text))
                /\ Escaped(text) = f[Len(text)]
<1> DEFINE N == Len(text)
           Body(g) == [i \in 0 .. N |-> IF i = 0 THEN <<>> ELSE g[i - 1] \o Piece(text[i])]
           step == EscapeStep(text)
<1>1. N \in Nat /\ \A i \in 1 .. N : text[i] \in Char
  OBVIOUS
<1>2. \A i \in 1 .. N, x \in Seq(Char) : step[<<i, x>>] = x \o Piece(text[i])
  BY DEF EscapeStep
<1>3. step \in Steps(N, Seq(Char)) /\ <<>> \in Seq(Char)
  <2> SUFFICES ASSUME NEW q \in (1 .. N) \X Seq(Char) PROVE q[2] \o Piece(text[q[1]]) \in Seq(Char)
    BY DEF Steps, EscapeStep
  <2>1. q[1] \in 1 .. N /\ q[2] \in Seq(Char)
    OBVIOUS
  <2>2. Piece(text[q[1]]) \in Seq(Char)
    BY <1>1, <2>1, PieceType
  <2> QED BY <2>1, <2>2
<1> HIDE DEF step, N
<1>4. PICK f : Follows(f, N, Seq(Char), <<>>, step)
  BY <1>1, <1>3, StepsDefine
<1>5. f \in [0 .. N -> Seq(Char)] /\ f[0] = <<>> /\ \A i \in 1 .. N : f[i] = step[<<i, f[i - 1]>>]
  BY <1>4 DEF Follows
<1>6. f = Body(f)
  <2>1. \A i \in 1 .. N : i - 1 \in 0 .. N
    BY <1>1
  <2>2. \A i \in 1 .. N : f[i] = f[i - 1] \o Piece(text[i])
    BY <1>2, <1>5, <2>1
  <2>3. \A i \in 0 .. N : i # 0 => i \in 1 .. N
    BY <1>1
  <2>4. \A i \in 0 .. N : f[i] = Body(f)[i]
    BY <1>5, <2>2, <2>3
  <2>5. f = [i \in 0 .. N |-> f[i]] /\ Body(f) = [i \in 0 .. N |-> Body(f)[i]]
    BY <1>5
  <2> HIDE DEF Body
  <2> QED BY <2>4, <2>5
<1> DEFINE g == CHOOSE h : h = Body(h)
<1>7. g = Body(g)
  <2> HIDE DEF Body
  <2> QED BY <1>6
<1>8. Escaped(text) = g[N]
  BY DEF Escaped, Piece, N
<1> HIDE DEF g
<1>9. \A i \in 0 .. N : g[i] = IF i = 0 THEN <<>> ELSE g[i - 1] \o Piece(text[i])
  BY <1>7
<1>10. g[0] = <<>> /\ \A i \in 1 .. N : g[i] = g[i - 1] \o Piece(text[i])
  <2>1. 0 \in 0 .. N /\ \A i \in 1 .. N : i \in 0 .. N /\ i # 0
    BY <1>1
  <2> QED BY <1>9, <2>1
<1>11. Tracks(g, N, Seq(Char), <<>>, step)
  BY <1>2, <1>10 DEF Tracks
<1>12. g[N] = f[N]
  BY <1>1, <1>4, <1>11, StepsAgree
<1> QED BY <1>4, <1>8, <1>12 DEF N, step

LEMMA EscapedMore ==
  /\ Escaped(<<>>) = <<>>
  /\ \A text \in Seq(Char), c \in Char :
       Escaped(text) \in Seq(Char) /\ Escaped(Append(text, c)) = Escaped(text) \o Piece(c)
<1>1. Escaped(<<>>) = <<>>
  <2>1. <<>> \in Seq(Char) /\ Len(<<>>) = 0
    OBVIOUS
  <2>2. PICK f : Follows(f, 0, Seq(Char), <<>>, EscapeStep(<<>>)) /\ Escaped(<<>>) = f[0]
    BY <2>1, EscapeLoop
  <2> QED BY <2>2 DEF Follows
<1>2. ASSUME NEW text \in Seq(Char), NEW c \in Char
      PROVE  Escaped(text) \in Seq(Char) /\ Escaped(Append(text, c)) = Escaped(text) \o Piece(c)
  <2> DEFINE N == Len(text)
             longer == Append(text, c)
  <2>1. /\ N \in Nat /\ longer \in Seq(Char) /\ Len(longer) = N + 1
        /\ (\A i \in 1 .. N : longer[i] = text[i]) /\ longer[N + 1] = c
    BY AppendProperties
  <2>2. PICK f : Follows(f, N, Seq(Char), <<>>, EscapeStep(text)) /\ Escaped(text) = f[N]
    BY EscapeLoop
  <2> HIDE DEF longer
  <2>3. PICK g : /\ Follows(g, Len(longer), Seq(Char), <<>>, EscapeStep(longer))
                 /\ Escaped(longer) = g[Len(longer)]
    BY <2>1, EscapeLoop
  <2>4. /\ g \in [0 .. N + 1 -> Seq(Char)] /\ g[0] = <<>>
        /\ \A i \in 1 .. N + 1 : g[i] = EscapeStep(longer)[<<i, g[i - 1]>>]
    BY <2>1, <2>3 DEF Follows
  <2>5. \A i \in 1 .. N + 1 : g[i - 1] \in Seq(Char) /\ g[i] = g[i - 1] \o Piece(longer[i])
    <3> TAKE i \in 1 .. N + 1
    <3> HIDE DEF N
    <3>1. i - 1 \in 0 .. N + 1
      BY <2>1
    <3>2. g[i - 1] \in Seq(Char)
      BY <2>4, <3>1
    <3>3. EscapeStep(longer)[<<i, g[i - 1]>>] = g[i - 1] \o Piece(longer[i])
      BY <2>1, <3>2 DEF EscapeStep
    <3> QED BY <2>4, <3>2, <3>3
  <2> DEFINE step == EscapeStep(text)
  <2>6. Tracks(g, N, Seq(Char), <<>>, step)
    <3>1. ASSUME NEW i \in 1 .. N, g[i - 1] \in Seq(Char) PROVE g[i] = step[<<i, g[i - 1]>>]
      <4>1. step[<<i, g[i - 1]>>] = g[i - 1] \o Piece(text[i])
        BY <3>1 DEF EscapeStep
      <4>2. i \in 1 .. N + 1 /\ longer[i] = text[i]
        BY <2>1
      <4> QED BY <2>5, <4>1, <4>2
    <3> QED BY <2>4, <3>1 DEF Tracks
  <2>7. g[N] = f[N] /\ f[N] \in Seq(Char)
    <3>1. Follows(f, N, Seq(Char), <<>>, step) /\ N \in Nat
      BY <2>1, <2>2
    <3>2. f[N] \in Seq(Char)
      BY <2>1, <2>2 DEF Follows
    <3> HIDE DEF N, step
    <3> QED BY <2>6, <3>1, <3>2, StepsAgree
  <2>8. g[N + 1] = g[N] \o Piece(c)
    <3> DEFINE m == N + 1
    <3>1. m \in 1 .. N + 1 /\ m - 1 = N /\ longer[m] = c
      BY <2>1
    <3> HIDE DEF m, N
    <3>2. g[m] = g[m - 1] \o Piece(longer[m])
      BY <2>5, <3>1, Zenon
    <3>3. g[m] = g[N] \o Piece(c)
      BY <3>1, <3>2
    <3> QED BY <3>3 DEF m
  <2> QED BY <2>1, <2>2, <2>3, <2>7, <2>8 DEF longer
<1> QED BY <1>1, <1>2

LEMMA EscapedIsRead ==
  ASSUME NEW ws \in Seq(Seq(Char)), NEW text \in Seq(Char)
  PROVE  Read(State("quoted", <<>>, ws), Escaped(text)) = State("quoted", text, ws)
<1> DEFINE s == State("quoted", <<>>, ws)
           T == {t \in Seq(Char) : Read(s, Escaped(t)) = State("quoted", t, ws)}
<1>1. s \in ReaderType /\ <<>> \in Seq(Char)
  <2>1. <<>> \in Seq(Char)
    OBVIOUS
  <2> QED BY <2>1, StateType
<1> HIDE DEF s
<1>2. <<>> \in T
  BY <1>1, EscapedMore, ReadNothing DEF s
<1>3. ASSUME NEW t \in T, NEW c \in Char PROVE Append(t, c) \in T
  <2>1. t \in Seq(Char) /\ Read(s, Escaped(t)) = State("quoted", t, ws)
    OBVIOUS
  <2>2. Escaped(t) \in Seq(Char) /\ Piece(c) \in Seq(Char)
    BY <2>1, EscapedMore, PieceType
  <2>3. Escaped(Append(t, c)) = Escaped(t) \o Piece(c)
    BY <2>1, EscapedMore
  <2>4. Read(s, Escaped(t) \o Piece(c)) = Read(Read(s, Escaped(t)), Piece(c))
    BY <1>1, <2>2, ReadJoined
  <2>5. Read(State("quoted", t, ws), Piece(c)) = State("quoted", Append(t, c), ws)
    BY <2>1, PieceIsRead
  <2>6. Append(t, c) \in Seq(Char)
    BY <2>1
  <2> QED BY <2>1, <2>3, <2>4, <2>5, <2>6
<1>4. T \in SUBSET Seq(Char)
  OBVIOUS
<1> HIDE DEF T
<1>5. text \in T
  BY <1>2, <1>3, <1>4, AllSequences
<1> QED BY <1>5 DEF T, s

(* Safe characters stand for themselves.                                   *)
LEMMA SafeIsRead ==
  ASSUME NEW ws \in Seq(Seq(Char)), NEW text \in Seq(Safe), text # <<>>
  PROVE  Read(State("blank", <<>>, ws), text) = State("bare", text, ws)
<1> DEFINE s == State("blank", <<>>, ws)
           T == {t \in Seq(Safe) :
                   Read(s, t) = IF t = <<>> THEN s ELSE State("bare", t, ws)}
<1>1. s \in ReaderType /\ <<>> \in Seq(Safe)
  <2>1. <<>> \in Seq(Char) /\ <<>> \in Seq(Safe)
    OBVIOUS
  <2> QED BY <2>1, StateType
<1>2. <<>> \in T
  BY <1>1, ReadNothing
<1>3. ASSUME NEW t \in T, NEW c \in Safe PROVE Append(t, c) \in T
  <2>1. t \in Seq(Safe) /\ t \in Seq(Char) /\ c \in Char /\ c \notin {"'", "\\", " "}
    BY LiteralChars, SeqMonotonic
  <2>2. Read(s, Append(t, c)) = ReadChar(Read(s, t), c)
    BY <1>1, <2>1, ReadMore
  <2>3. ReadChar(Read(s, t), c) = State("bare", Append(t, c), ws)
    <3>1. CASE t = <<>>
      <4>1. Read(s, t) = State("blank", t, ws)
        BY <3>1
      <4>2. ReadChar(State("blank", t, ws), c) = State("bare", Append(t, c), ws)
        BY <2>1, CharIsRead
      <4> QED BY <4>1, <4>2
    <3>2. CASE t # <<>>
      <4>1. Read(s, t) = State("bare", t, ws)
        BY <3>2
      <4>2. ReadChar(State("bare", t, ws), c) = State("bare", Append(t, c), ws)
        BY <2>1, CharIsRead
      <4> QED BY <4>1, <4>2
    <3> QED BY <3>1, <3>2
  <2>4. Append(t, c) \in Seq(Safe) /\ Append(t, c) # <<>>
    <3>1. t \in Seq(Safe)
      BY <2>1
    <3> HIDE DEF T
    <3>2. ASSUME NEW u \in Seq(Safe), NEW x \in Safe
          PROVE  Append(u, x) \in Seq(Safe) /\ Append(u, x) # <<>>
      <4>1. Append(u, x) \in Seq(Safe) /\ Append(u, x)[Len(u) + 1] = x /\ Len(Append(u, x)) = Len(u) + 1
        BY AppendProperties
      <4>2. Len(u) + 1 # 0
        BY LenProperties
      <4>3. Append(u, x) # <<>>
        BY <4>1, <4>2, EmptySeq
      <4> QED BY <4>1, <4>3
    <3> QED BY <3>1, <3>2
  <2> QED BY <2>2, <2>3, <2>4
<1>4. T \in SUBSET Seq(Safe)
  OBVIOUS
<1> HIDE DEF T
<1>5. text \in T
  BY <1>2, <1>3, <1>4, AllSequences
<1> QED BY <1>5 DEF T

(* A shell reads a quoted text as one word, the text itself.               *)
LEMMA QuoteIsRead ==
  ASSUME NEW ws \in Seq(Seq(Char)), NEW text \in Seq(Char)
  PROVE  /\ ShellQuote(text) \in Seq(Char)
         /\ Read(State("blank", <<>>, ws), ShellQuote(text)) = State("bare", text, ws)
<1> DEFINE s == State("blank", <<>>, ws)
           q == <<"'">>
<1>1. s \in ReaderType /\ "'" \in Char
  <2>1. <<>> \in Seq(Char)
    OBVIOUS
  <2> QED BY <2>1, StateType, LiteralChars
<1>2. q \in Seq(Char) /\ Read(s, q) = State("quoted", <<>>, ws)
  <2>1. ReadChar(s, "'") = State("quoted", <<>>, ws)
    BY MarkIsRead
  <2>2. Read(s, q) = ReadChar(s, "'")
    BY <1>1, ReadOne
  <2>3. q \in Seq(Char)
    BY <1>1
  <2> QED BY <2>1, <2>2, <2>3
<1>3. CASE text = <<>>
  <2>1. ShellQuote(text) = Append(q, "'")
    BY <1>3 DEF ShellQuote
  <2>2. Read(s, Append(q, "'")) = ReadChar(Read(s, q), "'")
    BY <1>1, <1>2, ReadMore
  <2>3. Append(q, "'") \in Seq(Char)
    BY <1>1, <1>2
  <2>4. ReadChar(State("quoted", <<>>, ws), "'") = State("bare", <<>>, ws)
    BY MarkIsRead
  <2> QED BY <1>2, <1>3, <2>1, <2>2, <2>3, <2>4
<1>4. CASE text # <<>> /\ \A i \in DOMAIN text : text[i] \in Safe
  <2>1. ShellQuote(text) = text
    BY <1>4 DEF ShellQuote
  <2>2. text \in Seq(Safe)
    BY <1>4
  <2> QED BY <1>4, <2>1, <2>2, SafeIsRead
<1>5. CASE text # <<>> /\ ~ \A i \in DOMAIN text : text[i] \in Safe
  <2>1. ShellQuote(text) = q \o Escaped(text) \o q
    BY <1>5 DEF ShellQuote
  <2>2. Escaped(text) \in Seq(Char)
    <3>1. "'" \in Char
      BY LiteralChars
    <3> QED BY <3>1, EscapedMore
  <2> HIDE DEF q
  <2>3. q \o Escaped(text) \in Seq(Char) /\ q \o Escaped(text) \o q \in Seq(Char)
    BY <1>2, <2>2
  <2>4. Read(s, q \o Escaped(text)) = State("quoted", text, ws)
    BY <1>1, <1>2, <2>2, ReadJoined, EscapedIsRead
  <2>5. State("quoted", text, ws) \in ReaderType
    BY StateType
  <2>6. Read(State("quoted", text, ws), q) = State("bare", text, ws)
    <3>1. Read(State("quoted", text, ws), q) = ReadChar(State("quoted", text, ws), "'")
      BY <1>1, <2>5, ReadOne DEF q
    <3> QED BY <3>1, MarkIsRead
  <2>7. Read(s, q \o Escaped(text) \o q) = Read(Read(s, q \o Escaped(text)), q)
    BY <1>1, <1>2, <2>3, ReadJoined
  <2> QED BY <2>1, <2>3, <2>4, <2>6, <2>7
<1> QED BY <1>3, <1>4, <1>5

(* A line is read word by word: what follows a word and a blank is read    *)
(* with one more word.                                                     *)
Blank(ws) == State("blank", <<>>, ws)
Space == " "
Gap == <<Space>>
Then(text, rest) == text \o (Gap \o rest)

LEMMA SpaceIsRead ==
  /\ Space \in Char
  /\ \A w, ws : ReadChar(State("bare", w, ws), Space) = Blank(Append(ws, w))
BY LiteralChars, MarkIsRead, Zenon DEF Space, Blank

LEMMA BlankType == \A ws \in Seq(Seq(Char)) : Blank(ws) \in ReaderType
<1>1. <<>> \in Seq(Char)
  OBVIOUS
<1> QED BY <1>1, StateType DEF Blank

LEMMA NextWordIsRead ==
  ASSUME NEW ws \in Seq(Seq(Char)), NEW word \in Seq(Char),
         NEW text \in Seq(Char), NEW rest \in Seq(Char),
         Read(Blank(ws), text) = State("bare", word, ws)
  PROVE  /\ Then(text, rest) \in Seq(Char)
         /\ Append(ws, word) \in Seq(Seq(Char))
         /\ Read(Blank(ws), Then(text, rest)) = Read(Blank(Append(ws, word)), rest)
<1>1. Blank(ws) \in ReaderType /\ State("bare", word, ws) \in ReaderType
  BY BlankType, StateType
<1>2. Space \in Char /\ Gap \in Seq(Char)
  <2>1. Space \in Char
    BY SpaceIsRead
  <2> QED BY <2>1 DEF Gap
<1>3. Gap \o rest \in Seq(Char)
  BY <1>2
<1>4. text \o (Gap \o rest) \in Seq(Char) /\ Append(ws, word) \in Seq(Seq(Char))
  BY <1>3
<1>5. Read(Blank(ws), text \o (Gap \o rest)) = Read(Read(Blank(ws), text), Gap \o rest)
  BY <1>1, <1>3, ReadJoined
<1>6. Read(State("bare", word, ws), Gap \o rest) = Read(Read(State("bare", word, ws), Gap), rest)
  BY <1>1, <1>2, ReadJoined
<1>7. Read(State("bare", word, ws), Gap) = ReadChar(State("bare", word, ws), Space)
  BY <1>1, <1>2, ReadOne DEF Gap
<1>8. ReadChar(State("bare", word, ws), Space) = Blank(Append(ws, word))
  BY SpaceIsRead
<1> QED BY <1>4, <1>5, <1>6, <1>7, <1>8, Zenon DEF Then

(* The words that the code writes itself.                                  *)
LEMMA LiteralWords ==
  /\ {<<"b">>, <<"l">>, <<"x">>, <<"c", "d">>, <<"&", "&">>} \subseteq Seq(Char)
  /\ \A ws \in Seq(Seq(Char)) :
       \A word \in {<<"b">>, <<"l">>, <<"x">>, <<"c", "d">>, <<"&", "&">>} :
         Read(Blank(ws), word) = State("bare", word, ws)
<1>1. /\ <<"b">> \in Seq(Safe) /\ <<"l">> \in Seq(Safe)
      /\ <<"x">> \in Seq(Safe) /\ <<"c", "d">> \in Seq(Safe)
  BY DEF Safe
<1>2. /\ <<"b">> \in Seq(Char) /\ <<"l">> \in Seq(Char)
      /\ <<"x">> \in Seq(Char) /\ <<"c", "d">> \in Seq(Char)
  BY <1>1, LiteralChars, SeqMonotonic
<1> DEFINE amp == <<"&">>
<1>3. "&" \in Char
  BY LiteralChars
<1>4. amp \in Seq(Char) /\ <<"&", "&">> = Append(amp, "&") /\ <<"&", "&">> \in Seq(Char)
  BY <1>3
<1> SUFFICES ASSUME NEW ws \in Seq(Seq(Char))
             PROVE  \A word \in {<<"b">>, <<"l">>, <<"x">>, <<"c", "d">>, <<"&", "&">>} :
                      Read(Blank(ws), word) = State("bare", word, ws)
  BY <1>2, <1>4
<1>5. \A word \in Seq(Safe) : word # <<>> => Read(Blank(ws), word) = State("bare", word, ws)
  BY SafeIsRead DEF Blank
<1>6. <<"b">> # <<>> /\ <<"l">> # <<>> /\ <<"x">> # <<>> /\ <<"c", "d">> # <<>>
  OBVIOUS
<1>7. Blank(ws) \in ReaderType
  BY BlankType
<1>8. Read(Blank(ws), amp) = ReadChar(Blank(ws), "&")
  BY <1>3, <1>7, ReadOne
<1>9. Append(<<>>, "&") = amp
  OBVIOUS
<1>10. ReadChar(Blank(ws), "&") = State("bare", amp, ws)
  <2>1. "&" \notin {"'", "\\", " "}
    OBVIOUS
  <2>2. ReadChar(State("blank", <<>>, ws), "&") = State("bare", Append(<<>>, "&"), ws)
    BY <2>1, CharIsRead
  <2> QED BY <1>9, <2>2, Zenon DEF Blank
<1> HIDE DEF amp
<1>11. Read(Blank(ws), Append(amp, "&")) = ReadChar(Read(Blank(ws), amp), "&")
  BY <1>3, <1>4, <1>7, ReadMore
<1>12. ReadChar(State("bare", amp, ws), "&") = State("bare", Append(amp, "&"), ws)
  BY CharIsRead
<1>13. Read(Blank(ws), <<"&", "&">>) = State("bare", <<"&", "&">>, ws)
  BY <1>4, <1>8, <1>10, <1>11, <1>12
<1> QED BY <1>1, <1>5, <1>6, <1>13

(* How a text written out is joined.                                       *)
LEMMA TwoJoin == \A a, b \in Char : <<a, b>> = <<a>> \o <<b>>
<1> SUFFICES ASSUME NEW a \in Char, NEW b \in Char PROVE <<a, b>> = <<a>> \o <<b>>
  OBVIOUS
<1>1. <<a>> \in Seq(Char) /\ <<a, b>> = Append(<<a>>, b)
  OBVIOUS
<1> QED BY <1>1, AppendIsConcat

LEMMA ThreeJoin == \A a, b, c \in Char : <<a, b, c>> = <<a, b>> \o <<c>>
<1> SUFFICES ASSUME NEW a \in Char, NEW b \in Char, NEW c \in Char
             PROVE  <<a, b, c>> = <<a, b>> \o <<c>>
  OBVIOUS
<1>1. <<a, b>> \in Seq(Char) /\ <<a, b, c>> = Append(<<a, b>>, c)
  OBVIOUS
<1> QED BY <1>1, AppendIsConcat

LEMMA OnesJoin ==
  \A a, b, c, d \in Char : <<a, b, c, d>> = ((<<a>> \o <<b>>) \o <<c>>) \o <<d>>
<1> SUFFICES ASSUME NEW a \in Char, NEW b \in Char, NEW c \in Char, NEW d \in Char
             PROVE  <<a, b, c, d>> = ((<<a>> \o <<b>>) \o <<c>>) \o <<d>>
  OBVIOUS
<1>1. <<a, b, c>> \in Seq(Char)
  OBVIOUS
<1>2. <<a, b, c, d>> = Append(<<a, b, c>>, d)
  OBVIOUS
<1>3. <<a, b, c, d>> = <<a, b, c>> \o <<d>>
  BY <1>1, <1>2, AppendIsConcat
<1>4. <<a, b, c>> = <<a, b>> \o <<c>>
  BY ThreeJoin
<1>5. <<a, b>> = <<a>> \o <<b>>
  BY TwoJoin
<1> QED BY <1>3, <1>4, <1>5, Zenon

LEMMA PairInside ==
  ASSUME NEW a \in Char, NEW b \in Char, NEW c \in Char
  PROVE  <<a, b, b, c>> = (<<a>> \o <<b, b>>) \o <<c>>
<1> DEFINE u == <<a>>
           v == <<b>>
<1>1. <<a, b, b, c>> = ((u \o v) \o v) \o <<c>>
  BY OnesJoin
<1>2. <<b, b>> = v \o v
  BY TwoJoin
<1>3. u \in Seq(Char) /\ v \in Seq(Char)
  OBVIOUS
<1> HIDE DEF u, v
<1>4. (u \o v) \o v = u \o (v \o v)
  BY <1>3, JoinedInTwoWays
<1>5. <<a, b, b, c>> = (u \o <<b, b>>) \o <<c>>
  BY <1>1, <1>2, <1>4, Zenon
<1> QED BY <1>5, Zenon DEF u

LEMMA ThirdOfTwo ==
  ASSUME NEW S, NEW s \in Seq(S), Len(s) = 2, NEW x \in S
  PROVE  Append(s, x)[3] = x
<1>1. Append(s, x)[Len(s) + 1] = x
  BY AppendProperties
<1>2. Len(s) + 1 = 3
  OBVIOUS
<1> QED BY <1>1, <1>2, Zenon

LEMMA SecondOfMore ==
  ASSUME NEW S, NEW s \in Seq(S), Len(s) >= 2, NEW x \in S
  PROVE  Append(s, x)[2] = s[2]
<1>1. \A i \in 1 .. Len(s) : Append(s, x)[i] = s[i]
  BY AppendProperties
<1>2. 2 \in 1 .. Len(s)
  OBVIOUS
<1> QED BY <1>1, <1>2

(* The words of a line that ends with a word.                              *)
LEMMA WordsOf ==
  ASSUME NEW text, NEW word, NEW ws, Read(Blank(<<>>), text) = State("bare", word, ws)
  PROVE  Words(text) = Append(ws, word)
BY DEF Words, Blank, State

(* sshd's shell hands bash the script as one word ...                      *)
LEMMA ScriptArrives ==
  ASSUME RemoteScript \in Seq(Char)
  PROVE  Words(SSHCommand)[3] = RemoteScript
<1> DEFINE b == <<"b">>
           l == <<"l">>
           q == ShellQuote(RemoteScript)
           none == <<>>
           one == Append(none, b)
           two == Append(one, l)
<1>1. b \in Seq(Char) /\ l \in Seq(Char)
  BY LiteralWords
<1>2. none \in Seq(Seq(Char)) /\ one \in Seq(Seq(Char)) /\ two \in Seq(Seq(Char))
  BY <1>1
<1>3. q \in Seq(Char) /\ Read(Blank(two), q) = State("bare", RemoteScript, two)
  BY <1>2, QuoteIsRead DEF Blank
<1>4. Read(Blank(one), l) = State("bare", l, one) /\ Read(Blank(none), b) = State("bare", b, none)
  BY <1>2, LiteralWords
<1>5. SSHCommand = Then(b, Then(l, q))
  <2> DEFINE gap == Gap
  <2>1. Space \in Char
    BY SpaceIsRead
  <2>2. gap \in Seq(Char)
    BY <2>1 DEF Gap
  <2>3. <<"b", " ", "l", " ">> = ((b \o gap) \o l) \o gap
    <3>1. "b" \in Char /\ "l" \in Char
      BY LiteralChars
    <3>2. <<"b", Space, "l", Space>> = ((<<"b">> \o <<Space>>) \o <<"l">>) \o <<Space>>
      BY <2>1, <3>1, OnesJoin
    <3> QED BY <3>2, Zenon DEF Gap, Space
  <2>4. SSHCommand = (((b \o gap) \o l) \o gap) \o q
    BY <2>3 DEF SSHCommand
  <2>5. Then(b, Then(l, q)) = b \o (gap \o (l \o (gap \o q)))
    BY DEF Then
  <2> HIDE DEF b, l, q, gap
  <2>6. b \o gap \in Seq(Char) /\ gap \o q \in Seq(Char)
    BY <1>1, <1>3, <2>2
  <2>7. (b \o gap) \o l \in Seq(Char) /\ l \o (gap \o q) \in Seq(Char)
    BY <1>1, <1>3, <2>2, <2>6
  <2>8. (((b \o gap) \o l) \o gap) \o q = ((b \o gap) \o l) \o (gap \o q)
    <3> DEFINE first == (b \o gap) \o l
    <3>1. first \in Seq(Char)
      BY <2>7
    <3> HIDE DEF first
    <3>2. (first \o gap) \o q = first \o (gap \o q)
      BY <1>3, <2>2, <3>1, JoinedInTwoWays, Zenon
    <3> QED BY <3>2 DEF first
  <2>9. ((b \o gap) \o l) \o (gap \o q) = (b \o gap) \o (l \o (gap \o q))
    BY <1>1, <2>6, JoinedInTwoWays
  <2>10. (b \o gap) \o (l \o (gap \o q)) = b \o (gap \o (l \o (gap \o q)))
    BY <1>1, <2>2, <2>7, JoinedInTwoWays
  <2> QED BY <2>4, <2>5, <2>8, <2>9, <2>10
<1> HIDE DEF b, l, q, none, one, two
<1>6. Then(l, q) \in Seq(Char) /\ Read(Blank(one), Then(l, q)) = Read(Blank(two), q)
  BY <1>1, <1>2, <1>3, <1>4, NextWordIsRead DEF two
<1>7. Read(Blank(none), Then(b, Then(l, q))) = Read(Blank(one), Then(l, q))
  BY <1>1, <1>2, <1>4, <1>6, NextWordIsRead DEF one
<1>8. Words(SSHCommand) = Append(two, RemoteScript)
  BY <1>3, <1>5, <1>6, <1>7, WordsOf DEF none
<1>9. Len(two) = 2
  BY <1>1, <1>2 DEF none, one, two
<1>10. Append(two, RemoteScript)[3] = RemoteScript
  BY <1>2, <1>9, ThirdOfTwo
<1> QED BY <1>8, <1>10

(* ... and bash changes to the directory as one word of the script.        *)
LEMMA DirectoryArrives ==
  ASSUME req.dir \in Seq(Char)
  PROVE  RemoteScript \in Seq(Char) /\ Words(RemoteScript)[2] = req.dir
<1> DEFINE cd == <<"c", "d">>
           dir == req.dir
           q == ShellQuote(dir)
           amps == <<"&", "&">>
           none == <<>>
           one == Append(none, cd)
           two == Append(one, dir)
           three == Append(two, amps)
<1>1. cd \in Seq(Char) /\ amps \in Seq(Char) /\ Command \in Seq(Char)
  BY LiteralWords DEF Command
<1>2. /\ none \in Seq(Seq(Char)) /\ one \in Seq(Seq(Char))
      /\ two \in Seq(Seq(Char)) /\ three \in Seq(Seq(Char))
  BY <1>1
<1>3. q \in Seq(Char) /\ Read(Blank(one), q) = State("bare", dir, one)
  BY <1>2, QuoteIsRead DEF Blank
<1>4. /\ Read(Blank(none), cd) = State("bare", cd, none)
      /\ Read(Blank(two), amps) = State("bare", amps, two)
      /\ Read(Blank(three), Command) = State("bare", Command, three)
  BY <1>2, LiteralWords DEF Command
<1>5. RemoteScript = Then(cd, Then(q, Then(amps, Command)))
  <2> DEFINE gap == Gap
             x == Command
  <2>1. Space \in Char
    BY SpaceIsRead
  <2>2. gap \in Seq(Char)
    BY <2>1 DEF Gap
  <2>3. <<"c", "d", " ">> = cd \o gap /\ <<" ", "&", "&", " ">> = (gap \o amps) \o gap
    <3>1. "c" \in Char /\ "d" \in Char /\ "&" \in Char
      BY LiteralChars
    <3>2. <<"c", "d", " ">> = cd \o gap
      <4>1. <<"c", "d", Space>> = <<"c", "d">> \o <<Space>>
        BY <2>1, <3>1, ThreeJoin
      <4> QED BY <4>1, Zenon DEF Gap, Space
    <3>3. <<" ", "&", "&", " ">> = (gap \o amps) \o gap
      <4>1. <<Space, "&", "&", Space>> = (<<Space>> \o <<"&", "&">>) \o <<Space>>
        BY <2>1, <3>1, PairInside
      <4> QED BY <4>1, Zenon DEF Gap, Space
    <3> QED BY <3>2, <3>3
  <2>4. RemoteScript = (((cd \o gap) \o q) \o ((gap \o amps) \o gap)) \o x
    BY <2>3 DEF RemoteScript
  <2>5. Then(cd, Then(q, Then(amps, x))) = cd \o (gap \o (q \o (gap \o (amps \o (gap \o x)))))
    BY DEF Then
  <2> HIDE DEF cd, dir, q, amps, gap, x, none, one, two, three
  <2>6. /\ cd \o gap \in Seq(Char) /\ gap \o amps \in Seq(Char) /\ gap \o x \in Seq(Char)
        /\ x \in Seq(Char)
    BY <1>1, <2>2 DEF x
  <2>7. /\ (cd \o gap) \o q \in Seq(Char) /\ (gap \o amps) \o gap \in Seq(Char)
        /\ amps \o (gap \o x) \in Seq(Char)
    BY <1>1, <1>3, <2>2, <2>6
  <2>8. gap \o (amps \o (gap \o x)) \in Seq(Char)
    BY <2>2, <2>7
  <2>9. q \o (gap \o (amps \o (gap \o x))) \in Seq(Char)
    BY <1>3, <2>8
  <2>10. ((gap \o amps) \o gap) \o x = gap \o (amps \o (gap \o x))
    <3> DEFINE first == gap \o amps
               second == gap \o x
    <3>1. /\ first \in Seq(Char) /\ second \in Seq(Char) /\ gap \in Seq(Char)
          /\ x \in Seq(Char) /\ amps \in Seq(Char)
      BY <1>1, <2>2, <2>6
    <3> HIDE DEF first, second
    <3>2. (first \o gap) \o x = first \o (gap \o x)
      BY <3>1, JoinedInTwoWays, ZenonT(30)
    <3>3. (gap \o amps) \o second = gap \o (amps \o second)
      BY <3>1, JoinedInTwoWays
    <3> QED BY <3>2, <3>3, Zenon DEF first, second
  <2>11. (((cd \o gap) \o q) \o ((gap \o amps) \o gap)) \o x
           = ((cd \o gap) \o q) \o (((gap \o amps) \o gap) \o x)
    <3> DEFINE first == (cd \o gap) \o q
               second == (gap \o amps) \o gap
    <3>1. first \in Seq(Char) /\ second \in Seq(Char) /\ x \in Seq(Char)
      BY <2>6, <2>7
    <3> HIDE DEF first, second
    <3>2. (first \o second) \o x = first \o (second \o x)
      BY <3>1, JoinedInTwoWays
    <3> QED BY <3>2 DEF first, second
  <2>12. ((cd \o gap) \o q) \o (gap \o (amps \o (gap \o x)))
           = (cd \o gap) \o (q \o (gap \o (amps \o (gap \o x))))
    <3> DEFINE first == cd \o gap
               last == gap \o (amps \o (gap \o x))
    <3>1. first \in Seq(Char) /\ last \in Seq(Char)
      BY <2>6, <2>8
    <3> HIDE DEF first, last
    <3>2. (first \o q) \o last = first \o (q \o last)
      BY <1>3, <3>1, JoinedInTwoWays, Zenon
    <3> QED BY <3>2 DEF first, last
  <2>13. (cd \o gap) \o (q \o (gap \o (amps \o (gap \o x))))
           = cd \o (gap \o (q \o (gap \o (amps \o (gap \o x)))))
    <3> DEFINE last == q \o (gap \o (amps \o (gap \o x)))
    <3>1. cd \in Seq(Char) /\ gap \in Seq(Char) /\ last \in Seq(Char)
      BY <1>1, <2>2, <2>9
    <3> HIDE DEF last
    <3>2. (cd \o gap) \o last = cd \o (gap \o last)
      BY <3>1, JoinedInTwoWays
    <3> QED BY <3>2 DEF last
  <2>14. RemoteScript = Then(cd, Then(q, Then(amps, x)))
    BY <2>4, <2>5, <2>10, <2>11, <2>12, <2>13
  <2> QED BY <2>14 DEF x
<1>6. dir \in Seq(Char)
  OBVIOUS
<1> HIDE DEF cd, dir, q, amps, none, one, two, three
<1>7. Then(amps, Command) \in Seq(Char) /\ Read(Blank(two), Then(amps, Command)) = Read(Blank(three), Command)
  BY <1>1, <1>2, <1>4, NextWordIsRead DEF three
<1>8. /\ Then(q, Then(amps, Command)) \in Seq(Char)
      /\ Read(Blank(one), Then(q, Then(amps, Command))) = Read(Blank(two), Then(amps, Command))
  BY <1>2, <1>3, <1>6, <1>7, NextWordIsRead DEF two
<1>9. /\ Then(cd, Then(q, Then(amps, Command))) \in Seq(Char)
      /\ Read(Blank(none), Then(cd, Then(q, Then(amps, Command))))
           = Read(Blank(one), Then(q, Then(amps, Command)))
  BY <1>1, <1>2, <1>4, <1>8, NextWordIsRead DEF one
<1>10. Words(RemoteScript) = Append(three, Command)
  BY <1>4, <1>5, <1>7, <1>8, <1>9, WordsOf DEF none
<1>11. Len(one) = 1 /\ Len(two) = 2 /\ Len(three) = 3
  BY <1>1, <1>2, <1>6 DEF none, one, two, three
<1>12. two[2] = dir
  BY <1>2, <1>6, <1>11 DEF two
<1>13. three[2] = two[2]
  BY <1>1, <1>2, <1>11 DEF three
<1>14. Append(three, Command)[2] = three[2]
  <2>1. Len(three) >= 2
    BY <1>11
  <2> QED BY <1>1, <1>2, <2>1, SecondOfMore
<1>15. Words(RemoteScript)[2] = req.dir
  BY <1>10, <1>12, <1>13, <1>14 DEF dir
<1> QED BY <1>5, <1>9, <1>15

LEMMA TargetIsDirectory ==
  ASSUME req.dir \in Dirs
  PROVE  CdTarget = req.dir
<1>1. req.dir \in Seq(Char)
  <2>1. req.dir \in Seq(STRING) /\ STRING \subseteq Char
    BY DirAssumption DEF Char
  <2> QED BY <2>1, SeqMonotonic
<1> QED BY <1>1, DirectoryArrives, ScriptArrives DEF CdTarget

(* Whatever characters the name of its directory has, every line runs in   *)
(* that directory, on a worker host through the quoting for two shells;    *)
(* only on a host without the directory do later lines run at home.        *)
THEOREM LinesRunInTheirDirectory == Spec => []RunsInItsDirectory
<1> DEFINE Inv == HostInv /\ RunsInItsDirectory
<1>1. Init => RunsInItsDirectory
  BY DEF Init, RunsInItsDirectory
<1>2. HostInv /\ RunsInItsDirectory /\ [Next]_vars => RunsInItsDirectory'
  <2> SUFFICES ASSUME HostInv, RunsInItsDirectory, [Next]_vars PROVE RunsInItsDirectory'
    OBVIOUS
  <2>1. req' = req /\ Remote' = Remote /\ Home' = Home
    <3>1. req' = req
      BY DEF Next, vars, Start, ChangeDir, RunLine, HolderEnds, ShellExits, ConnectionLost, Deadline, Kill, Finish
    <3> QED BY <3>1, RequestStays DEF Home
  <2>2. CASE ran' = ran
    BY <2>1, <2>2 DEF RunsInItsDirectory
  <2>3. CASE RunLine
    <3>1. req.dir \in Dirs /\ ran \in Seq(Places)
      BY DEF HostInv, HostType
    <3>2. CdTarget = req.dir
      BY <3>1, TargetIsDirectory
    <3>3. PICK d : ran' = Append(ran, d) /\ (d = req.dir \/ (Remote /\ ~req.there /\ d = Home)) /\ d \in Places
      BY <2>3, <3>2 DEF RunLine, Places
    <3>4. ASSUME NEW i \in DOMAIN ran' PROVE ran'[i] = d \/ (i \in DOMAIN ran /\ ran'[i] = ran[i])
      BY <3>1, <3>3, AppendProperties
    <3> QED BY <2>1, <3>3, <3>4 DEF RunsInItsDirectory
  <2>4. ran' = ran \/ RunLine
    BY DEF Next, vars, Start, ChangeDir, HolderEnds, ShellExits, ConnectionLost, Deadline, Kill, Finish
  <2> QED BY <2>2, <2>3, <2>4
<1> QED BY <1>1, <1>2, HostInvHolds, PTL DEF Spec
=============================================================================
