--------------------------- MODULE LinearProofs ---------------------------
(***************************************************************************)
(* Proofs about the two sides that talk to Linear.  First a session, its   *)
(* server and its tool calls, for any number of turns, requests and lines  *)
(* on their way.  The session and the server pass one request at a time    *)
(* back and forth, so that what is left of a turn when it ends is known;   *)
(* and a request of the server is in one place: a line of either pipe or   *)
(* the tool handler.                                                       *)
(*                                                                         *)
(* Then the reader, for every set of issues, page size and list of ids,    *)
(* while issues change between two requests: the pages behind the cursor   *)
(* and the batches not asked for yet are the parts an answer still lacks.  *)
(***************************************************************************)
EXTENDS LinearTool, LinearReader, LoopTheorems, SequenceTheorems, FiniteSetTheorems, TLAPS

Kind == {"request", "answer", "response", "error", "notice", "completed", "failed", "eof",
         "approval", "input", "tool"}
Line == [kind : Kind, id : Nat]

(* What is asked of lines on their way: the ids of those of some kinds,    *)
(* that there is one of them, or one of each id, and their order.          *)
Ids(s, K) == {s[n].id : n \in {m \in 1 .. Len(s) : s[m].kind \in K}}
AtMostOne(s, K) ==
  \A m, n \in 1 .. Len(s) : s[m].kind \in K /\ s[n].kind \in K => m = n
EachOnce(s, K) ==
  \A m, n \in 1 .. Len(s) : s[m].kind \in K /\ s[n].kind \in K /\ s[m].id = s[n].id => m = n
Follow(s, K, L) ==
  \A n \in 1 .. Len(s) : s[n].kind \in K => \E m \in 1 .. Len(s) : m < n /\ s[m].kind \in L
(* A line of the kinds K is about one of E as long as none of L is before. *)
Parted(s, K, L, E) ==
  \A n \in 1 .. Len(s) :
    s[n].kind \in K =>
      (s[n].id \in E <=> \A m \in 1 .. Len(s) : s[m].kind \in L => n <= m)

LEMMA AppendLine ==
  ASSUME NEW s \in Seq(Line), NEW e \in Line, NEW K
  PROVE  LET t == Append(s, e)
         IN  /\ t \in Seq(Line)
             /\ Ids(t, K) = IF e.kind \in K THEN Ids(s, K) \cup {e.id} ELSE Ids(s, K)
             /\ AtMostOne(s, K) /\ (e.kind \in K => Ids(s, K) = {}) => AtMostOne(t, K)
             /\ EachOnce(s, K) /\ (e.kind \in K => e.id \notin Ids(s, K)) => EachOnce(t, K)
             /\ \A L : Follow(s, K, L) /\ (e.kind \in K => Ids(s, L) # {}) => Follow(t, K, L)
<1> DEFINE t == Append(s, e)
<1>1. /\ t \in Seq(Line) /\ Len(s) \in Nat /\ Len(t) = Len(s) + 1
      /\ \A n \in 1 .. Len(s) : t[n] = s[n]
      /\ t[Len(s) + 1] = e
  BY AppendProperties, LenProperties
<1> HIDE DEF t
<1>2. Ids(t, K) = IF e.kind \in K THEN Ids(s, K) \cup {e.id} ELSE Ids(s, K)
  BY <1>1 DEF Ids
<1>3. AtMostOne(s, K) /\ (e.kind \in K => Ids(s, K) = {}) => AtMostOne(t, K)
  <2>1. Ids(s, K) = {} => \A n \in 1 .. Len(s) : s[n].kind \notin K
    BY DEF Ids
  <2> QED BY <1>1, <2>1 DEF AtMostOne
<1>4. EachOnce(s, K) /\ (e.kind \in K => e.id \notin Ids(s, K)) => EachOnce(t, K)
  <2>1. \A n \in 1 .. Len(s) : s[n].kind \in K => s[n].id \in Ids(s, K)
    BY DEF Ids
  <2> QED BY <1>1, <2>1 DEF EachOnce
<1>5. ASSUME NEW L
      PROVE  Follow(s, K, L) /\ (e.kind \in K => Ids(s, L) # {}) => Follow(t, K, L)
  BY <1>1 DEF Follow, Ids
<1> QED BY <1>1, <1>2, <1>3, <1>4, <1>5 DEF t

LEMMA TailLine ==
  ASSUME NEW s \in Seq(Line), s # <<>>, NEW K
  PROVE  LET t == Tail(s)
             e == Head(s)
         IN  /\ t \in Seq(Line) /\ e \in Line
             /\ Ids(t, K) \subseteq Ids(s, K)
             /\ Ids(s, K) = IF e.kind \in K THEN Ids(t, K) \cup {e.id} ELSE Ids(t, K)
             /\ AtMostOne(s, K) => AtMostOne(t, K) /\ (e.kind \in K => Ids(t, K) = {})
             /\ EachOnce(s, K) => EachOnce(t, K) /\ (e.kind \in K => e.id \notin Ids(t, K))
             /\ \A L : Follow(s, K, L) => e.kind \notin K /\ (e.kind \notin L => Follow(t, K, L))
<1> DEFINE t == Tail(s)
           e == Head(s)
<1>1. /\ t \in Seq(Line) /\ e \in Line /\ Len(s) \in Nat \ {0} /\ Len(t) = Len(s) - 1
      /\ \A n \in 1 .. Len(t) : t[n] = s[n + 1]
      /\ e = s[1]
  BY HeadTailProperties, LenProperties, EmptySeq
<1> HIDE DEF t, e
<1>2. Ids(s, K) = IF e.kind \in K THEN Ids(t, K) \cup {e.id} ELSE Ids(t, K)
  <2>1. \A n \in 1 .. Len(s) : n = 1 \/ (n - 1 \in 1 .. Len(t) /\ t[n - 1] = s[n])
    BY <1>1
  <2>2. \A n \in 1 .. Len(t) : n + 1 \in 1 .. Len(s)
    BY <1>1
  <2>3. 1 \in 1 .. Len(s)
    BY <1>1
  <2>4. Ids(s, K) \subseteq Ids(t, K) \cup (IF e.kind \in K THEN {e.id} ELSE {})
    BY <1>1, <2>1 DEF Ids
  <2>5. Ids(t, K) \subseteq Ids(s, K)
    BY <1>1, <2>2 DEF Ids
  <2>6. (IF e.kind \in K THEN {e.id} ELSE {}) \subseteq Ids(s, K)
    BY <1>1, <2>3 DEF Ids
  <2> QED BY <2>4, <2>5, <2>6
<1>shift. \A n \in 1 .. Len(t) : n + 1 \in 1 .. Len(s) /\ n + 1 # 1 /\ t[n] = s[n + 1]
  BY <1>1
<1>first. 1 \in 1 .. Len(s)
  BY <1>1
<1>apart. \A m, n \in 1 .. Len(t) : m + 1 = n + 1 => m = n
  BY <1>1
<1>3. AtMostOne(s, K) => AtMostOne(t, K) /\ (e.kind \in K => Ids(t, K) = {})
  <2> SUFFICES ASSUME AtMostOne(s, K) PROVE AtMostOne(t, K) /\ (e.kind \in K => Ids(t, K) = {})
    OBVIOUS
  <2>1. AtMostOne(t, K)
    BY <1>shift, <1>apart DEF AtMostOne
  <2>2. ASSUME e.kind \in K, NEW n \in 1 .. Len(t) PROVE t[n].kind \notin K
    BY <1>1, <1>shift, <1>first, <2>2 DEF AtMostOne
  <2> QED BY <2>1, <2>2 DEF Ids
<1>4. EachOnce(s, K) => EachOnce(t, K) /\ (e.kind \in K => e.id \notin Ids(t, K))
  <2> SUFFICES ASSUME EachOnce(s, K)
               PROVE  EachOnce(t, K) /\ (e.kind \in K => e.id \notin Ids(t, K))
    OBVIOUS
  <2>1. EachOnce(t, K)
    BY <1>shift, <1>apart DEF EachOnce
  <2>2. ASSUME e.kind \in K, NEW n \in 1 .. Len(t), t[n].kind \in K PROVE t[n].id # e.id
    BY <1>1, <1>shift, <1>first, <2>2 DEF EachOnce
  <2> QED BY <2>1, <2>2 DEF Ids
<1>5. \A L : Follow(s, K, L) => e.kind \notin K
  BY <1>1 DEF Follow
<1>6. \A L : Follow(s, K, L) /\ e.kind \notin L => Follow(t, K, L)
  <2> SUFFICES ASSUME NEW L, Follow(s, K, L), e.kind \notin L, NEW n \in 1 .. Len(t), t[n].kind \in K
               PROVE  \E m \in 1 .. Len(t) : m < n /\ t[m].kind \in L
    BY DEF Follow
  <2>1. PICK m \in 1 .. Len(s) : m < n + 1 /\ s[m].kind \in L
    BY <1>1 DEF Follow
  <2>2. m - 1 \in 1 .. Len(t) /\ m - 1 < n /\ t[m - 1] = s[m]
    BY <1>1, <2>1
  <2> QED BY <2>1, <2>2
<1> QED BY <1>1, <1>2, <1>3, <1>4, <1>5, <1>6 DEF t, e

(* The lines that are left by the end of the process.                      *)
LEMMA CutLine ==
  ASSUME NEW s \in Seq(Line), NEW k \in 0 .. Len(s), NEW K, "eof" \notin K
  PROVE  LET t == Append(SubSeq(s, 1, k), Eof)
         IN  /\ t \in Seq(Line)
             /\ Ids(t, K) \subseteq Ids(s, K)
             /\ AtMostOne(s, K) => AtMostOne(t, K)
             /\ EachOnce(s, K) => EachOnce(t, K)
             /\ \A L : Follow(s, K, L) => Follow(t, K, L)
<1> DEFINE p == SubSeq(s, 1, k)
           t == Append(p, Eof)
<1>1. Eof \in Line /\ Eof.kind = "eof"
  BY DEF Eof, Msg, Line, Kind
<1>2. Len(s) \in Nat /\ k \in Nat /\ k <= Len(s)
  BY LenProperties
<1>3. p \in Seq(Line) /\ Len(p) = k /\ \A n \in 1 .. k : p[n] = s[n]
  BY <1>2, SubSeqProperties
<1> HIDE DEF p
<1>4. /\ t \in Seq(Line) /\ Len(t) = k + 1
      /\ \A n \in 1 .. k : t[n] = s[n]
      /\ t[k + 1] = Eof
  BY <1>1, <1>3, AppendProperties
<1> HIDE DEF t
<1>5. \A n \in 1 .. Len(t) : t[n].kind \in K => n \in 1 .. k /\ n \in 1 .. Len(s) /\ t[n] = s[n]
  BY <1>1, <1>2, <1>4
<1>6. Ids(t, K) \subseteq Ids(s, K)
  BY <1>5 DEF Ids
<1>7. AtMostOne(s, K) => AtMostOne(t, K)
  BY <1>5 DEF AtMostOne
<1>8. EachOnce(s, K) => EachOnce(t, K)
  BY <1>5 DEF EachOnce
<1>9. \A L : Follow(s, K, L) => Follow(t, K, L)
  <2> SUFFICES ASSUME NEW L, Follow(s, K, L), NEW n \in 1 .. Len(t), t[n].kind \in K
               PROVE  \E m \in 1 .. Len(t) : m < n /\ t[m].kind \in L
    BY DEF Follow
  <2>1. PICK m \in 1 .. Len(s) : m < n /\ s[m].kind \in L
    BY <1>5 DEF Follow
  <2>2. m \in 1 .. k /\ m \in 1 .. Len(t) /\ t[m] = s[m]
    BY <1>2, <1>4, <1>5, <2>1
  <2> QED BY <2>1, <2>2
<1> QED BY <1>4, <1>6, <1>7, <1>8, <1>9 DEF t, p

(* A line at the end, of one of K before there is any of L if it is of E.  *)
LEMMA AppendParted ==
  ASSUME NEW s \in Seq(Line), NEW e \in Line, NEW K, NEW L, NEW E, Parted(s, K, L, E),
         e.kind \in K => e.kind \notin L /\ (e.id \in E <=> Ids(s, L) = {})
  PROVE  Parted(Append(s, e), K, L, E)
<1> DEFINE t == Append(s, e)
<1>1. /\ Len(s) \in Nat /\ Len(t) = Len(s) + 1
      /\ \A n \in 1 .. Len(s) : t[n] = s[n]
      /\ t[Len(s) + 1] = e
  BY AppendProperties, LenProperties
<1> HIDE DEF t
<1>2. \A n \in 1 .. Len(t) : n \in 1 .. Len(s) \/ n = Len(s) + 1
  BY <1>1
<1>3. ASSUME NEW n \in 1 .. Len(s)
      PROVE  (\A m \in 1 .. Len(t) : t[m].kind \in L => n <= m)
               <=> (\A m \in 1 .. Len(s) : s[m].kind \in L => n <= m)
  BY <1>1, <1>2
<1>4. ASSUME e.kind \in K
      PROVE  (\A m \in 1 .. Len(t) : t[m].kind \in L => Len(s) + 1 <= m) <=> Ids(s, L) = {}
  <2>1. Ids(s, L) = {} <=> \A m \in 1 .. Len(s) : s[m].kind \notin L
    BY DEF Ids
  <2>2. \A m \in 1 .. Len(s) : ~(Len(s) + 1 <= m) /\ m \in 1 .. Len(t)
    BY <1>1
  <2> QED BY <1>1, <1>2, <1>4, <2>1, <2>2
<1>5. ASSUME NEW n \in 1 .. Len(t), t[n].kind \in K
      PROVE  t[n].id \in E <=> \A m \in 1 .. Len(t) : t[m].kind \in L => n <= m
  <2>1. CASE n \in 1 .. Len(s)
    BY <1>1, <1>3, <1>5, <2>1 DEF Parted
  <2>2. CASE n = Len(s) + 1
    BY <1>1, <1>4, <1>5, <2>2
  <2> QED BY <1>2, <2>1, <2>2
<1> QED BY <1>5 DEF Parted, t

(* The first line goes.  As long as it is not of L the rest is parted as   *)
(* before; behind one of L is nothing about E.                             *)
LEMMA TailParted ==
  ASSUME NEW s \in Seq(Line), s # <<>>, NEW K, NEW L, NEW E, Parted(s, K, L, E)
  PROVE  /\ Head(s).kind \in K => Head(s).id \in E
         /\ Head(s).kind \notin L => Parted(Tail(s), K, L, E)
         /\ Head(s).kind \in L => Ids(Tail(s), K) \cap E = {}
<1> DEFINE t == Tail(s)
           e == Head(s)
<1>1. /\ Len(s) \in Nat \ {0} /\ Len(t) = Len(s) - 1
      /\ \A n \in 1 .. Len(t) : t[n] = s[n + 1]
      /\ e = s[1]
  BY HeadTailProperties, LenProperties, EmptySeq
<1> HIDE DEF t, e
<1>2. \A n \in 1 .. Len(t) : n + 1 \in 1 .. Len(s)
  BY <1>1
<1>3. \A n \in 1 .. Len(s) : n = 1 \/ (n - 1 \in 1 .. Len(t) /\ t[n - 1] = s[n])
  BY <1>1
<1>4. 1 \in 1 .. Len(s) /\ \A m \in 1 .. Len(s) : 1 <= m
  BY <1>1
<1>5. e.kind \in K => e.id \in E
  BY <1>1, <1>4 DEF Parted
<1>6. ASSUME e.kind \notin L, NEW n \in 1 .. Len(t), t[n].kind \in K
      PROVE  t[n].id \in E <=> \A m \in 1 .. Len(t) : t[m].kind \in L => n <= m
  <2>1. t[n].id \in E <=> \A m \in 1 .. Len(s) : s[m].kind \in L => n + 1 <= m
    BY <1>1, <1>2, <1>6 DEF Parted
  <2>2. (\A m \in 1 .. Len(s) : s[m].kind \in L => n + 1 <= m)
          => \A m \in 1 .. Len(t) : t[m].kind \in L => n <= m
    <3> SUFFICES ASSUME \A m \in 1 .. Len(s) : s[m].kind \in L => n + 1 <= m,
                        NEW m \in 1 .. Len(t), t[m].kind \in L
                 PROVE  n <= m
      OBVIOUS
    <3>1. n + 1 <= m + 1
      BY <1>1, <1>2
    <3> QED BY <3>1
  <2>3. (\A m \in 1 .. Len(t) : t[m].kind \in L => n <= m)
          => \A m \in 1 .. Len(s) : s[m].kind \in L => n + 1 <= m
    <3> SUFFICES ASSUME \A m \in 1 .. Len(t) : t[m].kind \in L => n <= m,
                        NEW m \in 1 .. Len(s), s[m].kind \in L
                 PROVE  n + 1 <= m
      OBVIOUS
    <3>1. m # 1
      BY <1>1, <1>6
    <3>2. n <= m - 1
      BY <1>3, <3>1
    <3> QED BY <3>2
  <2> QED BY <2>1, <2>2, <2>3
<1>7. ASSUME e.kind \in L, NEW n \in 1 .. Len(t), t[n].kind \in K
      PROVE  t[n].id \notin E
  <2>1. s[1].kind \in L /\ ~(n + 1 <= 1) /\ n + 1 \in 1 .. Len(s) /\ s[n + 1] = t[n]
    BY <1>1, <1>2, <1>7
  <2> QED BY <1>4, <1>7, <2>1 DEF Parted
<1> QED BY <1>5, <1>6, <1>7 DEF Parted, Ids, t, e

LEMMA CutParted ==
  ASSUME NEW s \in Seq(Line), NEW k \in 0 .. Len(s), NEW K, NEW L, NEW E, Parted(s, K, L, E),
         "eof" \notin K, "eof" \notin L
  PROVE  Parted(Append(SubSeq(s, 1, k), Eof), K, L, E)
<1> DEFINE p == SubSeq(s, 1, k)
           t == Append(p, Eof)
<1>1. Eof \in Line /\ Eof.kind = "eof"
  BY DEF Eof, Msg, Line, Kind
<1>2. Len(s) \in Nat /\ k \in Nat /\ k <= Len(s)
  BY LenProperties
<1>3. p \in Seq(Line) /\ Len(p) = k /\ \A n \in 1 .. k : p[n] = s[n]
  BY <1>2, SubSeqProperties
<1> HIDE DEF p
<1>4. /\ Len(t) = k + 1
      /\ \A n \in 1 .. k : t[n] = s[n]
      /\ t[k + 1] = Eof
  BY <1>1, <1>3, AppendProperties
<1> HIDE DEF t
<1>5. \A n \in 1 .. Len(t) :
        t[n].kind \in K \cup L => n \in 1 .. k /\ n \in 1 .. Len(s) /\ t[n] = s[n]
  BY <1>1, <1>2, <1>4
<1>6. ASSUME NEW n \in 1 .. Len(t), t[n].kind \in K
      PROVE  t[n].id \in E <=> \A m \in 1 .. Len(t) : t[m].kind \in L => n <= m
  <2>1. n \in 1 .. k /\ n \in 1 .. Len(s) /\ t[n] = s[n]
    BY <1>5, <1>6
  <2>2. t[n].id \in E <=> \A m \in 1 .. Len(s) : s[m].kind \in L => n <= m
    BY <1>6, <2>1 DEF Parted
  <2>3. \A m \in 1 .. Len(s) : (m \in 1 .. Len(t) /\ t[m] = s[m]) \/ n <= m
    BY <1>2, <1>4, <2>1
  <2> QED BY <1>5, <2>2, <2>3
<1> QED BY <1>6 DEF Parted, t, p

-----------------------------------------------------------------------------
(* The steps of a session, its tool handler and its server.                *)

SessionNext == Session \/ ToolReturns \/ Server \/ UNCHANGED vars

LEMMA ToolStepsAreSessionSteps == [ToolNext]_toolVars => SessionNext
BY DEF ToolNext, toolVars, ServerSteps, Rejects, EndedBefore, Handled, Answers, Sends, Breaks,
       Replies, Over, SessionNext

(* What a session leaves behind is gone, however the session ended.        *)
ProcessInv ==
  /\ phase = "new" => proc = "none"
  /\ NoOrphanProcess

LEMMA ProcessKept == FairToolSpec => []ProcessInv
<1>1. ToolInit => ProcessInv
  BY DEF ToolInit, Init, ProcessInv, NoOrphanProcess
<1>2. ProcessInv /\ [ToolNext]_toolVars => ProcessInv'
  <2> SUFFICES ASSUME ProcessInv, SessionNext PROVE ProcessInv'
    BY ToolStepsAreSessionSteps
  <2>1. CASE Session
    BY <2>1 DEF ProcessInv, NoOrphanProcess, Session, StartSession, Refused, RunTurn, Send, Fail,
                LeaveLoop, AwaitResponse, Stream, Reads, TurnEnds, HandleAsk, AnswerWith,
                CannotAnswer, Deadline, ReadGivesUp, WriteGoesThrough, WriteBreaks, Cancel, Exit,
                CloseByStop, Close, Reap, client, Awaiting
  <2>2. CASE ToolReturns
    BY <2>2 DEF ProcessInv, NoOrphanProcess, ToolReturns, AnswerWith, Fail
  <2>3. CASE Server \/ UNCHANGED vars
    BY <2>3 DEF ProcessInv, NoOrphanProcess, Server, ServerStep, ServerReads, ServerResponds,
                ServerAsks, ServerNotifies, ServerEndsTurn, client, vars
  <2> QED BY <2>1, <2>2, <2>3 DEF SessionNext
<1> QED BY <1>1, <1>2, PTL DEF FairToolSpec

(* The process of a session is gone when the session is over, however the  *)
(* bootstrap or a turn has failed (session.go:289, runtime.go:532).        *)
THEOREM NoProcessIsOrphaned == FairToolSpec => []NoOrphanProcess
BY ProcessKept, PTL DEF ProcessInv

-----------------------------------------------------------------------------

ReqLine == {"request"}
AnsLine == {"answer"}
OddLine == Kind \ {"request", "answer"}
OkLine == {"response"}
RepLine == {"response", "error"}
EndLine == {"completed", "failed"}

Phases == {"new", "init", "thread", "idle", "start", "stream", "tool", "closing", "over"}

(* What the session has written, the line of a blocked write included, and *)
(* what it can be doing while a write is blocked.                          *)
Pipe == outbox \o writing
Writing == {"init", "thread", "start", "stream"}

SessionType ==
  /\ phase \in Phases
  /\ turn \in Nat /\ call \in Nat
  /\ outbox \in Seq(Line) /\ writing \in Seq(Line) /\ inbox \in Seq(Line)
  /\ phase \notin Writing => writing = <<>>
  /\ Ids(Pipe, OddLine) = {}
  /\ owed \in Nat /\ active \in Nat /\ done \in Nat
  /\ asked \subseteq Request

(* No request of the session is on its way or waits for its response ...   *)
NoneSent == Ids(Pipe, ReqLine) = {} /\ owed = 0
NonePending == NoneSent /\ Ids(inbox, RepLine) = {}

(* ... or at most one is.                                                  *)
OnePending(id) ==
  /\ AtMostOne(Pipe, ReqLine) /\ AtMostOne(inbox, RepLine)
  /\ Ids(Pipe, ReqLine) \subseteq {id} /\ owed \in {0, id}
  /\ Ids(inbox, RepLine) \subseteq {id}
  /\ Ids(Pipe, ReqLine) # {} => owed = 0 /\ Ids(inbox, RepLine) = {}
  /\ owed # 0 => Ids(inbox, RepLine) = {}

(* The server works on the turn, or has ended it and says so once.         *)
AtTurn ==
  /\ turn > 0
  /\ AtMostOne(inbox, EndLine)
  /\ \/ active = turn /\ done = turn - 1 /\ Ids(inbox, EndLine) = {}
     \/ active = 0 /\ done = turn
(* It does not know of the turn yet, or has refused it.                    *)
BeforeTurn ==
  /\ turn > 0 /\ active = 0 /\ done = turn - 1
  /\ Ids(inbox, EndLine) = {} /\ Ids(inbox, OkLine) = {}

TurnInv ==
  /\ phase = "new" => inbox = <<>> /\ NonePending
  /\ phase \in {"new", "init", "thread"} =>
       turn = 0 /\ done = 0 /\ active = 0 /\ Ids(inbox, EndLine) = {}
  /\ phase = "init" => OnePending(initializeID)
  /\ phase = "thread" => OnePending(threadStartID)
  /\ phase = "idle" =>
       /\ NonePending
       /\ done = turn /\ active = 0 /\ Ids(inbox, EndLine) = {}
       /\ turn > 0 => outcome = "completed"
  /\ phase = "start" =>
       /\ OnePending(turnStartID)
       /\ BeforeTurn \/ (AtTurn /\ NoneSent)
       /\ Follow(inbox, EndLine, OkLine)
       /\ active # 0 /\ proc = "running" => Ids(inbox, OkLine) # {}
  /\ phase \in {"stream", "tool"} => NonePending /\ AtTurn

SessionInv == SessionType /\ TurnInv

(* Every request of the server has one place, if it has any.  Those it     *)
(* made before it has answered turn/start come before the answer, the      *)
(* others behind it; only the others get to the turn.                      *)
AskInv ==
  /\ EachOnce(inbox, Asks) /\ EachOnce(Pipe, AnsLine)
  /\ early \subseteq asked
  /\ Ids(inbox, Asks) \subseteq asked /\ Ids(Pipe, AnsLine) \subseteq asked \ early
  /\ Ids(inbox, Asks) \cap Ids(Pipe, AnsLine) = {}
  /\ phase = "tool" => call \in (asked \ early) \ (Ids(inbox, Asks) \cup Ids(Pipe, AnsLine))
  /\ active = 0 => asked \subseteq early
  /\ phase \in {"new", "init", "thread", "idle"} => Ids(inbox, Asks) = {}
  /\ phase = "start" => Parted(inbox, Asks, OkLine, early)
  /\ phase \in {"stream", "tool"} => Ids(inbox, Asks) \cap early = {}

LEMMA MsgIsLine ==
  ASSUME NEW k \in Kind, NEW n \in Nat
  PROVE  Msg(k, n) \in Line /\ Msg(k, n).kind = k /\ Msg(k, n).id = n
BY DEF Msg, Line

LEMMA EmptyLines ==
  ASSUME NEW K, NEW L
  PROVE  /\ <<>> \in Seq(Line) /\ Ids(<<>>, K) = {}
         /\ AtMostOne(<<>>, K) /\ EachOnce(<<>>, K) /\ Follow(<<>>, K, L)
BY EmptySeq DEF Ids, AtMostOne, EachOnce, Follow

LEMMA NoneIsAtMostOne ==
  ASSUME NEW s, NEW K, Ids(s, K) = {}
  PROVE  AtMostOne(s, K)
BY DEF Ids, AtMostOne

(* Writing puts a line at the end of the pipe, which stays as it is when   *)
(* the write gets on; the server reads at its head.                        *)
LEMMA LineWritten ==
  ASSUME SessionType, writing = <<>>, NEW line \in Line, Write(line)
  PROVE  Pipe' = Append(Pipe, line) /\ outbox' \in Seq(Line) /\ writing' \in Seq(Line)
<1>1. outbox \in Seq(Line) /\ Pipe = outbox
  BY ConcatEmptySeq DEF SessionType, Pipe
<1>2. Append(outbox, line) \in Seq(Line) /\ Append(outbox, line) = outbox \o <<line>>
      /\ <<line>> \in Seq(Line) /\ <<>> \in Seq(Line)
  BY <1>1, AppendProperties, AppendIsConcat, EmptyLines
<1>3. CASE outbox' = Append(outbox, line) /\ UNCHANGED writing
  <2>1. Pipe' = outbox'
    BY <1>2, <1>3, ConcatEmptySeq DEF Pipe
  <2> QED BY <1>1, <1>2, <1>3, <2>1
<1>4. CASE writing' = <<line>> /\ UNCHANGED outbox
  BY <1>1, <1>2, <1>4 DEF Pipe
<1> QED BY <1>3, <1>4 DEF Write

LEMMA LineGoesThrough ==
  ASSUME SessionType, outbox' = outbox \o writing, writing' = <<>>
  PROVE  Pipe' = Pipe /\ outbox' \in Seq(Line)
BY ConcatProperties, ConcatEmptySeq DEF SessionType, Pipe

LEMMA LineRead ==
  ASSUME SessionType, outbox # <<>>, outbox' = Tail(outbox), UNCHANGED writing
  PROVE  /\ Pipe \in Seq(Line) /\ Pipe # <<>> /\ Head(Pipe) = Head(outbox)
         /\ Pipe' = Tail(Pipe) /\ outbox' \in Seq(Line)
<1>1. outbox \in Seq(Line) /\ writing \in Seq(Line)
  BY DEF SessionType
<1>2. Pipe \in Seq(Line) /\ Len(Pipe) = Len(outbox) + Len(writing)
      /\ \A n \in 1 .. Len(outbox) + Len(writing) :
           Pipe[n] = IF n <= Len(outbox) THEN outbox[n] ELSE writing[n - Len(outbox)]
  BY <1>1, ConcatProperties DEF Pipe
<1>3. Len(outbox) \in Nat \ {0} /\ Len(writing) \in Nat
  BY <1>1, LenProperties, EmptySeq
<1>4. Pipe # <<>> /\ Head(Pipe) = Pipe[1] /\ Head(outbox) = outbox[1]
  BY <1>1, <1>2, <1>3, HeadTailProperties, EmptySeq
<1>5. outbox' \in Seq(Line) /\ Len(outbox') = Len(outbox) - 1
      /\ \A n \in 1 .. Len(outbox) - 1 : outbox'[n] = outbox[n + 1]
  BY <1>1, <1>3, HeadTailProperties
<1>6. Tail(Pipe) \in Seq(Line) /\ Len(Tail(Pipe)) = Len(Pipe) - 1
      /\ \A n \in 1 .. Len(Pipe) - 1 : Tail(Pipe)[n] = Pipe[n + 1]
  BY <1>2, <1>4, HeadTailProperties
<1>7. Pipe' \in Seq(Line) /\ Len(Pipe') = Len(outbox') + Len(writing)
      /\ \A n \in 1 .. Len(outbox') + Len(writing) :
           Pipe'[n] = IF n <= Len(outbox') THEN outbox'[n] ELSE writing[n - Len(outbox')]
  <2>1. Pipe' = outbox' \o writing
    BY DEF Pipe
  <2> QED BY <1>1, <1>5, <2>1, ConcatProperties
<1>8. Len(Pipe') = Len(Tail(Pipe))
  BY <1>2, <1>3, <1>5, <1>6, <1>7
<1>9. ASSUME NEW n \in 1 .. Len(Pipe')
      PROVE  Pipe'[n] = Tail(Pipe)[n]
  <2>1. n \in 1 .. Len(Pipe) - 1 /\ n + 1 \in 1 .. Len(outbox) + Len(writing)
    BY <1>2, <1>3, <1>5, <1>7
  <2>2. CASE n <= Len(outbox) - 1
    BY <1>2, <1>3, <1>5, <1>6, <1>7, <2>1, <2>2
  <2>3. CASE ~(n <= Len(outbox) - 1)
    <3>1. n - Len(outbox') = (n + 1) - Len(outbox) /\ ~(n <= Len(outbox')) /\ ~(n + 1 <= Len(outbox))
      BY <1>3, <1>5, <2>1, <2>3
    <3> QED BY <1>2, <1>6, <1>7, <2>1, <3>1
  <2> QED BY <2>2, <2>3
<1>10. Pipe' = Tail(Pipe)
  BY <1>6, <1>7, <1>8, <1>9, SeqEqual
<1> QED BY <1>2, <1>3, <1>4, <1>5, <1>10

(* A write that is given up takes its line away.                           *)
LEMMA LineDropped ==
  ASSUME SessionType, UNCHANGED outbox, writing' \in {writing, <<>>}, NEW K
  PROVE  Ids(Pipe', K) \subseteq Ids(Pipe, K) /\ (EachOnce(Pipe, K) => EachOnce(Pipe', K))
<1>1. outbox \in Seq(Line) /\ writing \in Seq(Line)
  BY DEF SessionType
<1>2. CASE writing' = writing
  BY <1>2 DEF Pipe
<1>3. CASE writing' = <<>>
  <2>1. Pipe' = outbox
    BY <1>1, <1>3, ConcatEmptySeq DEF Pipe
  <2>2. Len(outbox) \in Nat /\ Len(writing) \in Nat
    BY <1>1, LenProperties
  <2>3. Len(Pipe) = Len(outbox) + Len(writing)
        /\ \A n \in 1 .. Len(outbox) + Len(writing) :
             Pipe[n] = IF n <= Len(outbox) THEN outbox[n] ELSE writing[n - Len(outbox)]
    BY <1>1, ConcatProperties DEF Pipe
  <2>4. \A n \in 1 .. Len(outbox) : n \in 1 .. Len(Pipe) /\ Pipe[n] = outbox[n]
    BY <2>2, <2>3
  <2> QED BY <2>1, <2>4 DEF Ids, EachOnce
<1> QED BY <1>2, <1>3

LEMMA SessionStart == Init => SessionInv /\ AskInv
<1> SUFFICES ASSUME Init PROVE SessionInv /\ AskInv
  OBVIOUS
<1>0. Pipe = <<>>
  BY EmptyLines, ConcatEmptySeq DEF Init, Pipe
<1>1. SessionType
  BY <1>0, EmptyLines DEF Init, SessionType, Phases
<1>2. NonePending
  BY <1>0, EmptyLines DEF Init, NonePending, NoneSent
<1>3. TurnInv
  BY <1>2, EmptyLines DEF Init, TurnInv
<1>4. AskInv
  BY <1>0, EmptyLines DEF Init, AskInv
<1> QED BY <1>1, <1>3, <1>4 DEF SessionInv

(* A session that leaves, by an error or at its end, owes nothing.         *)
LEMMA LeavingKeeps ==
  ASSUME SessionInv, AskInv, phase' \in {"closing", "over"},
         UNCHANGED <<turn, outbox, owed, active, done, asked, early>>, call' \in Nat,
         writing' = <<>>,
         \/ inbox' = inbox
         \/ inbox # <<>> /\ inbox' = Tail(inbox)
         \/ \E k \in 0 .. Len(inbox) : inbox' = Append(SubSeq(inbox, 1, k), Eof)
  PROVE  SessionInv' /\ AskInv'
<1>1. inbox \in Seq(Line)
  BY DEF SessionInv, SessionType
<1>2. inbox' \in Seq(Line) /\ Ids(inbox', Asks) \subseteq Ids(inbox, Asks)
      /\ (EachOnce(inbox, Asks) => EachOnce(inbox', Asks))
  <2>1. CASE inbox' = inbox
    BY <1>1, <2>1
  <2>2. CASE inbox # <<>> /\ inbox' = Tail(inbox)
    BY <1>1, <2>2, TailLine
  <2>3. CASE \E k \in 0 .. Len(inbox) : inbox' = Append(SubSeq(inbox, 1, k), Eof)
    <3>1. "eof" \notin Asks
      BY DEF Asks
    <3> QED BY <1>1, <2>3, <3>1, CutLine
  <2> QED BY <2>1, <2>2, <2>3
<1>pipe. Ids(Pipe', AnsLine) \subseteq Ids(Pipe, AnsLine) /\ Ids(Pipe', OddLine) \subseteq Ids(Pipe, OddLine)
         /\ (EachOnce(Pipe, AnsLine) => EachOnce(Pipe', AnsLine))
  BY LineDropped DEF SessionInv
<1>3. SessionType'
  <2>1. <<>> \in Seq(Line)
    BY EmptyLines
  <2> QED BY <1>2, <1>pipe, <2>1 DEF SessionInv, SessionType, Phases
<1>4. TurnInv'
  BY DEF TurnInv
<1>5. AskInv'
  BY <1>2, <1>pipe DEF AskInv
<1> QED BY <1>3, <1>4, <1>5 DEF SessionInv

(* A line that the session writes: a request, or an answer to what it has  *)
(* taken.                                                                  *)
LEMMA RequestWritten ==
  ASSUME SessionType, AskInv, writing = <<>>, NEW id \in Nat, Write(Msg("request", id))
  PROVE  /\ outbox' \in Seq(Line) /\ writing' \in Seq(Line) /\ Ids(Pipe', OddLine) = {}
         /\ Ids(Pipe', ReqLine) = Ids(Pipe, ReqLine) \cup {id}
         /\ Ids(Pipe, ReqLine) = {} => AtMostOne(Pipe', ReqLine)
         /\ Ids(Pipe', AnsLine) = Ids(Pipe, AnsLine) /\ EachOnce(Pipe', AnsLine)
<1> DEFINE line == Msg("request", id)
<1>1. line \in Line /\ line.kind = "request" /\ line.id = id
  BY MsgIsLine DEF Kind
<1>2. Pipe \in Seq(Line) /\ Ids(Pipe, OddLine) = {} /\ EachOnce(Pipe, AnsLine)
  BY ConcatProperties DEF SessionType, AskInv, Pipe
<1>3. line.kind \in ReqLine /\ line.kind \notin AnsLine /\ line.kind \notin OddLine
  BY <1>1 DEF ReqLine, AnsLine, OddLine
<1>4. Ids(Pipe, ReqLine) = {} => AtMostOne(Pipe, ReqLine)
  BY DEF Ids, AtMostOne
<1> HIDE DEF line
<1>5. Pipe' = Append(Pipe, line) /\ outbox' \in Seq(Line) /\ writing' \in Seq(Line)
  BY <1>1, LineWritten DEF line
<1>6. Ids(Pipe', ReqLine) = Ids(Pipe, ReqLine) \cup {id}
  BY <1>1, <1>2, <1>3, <1>5, AppendLine
<1>7. Ids(Pipe, ReqLine) = {} => AtMostOne(Pipe', ReqLine)
  BY <1>1, <1>2, <1>4, <1>5, AppendLine
<1>8. Ids(Pipe', AnsLine) = Ids(Pipe, AnsLine) /\ EachOnce(Pipe', AnsLine)
  BY <1>1, <1>2, <1>3, <1>5, AppendLine
<1>9. Ids(Pipe', OddLine) = {}
  BY <1>1, <1>2, <1>3, <1>5, AppendLine
<1> QED BY <1>5, <1>6, <1>7, <1>8, <1>9

LEMMA AnswerWritten ==
  ASSUME SessionType, AskInv, writing = <<>>, NEW id \in Nat, Write(Msg("answer", id))
  PROVE  /\ outbox' \in Seq(Line) /\ writing' \in Seq(Line) /\ Ids(Pipe', OddLine) = {}
         /\ Ids(Pipe', ReqLine) = Ids(Pipe, ReqLine)
         /\ Ids(Pipe', AnsLine) = Ids(Pipe, AnsLine) \cup {id}
         /\ id \notin Ids(Pipe, AnsLine) => EachOnce(Pipe', AnsLine)
<1> DEFINE line == Msg("answer", id)
<1>1. line \in Line /\ line.kind = "answer" /\ line.id = id
  BY MsgIsLine DEF Kind
<1>2. Pipe \in Seq(Line) /\ Ids(Pipe, OddLine) = {} /\ EachOnce(Pipe, AnsLine)
  BY ConcatProperties DEF SessionType, AskInv, Pipe
<1>3. line.kind \notin ReqLine /\ line.kind \in AnsLine /\ line.kind \notin OddLine
  BY <1>1 DEF ReqLine, AnsLine, OddLine
<1> HIDE DEF line
<1>4. Pipe' = Append(Pipe, line) /\ outbox' \in Seq(Line) /\ writing' \in Seq(Line)
  BY <1>1, LineWritten DEF line
<1>5. Ids(Pipe', ReqLine) = Ids(Pipe, ReqLine)
  BY <1>1, <1>2, <1>3, <1>4, AppendLine
<1>6. /\ Ids(Pipe', AnsLine) = Ids(Pipe, AnsLine) \cup {id}
      /\ id \notin Ids(Pipe, AnsLine) => EachOnce(Pipe', AnsLine)
  BY <1>1, <1>2, <1>3, <1>4, AppendLine
<1>7. Ids(Pipe', OddLine) = {}
  BY <1>1, <1>2, <1>3, <1>4, AppendLine
<1> QED BY <1>4, <1>5, <1>6, <1>7

LEMMA StartSessionKeeps ==
  ASSUME SessionInv, AskInv, StartSession
  PROVE  SessionInv' /\ AskInv'
<1>1. phase = "new" /\ writing = <<>> /\ NonePending
  BY DEF SessionInv, SessionType, TurnInv, StartSession, Writing
<1>2. CASE Refused
  <2>1. phase' = "over" /\ UNCHANGED <<turn, call, writing, outbox, inbox, owed, active, done,
                                       asked, early>>
    BY <1>2 DEF StartSession, Refused, server
  <2>2. call \in Nat
    BY DEF SessionInv, SessionType
  <2> QED BY <1>1, <2>1, <2>2, LeavingKeeps
<1>3. CASE ~Refused
  <2>1. /\ Write(Msg("request", initializeID)) /\ phase' = "init"
        /\ UNCHANGED <<turn, outcome, call, inbox, owed, active, done, asked, early>>
    BY <1>3 DEF StartSession, server
  <2>3. initializeID \in Nat
    BY DEF initializeID
  <2>4. /\ outbox' \in Seq(Line) /\ writing' \in Seq(Line)
        /\ Ids(Pipe', OddLine) = {} /\ Ids(Pipe', ReqLine) = {initializeID}
        /\ AtMostOne(Pipe', ReqLine)
        /\ Ids(Pipe', AnsLine) = Ids(Pipe, AnsLine) /\ EachOnce(Pipe', AnsLine)
    BY <1>1, <2>1, <2>3, RequestWritten DEF SessionInv, NonePending, NoneSent
  <2>5. SessionType'
    BY <2>1, <2>4 DEF SessionInv, SessionType, Phases, Writing
  <2>6. AtMostOne(inbox, RepLine)
    BY <1>1 DEF NonePending, Ids, AtMostOne
  <2>7. OnePending(initializeID)'
    BY <1>1, <2>1, <2>4, <2>6 DEF NonePending, NoneSent, OnePending
  <2>8. TurnInv'
    BY <1>1, <2>1, <2>7 DEF SessionInv, TurnInv
  <2>9. AskInv'
    BY <1>1, <2>1, <2>4 DEF AskInv
  <2> QED BY <2>5, <2>8, <2>9 DEF SessionInv
<1> QED BY <1>2, <1>3

LEMMA RunTurnKeeps ==
  ASSUME SessionInv, AskInv, RunTurn
  PROVE  SessionInv' /\ AskInv'
<1>1. phase = "idle" /\ writing = <<>> /\ UNCHANGED <<inbox, owed, active, done, asked, early, proc>>
  BY DEF RunTurn, server, SessionInv, SessionType, Writing
<1>2. NonePending /\ done = turn /\ active = 0 /\ Ids(inbox, EndLine) = {}
  BY <1>1 DEF SessionInv, TurnInv
<1>3. CASE ~Writable
  <2>1. phase' = "closing" /\ UNCHANGED <<turn, outbox>> /\ call' = 0 /\ writing' = <<>>
    BY <1>3 DEF RunTurn, Fail
  <2> QED BY <1>1, <2>1, LeavingKeeps
<1>4. CASE Writable
  <2>1. /\ Write(Msg("request", turnStartID)) /\ phase' = "start"
        /\ turn' = turn + 1 /\ UNCHANGED <<outcome, call>>
    BY <1>4 DEF RunTurn, Send
  <2>2. turnStartID \in Nat /\ turn \in Nat
    BY DEF turnStartID, SessionInv, SessionType
  <2>3. /\ outbox' \in Seq(Line) /\ writing' \in Seq(Line)
        /\ Ids(Pipe', OddLine) = {} /\ Ids(Pipe', ReqLine) = {turnStartID}
        /\ AtMostOne(Pipe', ReqLine)
        /\ Ids(Pipe', AnsLine) = Ids(Pipe, AnsLine) /\ EachOnce(Pipe', AnsLine)
    BY <1>1, <1>2, <2>1, <2>2, RequestWritten DEF SessionInv, NonePending, NoneSent
  <2>4. SessionType'
    BY <1>1, <2>1, <2>2, <2>3 DEF SessionInv, SessionType, Phases, Writing
  <2>5. AtMostOne(inbox, RepLine) /\ Ids(inbox, OkLine) = {} /\ Follow(inbox, EndLine, OkLine)
    BY <1>2 DEF NonePending, Ids, AtMostOne, RepLine, OkLine, Follow
  <2>6. OnePending(turnStartID)'
    BY <1>1, <1>2, <2>1, <2>3, <2>5 DEF NonePending, NoneSent, OnePending
  <2>7. BeforeTurn'
    BY <1>1, <1>2, <2>1, <2>2, <2>5 DEF BeforeTurn
  <2>8. TurnInv'
    BY <1>1, <1>2, <2>1, <2>5, <2>6, <2>7 DEF TurnInv
  <2>9. AskInv'
    <3>1. Ids(inbox, Asks) = {}
      BY <1>1 DEF AskInv
    <3>2. Parted(inbox, Asks, OkLine, early)
      BY <3>1 DEF Ids, Parted
    <3> QED BY <1>1, <2>1, <2>3, <3>1, <3>2 DEF AskInv
  <2> QED BY <2>4, <2>8, <2>9 DEF SessionInv
<1> QED BY <1>3, <1>4

(* What leaves the lines, and what the session does, as it is.             *)
LEMMA StandingKeeps ==
  ASSUME SessionInv, AskInv,
         UNCHANGED <<phase, turn, outcome, call, Pipe, inbox, owed, active, done, asked, early,
                     proc>>,
         outbox' \in Seq(Line), writing' \in {writing, <<>>}
  PROVE  SessionInv' /\ AskInv'
<1>1. SessionType'
  BY EmptyLines DEF SessionInv, SessionType
<1>2. OnePending(initializeID)' = OnePending(initializeID) /\ OnePending(threadStartID)' = OnePending(threadStartID)
      /\ OnePending(turnStartID)' = OnePending(turnStartID)
  BY DEF OnePending, initializeID, threadStartID, turnStartID
<1>3. NonePending' = NonePending /\ NoneSent' = NoneSent /\ BeforeTurn' = BeforeTurn /\ AtTurn' = AtTurn
  BY DEF NonePending, NoneSent, BeforeTurn, AtTurn
<1>4. TurnInv'
  BY <1>2, <1>3 DEF SessionInv, TurnInv
<1>5. AskInv'
  BY DEF AskInv
<1> QED BY <1>1, <1>4, <1>5 DEF SessionInv

(* The session takes a line.                                               *)
LEMMA LineTaken ==
  ASSUME SessionInv, AskInv, inbox # <<>>, inbox' = Tail(inbox)
  PROVE  LET e == Head(inbox)
         IN  /\ inbox' \in Seq(Line) /\ e \in Line
             /\ e.kind \in RepLine => e.id \in Ids(inbox, RepLine)
             /\ Ids(inbox', RepLine) \subseteq Ids(inbox, RepLine)
             /\ AtMostOne(inbox, RepLine) =>
                  AtMostOne(inbox', RepLine) /\ (e.kind \in RepLine => Ids(inbox', RepLine) = {})
             /\ e.kind \in EndLine => Ids(inbox, EndLine) # {}
             /\ Ids(inbox', EndLine) \subseteq Ids(inbox, EndLine)
             /\ AtMostOne(inbox, EndLine) =>
                  AtMostOne(inbox', EndLine) /\ (e.kind \in EndLine => Ids(inbox', EndLine) = {})
             /\ e.kind \in OkLine => Ids(inbox, OkLine) # {}
             /\ Ids(inbox', OkLine) \subseteq Ids(inbox, OkLine)
             /\ e.kind \notin OkLine => Ids(inbox', OkLine) = Ids(inbox, OkLine)
             /\ Ids(inbox, Asks) = IF e.kind \in Asks THEN Ids(inbox', Asks) \cup {e.id}
                                                      ELSE Ids(inbox', Asks)
             /\ EachOnce(inbox', Asks) /\ (e.kind \in Asks => e.id \notin Ids(inbox', Asks))
             /\ \A K : Follow(inbox, K, OkLine) =>
                  e.kind \notin K /\ (e.kind \notin OkLine => Follow(inbox', K, OkLine))
<1> DEFINE e == Head(inbox)
<1>1. inbox \in Seq(Line) /\ EachOnce(inbox, Asks)
  BY DEF SessionInv, SessionType, AskInv
<1>2. inbox' \in Seq(Line) /\ e \in Line
  BY <1>1, TailLine
<1>3. ASSUME NEW K
      PROVE  /\ Ids(inbox, K) = IF e.kind \in K THEN Ids(inbox', K) \cup {e.id} ELSE Ids(inbox', K)
             /\ AtMostOne(inbox, K) => AtMostOne(inbox', K) /\ (e.kind \in K => Ids(inbox', K) = {})
             /\ EachOnce(inbox, K) => EachOnce(inbox', K) /\ (e.kind \in K => e.id \notin Ids(inbox', K))
             /\ Follow(inbox, K, OkLine) =>
                  e.kind \notin K /\ (e.kind \notin OkLine => Follow(inbox', K, OkLine))
  BY <1>1, TailLine
<1> HIDE DEF e
<1>4. ASSUME NEW K
      PROVE  /\ e.kind \in K => e.id \in Ids(inbox, K)
             /\ Ids(inbox', K) \subseteq Ids(inbox, K)
  BY <1>3
<1>5. /\ e.kind \in RepLine => e.id \in Ids(inbox, RepLine)
      /\ Ids(inbox', RepLine) \subseteq Ids(inbox, RepLine)
      /\ AtMostOne(inbox, RepLine) =>
           AtMostOne(inbox', RepLine) /\ (e.kind \in RepLine => Ids(inbox', RepLine) = {})
  BY <1>3, <1>4
<1>6. /\ e.kind \in EndLine => Ids(inbox, EndLine) # {}
      /\ Ids(inbox', EndLine) \subseteq Ids(inbox, EndLine)
      /\ AtMostOne(inbox, EndLine) =>
           AtMostOne(inbox', EndLine) /\ (e.kind \in EndLine => Ids(inbox', EndLine) = {})
  BY <1>3, <1>4
<1>7. /\ e.kind \in OkLine => Ids(inbox, OkLine) # {}
      /\ Ids(inbox', OkLine) \subseteq Ids(inbox, OkLine)
      /\ e.kind \notin OkLine => Ids(inbox', OkLine) = Ids(inbox, OkLine)
  BY <1>3, <1>4
<1>8. /\ Ids(inbox, Asks) = IF e.kind \in Asks THEN Ids(inbox', Asks) \cup {e.id}
                                               ELSE Ids(inbox', Asks)
      /\ EachOnce(inbox', Asks) /\ (e.kind \in Asks => e.id \notin Ids(inbox', Asks))
  BY <1>1, <1>3
<1> QED BY <1>2, <1>3, <1>5, <1>6, <1>7, <1>8 DEF e

(* A response that is there is the one the session waits for.              *)
LEMMA ResponseMatches ==
  ASSUME SessionInv, AskInv, inbox # <<>>, phase \in DOMAIN Awaiting, Head(inbox).kind \in RepLine
  PROVE  Matches(Head(inbox), Awaiting[phase])
<1>1. OnePending(Awaiting[phase]) /\ inbox \in Seq(Line)
  BY DEF SessionInv, SessionType, TurnInv, Awaiting, initializeID, threadStartID, turnStartID
<1>2. Head(inbox).id \in Ids(inbox, RepLine)
  BY <1>1, TailLine
<1>3. Head(inbox).id = Awaiting[phase]
  BY <1>1, <1>2 DEF OnePending
<1> QED BY <1>3 DEF Matches, RepLine

(* A line that waits for nothing is passed over, with what it asks.        *)
LEMMA PassedOver ==
  ASSUME SessionInv, AskInv, inbox # <<>>, inbox' = Tail(inbox),
         UNCHANGED <<phase, turn, outcome, call, outbox, writing, owed, active, done, asked,
                     early, proc>>,
         \/ phase \in DOMAIN Awaiting /\ ~Matches(Head(inbox), Awaiting[phase])
         \/ phase = "stream" /\ Head(inbox).kind \in {"notice", "response", "error"}
  PROVE  SessionInv' /\ AskInv'
<1> DEFINE e == Head(inbox)
<1>pipe. Pipe' = Pipe /\ inbox \in Seq(Line)
  BY DEF Pipe, SessionInv, SessionType
<1> HIDE DEF e
<1>1. SessionType'
  BY <1>pipe, LineTaken DEF SessionInv, SessionType
<1>ok. phase = "start" => e.kind \notin OkLine
  BY ResponseMatches DEF e, OkLine, RepLine, Awaiting
<1>2. AskInv'
  <2>1. Ids(inbox', Asks) \subseteq Ids(inbox, Asks) /\ EachOnce(inbox', Asks)
    BY LineTaken
  <2>2. phase = "start" => Parted(inbox', Asks, OkLine, early)
    BY <1>pipe, <1>ok, TailParted DEF AskInv, e
  <2> QED BY <1>pipe, <2>1, <2>2 DEF AskInv
<1>3. CASE phase = "stream"
  <2>1. NonePending' /\ AtTurn'
    BY <1>3, <1>pipe, LineTaken DEF SessionInv, TurnInv, NonePending, NoneSent, AtTurn
  <2> QED BY <1>1, <1>2, <1>3, <2>1 DEF SessionInv, TurnInv
<1>4. CASE phase \in DOMAIN Awaiting
  <2>1. phase \in {"init", "thread", "start"} /\ Awaiting[phase] \in Nat
        /\ OnePending(Awaiting[phase])
    BY <1>4 DEF SessionInv, TurnInv, Awaiting, initializeID, threadStartID, turnStartID
  <2>2. e.kind \notin RepLine
    <3>1. phase # "stream"
      BY <2>1
    <3> QED BY <1>4, <3>1, ResponseMatches DEF e
  <2>3. Ids(inbox', RepLine) \subseteq Ids(inbox, RepLine) /\ AtMostOne(inbox', RepLine)
    BY <2>1, LineTaken DEF OnePending
  <2>4. Ids(inbox', EndLine) \subseteq Ids(inbox, EndLine)
        /\ (AtMostOne(inbox, EndLine) => AtMostOne(inbox', EndLine))
    BY LineTaken
  <2>5. \A id : OnePending(id) => OnePending(id)'
    BY <1>pipe, <2>3 DEF OnePending
  <2>6. e.kind \notin OkLine
    BY <2>2 DEF RepLine, OkLine
  <2>7. Ids(inbox', OkLine) = Ids(inbox, OkLine)
        /\ (Follow(inbox, EndLine, OkLine) => Follow(inbox', EndLine, OkLine))
    BY <2>6, LineTaken DEF e
  <2>8. CASE phase = "start"
    <3>1. OnePending(turnStartID)' /\ Follow(inbox', EndLine, OkLine)
      BY <2>5, <2>7, <2>8 DEF SessionInv, TurnInv
    <3>2. BeforeTurn => BeforeTurn'
      BY <2>4, <2>7 DEF BeforeTurn
    <3>3. AtTurn /\ NoneSent => AtTurn' /\ NoneSent'
      BY <1>pipe, <2>4 DEF AtTurn, NoneSent
    <3> QED BY <1>1, <1>2, <2>7, <2>8, <3>1, <3>2, <3>3 DEF SessionInv, TurnInv
  <2>9. CASE phase \in {"init", "thread"}
    <3>1. TurnInv'
      BY <2>4, <2>5, <2>9 DEF SessionInv, TurnInv
    <3> QED BY <1>1, <1>2, <3>1 DEF SessionInv
  <2> QED BY <2>1, <2>8, <2>9
<1> QED BY <1>3, <1>4

(* The response to initialize or thread/start leads to the next request,   *)
(* the one to turn/start to a turn that the server knows of.               *)
LEMMA RespondedKeeps ==
  ASSUME SessionInv, AskInv, inbox # <<>>, inbox' = Tail(inbox),
         phase \in DOMAIN Awaiting, Head(inbox).kind = "response", ~Fail("io"),
         UNCHANGED <<turn, owed, active, done, asked, early, proc>>, writing = <<>>,
         CASE phase = "init" -> Send(threadStartID, "thread")
           [] phase = "thread" -> /\ phase' = "idle"
                                  /\ expired' = FALSE
                                  /\ UNCHANGED <<outcome, call, writing, outbox>>
           [] phase = "start" -> /\ phase' = "stream"
                                 /\ expired' = FALSE
                                 /\ UNCHANGED <<outcome, call, writing, outbox>>
  PROVE  SessionInv' /\ AskInv'
<1> DEFINE e == Head(inbox)
<1>1. e.kind \in RepLine /\ e.kind \in OkLine /\ e.kind \notin Asks /\ e.kind \notin EndLine
  BY DEF RepLine, OkLine, Asks, EndLine
<1> HIDE DEF e
<1>2. phase \in {"init", "thread", "start"} /\ OnePending(Awaiting[phase])
  BY DEF SessionInv, TurnInv, Awaiting, initializeID, threadStartID, turnStartID
<1>3. NoneSent /\ Ids(inbox', RepLine) = {}
  <2>1. Ids(inbox, RepLine) # {}
    BY <1>1, LineTaken DEF e
  <2>2. owed = 0 /\ Ids(Pipe, ReqLine) = {}
    BY <1>2, <2>1 DEF OnePending
  <2>3. Ids(inbox', RepLine) = {}
    BY <1>1, <1>2, LineTaken DEF e, OnePending
  <2> QED BY <2>2, <2>3 DEF NoneSent
<1>4. /\ inbox' \in Seq(Line) /\ EachOnce(inbox', Asks)
      /\ Ids(inbox', Asks) = Ids(inbox, Asks)
      /\ Ids(inbox', EndLine) \subseteq Ids(inbox, EndLine)
      /\ AtMostOne(inbox, EndLine) => AtMostOne(inbox', EndLine)
      /\ Ids(inbox, OkLine) # {}
  BY <1>1, LineTaken DEF e
<1>5. CASE phase = "init"
  <2>1. /\ Write(Msg("request", threadStartID)) /\ phase' = "thread"
        /\ UNCHANGED <<outcome, call>>
    BY <1>5 DEF Send
  <2>2. threadStartID \in Nat
    BY DEF threadStartID
  <2>3. /\ outbox' \in Seq(Line) /\ writing' \in Seq(Line)
        /\ Ids(Pipe', OddLine) = {} /\ Ids(Pipe', ReqLine) = {threadStartID}
        /\ AtMostOne(Pipe', ReqLine)
        /\ Ids(Pipe', AnsLine) = Ids(Pipe, AnsLine) /\ EachOnce(Pipe', AnsLine)
    BY <1>3, <2>1, <2>2, RequestWritten DEF SessionInv, NoneSent
  <2>4. SessionType'
    BY <1>4, <2>1, <2>3 DEF SessionInv, SessionType, Phases, Writing
  <2>5. AtMostOne(inbox', RepLine)
    BY <1>3 DEF Ids, AtMostOne
  <2>6. OnePending(threadStartID)'
    BY <1>3, <2>3, <2>5 DEF OnePending, NoneSent
  <2>7. TurnInv'
    BY <1>4, <1>5, <2>1, <2>6 DEF SessionInv, TurnInv
  <2>8. AskInv'
    BY <1>4, <1>5, <2>1, <2>3 DEF AskInv
  <2> QED BY <2>4, <2>7, <2>8 DEF SessionInv
<1>6. CASE phase = "thread"
  <2>1. phase' = "idle" /\ UNCHANGED <<outcome, call, outbox, writing, Pipe>>
    BY <1>6 DEF Pipe
  <2>2. SessionType' /\ AskInv'
    BY <1>4, <1>6, <2>1 DEF SessionInv, SessionType, Phases, AskInv
  <2>3. NonePending'
    BY <1>3, <2>1 DEF NonePending, NoneSent
  <2>4. TurnInv'
    BY <1>4, <1>6, <2>1, <2>3 DEF SessionInv, TurnInv
  <2> QED BY <2>2, <2>4 DEF SessionInv
<1>7. CASE phase = "start"
  <2>1. phase' = "stream" /\ UNCHANGED <<outcome, call, outbox, writing, Pipe>>
    BY <1>7 DEF Pipe
  <2>2. SessionType' /\ AskInv'
    <3>1. inbox \in Seq(Line) /\ Parted(inbox, Asks, OkLine, early)
      BY <1>7 DEF SessionInv, SessionType, AskInv
    <3>2. Ids(inbox', Asks) \cap early = {}
      BY <1>1, <3>1, TailParted DEF e
    <3> QED BY <1>4, <2>1, <3>2 DEF SessionInv, SessionType, Phases, AskInv
  <2>3. NonePending'
    BY <1>3, <2>1 DEF NonePending, NoneSent
  <2>4. AtTurn
    BY <1>4, <1>7 DEF SessionInv, TurnInv, BeforeTurn
  <2>5. AtTurn'
    BY <1>4, <2>4 DEF AtTurn
  <2>6. TurnInv'
    BY <2>1, <2>3, <2>5 DEF TurnInv
  <2> QED BY <2>2, <2>6 DEF SessionInv
<1> QED BY <1>2, <1>5, <1>6, <1>7

LEMMA AwaitResponseKeeps ==
  ASSUME SessionInv, AskInv, AwaitResponse
  PROVE  SessionInv' /\ AskInv'
<1>1. /\ phase \in DOMAIN Awaiting /\ writing = <<>> /\ inbox # <<>> /\ inbox' = Tail(inbox)
      /\ UNCHANGED <<owed, active, done, asked, early, proc>>
  BY DEF AwaitResponse, Reads, server
<1>2. CASE \E why : Fail(why) /\ UNCHANGED outbox
  <2>1. phase' = "closing" /\ call' = 0 /\ writing' = <<>> /\ UNCHANGED <<turn, outbox>>
    BY <1>2 DEF Fail
  <2> QED BY <1>1, <2>1, LeavingKeeps
<1>3. CASE ~Matches(Head(inbox), Awaiting[phase]) /\ UNCHANGED <<client, outbox>>
  BY <1>1, <1>3, PassedOver DEF client
<1>4. CASE /\ ~(\E why : Fail(why) /\ UNCHANGED outbox)
           /\ ~(~Matches(Head(inbox), Awaiting[phase]) /\ UNCHANGED <<client, outbox>>)
  <2>1. /\ Head(inbox).kind = "response"
        /\ UNCHANGED turn
        /\ CASE phase = "init" -> Send(threadStartID, "thread")
             [] phase = "thread" -> /\ phase' = "idle"
                                    /\ expired' = FALSE
                                    /\ UNCHANGED <<outcome, call, writing, outbox>>
             [] phase = "start" -> /\ phase' = "stream"
                                   /\ expired' = FALSE
                                   /\ UNCHANGED <<outcome, call, writing, outbox>>
    BY <1>4 DEF AwaitResponse
  <2>2. ~Fail("io")
    <3>1. phase = "init" \/ phase' # "closing"
      BY <1>1, <2>1 DEF Awaiting
    <3>2. phase = "init" => (Writable \/ (Fail("io") /\ UNCHANGED outbox)) /\ (Writable => phase' = "thread")
      BY <2>1 DEF Send
    <3> QED BY <1>4, <3>1, <3>2 DEF Fail
  <2> QED BY <1>1, <2>1, <2>2, RespondedKeeps
<1> QED BY <1>2, <1>3, <1>4

(* Answering takes the request from its place to the other pipe.           *)
LEMMA AnswerKeeps ==
  ASSUME SessionInv, NEW id \in asked \ early, phase \in {"stream", "tool"}, AnswerWith(id),
         writing = <<>>, UNCHANGED <<owed, active, done, asked, early, proc>>,
         early \subseteq asked, active = 0 => asked \subseteq early, Ids(inbox', Asks) \cap early = {},
         inbox' \in Seq(Line), EachOnce(inbox', Asks), EachOnce(Pipe, AnsLine),
         Ids(inbox', Asks) \subseteq asked, Ids(Pipe, AnsLine) \subseteq asked \ early,
         Ids(inbox', Asks) \cap Ids(Pipe, AnsLine) = {},
         id \notin Ids(inbox', Asks), id \notin Ids(Pipe, AnsLine),
         Ids(inbox', RepLine) \subseteq Ids(inbox, RepLine),
         Ids(inbox', EndLine) \subseteq Ids(inbox, EndLine),
         AtMostOne(inbox, EndLine) => AtMostOne(inbox', EndLine)
  PROVE  SessionInv' /\ AskInv'
<1>1. CASE ~Writable
  <2>1. phase' = "closing" /\ call' = 0 /\ UNCHANGED <<turn, outbox, writing, Pipe>>
    BY <1>1 DEF AnswerWith, Fail, Pipe
  <2>2. SessionType' /\ TurnInv' /\ AskInv'
    BY <2>1 DEF SessionInv, SessionType, Phases, TurnInv, AskInv
  <2> QED BY <2>2 DEF SessionInv
<1>2. CASE Writable
  <2>1. Write(Msg("answer", id)) /\ phase' = "stream" /\ call' = 0
        /\ UNCHANGED <<turn, outcome>>
    BY <1>2 DEF AnswerWith
  <2> DEFINE line == Msg("answer", id)
  <2>2. line \in Line /\ line.kind = "answer" /\ line.id = id
    BY SessionAssumption, MsgIsLine DEF Kind, SessionInv, SessionType
  <2>3. Pipe \in Seq(Line) /\ line.kind \notin ReqLine /\ line.kind \in AnsLine
        /\ line.kind \notin OddLine
    BY <2>2, ConcatProperties DEF SessionInv, SessionType, Pipe, ReqLine, AnsLine, OddLine
  <2> HIDE DEF line
  <2>4. Pipe' = Append(Pipe, line) /\ outbox' \in Seq(Line) /\ writing' \in Seq(Line)
    BY <2>1, <2>2, LineWritten DEF line, SessionInv
  <2>5. Ids(Pipe', ReqLine) = Ids(Pipe, ReqLine)
    BY <2>2, <2>3, <2>4, AppendLine
  <2>6. Ids(Pipe', AnsLine) = Ids(Pipe, AnsLine) \cup {id} /\ EachOnce(Pipe', AnsLine)
    BY <2>2, <2>3, <2>4, AppendLine
  <2>7. SessionType'
    <3>1. Ids(Pipe', OddLine) = {}
      BY <2>2, <2>3, <2>4, AppendLine DEF SessionInv, SessionType
    <3> QED BY <2>1, <2>4, <3>1 DEF SessionInv, SessionType, Phases, Writing
  <2>8. AskInv'
    BY <2>1, <2>6 DEF AskInv
  <2>9. NonePending /\ AtTurn
    BY DEF SessionInv, TurnInv
  <2>10. NonePending' /\ AtTurn'
    BY <2>1, <2>5, <2>9 DEF NonePending, NoneSent, AtTurn
  <2>11. TurnInv'
    BY <2>1, <2>10 DEF TurnInv
  <2> QED BY <2>7, <2>8, <2>11 DEF SessionInv
<1> QED BY <1>1, <1>2

LEMMA ToolReturnsKeeps ==
  ASSUME SessionInv, AskInv, ToolReturns
  PROVE  SessionInv' /\ AskInv'
<1>1. /\ phase = "tool" /\ AnswerWith(call)
      /\ UNCHANGED <<inbox, owed, active, done, asked, early, proc>>
  BY DEF ToolReturns, server
<1>2. call \in (asked \ early) \ (Ids(inbox, Asks) \cup Ids(Pipe, AnsLine)) /\ writing = <<>>
  BY <1>1 DEF AskInv, SessionInv, SessionType, Writing
<1> QED BY <1>1, <1>2, AnswerKeeps DEF AskInv, SessionInv, SessionType

LEMMA StreamKeeps ==
  ASSUME SessionInv, AskInv, Stream
  PROVE  SessionInv' /\ AskInv'
<1> DEFINE e == Head(inbox)
<1>1. /\ phase = "stream" /\ writing = <<>> /\ inbox # <<>> /\ inbox' = Tail(inbox)
      /\ UNCHANGED <<owed, active, done, asked, early, proc>>
  BY DEF Stream, Reads, server
<1>2. NonePending /\ AtTurn
  BY <1>1 DEF SessionInv, TurnInv
<1>3. /\ inbox' \in Seq(Line) /\ e \in Line
      /\ Ids(inbox', RepLine) \subseteq Ids(inbox, RepLine)
      /\ Ids(inbox', EndLine) \subseteq Ids(inbox, EndLine)
      /\ AtMostOne(inbox', EndLine)
      /\ e.kind \in EndLine => Ids(inbox', EndLine) = {} /\ Ids(inbox, EndLine) # {}
      /\ EachOnce(inbox', Asks) /\ Ids(inbox', Asks) \subseteq Ids(inbox, Asks)
      /\ e.kind \in Asks => e.id \in Ids(inbox, Asks) \ Ids(inbox', Asks)
  BY <1>1, <1>2, LineTaken DEF AtTurn
<1> HIDE DEF e
<1>late. Ids(inbox, Asks) \cap early = {} /\ (active = 0 => Ids(inbox, Asks) = {})
  BY <1>1 DEF AskInv
<1>4. CASE \E why : Fail(why) /\ UNCHANGED outbox
  <2>1. phase' = "closing" /\ call' = 0 /\ writing' = <<>> /\ UNCHANGED <<turn, outbox>>
    BY <1>4 DEF Fail
  <2> QED BY <1>1, <2>1, LeavingKeeps
<1>5. CASE /\ e.kind = "completed" /\ phase' = "idle" /\ outcome' = "completed"
           /\ UNCHANGED <<turn, call, writing, outbox>>
  <2>pipe. Pipe' = Pipe
    BY <1>5 DEF Pipe
  <2>1. active = 0 /\ done = turn /\ Ids(inbox', EndLine) = {}
    BY <1>2, <1>3, <1>5 DEF AtTurn, EndLine
  <2>2. SessionType' /\ AskInv'
    BY <1>1, <1>3, <1>5, <1>late, <2>pipe, <2>1 DEF SessionInv, SessionType, Phases, AskInv
  <2>3. NonePending'
    BY <1>1, <1>2, <1>3, <1>5, <2>pipe DEF NonePending, NoneSent
  <2>4. TurnInv'
    BY <1>1, <1>5, <2>1, <2>3 DEF TurnInv
  <2> QED BY <2>2, <2>4 DEF SessionInv
<1>6. CASE e.kind \in {"approval", "input"} /\ AnswerWith(e.id)
  <2>1. e.kind \in Asks
    BY <1>6 DEF Asks
  <2>2. e.id \in asked \ early /\ e.id \notin Ids(inbox', Asks) /\ e.id \notin Ids(Pipe, AnsLine)
        /\ Ids(inbox', Asks) \subseteq asked /\ Ids(Pipe, AnsLine) \subseteq asked \ early
        /\ Ids(inbox', Asks) \cap Ids(Pipe, AnsLine) = {} /\ EachOnce(Pipe, AnsLine)
        /\ Ids(inbox', Asks) \cap early = {} /\ early \subseteq asked /\ (active = 0 => asked \subseteq early)
    BY <1>3, <1>late, <2>1 DEF AskInv
  <2> QED BY <1>1, <1>3, <1>6, <2>2, AnswerKeeps
<1>7. CASE e.kind = "tool" /\ phase' = "tool" /\ call' = e.id /\ UNCHANGED <<turn, outcome,
                                                                             writing, outbox>>
  <2>pipe. Pipe' = Pipe
    BY <1>7 DEF Pipe
  <2>1. e.kind \in Asks /\ e.id \in Nat
    BY <1>3, <1>7 DEF Asks, Line
  <2>2. e.id \in asked \ early /\ e.id \notin Ids(inbox', Asks) /\ e.id \notin Ids(Pipe, AnsLine)
        /\ Ids(inbox', Asks) \cap early = {}
    BY <1>3, <1>late, <2>1 DEF AskInv
  <2>3. SessionType'
    BY <1>1, <1>3, <1>7, <2>pipe, <2>1 DEF SessionInv, SessionType, Phases
  <2>4. AskInv'
    BY <1>1, <1>3, <1>7, <2>pipe, <2>2 DEF AskInv
  <2>5. NonePending' /\ AtTurn'
    BY <1>1, <1>2, <1>3, <1>7, <2>pipe DEF NonePending, NoneSent, AtTurn
  <2>6. TurnInv'
    BY <1>7, <2>5 DEF TurnInv
  <2> QED BY <2>3, <2>4, <2>6 DEF SessionInv
<1>8. CASE e.kind \in {"notice", "response", "error"} /\ UNCHANGED <<client, outbox>>
  BY <1>1, <1>8, PassedOver DEF e, client
<1> QED BY <1>4, <1>5, <1>6, <1>7, <1>8 DEF Stream, TurnEnds, HandleAsk, CannotAnswer, e

(* The end of the process takes lines away, and adds none but the last.    *)
LEMMA ProcessEndKeeps ==
  ASSUME SessionInv, AskInv, phase # "new", proc' # "running",
         UNCHANGED <<phase, turn, outcome, call, outbox, writing, owed, active, done, asked,
                     early>>,
         NEW k \in 0 .. Len(inbox), inbox' = Append(SubSeq(inbox, 1, k), Eof)
  PROVE  SessionInv' /\ AskInv'
<1>1. inbox \in Seq(Line) /\ Pipe' = Pipe
  BY DEF SessionInv, SessionType, Pipe
<1>2. "eof" \notin RepLine /\ "eof" \notin EndLine /\ "eof" \notin OkLine /\ "eof" \notin Asks
  BY DEF RepLine, EndLine, OkLine, Asks
<1>3. ASSUME NEW K, "eof" \notin K
      PROVE  /\ inbox' \in Seq(Line)
             /\ Ids(inbox', K) \subseteq Ids(inbox, K)
             /\ AtMostOne(inbox, K) => AtMostOne(inbox', K)
             /\ EachOnce(inbox, K) => EachOnce(inbox', K)
             /\ Follow(inbox, K, OkLine) => Follow(inbox', K, OkLine)
  BY <1>1, <1>3, CutLine
<1>4. /\ Ids(inbox', RepLine) \subseteq Ids(inbox, RepLine)
      /\ AtMostOne(inbox, RepLine) => AtMostOne(inbox', RepLine)
      /\ Ids(inbox', EndLine) \subseteq Ids(inbox, EndLine)
      /\ AtMostOne(inbox, EndLine) => AtMostOne(inbox', EndLine)
      /\ Follow(inbox, EndLine, OkLine) => Follow(inbox', EndLine, OkLine)
      /\ Ids(inbox', OkLine) \subseteq Ids(inbox, OkLine)
  BY <1>2, <1>3
<1>5. /\ Ids(inbox', Asks) \subseteq Ids(inbox, Asks)
      /\ EachOnce(inbox, Asks) => EachOnce(inbox', Asks)
      /\ inbox' \in Seq(Line)
  BY <1>2, <1>3
<1>6. SessionType' /\ AskInv'
  <2>1. phase = "start" => Parted(inbox', Asks, OkLine, early)
    BY <1>1, <1>2, CutParted DEF AskInv
  <2>2. SessionType'
    BY <1>1, <1>5 DEF SessionInv, SessionType
  <2>3. AskInv'
    BY <1>1, <1>5, <2>1 DEF AskInv
  <2> QED BY <2>2, <2>3
<1>7. \A id : OnePending(id) => OnePending(id)'
  BY <1>1, <1>4 DEF OnePending
<1>8. /\ NonePending => NonePending'
      /\ NoneSent => NoneSent'
      /\ BeforeTurn => BeforeTurn'
      /\ AtTurn => AtTurn'
  BY <1>1, <1>4 DEF NonePending, NoneSent, BeforeTurn, AtTurn
<1>9. TurnInv'
  BY <1>4, <1>7, <1>8 DEF SessionInv, TurnInv
<1> QED BY <1>6, <1>9 DEF SessionInv

LEMMA SessionKeeps ==
  ASSUME SessionInv, AskInv, ProcessInv, Session
  PROVE  SessionInv' /\ AskInv'
<1>1. CASE StartSession
  BY <1>1, StartSessionKeeps
<1>2. CASE RunTurn
  BY <1>2, RunTurnKeeps
<1>3. CASE AwaitResponse
  BY <1>3, AwaitResponseKeeps
<1>4. CASE Stream
  BY <1>4, StreamKeeps
<1>5. CASE Deadline \/ Cancel
  <2>1. UNCHANGED <<phase, turn, outcome, call, outbox, writing, inbox, owed, active, done,
                    asked, early, proc>>
    BY <1>5 DEF Deadline, Cancel, client, server
  <2>2. outbox \in Seq(Line) /\ Pipe' = Pipe
    BY <2>1 DEF SessionInv, SessionType, Pipe
  <2> QED BY <2>1, <2>2, StandingKeeps
<1>10. CASE WriteGoesThrough
  <2>1. /\ UNCHANGED <<phase, turn, outcome, call, inbox, owed, active, done, asked, early, proc>>
        /\ outbox' = outbox \o writing /\ writing' = <<>>
    BY <1>10 DEF WriteGoesThrough, server
  <2>2. Pipe' = Pipe /\ outbox' \in Seq(Line)
    BY <2>1, LineGoesThrough DEF SessionInv
  <2> QED BY <2>1, <2>2, StandingKeeps
<1>6. CASE LeaveLoop \/ ReadGivesUp \/ WriteBreaks
  <2>1. phase' = "closing" /\ call' \in Nat
        /\ UNCHANGED <<turn, outbox, owed, active, done, asked, early, inbox>>
    BY <1>6 DEF LeaveLoop, ReadGivesUp, WriteBreaks, Fail, server, SessionInv, SessionType
  <2>2. writing' = <<>>
    BY <1>6 DEF LeaveLoop, ReadGivesUp, WriteBreaks, Fail, SessionInv, SessionType, Writing
  <2> QED BY <2>1, <2>2, LeavingKeeps
<1>7. CASE Close
  <2>1. phase' = "over" /\ UNCHANGED <<call, turn, owed, active, done, asked, early, outbox>>
        /\ writing' = <<>>
    BY <1>7 DEF Close, server, SessionInv, SessionType, Writing
  <2>2. inbox' = inbox \/ \E k \in 0 .. Len(inbox) : inbox' = Append(SubSeq(inbox, 1, k), Eof)
    BY <1>7 DEF Close, Reap
  <2> QED BY <2>1, <2>2, LeavingKeeps DEF SessionInv, SessionType
<1>8. CASE Exit
  <2>1. proc' = "exited" /\ inbox' = Append(inbox, Eof) /\ phase # "new"
        /\ UNCHANGED <<phase, turn, outcome, call, outbox, writing, owed, active, done, asked,
                       early>>
    BY <1>8 DEF Exit, client, server, ProcessInv
  <2>2. inbox \in Seq(Line)
    BY DEF SessionInv, SessionType
  <2>3. inbox = SubSeq(inbox, 1, Len(inbox)) /\ Len(inbox) \in 0 .. Len(inbox)
    BY <2>2, SubSeqFull, LenProperties
  <2> QED BY <2>1, <2>3, ProcessEndKeeps
<1>9. CASE CloseByStop
  <2>1. phase # "new"
        /\ UNCHANGED <<phase, turn, outcome, call, outbox, writing, owed, active, done, asked,
                       early>>
    BY <1>9 DEF CloseByStop, client, server
  <2>3. outbox \in Seq(Line) /\ Pipe' = Pipe
    BY <2>1 DEF SessionInv, SessionType, Pipe
  <2>2. \/ UNCHANGED <<proc, inbox>>
        \/ proc' = "reaped" /\ \E k \in 0 .. Len(inbox) : inbox' = Append(SubSeq(inbox, 1, k), Eof)
    BY <1>9 DEF CloseByStop, Reap
  <2> QED BY <2>1, <2>2, <2>3, StandingKeeps, ProcessEndKeeps
<1> QED BY <1>1, <1>2, <1>3, <1>4, <1>5, <1>6, <1>7, <1>8, <1>9, <1>10 DEF Session

-----------------------------------------------------------------------------
(* The server.                                                             *)

(* The server says something that is neither a response nor the end of a   *)
(* turn.                                                                   *)
LEMMA LineGiven ==
  ASSUME SessionInv, NEW e \in Line, inbox' = Append(inbox, e)
  PROVE  \A K : /\ inbox' \in Seq(Line)
                /\ Ids(inbox', K) = IF e.kind \in K THEN Ids(inbox, K) \cup {e.id} ELSE Ids(inbox, K)
                /\ AtMostOne(inbox, K) /\ (e.kind \in K => Ids(inbox, K) = {}) => AtMostOne(inbox', K)
                /\ EachOnce(inbox, K) /\ (e.kind \in K => e.id \notin Ids(inbox, K)) => EachOnce(inbox', K)
                /\ \A L : Follow(inbox, K, L) /\ (e.kind \in K => Ids(inbox, L) # {}) => Follow(inbox', K, L)
<1>1. inbox \in Seq(Line)
  BY DEF SessionInv, SessionType
<1> TAKE K
<1> QED BY <1>1, AppendLine

(* What the server says besides responses and the ends of turns changes    *)
(* nothing for the turn.                                                   *)
LEMMA SpokenKeeps ==
  ASSUME SessionInv, NEW e \in Line, inbox' = Append(inbox, e), e.kind \in {"notice"} \cup Asks,
         phase # "new",
         UNCHANGED <<phase, turn, outcome, call, outbox, writing, owed, active, done, proc>>,
         asked' \subseteq Request
  PROVE  SessionInv'
<1>pipe. Pipe' = Pipe
  BY DEF Pipe
<1>1. e.kind \notin RepLine /\ e.kind \notin EndLine /\ e.kind \notin OkLine
  BY DEF Asks, RepLine, EndLine, OkLine
<1>2. /\ Ids(inbox', RepLine) = Ids(inbox, RepLine)
      /\ AtMostOne(inbox, RepLine) => AtMostOne(inbox', RepLine)
      /\ Ids(inbox', EndLine) = Ids(inbox, EndLine)
      /\ AtMostOne(inbox, EndLine) => AtMostOne(inbox', EndLine)
      /\ Follow(inbox, EndLine, OkLine) => Follow(inbox', EndLine, OkLine)
      /\ Ids(inbox', OkLine) = Ids(inbox, OkLine)
      /\ inbox' \in Seq(Line)
  BY <1>1, LineGiven
<1>3. SessionType'
  BY <1>2, <1>pipe DEF SessionInv, SessionType
<1>4. \A id : OnePending(id) => OnePending(id)'
  BY <1>2, <1>pipe DEF OnePending
<1>5. /\ NonePending => NonePending'
      /\ NoneSent => NoneSent'
      /\ BeforeTurn => BeforeTurn'
      /\ AtTurn => AtTurn'
  BY <1>2, <1>pipe DEF NonePending, NoneSent, BeforeTurn, AtTurn
<1>6. TurnInv'
  BY <1>2, <1>4, <1>5 DEF SessionInv, TurnInv
<1> QED BY <1>3, <1>6 DEF SessionInv

(* It reads a line that the session has written.                           *)
LEMMA ServerReadsKeeps ==
  ASSUME SessionInv, AskInv, ServerReads
  PROVE  SessionInv' /\ AskInv'
<1> DEFINE e == Head(Pipe)
<1>0. /\ Pipe \in Seq(Line) /\ Pipe # <<>> /\ Head(outbox) = e
      /\ Pipe' = Tail(Pipe) /\ outbox' \in Seq(Line)
  <2>1. outbox # <<>> /\ outbox' = Tail(outbox) /\ UNCHANGED writing
    BY DEF ServerReads, ServerStep, client
  <2> QED BY <2>1, LineRead DEF SessionInv
<1>1. /\ UNCHANGED <<phase, turn, outcome, call, writing, inbox, active, done, early, proc>>
      /\ IF e.kind = "answer" THEN asked' = asked \ {e.id} /\ UNCHANGED owed
                              ELSE owed' = e.id /\ UNCHANGED asked
  BY <1>0 DEF ServerReads, ServerStep, client
<1>3. ASSUME NEW K
      PROVE  /\ e \in Line
             /\ Ids(Pipe, K) = IF e.kind \in K THEN Ids(Pipe', K) \cup {e.id} ELSE Ids(Pipe', K)
             /\ AtMostOne(Pipe, K) => AtMostOne(Pipe', K) /\ (e.kind \in K => Ids(Pipe', K) = {})
             /\ EachOnce(Pipe, K) => EachOnce(Pipe', K) /\ (e.kind \in K => e.id \notin Ids(Pipe', K))
  BY <1>0, TailLine
<1> HIDE DEF e
<1>4. /\ e \in Line
      /\ Ids(Pipe', OddLine) \subseteq Ids(Pipe, OddLine)
      /\ e.kind \in OddLine => Ids(Pipe, OddLine) # {}
      /\ Ids(Pipe', ReqLine) \subseteq Ids(Pipe, ReqLine)
      /\ e.kind \in ReqLine => e.id \in Ids(Pipe, ReqLine)
      /\ AtMostOne(Pipe, ReqLine) =>
           AtMostOne(Pipe', ReqLine) /\ (e.kind \in ReqLine => Ids(Pipe', ReqLine) = {})
  BY <1>3
<1>5. CASE e.kind = "answer"
  <2>1. e.kind \in AnsLine /\ e.kind \notin ReqLine /\ asked' = asked \ {e.id} /\ owed' = owed
    BY <1>1, <1>5 DEF AnsLine, ReqLine
  <2>2. Ids(Pipe, AnsLine) = Ids(Pipe', AnsLine) \cup {e.id} /\ EachOnce(Pipe', AnsLine)
        /\ e.id \notin Ids(Pipe', AnsLine) /\ Ids(Pipe', ReqLine) = Ids(Pipe, ReqLine)
    BY <1>3, <2>1 DEF AskInv
  <2>3. AskInv'
    BY <1>1, <2>1, <2>2 DEF AskInv
  <2>4. SessionType'
    BY <1>0, <1>1, <1>4, <2>1 DEF SessionInv, SessionType
  <2>5. \A id : OnePending(id) => OnePending(id)'
    BY <1>1, <1>4, <2>1, <2>2 DEF OnePending
  <2>6. /\ NonePending => NonePending'
        /\ NoneSent => NoneSent'
        /\ BeforeTurn => BeforeTurn'
        /\ AtTurn => AtTurn'
    BY <1>1, <2>1, <2>2 DEF NonePending, NoneSent, BeforeTurn, AtTurn
  <2>7. phase # "new"
    BY <2>2 DEF SessionInv, TurnInv, AskInv
  <2>8. TurnInv'
    BY <1>1, <2>5, <2>6, <2>7 DEF SessionInv, TurnInv
  <2> QED BY <2>3, <2>4, <2>8 DEF SessionInv
<1>6. CASE e.kind # "answer"
  <2>1. owed' = e.id /\ asked' = asked
    BY <1>1, <1>6
  <2>2. e.kind \notin AnsLine
    BY <1>6 DEF AnsLine
  <2>3. Ids(Pipe, AnsLine) = Ids(Pipe', AnsLine) /\ EachOnce(Pipe', AnsLine)
    BY <1>3, <2>2 DEF AskInv
  <2>4. AskInv'
    BY <1>1, <2>1, <2>3 DEF AskInv
  <2>5. SessionType'
    BY <1>0, <1>1, <1>4, <2>1 DEF SessionInv, SessionType, Line
  <2>6. e.kind \in ReqLine
    BY <1>4, <1>6 DEF SessionInv, SessionType, OddLine, ReqLine, Line
  <2>7. phase \notin {"new", "idle", "stream", "tool"} /\ Ids(Pipe, ReqLine) # {}
    BY <1>1, <1>4, <2>6 DEF SessionInv, TurnInv, NonePending, NoneSent
  <2>8. \A id : OnePending(id) => OnePending(id)'
    BY <1>1, <1>4, <2>1, <2>6, <2>7 DEF OnePending
  <2>9. BeforeTurn => BeforeTurn'
    BY <1>1 DEF BeforeTurn
  <2>10. TurnInv'
    BY <1>1, <2>7, <2>8, <2>9 DEF SessionInv, TurnInv, NoneSent
  <2> QED BY <2>4, <2>5, <2>10 DEF SessionInv
<1> QED BY <1>5, <1>6

(* It responds: what was read is now on its way back, and a turn that is   *)
(* not refused begins.                                                     *)
LEMMA ServerRespondsKeeps ==
  ASSUME SessionInv, AskInv, ServerResponds
  PROVE  SessionInv' /\ AskInv'
<1>1. /\ owed # 0 /\ owed' = 0
      /\ UNCHANGED <<phase, turn, outcome, call, outbox, writing, Pipe, done, asked, early, proc>>
  BY DEF ServerResponds, ServerStep, Says, client, Pipe
<1>2. PICK e \in Line :
        /\ inbox' = Append(inbox, e) /\ e.id = owed
        /\ \/ e.kind = "error" /\ active' = active
           \/ e.kind = "response" /\ active' = IF owed = turnStartID THEN done + 1 ELSE active
  <2>1. owed \in Nat
    BY DEF SessionInv, SessionType
  <2>2. Msg("error", owed) \in Line /\ Msg("response", owed) \in Line
        /\ Msg("error", owed).kind = "error" /\ Msg("response", owed).kind = "response"
        /\ Msg("error", owed).id = owed /\ Msg("response", owed).id = owed
    BY <2>1, MsgIsLine DEF Kind
  <2> QED BY <2>2 DEF ServerResponds, Says
<1>3. e.kind \in RepLine /\ e.kind \notin EndLine /\ e.kind \notin Asks
      /\ (e.kind \in OkLine <=> e.kind = "response")
  BY <1>2 DEF RepLine, EndLine, OkLine, Asks
<1>4. /\ inbox' \in Seq(Line)
      /\ Ids(inbox', RepLine) = Ids(inbox, RepLine) \cup {owed}
      /\ Ids(inbox, RepLine) = {} => AtMostOne(inbox, RepLine) /\ AtMostOne(inbox', RepLine)
      /\ Ids(inbox', EndLine) = Ids(inbox, EndLine)
      /\ Ids(inbox', Asks) = Ids(inbox, Asks) /\ EachOnce(inbox', Asks)
      /\ Ids(inbox', OkLine) = IF e.kind = "response" THEN Ids(inbox, OkLine) \cup {owed} ELSE Ids(inbox, OkLine)
  <2>1. Ids(inbox, RepLine) = {} => AtMostOne(inbox, RepLine)
    BY DEF Ids, AtMostOne
  <2> QED BY <1>2, <1>3, <2>1, LineGiven DEF AskInv
<1>5. phase \notin {"new", "idle", "stream", "tool"}
  BY <1>1 DEF SessionInv, TurnInv, NonePending, NoneSent
<1>6. active' \in Nat
  BY <1>2 DEF SessionInv, SessionType
<1>7. SessionType' /\ AskInv'
  <2>1. SessionType'
    BY <1>1, <1>4, <1>6 DEF SessionInv, SessionType
  <2>2. phase = "start" => Parted(inbox', Asks, OkLine, early)
    <3>1. inbox \in Seq(Line) /\ (phase = "start" => Parted(inbox, Asks, OkLine, early))
      BY DEF SessionInv, SessionType, AskInv
    <3> QED BY <1>2, <1>3, <3>1, AppendParted
  <2>3. active' = 0 => active = 0
    BY <1>2 DEF SessionInv, SessionType
  <2>4. AskInv'
    BY <1>1, <1>4, <1>5, <2>2, <2>3 DEF AskInv
  <2> QED BY <2>1, <2>4
<1>8. \A id : OnePending(id) => OnePending(id)'
  BY <1>1, <1>4 DEF OnePending
<1>9. phase \in {"init", "thread"} => active' = active
  BY <1>1, <1>2 DEF SessionInv, TurnInv, OnePending, initializeID, threadStartID, turnStartID
<1>10. CASE phase = "start"
  <2>1. OnePending(turnStartID)' /\ owed = turnStartID /\ BeforeTurn
    BY <1>1, <1>8, <1>10 DEF SessionInv, TurnInv, OnePending, NoneSent
  <2>2. Follow(inbox', EndLine, OkLine)
    BY <1>2, <1>3, <1>10, LineGiven DEF SessionInv, TurnInv
  <2>3. CASE e.kind = "error"
    <3>1. BeforeTurn' /\ active' = 0
      BY <1>1, <1>2, <1>4, <2>1, <2>3 DEF BeforeTurn
    <3> QED BY <1>1, <1>7, <1>10, <2>1, <2>2, <3>1 DEF SessionInv, TurnInv
  <2>4. CASE e.kind = "response"
    <3>1. active' = turn /\ NoneSent'
      <4>1. active' = done + 1 /\ done = turn - 1 /\ turn \in Nat
        BY <1>2, <2>1, <2>4 DEF BeforeTurn, SessionInv, SessionType
      <4>2. Ids(Pipe, ReqLine) = {}
        BY <1>1, <1>10 DEF SessionInv, TurnInv, OnePending
      <4> QED BY <1>1, <4>1, <4>2 DEF NoneSent
    <3>2. AtMostOne(inbox', EndLine)
      BY <1>4, <2>1, NoneIsAtMostOne DEF BeforeTurn
    <3>3. AtTurn'
      BY <1>1, <1>4, <2>1, <3>1, <3>2 DEF BeforeTurn, AtTurn
    <3>4. Ids(inbox', OkLine) # {}
      BY <1>4, <2>4
    <3> QED BY <1>1, <1>7, <1>10, <2>1, <2>2, <3>1, <3>3, <3>4 DEF SessionInv, TurnInv
  <2> QED BY <1>2, <2>3, <2>4
<1>11. CASE phase # "start"
  <2>1. TurnInv'
    BY <1>1, <1>4, <1>5, <1>8, <1>9, <1>11 DEF SessionInv, TurnInv
  <2> QED BY <1>7, <2>1 DEF SessionInv
<1> QED BY <1>10, <1>11

LEMMA ServerAsksKeeps ==
  ASSUME SessionInv, AskInv, ServerAsks
  PROVE  SessionInv' /\ AskInv'
<1>1. /\ UNCHANGED <<phase, turn, outcome, call, outbox, writing, Pipe, owed, active, done, proc>>
      /\ active # 0 \/ owed = turnStartID
      /\ turnStartID # 0 /\ proc = "running"
  BY DEF ServerAsks, ServerStep, Says, client, turnStartID, Pipe
<1>2. PICK k \in Asks, r \in Request \ asked :
        /\ inbox' = Append(inbox, Msg(k, r)) /\ asked' = asked \cup {r}
        /\ early' = IF owed = turnStartID THEN early \cup {r} ELSE early
  BY DEF ServerAsks, Says
<1> DEFINE e == Msg(k, r)
<1>3. e \in Line /\ e.kind \in Asks /\ e.id = r
  BY <1>2, SessionAssumption, MsgIsLine DEF Kind, Asks
<1>4. phase \notin {"new", "init", "thread", "idle"}
  <2>1. phase \in {"new", "idle"} => NonePending /\ active = 0
    BY DEF SessionInv, TurnInv
  <2>2. phase \in {"init", "thread"} => active = 0 /\ owed # turnStartID
    BY DEF SessionInv, TurnInv, OnePending, initializeID, threadStartID, turnStartID
  <2> QED BY <1>1, <2>1, <2>2 DEF NonePending, NoneSent
<1> HIDE DEF e
<1>5. inbox' = Append(inbox, e)
  BY <1>2 DEF e
<1>6. SessionInv'
  BY <1>1, <1>2, <1>3, <1>4, <1>5, SpokenKeeps DEF SessionInv, SessionType
<1>7. Ids(inbox', Asks) = Ids(inbox, Asks) \cup {r} /\ EachOnce(inbox', Asks)
  BY <1>2, <1>3, <1>5, LineGiven DEF AskInv
<1>8. phase = "start" => Parted(inbox', Asks, OkLine, early')
  <2> SUFFICES ASSUME phase = "start" PROVE Parted(inbox', Asks, OkLine, early')
    OBVIOUS
  <2>1. inbox \in Seq(Line) /\ Parted(inbox, Asks, OkLine, early)
    BY DEF SessionInv, SessionType, AskInv
  <2>2. \A n \in 1 .. Len(inbox) : inbox[n].kind \in Asks => inbox[n].id # r
    BY <1>2 DEF AskInv, Ids
  <2>3. Parted(inbox, Asks, OkLine, early')
    BY <1>2, <2>1, <2>2 DEF Parted
  <2>4. e.id \in early' <=> owed = turnStartID
    BY <1>2, <1>3 DEF AskInv
  <2>5. e.kind \notin OkLine
    BY <1>3 DEF Asks, OkLine
  <2>6. owed = turnStartID <=> Ids(inbox, OkLine) = {}
    <3>1. CASE owed = turnStartID
      BY <1>1, <3>1 DEF SessionInv, TurnInv, OnePending, Ids, OkLine, RepLine
    <3>2. CASE owed # turnStartID
      BY <1>1, <3>2 DEF SessionInv, TurnInv
    <3> QED BY <3>1, <3>2
  <2> QED BY <1>3, <1>5, <2>1, <2>3, <2>4, <2>5, <2>6, AppendParted
<1>9. phase \in {"stream", "tool"} => early' = early
  BY <1>1, <1>2 DEF SessionInv, TurnInv, NonePending, NoneSent
<1>10. early' \subseteq asked' /\ early \subseteq early' /\ early' \cap asked \subseteq early
       /\ (active = 0 => asked' \subseteq early')
  BY <1>1, <1>2 DEF AskInv
<1>11. AskInv'
  BY <1>1, <1>2, <1>4, <1>7, <1>8, <1>9, <1>10 DEF AskInv
<1> QED BY <1>6, <1>11

LEMMA ServerNotifiesKeeps ==
  ASSUME SessionInv, AskInv, ProcessInv, ServerNotifies
  PROVE  SessionInv' /\ AskInv'
<1>1. UNCHANGED <<phase, turn, outcome, call, outbox, writing, Pipe, owed, active, done, asked,
                  early, proc>>
      /\ phase # "new"
  BY DEF ServerNotifies, ServerStep, Says, client, server, ProcessInv, Pipe
<1> DEFINE e == Msg("notice", 0)
<1>2. e \in Line /\ e.kind = "notice" /\ inbox' = Append(inbox, e)
  BY MsgIsLine DEF Kind, ServerNotifies, Says
<1> HIDE DEF e
<1>3. e.kind \notin Asks
  BY <1>2 DEF Asks
<1>4. SessionInv'
  BY <1>1, <1>2, SpokenKeeps DEF SessionInv, SessionType
<1>5. Ids(inbox', Asks) = Ids(inbox, Asks) /\ EachOnce(inbox', Asks)
  BY <1>2, <1>3, LineGiven DEF AskInv
<1>6. phase = "start" => Parted(inbox', Asks, OkLine, early)
  <2>1. inbox \in Seq(Line) /\ (phase = "start" => Parted(inbox, Asks, OkLine, early))
    BY DEF SessionInv, SessionType, AskInv
  <2> QED BY <1>2, <1>3, <2>1, AppendParted
<1>7. AskInv'
  BY <1>1, <1>5, <1>6 DEF AskInv
<1> QED BY <1>4, <1>7

(* It ends the turn that it works on, and says so behind its response.     *)
LEMMA ServerEndsTurnKeeps ==
  ASSUME SessionInv, AskInv, ServerEndsTurn
  PROVE  SessionInv' /\ AskInv'
<1>1. /\ UNCHANGED <<phase, turn, outcome, call, outbox, writing, Pipe, owed, asked, early, proc>>
      /\ active # 0 /\ active' = 0 /\ done' = active /\ proc = "running" /\ asked \subseteq early
  BY DEF ServerEndsTurn, ServerStep, Says, client, Pipe
<1>2. PICK e \in Line : inbox' = Append(inbox, e) /\ e.kind \in EndLine
  <2>1. active \in Nat
    BY DEF SessionInv, SessionType
  <2>2. \A k \in {"completed", "failed"} : Msg(k, active) \in Line /\ Msg(k, active).kind \in EndLine
    BY <2>1, MsgIsLine DEF Kind, EndLine
  <2> QED BY <2>2 DEF ServerEndsTurn, Says
<1>3. e.kind \notin RepLine /\ e.kind \notin OkLine /\ e.kind \notin Asks
  BY <1>2 DEF EndLine, RepLine, OkLine, Asks
<1>4. /\ inbox' \in Seq(Line)
      /\ Ids(inbox', RepLine) = Ids(inbox, RepLine)
      /\ AtMostOne(inbox, RepLine) => AtMostOne(inbox', RepLine)
      /\ Ids(inbox', OkLine) = Ids(inbox, OkLine)
      /\ Ids(inbox', Asks) = Ids(inbox, Asks) /\ EachOnce(inbox', Asks)
  BY <1>2, <1>3, LineGiven DEF AskInv
<1>5. SessionType' /\ AskInv'
  <2>1. SessionType'
    BY <1>1, <1>4 DEF SessionInv, SessionType
  <2>2. inbox \in Seq(Line) /\ (phase = "start" => Parted(inbox, Asks, OkLine, early))
    BY DEF SessionInv, SessionType, AskInv
  <2>3. phase = "start" => Parted(inbox', Asks, OkLine, early)
    BY <1>2, <1>3, <2>2, AppendParted
  <2>4. AskInv'
    BY <1>1, <1>4, <2>3 DEF AskInv
  <2> QED BY <2>1, <2>4
<1>6. phase \notin {"new", "init", "thread", "idle"}
  BY <1>1 DEF SessionInv, TurnInv
<1>7. phase \in {"start", "stream", "tool"} => AtTurn'
  <2> SUFFICES ASSUME phase \in {"start", "stream", "tool"} PROVE AtTurn'
    OBVIOUS
  <2>1. AtTurn /\ active = turn /\ Ids(inbox, EndLine) = {}
    BY <1>1 DEF SessionInv, TurnInv, BeforeTurn, AtTurn
  <2>2. AtMostOne(inbox, EndLine)
    BY <2>1 DEF AtTurn
  <2>3. AtMostOne(inbox', EndLine)
    BY <1>2, <2>1, <2>2, LineGiven
  <2> QED BY <1>1, <2>1, <2>3 DEF AtTurn
<1>8. CASE phase = "start"
  <2>1. NoneSent /\ Follow(inbox, EndLine, OkLine) /\ Ids(inbox, OkLine) # {} /\ OnePending(turnStartID)
    BY <1>1, <1>8 DEF SessionInv, TurnInv, BeforeTurn
  <2>2. Follow(inbox', EndLine, OkLine)
    BY <1>2, <2>1, LineGiven
  <2>3. OnePending(turnStartID)' /\ NoneSent'
    BY <1>1, <1>4, <2>1 DEF OnePending, NoneSent, turnStartID
  <2>4. TurnInv'
    BY <1>1, <1>7, <1>8, <2>2, <2>3 DEF TurnInv
  <2> QED BY <1>5, <2>4 DEF SessionInv
<1>9. CASE phase # "start"
  <2>1. NonePending => NonePending'
    BY <1>1, <1>4 DEF NonePending, NoneSent
  <2>2. TurnInv'
    BY <1>1, <1>6, <1>7, <1>9, <2>1 DEF SessionInv, TurnInv
  <2> QED BY <1>5, <2>2 DEF SessionInv
<1> QED BY <1>8, <1>9

Inv == SessionInv /\ AskInv /\ ProcessInv

LEMMA InvStart == ToolInit => Inv
<1>1. ToolInit => ProcessInv
  BY DEF ToolInit, Init, ProcessInv, NoOrphanProcess
<1> QED BY <1>1, SessionStart DEF ToolInit, Inv

LEMMA InvStep == Inv /\ SessionNext => SessionInv' /\ AskInv'
<1> SUFFICES ASSUME Inv, SessionNext PROVE SessionInv' /\ AskInv'
  OBVIOUS
<1> USE DEF Inv
<1>1. CASE Session
  BY <1>1, SessionKeeps
<1>2. CASE ToolReturns
  BY <1>2, ToolReturnsKeeps
<1>3. CASE Server
  BY <1>3, ServerReadsKeeps, ServerRespondsKeeps, ServerAsksKeeps, ServerNotifiesKeeps,
     ServerEndsTurnKeeps DEF Server
<1>4. CASE UNCHANGED vars
  <2>1. UNCHANGED <<phase, turn, outcome, call, outbox, writing, inbox, owed, active, done,
                    asked, early, proc>>
    BY <1>4 DEF vars, client, server
  <2>2. outbox \in Seq(Line) /\ Pipe' = Pipe
    BY <2>1 DEF SessionInv, SessionType, Pipe
  <2> QED BY <2>1, <2>2, StandingKeeps
<1> QED BY <1>1, <1>2, <1>3, <1>4 DEF SessionNext

LEMMA InvCorrect == FairToolSpec => []Inv
<1>1. SessionInv /\ AskInv /\ ProcessInv /\ [ToolNext]_toolVars => (SessionInv /\ AskInv)'
  BY ToolStepsAreSessionSteps, InvStep DEF Inv
<1> QED BY <1>1, InvStart, ProcessKept, PTL DEF FairToolSpec, Inv

(* A turn that the session reports as completed is the turn that the       *)
(* server has completed, for any number of turns and however far the       *)
(* server is ahead: every turn uses the same request id, and terminal      *)
(* events are not compared with the turn (session.go:366, 392).            *)
THEOREM TurnsAlwaysAgree == FairToolSpec => []TurnsAgree
<1>1. Inv => TurnsAgree
  BY DEF Inv, SessionInv, SessionType, TurnInv, TurnsAgree
<1> QED BY <1>1, InvCorrect, PTL

-----------------------------------------------------------------------------
(* The requests of the server.                                             *)

Past == phase \in {"closing", "over"} \/ proc # "running" \/ closed
InPlace(r) ==
  \/ r \in Ids(inbox, Asks)
  \/ phase = "tool" /\ call = r
  \/ r \in Ids(Pipe, AnsLine)

(* None of the others is dropped by a session that goes on.                *)
PlacesInv == \A r \in asked \ early : Past \/ InPlace(r)

LEMMA AwaitResponsePlaces ==
  ASSUME Inv, PlacesInv, AwaitResponse
  PROVE  PlacesInv'
<1> DEFINE e == Head(inbox)
<1>1. /\ phase \in {"init", "thread", "start"} /\ inbox # <<>> /\ inbox' = Tail(inbox)
      /\ writing = <<>> /\ UNCHANGED <<active, asked, early, proc, closed>>
  BY DEF AwaitResponse, Reads, server, Awaiting
<1>2. CASE phase' = "closing"
  BY <1>2 DEF PlacesInv, Past
<1>3. CASE phase # "start"
  <2>1. asked \subseteq early
    BY <1>1, <1>3 DEF Inv, SessionInv, TurnInv, AskInv
  <2> QED BY <1>1, <2>1 DEF PlacesInv
<1>4. CASE phase = "start" /\ phase' # "closing"
  <2>1. inbox \in Seq(Line) /\ Parted(inbox, Asks, OkLine, early)
    BY <1>4 DEF Inv, SessionInv, SessionType, AskInv
  <2>2. UNCHANGED <<call, writing, outbox>>
    BY <1>4 DEF AwaitResponse, Fail, client, Awaiting
  <2>3. e.kind \in Asks => e.id \in early
    BY <1>1, <2>1, TailParted
  <2>4. Ids(inbox, Asks) = IF e.kind \in Asks THEN Ids(inbox', Asks) \cup {e.id} ELSE Ids(inbox', Asks)
    BY <1>1, LineTaken DEF Inv
  <2>5. Pipe' = Pipe
    BY <2>2 DEF Pipe
  <2> QED BY <1>1, <1>4, <2>2, <2>3, <2>4, <2>5 DEF PlacesInv, Past, InPlace
<1> QED BY <1>2, <1>3, <1>4

(* An answer takes the place of the request.                               *)
LEMMA AnswerPlaced ==
  ASSUME Inv, writing = <<>>, NEW id \in asked, AnswerWith(id)
  PROVE  /\ phase' \in {"stream", "closing"}
         /\ phase' = "closing" \/ Ids(Pipe', AnsLine) = Ids(Pipe, AnsLine) \cup {id}
<1>1. CASE Writable
  <2>1. Write(Msg("answer", id)) /\ phase' = "stream"
    BY <1>1 DEF AnswerWith
  <2>2. id \in Nat
    BY SessionAssumption DEF Inv, SessionInv, SessionType
  <2> QED BY <2>1, <2>2, AnswerWritten DEF Inv, SessionInv
<1>2. CASE ~Writable
  BY <1>2 DEF AnswerWith, Fail
<1> QED BY <1>1, <1>2

LEMMA StreamPlaces ==
  ASSUME Inv, PlacesInv, Stream
  PROVE  PlacesInv'
<1> DEFINE e == Head(inbox)
<1>1. /\ phase = "stream" /\ writing = <<>> /\ inbox # <<>> /\ inbox' = Tail(inbox)
      /\ UNCHANGED <<owed, active, done, asked, early, proc, closed>>
  BY DEF Stream, Reads, server
<1>2. Ids(inbox, Asks) = IF e.kind \in Asks THEN Ids(inbox', Asks) \cup {e.id} ELSE Ids(inbox', Asks)
  BY <1>1, LineTaken DEF Inv
<1>3. e.kind \in Asks => e.id \in asked
  BY <1>2 DEF Inv, AskInv
<1> HIDE DEF e
<1>4. \/ phase' = "closing"
      \/ e.kind \notin Asks /\ UNCHANGED <<writing, outbox>>
      \/ e.kind \in Asks /\ AnswerWith(e.id)
      \/ e.kind \in Asks /\ phase' = "tool" /\ call' = e.id /\ UNCHANGED <<writing, outbox>>
  BY <1>1 DEF Stream, TurnEnds, HandleAsk, CannotAnswer, AnswerWith, Fail, client, e, Asks
<1>5. ASSUME NEW r \in asked \ early
      PROVE  Past' \/ InPlace(r)'
  <2>1. Past => Past'
    BY <1>1 DEF Past
  <2>2. Past \/ r \in Ids(inbox, Asks) \/ r \in Ids(Pipe, AnsLine)
    BY <1>1 DEF PlacesInv, InPlace
  <2>3. CASE phase' = "closing"
    BY <2>3 DEF Past
  <2>4. CASE e.kind \notin Asks /\ UNCHANGED <<writing, outbox>>
    BY <1>1, <1>2, <2>1, <2>2, <2>4 DEF InPlace, Pipe
  <2>5. CASE e.kind \in Asks /\ AnswerWith(e.id)
    BY <1>1, <1>2, <1>3, <2>1, <2>2, <2>5, AnswerPlaced DEF InPlace, Past
  <2>6. CASE e.kind \in Asks /\ phase' = "tool" /\ call' = e.id /\ UNCHANGED <<writing, outbox>>
    BY <1>1, <1>2, <2>1, <2>2, <2>6 DEF InPlace, Pipe
  <2> QED BY <1>4, <2>3, <2>4, <2>5, <2>6
<1> QED BY <1>1, <1>4, <1>5 DEF PlacesInv

LEMMA SessionPlaces ==
  ASSUME Inv, PlacesInv, Session \/ ToolReturns \/ UNCHANGED vars
  PROVE  PlacesInv'
<1>1. CASE AwaitResponse
  BY <1>1, AwaitResponsePlaces
<1>2. CASE Stream
  BY <1>2, StreamPlaces
<1>3. CASE ToolReturns
  <2>1. /\ phase = "tool" /\ AnswerWith(call)
        /\ UNCHANGED <<inbox, asked, early, proc, closed>>
    BY <1>3 DEF ToolReturns, server
  <2>2. call \in asked /\ writing = <<>>
    BY <2>1 DEF Inv, AskInv, SessionInv, SessionType, Writing
  <2>3. /\ phase' \in {"stream", "closing"}
        /\ phase' = "closing" \/ Ids(Pipe', AnsLine) = Ids(Pipe, AnsLine) \cup {call}
    BY <2>1, <2>2, AnswerPlaced
  <2> QED BY <2>1, <2>3 DEF PlacesInv, Past, InPlace
<1>4. CASE StartSession \/ RunTurn
  <2>1. phase \in {"new", "idle"} /\ UNCHANGED <<asked, early>>
    BY <1>4 DEF StartSession, RunTurn, server
  <2>2. asked \subseteq early
    BY <2>1 DEF Inv, SessionInv, TurnInv, AskInv
  <2> QED BY <2>1, <2>2 DEF PlacesInv
<1>5. CASE LeaveLoop \/ ReadGivesUp \/ WriteBreaks \/ Close
  <2>1. phase' \in {"closing", "over"}
    BY <1>5 DEF LeaveLoop, ReadGivesUp, WriteBreaks, Close, Fail
  <2> QED BY <2>1 DEF PlacesInv, Past
<1>6. CASE Deadline \/ Cancel \/ UNCHANGED vars
  <2>1. UNCHANGED <<phase, call, writing, outbox, inbox, asked, early, proc, closed>>
    BY <1>6 DEF Deadline, Cancel, vars, client, server
  <2> QED BY <2>1 DEF PlacesInv, Past, InPlace, Pipe
<1>7. CASE Exit \/ CloseByStop
  <2>1. Past'
    BY <1>7 DEF Exit, CloseByStop, Past
  <2> QED BY <2>1 DEF PlacesInv
<1>8. CASE WriteGoesThrough
  <2>1. /\ UNCHANGED <<phase, call, inbox, asked, early, proc, closed>>
        /\ outbox' = outbox \o writing /\ writing' = <<>>
    BY <1>8 DEF WriteGoesThrough, server
  <2>2. Pipe' = Pipe
    BY <2>1, LineGoesThrough DEF Inv, SessionInv
  <2> QED BY <2>1, <2>2 DEF PlacesInv, Past, InPlace
<1> QED BY <1>1, <1>2, <1>3, <1>4, <1>5, <1>6, <1>7, <1>8 DEF Session

LEMMA ServerPlaces ==
  ASSUME Inv, PlacesInv, Server
  PROVE  PlacesInv'
<1>1. UNCHANGED <<phase, call, writing, proc, closed>> /\ (Past => Past')
  BY DEF Server, ServerReads, ServerResponds, ServerAsks, ServerNotifies, ServerEndsTurn,
         ServerStep, client, Past
<1>2. CASE ServerReads
  <2> DEFINE e == Head(Pipe)
  <2>1. /\ outbox # <<>> /\ outbox' = Tail(outbox) /\ UNCHANGED <<inbox, early>>
        /\ asked' = IF Head(outbox).kind = "answer" THEN asked \ {Head(outbox).id} ELSE asked
    BY <1>2 DEF ServerReads
  <2>2. Pipe \in Seq(Line) /\ Pipe # <<>> /\ Head(outbox) = e /\ Pipe' = Tail(Pipe)
    BY <1>1, <2>1, LineRead DEF Inv, SessionInv
  <2>3. Ids(Pipe, AnsLine) = IF e.kind \in AnsLine THEN Ids(Pipe', AnsLine) \cup {e.id}
                                                   ELSE Ids(Pipe', AnsLine)
    BY <2>2, TailLine
  <2> HIDE DEF e
  <2>4. asked' \subseteq asked /\ \A r \in asked' : r \in Ids(Pipe, AnsLine) => r \in Ids(Pipe', AnsLine)
    BY <2>1, <2>2, <2>3 DEF AnsLine
  <2> QED BY <1>1, <2>1, <2>4 DEF PlacesInv, InPlace
<1>3. CASE ServerResponds \/ ServerNotifies \/ ServerEndsTurn
  <2>1. PICK e \in Line : inbox' = Append(inbox, e) /\ e.kind \notin Asks
    <3>1. owed \in Nat /\ active \in Nat
      BY DEF Inv, SessionInv, SessionType
    <3>2. \A k \in Kind \ Asks, n \in Nat : Msg(k, n) \in Line /\ Msg(k, n).kind \notin Asks
      BY MsgIsLine
    <3>3. {"error", "response", "notice", "completed", "failed"} \subseteq Kind \ Asks
      BY DEF Kind, Asks
    <3>4. \E k \in Kind \ Asks, n \in Nat : inbox' = Append(inbox, Msg(k, n))
      BY <1>3, <3>1, <3>3 DEF ServerResponds, ServerNotifies, ServerEndsTurn, Says
    <3> QED BY <3>2, <3>4
  <2>2. Ids(inbox', Asks) = Ids(inbox, Asks)
    BY <2>1, LineGiven DEF Inv
  <2>3. UNCHANGED <<outbox, asked, early>>
    BY <1>3 DEF ServerResponds, ServerNotifies, ServerEndsTurn, Says, server
  <2> QED BY <1>1, <2>2, <2>3 DEF PlacesInv, InPlace, Pipe
<1>4. CASE ServerAsks
  <2>1. PICK k \in Asks, r \in Request \ asked :
          /\ inbox' = Append(inbox, Msg(k, r)) /\ asked' = asked \cup {r} /\ UNCHANGED outbox
          /\ early \subseteq early'
    BY <1>4 DEF ServerAsks, Says
  <2>2. Msg(k, r) \in Line /\ Msg(k, r).kind \in Asks /\ Msg(k, r).id = r
    BY <2>1, SessionAssumption, MsgIsLine DEF Kind, Asks
  <2>3. Ids(inbox', Asks) = Ids(inbox, Asks) \cup {r}
    BY <2>1, <2>2, LineGiven DEF Inv
  <2> QED BY <1>1, <2>1, <2>3 DEF PlacesInv, InPlace, Pipe
<1> QED BY <1>2, <1>3, <1>4 DEF Server

(* Every request that the server makes after it has answered turn/start is *)
(* answered at most once, and is not lost by a session that goes on; one   *)
(* that it makes before is never answered.  Of lines on their way, of      *)
(* requests and of turns there may be any number, and writes may block     *)
(* (session.go:482, 538, 571).                                             *)
THEOREM EveryRequestAnsweredOnce == FairToolSpec => []RequestsAnsweredOnce
<1>1. ToolInit => PlacesInv
  BY DEF ToolInit, Init, PlacesInv
<1>2. Inv /\ PlacesInv /\ [ToolNext]_toolVars => PlacesInv'
  BY ToolStepsAreSessionSteps, SessionPlaces, ServerPlaces DEF SessionNext
<1>3. Inv /\ PlacesInv => RequestsAnsweredOnce
  <2> SUFFICES ASSUME Inv, PlacesInv PROVE RequestsAnsweredOnce
    OBVIOUS
  <2>1. inbox \in Seq(Line) /\ Pipe \in Seq(Line)
    BY ConcatProperties DEF Inv, SessionInv, SessionType, Pipe
  <2>2. DOMAIN Pipe = 1 .. Len(Pipe) /\ \A n \in 1 .. Len(Pipe) : Pipe[n] \in Line
    BY <2>1, LenProperties, ElementOfSeq
  <2>3. \A n \in 1 .. Len(inbox) : inbox[n] \in Line
    BY <2>1, ElementOfSeq
  <2>4. ASSUME NEW m \in DOMAIN Pipe, NEW n \in DOMAIN Pipe,
               Pipe[m].kind = "answer", Pipe[m] = Pipe[n]
        PROVE  m = n
    BY <2>2, <2>4 DEF Inv, AskInv, EachOnce, AnsLine
  <2>5. ASSUME NEW n \in DOMAIN Pipe, Pipe[n].kind = "answer"
        PROVE  Pipe[n].id \in asked \ early
    <3>1. Pipe[n].id \in Ids(Pipe, AnsLine)
      BY <2>2, <2>5 DEF Ids, AnsLine
    <3> QED BY <3>1 DEF Inv, AskInv
  <2>6. ASSUME NEW r \in asked \ early
        PROVE  \/ phase \in {"closing", "over"}
               \/ proc # "running" \/ closed
               \/ \E k \in Asks : Contains(inbox, Msg(k, r))
               \/ phase = "tool" /\ call = r
               \/ Contains(Pipe, Msg("answer", r))
    <3>1. r \in Ids(inbox, Asks) => \E k \in Asks : Contains(inbox, Msg(k, r))
      <4> SUFFICES ASSUME r \in Ids(inbox, Asks) PROVE \E k \in Asks : Contains(inbox, Msg(k, r))
        OBVIOUS
      <4>1. PICK n \in 1 .. Len(inbox) : inbox[n].kind \in Asks /\ inbox[n].id = r
        BY DEF Ids
      <4>2. inbox[n] = Msg(inbox[n].kind, r)
        BY <2>3, <4>1 DEF Msg, Line
      <4> QED BY <4>1, <4>2 DEF Contains
    <3>2. r \in Ids(Pipe, AnsLine) => Contains(Pipe, Msg("answer", r))
      <4> SUFFICES ASSUME r \in Ids(Pipe, AnsLine) PROVE Contains(Pipe, Msg("answer", r))
        OBVIOUS
      <4>1. PICK n \in 1 .. Len(Pipe) : Pipe[n].kind = "answer" /\ Pipe[n].id = r
        BY DEF Ids, AnsLine
      <4>2. Pipe[n] = Msg("answer", r)
        BY <2>2, <4>1 DEF Msg, Line
      <4> QED BY <4>2 DEF Contains
    <3> QED BY <3>1, <3>2 DEF PlacesInv, Past, InPlace
  <2>7. Pipe = outbox \o writing
    BY DEF Pipe
  <2> QED BY <2>4, <2>5, <2>6, <2>7 DEF RequestsAnsweredOnce
<1> QED BY <1>1, <1>2, <1>3, InvCorrect, PTL DEF FairToolSpec

-----------------------------------------------------------------------------
(* The tool calls.                                                         *)

(* A call that is not taken yet has no document on its way; the one that   *)
(* is worked on has sent it once at most, and what has run was sent.       *)
ToolInv ==
  /\ ran \in [Request -> Nat]
  /\ DOMAIN verdict = Request
  /\ request # "none" => phase = "tool"
  /\ \A r \in flight \cap asked : ran[r] = 0
  /\ \A r \in Ids(inbox, Asks) : verdict[r] = "none" /\ r \notin flight /\ ran[r] = 0
  /\ phase = "tool" =>
       /\ verdict[call] = "none"
       /\ request = "none" => call \notin flight /\ ran[call] = 0
       /\ request \in Reply => call \notin flight
       /\ request = "data" => ran[call] = 1

Truth == ToolInv /\ VerdictsAreTrue

(* The session alone: it takes a call, or goes on with the one it has.     *)
LEMMA SessionTakesCalls ==
  ASSUME Inv, Session
  PROVE  /\ asked' = asked
         /\ Ids(inbox', Asks) \subseteq Ids(inbox, Asks)
         /\ phase = "tool" => phase' = "tool" /\ call' = call
         /\ phase # "tool" /\ phase' = "tool" => call' \in Ids(inbox, Asks)
<1>1. inbox \in Seq(Line) /\ "eof" \notin Asks
  BY DEF Inv, SessionInv, SessionType, Asks
<1>2. CASE Stream
  <2>1. phase = "stream" /\ inbox # <<>> /\ inbox' = Tail(inbox) /\ asked' = asked
    BY <1>2 DEF Stream, Reads, server
  <2>2. phase' = "tool" => Head(inbox).kind = "tool" /\ call' = Head(inbox).id
    BY <1>2, <2>1 DEF Stream, TurnEnds, HandleAsk, CannotAnswer, AnswerWith, Fail, client
  <2>3. Ids(inbox, Asks) = IF Head(inbox).kind \in Asks THEN Ids(inbox', Asks) \cup {Head(inbox).id}
                                                        ELSE Ids(inbox', Asks)
    BY <2>1, LineTaken DEF Inv
  <2> QED BY <2>1, <2>2, <2>3 DEF Asks
<1>3. CASE AwaitResponse
  <2>1. /\ phase \in DOMAIN Awaiting /\ inbox # <<>> /\ inbox' = Tail(inbox) /\ asked' = asked
        /\ phase' # "tool" /\ phase # "tool"
    BY <1>3 DEF AwaitResponse, Reads, Send, Fail, client, server, Awaiting
  <2>2. Ids(inbox', Asks) \subseteq Ids(inbox, Asks)
    BY <2>1, LineTaken DEF Inv
  <2> QED BY <2>1, <2>2
<1>4. CASE \/ StartSession \/ RunTurn \/ LeaveLoop \/ Deadline \/ ReadGivesUp \/ Cancel
           \/ WriteGoesThrough \/ WriteBreaks
  <2>1. inbox' = inbox /\ asked' = asked
    BY <1>4 DEF StartSession, RunTurn, LeaveLoop, Deadline, ReadGivesUp, Cancel, WriteGoesThrough,
                WriteBreaks, server
  <2>2. phase = "tool" => phase' = "tool" /\ call' = call
    <3>1. phase = "tool" => writing = <<>>
      BY DEF Inv, SessionInv, SessionType, Writing
    <3> QED BY <1>4, <3>1 DEF StartSession, RunTurn, LeaveLoop, Deadline, ReadGivesUp, Cancel,
                              WriteGoesThrough, WriteBreaks, client, Awaiting
  <2>3. phase # "tool" => phase' # "tool"
    BY <1>4 DEF StartSession, Refused, RunTurn, Send, Fail, LeaveLoop, Deadline, ReadGivesUp,
       Cancel,
                WriteGoesThrough, WriteBreaks, client
  <2> QED BY <2>1, <2>2, <2>3
<1>5. CASE Exit \/ CloseByStop \/ Close
  <2>1. asked' = asked /\ phase' \in {phase, "over"} /\ (phase = "tool" => phase' = phase) /\ call' = call
    BY <1>5 DEF Exit, CloseByStop, Close, client, server
  <2>2. \/ inbox' = inbox
        \/ \E k \in 0 .. Len(inbox) : inbox' = Append(SubSeq(inbox, 1, k), Eof)
    <3>1. inbox = SubSeq(inbox, 1, Len(inbox)) /\ Len(inbox) \in 0 .. Len(inbox)
      BY <1>1, SubSeqFull, LenProperties
    <3> QED BY <1>5, <3>1 DEF Exit, CloseByStop, Close, Reap
  <2>3. Ids(inbox', Asks) \subseteq Ids(inbox, Asks)
    BY <1>1, <2>2, CutLine
  <2> QED BY <2>1, <2>3
<1> QED BY <1>2, <1>3, <1>4, <1>5 DEF Session

LEMMA SessionKeepsTruth ==
  ASSUME Inv, Truth, Session, UNCHANGED tool
  PROVE  Truth'
<1>1. UNCHANGED <<request, flight, ran, verdict>>
  BY DEF tool
<1>2. VerdictsAreTrue'
  BY <1>1, SessionTakesCalls DEF Truth, VerdictsAreTrue
<1>3. phase # "tool" => request = "none"
  BY DEF Truth, ToolInv
<1>4. ToolInv'
  BY <1>1, <1>3, SessionTakesCalls DEF Truth, ToolInv, Reply
<1> QED BY <1>2, <1>4 DEF Truth

(* The handler returns, and the server gets what is known of the call.     *)
LEMMA AnsweringKeepsTruth ==
  ASSUME Inv, Truth, NEW v, Answers(v), v \in {"data", "hollow", "failure", "rejected"},
         Succeeded(v) => request = v,
         v = "rejected" => request = "none"
  PROVE  Truth'
<1>1. /\ phase = "tool" /\ AnswerWith(call) /\ UNCHANGED <<inbox, asked, flight, ran>>
      /\ request' = "none"
      /\ verdict' = IF Writable THEN [verdict EXCEPT ![call] = v] ELSE verdict
  BY DEF Answers, ToolReturns, server
<1>2. call \in asked \ Ids(inbox, Asks) /\ asked \subseteq Request /\ phase' # "tool"
  <2>1. call \in asked \ Ids(inbox, Asks)
    BY <1>1 DEF Inv, AskInv
  <2>2. phase' # "tool"
    BY <1>1 DEF AnswerWith, Fail
  <2> QED BY <2>1, <2>2 DEF Inv, SessionInv, SessionType
<1>3. \A r \in Request : verdict'[r] = verdict[r] \/ (r = call /\ verdict'[r] = v)
  BY <1>1 DEF Truth, ToolInv
<1>4. \A r \in Request \ {call} : verdict'[r] = verdict[r]
  BY <1>1 DEF Truth, ToolInv
<1>5. DOMAIN verdict' = Request
  BY <1>1 DEF Truth, ToolInv
<1>6. Ids(inbox, Asks) \subseteq Request \ {call}
  BY <1>2 DEF Inv, AskInv
<1>7. ToolInv'
  BY <1>1, <1>2, <1>4, <1>5, <1>6 DEF Truth, ToolInv
<1>8. (v = "data" => ran[call] = 1) /\ (Succeeded(v) => call \notin flight)
  BY <1>1 DEF Truth, ToolInv, Reply, Succeeded
<1>9. v = "rejected" => ran[call] = 0 /\ call \notin flight
  BY <1>1 DEF Truth, ToolInv
<1>10. ASSUME NEW r \in asked
       PROVE  /\ ran[r] <= 1
              /\ verdict'[r] = "data" => ran[r] = 1
              /\ Succeeded(verdict'[r]) => r \notin flight
              /\ verdict'[r] = "rejected" => ran[r] = 0 /\ r \notin flight
  <2>1. /\ ran[r] <= 1
        /\ verdict[r] = "data" => ran[r] = 1
        /\ Succeeded(verdict[r]) => r \notin flight
        /\ verdict[r] = "rejected" => ran[r] = 0 /\ r \notin flight
    BY DEF Truth, VerdictsAreTrue
  <2>2. verdict'[r] = verdict[r] \/ (r = call /\ verdict'[r] = v)
    BY <1>2, <1>3
  <2> QED BY <1>8, <1>9, <2>1, <2>2
<1>11. VerdictsAreTrue'
  BY <1>1, <1>10 DEF VerdictsAreTrue, Succeeded
<1> QED BY <1>7, <1>11 DEF Truth

(* Linear runs a document, once, and replies.                              *)
LEMMA ReplyKeepsTruth ==
  ASSUME Inv, Truth, NEW r \in flight, Replies(r)
  PROVE  Truth'
<1>1. UNCHANGED <<phase, call, inbox, asked, verdict>> /\ flight' = flight \ {r}
  BY DEF Replies, vars, client, server
<1>2. PICK reply \in Reply, runs \in 0 .. 1 :
        /\ reply = "data" => runs = 1
        /\ ran' = IF r \in asked THEN [ran EXCEPT ![r] = @ + runs] ELSE ran
        /\ request' = IF request = "sent" /\ r = call THEN reply ELSE request
  BY DEF Replies
<1>3. asked \subseteq Request /\ ran \in [Request -> Nat] /\ runs \in Nat /\ runs <= 1
  BY DEF Inv, SessionInv, SessionType, Truth, ToolInv
<1>4. ran' \in [Request -> Nat]
  BY <1>2, <1>3
<1>5. r \in asked => ran[r] = 0 /\ ran'[r] = runs
  BY <1>2, <1>3 DEF Truth, ToolInv
<1>6. \A q \in Request \ {r} : ran'[q] = ran[q]
  BY <1>2, <1>3
<1>7. Ids(inbox, Asks) \subseteq Request \ {r}
  BY <1>3 DEF Truth, ToolInv, Inv, AskInv
<1>8. phase = "tool" => call \in asked
  BY DEF Inv, AskInv
<1>9. ASSUME phase = "tool"
      PROVE  /\ request' = "none" => call \notin flight' /\ ran'[call] = 0
             /\ request' \in Reply => call \notin flight'
             /\ request' = "data" => ran'[call] = 1
  <2>1. CASE r = call /\ request = "sent"
    <3>1. request' = reply /\ call \notin flight' /\ ran'[call] = runs
      BY <1>1, <1>2, <1>5, <1>8, <1>9, <2>1
    <3> QED BY <1>2, <3>1 DEF Reply
  <2>2. CASE r = call /\ request # "sent"
    <3>1. request' = request /\ request \notin Reply \cup {"none"}
      BY <1>2, <1>9, <2>2 DEF Truth, ToolInv
    <3> QED BY <3>1 DEF Reply
  <2>3. CASE r # call
    <3>1. request' = request /\ ran'[call] = ran[call]
      BY <1>2, <1>3, <1>6, <1>8, <1>9, <2>3
    <3> QED BY <1>1, <1>9, <3>1 DEF Truth, ToolInv
  <2> QED BY <2>1, <2>2, <2>3
<1>10. request' # "none" => phase = "tool"
  BY <1>2 DEF Truth, ToolInv
<1>11. \A q \in flight' \cap asked : ran'[q] = 0
  BY <1>1, <1>3, <1>6 DEF Truth, ToolInv
<1>12. \A q \in Ids(inbox, Asks) : verdict[q] = "none" /\ q \notin flight' /\ ran'[q] = 0
  BY <1>1, <1>6, <1>7 DEF Truth, ToolInv
<1>13. ToolInv'
  BY <1>1, <1>4, <1>9, <1>10, <1>11, <1>12 DEF Truth, ToolInv
<1>14. \A q \in asked : /\ ran'[q] <= 1
                        /\ verdict[q] = "data" => ran'[q] = 1
                        /\ Succeeded(verdict[q]) => q \notin flight'
                        /\ verdict[q] = "rejected" => ran'[q] = 0 /\ q \notin flight'
  BY <1>1, <1>3, <1>5, <1>6 DEF Truth, VerdictsAreTrue
<1>15. VerdictsAreTrue'
  BY <1>1, <1>14 DEF VerdictsAreTrue, Succeeded
<1> QED BY <1>13, <1>15 DEF Truth

(* The server asks anew, with an id of which nothing is under way, and     *)
(* forgets what is answered.                                               *)
LEMMA ServerKeepsTruth ==
  ASSUME Inv, Truth, ServerSteps
  PROVE  Truth'
<1>1. /\ UNCHANGED <<phase, call, request, flight>>
      /\ (asked' \ asked) \cap flight = {}
      /\ ran' = [r \in Request |-> IF r \in asked \cap asked' THEN ran[r] ELSE 0]
      /\ verdict' = [r \in Request |-> IF r \in asked \cap asked' THEN verdict[r] ELSE "none"]
  BY DEF ServerSteps, Server, ServerReads, ServerResponds, ServerAsks, ServerNotifies,
         ServerEndsTurn, ServerStep, client
<1>2. Inv' \/ (SessionInv' /\ AskInv')
  BY InvStep DEF ServerSteps, SessionNext
<1>3. asked' \subseteq Request /\ Ids(inbox', Asks) \subseteq asked'
      /\ (phase = "tool" => call \in asked \cap asked')
  BY <1>1, <1>2 DEF Inv, SessionInv, SessionType, AskInv
<1>4. Ids(inbox', Asks) \cap asked \subseteq Ids(inbox, Asks)
  <2>1. CASE ServerReads
    BY <2>1 DEF ServerReads
  <2>2. CASE ServerAsks
    <3>1. PICK k \in Asks, r \in Request \ asked : inbox' = Append(inbox, Msg(k, r))
      BY <2>2 DEF ServerAsks, Says
    <3>2. Msg(k, r) \in Line /\ Msg(k, r).id = r
      BY <3>1, SessionAssumption, MsgIsLine DEF Kind, Asks
    <3> QED BY <3>1, <3>2, LineGiven DEF Inv
  <2>3. CASE ServerResponds \/ ServerNotifies \/ ServerEndsTurn
    <3>1. PICK k \in Kind \ Asks, n \in Nat : inbox' = Append(inbox, Msg(k, n))
      <4>1. owed \in Nat /\ active \in Nat
        BY DEF Inv, SessionInv, SessionType
      <4>2. {"error", "response", "notice", "completed", "failed"} \subseteq Kind \ Asks
        BY DEF Kind, Asks
      <4> QED BY <2>3, <4>1, <4>2 DEF ServerResponds, ServerNotifies, ServerEndsTurn, Says
    <3>2. Msg(k, n) \in Line /\ Msg(k, n).kind = k
      BY <3>1, MsgIsLine
    <3> QED BY <3>1, <3>2, LineGiven DEF Inv
  <2> QED BY <2>1, <2>2, <2>3 DEF ServerSteps, Server
<1>5. \A r \in Request : ran[r] \in Nat
  BY DEF Truth, ToolInv
<1>6. \A r \in Ids(inbox', Asks) : verdict'[r] = "none" /\ r \notin flight /\ ran'[r] = 0
  BY <1>1, <1>3, <1>4 DEF Truth, ToolInv
<1>7. \A r \in flight \cap asked' : ran'[r] = 0
  BY <1>1, <1>3 DEF Truth, ToolInv
<1>8. phase = "tool" => verdict'[call] = verdict[call] /\ ran'[call] = ran[call]
  BY <1>1, <1>3
<1>9. ran' \in [Request -> Nat] /\ DOMAIN verdict' = Request
  BY <1>1, <1>5
<1>10. ToolInv'
  BY <1>1, <1>6, <1>7, <1>8, <1>9 DEF Truth, ToolInv
<1>11. \A r \in asked' : /\ ran'[r] <= 1
                         /\ verdict'[r] = "data" => ran'[r] = 1
                         /\ Succeeded(verdict'[r]) => r \notin flight
                         /\ verdict'[r] = "rejected" => ran'[r] = 0 /\ r \notin flight
  <2> SUFFICES ASSUME NEW r \in asked'
               PROVE  /\ ran'[r] <= 1
                      /\ verdict'[r] = "data" => ran'[r] = 1
                      /\ Succeeded(verdict'[r]) => r \notin flight
                      /\ verdict'[r] = "rejected" => ran'[r] = 0 /\ r \notin flight
    OBVIOUS
  <2>1. CASE r \in asked
    BY <1>1, <1>3, <2>1 DEF Truth, VerdictsAreTrue
  <2>2. CASE r \notin asked
    BY <1>1, <1>3, <2>2 DEF Succeeded
  <2> QED BY <2>1, <2>2
<1>12. VerdictsAreTrue'
  BY <1>1, <1>11 DEF VerdictsAreTrue, Succeeded
<1> QED BY <1>10, <1>12 DEF Truth

LEMMA TruthStep == Inv /\ Truth /\ [ToolNext]_toolVars => Truth'
<1> SUFFICES ASSUME Inv, Truth, [ToolNext]_toolVars PROVE Truth'
  OBVIOUS
<1>1. CASE Session /\ UNCHANGED tool
  BY <1>1, SessionKeepsTruth
<1>2. CASE ServerSteps
  BY <1>2, ServerKeepsTruth
<1>3. CASE Rejects \/ EndedBefore \/ Handled
  <2>1. PICK v \in {"data", "hollow", "failure", "rejected"} :
          Answers(v) /\ (Succeeded(v) => request = v) /\ (v = "rejected" => request = "none")
    BY <1>3 DEF Rejects, EndedBefore, Handled, Succeeded
  <2> QED BY <2>1, AnsweringKeepsTruth
<1>4. CASE Sends
  <2>1. /\ phase = "tool" /\ request = "none" /\ request' = "sent" /\ flight' = flight \cup {call}
        /\ UNCHANGED <<phase, call, inbox, asked, ran, verdict>>
    BY <1>4 DEF Sends, vars, client, server
  <2>2. call \in asked \ Ids(inbox, Asks)
    BY <2>1 DEF Inv, AskInv
  <2>3. ToolInv'
    BY <2>1, <2>2 DEF Truth, ToolInv, Reply
  <2>4. VerdictsAreTrue'
    BY <2>1, <2>2 DEF Truth, ToolInv, VerdictsAreTrue, Succeeded
  <2> QED BY <2>3, <2>4 DEF Truth
<1>5. CASE Breaks
  <2>1. /\ request = "sent" /\ request' = "broken"
        /\ UNCHANGED <<phase, call, inbox, asked, flight, ran, verdict>>
    BY <1>5 DEF Breaks, vars, client, server
  <2> QED BY <2>1 DEF Truth, ToolInv, Reply, VerdictsAreTrue
<1>6. CASE \E r \in flight : Replies(r)
  BY <1>6, ReplyKeepsTruth
<1>7. CASE (Over /\ UNCHANGED tool) \/ UNCHANGED toolVars
  <2>1. UNCHANGED <<phase, call, inbox, asked, request, flight, ran, verdict>>
    BY <1>7 DEF Over, toolVars, tool, vars, client, server
  <2> QED BY <2>1 DEF Truth, ToolInv, VerdictsAreTrue
<1> QED BY <1>1, <1>2, <1>3, <1>4, <1>5, <1>6, <1>7 DEF ToolNext

(* What a server is told of a tool call is true, and no document runs      *)
(* twice, for any number of calls, whatever gets lost between the bridge   *)
(* and Linear and whenever the run is stopped; a success without data says *)
(* no more than that Linear is done with the document (bridge.go:76, 242). *)
THEOREM VerdictsStayTrue == FairToolSpec => []VerdictsAreTrue
<1>1. ToolInit => Truth
  <2> SUFFICES ASSUME ToolInit PROVE Truth
    OBVIOUS
  <2>1. asked = {} /\ inbox = <<>> /\ phase = "new" /\ request = "none" /\ flight = {}
        /\ ran = [r \in Request |-> 0] /\ verdict = [r \in Request |-> "none"]
    BY DEF ToolInit, Init
  <2>2. Ids(inbox, Asks) = {}
    BY <2>1, EmptyLines
  <2> QED BY <2>1, <2>2 DEF Truth, ToolInv, VerdictsAreTrue
<1>2. FairToolSpec => []Truth
  BY <1>1, TruthStep, InvCorrect, PTL DEF FairToolSpec
<1> QED BY <1>2, PTL DEF Truth

-----------------------------------------------------------------------------
(* The reader.  First what its operators compute: sequences listed in an   *)
(* order exist by induction over the size of a set, and are the only ones. *)

(* What has different keys can be listed by them.                          *)
LEMMA KeysOrder ==
  ASSUME NEW S, IsFiniteSet(S), NEW key \in [S -> Nat],
         \A x, y \in S : key[x] = key[y] => x = y
  PROVE  /\ Cardinality(S) \in Nat
         /\ \E s \in [1 .. Cardinality(S) -> S] :
              \A j, k \in 1 .. Cardinality(S) : j < k => key[s[j]] < key[s[k]]
<1> DEFINE Listable(X, n) ==
             \E s \in [1 .. n -> X] : \A j, k \in 1 .. n : j < k => key[s[j]] < key[s[k]]
           T == {n \in Nat : \A X \in SUBSET S : Cardinality(X) = n => Listable(X, n)}
<1>1. 0 \in T
  <2>1. ASSUME NEW X PROVE Listable(X, 0)
    <3>1. [k \in 1 .. 0 |-> 0] \in [1 .. 0 -> X]
      OBVIOUS
    <3>2. \A k \in 1 .. 0 : FALSE
      OBVIOUS
    <3> QED BY <3>1, <3>2, Zenon
  <2> QED BY <2>1
<1>2. ASSUME NEW n \in T PROVE n + 1 \in T
  <2>1. n \in Nat /\ \A X \in SUBSET S : Cardinality(X) = n => Listable(X, n)
    OBVIOUS
  <2> HIDE DEF T
  <2> SUFFICES ASSUME NEW X \in SUBSET S, Cardinality(X) = n + 1 PROVE Listable(X, n + 1)
    BY <2>1 DEF T
  <2> HIDE DEF Listable
  <2>2. IsFiniteSet(X)
    BY FS_Subset
  <2>3. X # {}
    BY <2>1, FS_EmptySet
  <2>4. PICK x \in X : \A y \in X : key[x] <= key[y]
    <3> DEFINE V == {key[y] : y \in X}
    <3>1. V \in SUBSET Nat /\ V # {}
      BY <2>3
    <3> HIDE DEF V
    <3>2. PICK m \in V : \A v \in V : m <= v
      BY <3>1, LeastNatural
    <3> QED BY <3>2 DEF V
  <2>5. Cardinality(X \ {x}) = n
    <3>1. Cardinality(X \ {x}) = Cardinality(X) - 1
      BY <2>2, FS_RemoveElement
    <3> QED BY <2>1, <3>1
  <2>6. PICK s \in [1 .. n -> X \ {x}] : \A j, k \in 1 .. n : j < k => key[s[j]] < key[s[k]]
    BY <2>1, <2>5 DEF Listable
  <2> DEFINE t == [k \in 1 .. n + 1 |-> IF k = 1 THEN x ELSE s[k - 1]]
  <2>7. \A k \in 1 .. n + 1 : k # 1 => k - 1 \in 1 .. n
    BY <2>1
  <2>8. t \in [1 .. n + 1 -> X]
    BY <2>6, <2>7
  <2>9. ASSUME NEW j \in 1 .. n + 1, NEW k \in 1 .. n + 1, j < k PROVE key[t[j]] < key[t[k]]
    <3>1. k # 1 /\ k - 1 \in 1 .. n /\ t[k] = s[k - 1] /\ s[k - 1] \in X \ {x}
      BY <2>1, <2>6, <2>7, <2>9
    <3>2. CASE j = 1
      <4>1. t[j] = x /\ key[x] <= key[s[k - 1]]
        BY <2>4, <3>1, <3>2
      <4>2. key[x] # key[s[k - 1]] /\ key[x] \in Nat /\ key[s[k - 1]] \in Nat
        BY <3>1
      <4> QED BY <3>1, <4>1, <4>2
    <3>3. CASE j # 1
      <4>1. j - 1 \in 1 .. n /\ j - 1 < k - 1 /\ t[j] = s[j - 1]
        BY <2>1, <2>7, <2>9, <3>1, <3>3
      <4> QED BY <2>6, <3>1, <4>1
    <3> QED BY <3>2, <3>3
  <2> HIDE DEF t
  <2> QED BY <2>8, <2>9 DEF Listable
<1>3. Cardinality(S) \in Nat
  BY FS_CardinalityType
<1> HIDE DEF T
<1>4. Cardinality(S) \in T
  <2>1. T \in SUBSET Nat
    BY DEF T
  <2> QED BY <1>1, <1>2, <1>3, <2>1, AllNaturals
<1> QED BY <1>3, <1>4 DEF T

(* What never gives a value twice reaches every value of a set of its size.*)
LEMMA FillsUp ==
  ASSUME NEW n \in Nat, NEW S, IsFiniteSet(S), Cardinality(S) = n,
         NEW s \in [1 .. n -> S], \A j, k \in 1 .. n : j < k => s[j] # s[k]
  PROVE  \A x \in S : \E k \in 1 .. n : s[k] = x
<1>1. \A j, k \in 1 .. n : s[j] = s[k] => j = k
  <2> TAKE j, k \in 1 .. n
  <2>1. j < k \/ k < j \/ j = k
    OBVIOUS
  <2> QED BY <2>1
<1>2. s \in Injection(1 .. n, S)
  BY <1>1 DEF Injection, IsInjective
<1>3. Cardinality(1 .. n) = n
  BY FS_Interval
<1>4. s \in Surjection(1 .. n, S)
  BY <1>2, <1>3, FS_Injection
<1> QED BY <1>4 DEF Surjection

(* A sequence taken from another one: some of its elements, each once.     *)
TakenBy(p, b, a, S) ==
  /\ p \in [DOMAIN b -> S]
  /\ \A j, k \in DOMAIN b : p[j] = p[k] => j = k
  /\ \A x \in S : \E k \in DOMAIN b : p[k] = x
  /\ \A k \in DOMAIN b : b[k] = a[p[k]]
TakenFrom(b, a, S) == \E p : TakenBy(p, b, a, S)

LEMMA InOrderIs ==
  ASSUME NEW S \in SUBSET Nat, IsFiniteSet(S)
  PROVE  /\ InOrder(S) \in Seq(S) /\ DOMAIN InOrder(S) = 1 .. Len(InOrder(S))
         /\ \A j, k \in DOMAIN InOrder(S) : j < k => InOrder(S)[j] < InOrder(S)[k]
         /\ \A i \in S : \E k \in DOMAIN InOrder(S) : InOrder(S)[k] = i
<1> DEFINE n == Cardinality(S)
           s == InOrder(S)
           Good(t) == \A j, k \in DOMAIN t : j < k => t[j] < t[k]
           key == [i \in S |-> i]
<1>1. n \in Nat /\ \E t \in [1 .. n -> S] : Good(t)
  <2>1. key \in [S -> Nat] /\ \A x, y \in S : key[x] = key[y] => x = y
    OBVIOUS
  <2>2. /\ Cardinality(S) \in Nat
        /\ \E t \in [1 .. n -> S] : \A j, k \in 1 .. n : j < k => key[t[j]] < key[t[k]]
    <3> HIDE DEF key
    <3> QED BY <2>1, KeysOrder
  <2>3. PICK t \in [1 .. n -> S] : \A j, k \in 1 .. n : j < k => key[t[j]] < key[t[k]]
    BY <2>2
  <2>4. Good(t)
    BY <2>3
  <2> QED BY <2>2, <2>4
<1>2. s \in [1 .. n -> S] /\ Good(s)
  <2>1. s = CHOOSE t \in [1 .. n -> S] : Good(t)
    BY DEF InOrder
  <2> HIDE DEF n, s, Good
  <2> QED BY <1>1, <2>1
<1> HIDE DEF s
<1>3. s \in Seq(S) /\ Len(s) = n /\ DOMAIN s = 1 .. n
  BY <1>1, <1>2
<1>4. \A j, k \in 1 .. n : j < k => s[j] # s[k]
  <2> TAKE j, k \in 1 .. n
  <2>1. s[j] \in Nat /\ s[k] \in Nat
    BY <1>2
  <2>2. j < k => s[j] < s[k]
    BY <1>2, <1>3
  <2> QED BY <2>1, <2>2
<1>5. \A i \in S : \E k \in 1 .. n : s[k] = i
  <2>1. n \in Nat /\ Cardinality(S) = n /\ s \in [1 .. n -> S]
    BY <1>1, <1>2
  <2> HIDE DEF n
  <2> QED BY <1>4, <2>1, FillsUp
<1> QED BY <1>2, <1>3, <1>5 DEF s

LEMMA PickedIs ==
  ASSUME NEW C, NEW s \in Seq(C), NEW S \in SUBSET DOMAIN s
  PROVE  Picked(s, S) \in Seq(C) /\ TakenFrom(Picked(s, S), s, S)
<1> DEFINE place == InOrder(S)
<1>1. S \in SUBSET Nat /\ IsFiniteSet(S)
  <2>1. DOMAIN s = 1 .. Len(s) /\ Len(s) \in Nat
    OBVIOUS
  <2>2. IsFiniteSet(1 .. Len(s))
    BY <2>1, FS_Interval
  <2> QED BY <2>1, <2>2, FS_Subset
<1>2. /\ place \in Seq(S) /\ DOMAIN place = 1 .. Len(place)
      /\ \A j, k \in DOMAIN place : j < k => place[j] < place[k]
      /\ \A i \in S : \E k \in DOMAIN place : place[k] = i
  BY <1>1, InOrderIs
<1> HIDE DEF place
<1> DEFINE b == Picked(s, S)
<1>3. b = [k \in DOMAIN place |-> s[place[k]]]
  BY DEF Picked, place
<1> HIDE DEF b
<1>4. Len(place) \in Nat /\ \A k \in DOMAIN place : place[k] \in S /\ s[place[k]] \in C
  BY <1>2
<1>5. b \in Seq(C) /\ DOMAIN b = DOMAIN place
  <2>1. b \in [1 .. Len(place) -> C]
    BY <1>2, <1>3, <1>4
  <2> QED BY <1>3, <1>4, <2>1
<1>6. \A j, k \in DOMAIN place : place[j] = place[k] => j = k
  <2> TAKE j, k \in DOMAIN place
  <2>1. j < k \/ k < j \/ j = k
    BY <1>2, <1>4
  <2>2. place[j] \in Nat /\ place[k] \in Nat
    BY <1>1, <1>4
  <2>3. j < k => place[j] < place[k]
    BY <1>2
  <2>4. k < j => place[k] < place[j]
    BY <1>2
  <2> QED BY <2>1, <2>2, <2>3, <2>4
<1>7. TakenBy(place, b, s, S)
  <2>1. place \in [DOMAIN b -> S]
    BY <1>2, <1>5
  <2> QED BY <1>2, <1>3, <1>5, <1>6, <2>1 DEF TakenBy
<1> QED BY <1>5, <1>7 DEF TakenFrom, b

Items == [id : Issue, routable : BOOLEAN]
Has(found, i) == \E k \in DOMAIN found : found[k].id = i
Once(found) == \A k, l \in DOMAIN found : found[k].id = found[l].id => k = l

(* A sequence taken from another has nothing else and nothing twice.       *)
LEMMA TakenKeeps ==
  ASSUME NEW a, NEW b, NEW S \in SUBSET DOMAIN a, TakenFrom(b, a, S)
  PROVE  /\ \A k \in DOMAIN b : \E l \in S : b[k] = a[l]
         /\ \A l \in S : \E k \in DOMAIN b : b[k] = a[l]
         /\ Once(a) => Once(b)
<1>1. PICK p : TakenBy(p, b, a, S)
  BY DEF TakenFrom
<1>2. /\ \A k \in DOMAIN b : p[k] \in S /\ b[k] = a[p[k]]
      /\ \A l \in S : \E k \in DOMAIN b : p[k] = l
      /\ \A j, k \in DOMAIN b : p[j] = p[k] => j = k
  BY <1>1 DEF TakenBy
<1>3. Once(a) => Once(b)
  <2> SUFFICES ASSUME Once(a), NEW j \in DOMAIN b, NEW k \in DOMAIN b, b[j].id = b[k].id
               PROVE  j = k
    BY DEF Once
  <2>1. p[j] \in DOMAIN a /\ p[k] \in DOMAIN a /\ a[p[j]].id = a[p[k]].id
    BY <1>2
  <2>2. p[j] = p[k]
    BY <2>1 DEF Once
  <2> QED BY <1>2, <2>2
<1>4. ASSUME NEW l \in S PROVE \E k \in DOMAIN b : b[k] = a[l]
  <2>1. PICK k \in DOMAIN b : p[k] = l
    BY <1>2
  <2>2. b[k] = a[l]
    BY <1>2, <2>1
  <2> QED BY <2>2
<1> QED BY <1>2, <1>3, <1>4

LEMMA FirstPage ==
  ASSUME NEW C, NEW s \in Seq(C), NEW n \in Nat \ {0}
  PROVE  /\ Slice(s, 1, n) \in Seq(C)
         /\ DOMAIN Slice(s, 1, n) = 1 .. Len(Slice(s, 1, n))
         /\ Len(Slice(s, 1, n)) = IF n < Len(s) THEN n ELSE Len(s)
         /\ \A k \in DOMAIN Slice(s, 1, n) : k \in DOMAIN s /\ Slice(s, 1, n)[k] = s[k]
<1> DEFINE m == IF n < Len(s) THEN n ELSE Len(s)
           b == Slice(s, 1, n)
<1>1. Len(s) \in Nat /\ DOMAIN s = 1 .. Len(s) /\ m \in Nat /\ m <= Len(s)
  OBVIOUS
<1>2. b = SubSeq(s, 1, m)
  BY DEF Slice
<1> HIDE DEF b, m
<1>3. \A k \in 1 .. m : k \in DOMAIN s /\ s[k] \in C
  <2>1. \A k \in 1 .. m : k \in DOMAIN s
    BY <1>1
  <2> QED BY <2>1
<1>4. /\ b \in Seq(C)
      /\ Len(b) = IF 1 <= m THEN m - 1 + 1 ELSE 0
      /\ \A k \in 1 .. m - 1 + 1 : b[k] = s[1 + k - 1]
  BY <1>1, <1>2, <1>3, SubSeqProperties
<1>5. Len(b) = m
  BY <1>1, <1>4
<1>6. DOMAIN b = 1 .. m
  BY <1>4, <1>5
<1>7. ASSUME NEW k \in 1 .. m PROVE b[k] = s[k]
  <2>1. k \in 1 .. m - 1 + 1 /\ 1 + k - 1 = k
    BY <1>1
  <2> QED BY <1>4, <2>1
<1> QED BY <1>3, <1>4, <1>5, <1>6, <1>7 DEF b, m

LEMMA BehindPage ==
  ASSUME NEW C, NEW s \in Seq(C), NEW n \in Nat \ {0}
  PROVE  LET b == SubSeq(s, n + 1, Len(s))
         IN  /\ b \in Seq(C) /\ DOMAIN b = 1 .. Len(b) /\ Len(b) \in Nat
             /\ Len(b) = IF n < Len(s) THEN Len(s) - n ELSE 0
             /\ \A k \in DOMAIN b : n + k \in DOMAIN s /\ b[k] = s[n + k]
<1> DEFINE m == Len(s)
           b == SubSeq(s, n + 1, m)
<1>1. m \in Nat /\ DOMAIN s = 1 .. m /\ n + 1 \in Int /\ m \in Int
  OBVIOUS
<1> HIDE DEF m
<1>2. \A k \in n + 1 .. m : s[k] \in C
  <2>1. \A k \in n + 1 .. m : k \in DOMAIN s
    BY <1>1
  <2> QED BY <2>1
<1>3. /\ b \in Seq(C)
      /\ Len(b) = IF n + 1 <= m THEN m - (n + 1) + 1 ELSE 0
      /\ \A k \in 1 .. m - (n + 1) + 1 : b[k] = s[n + 1 + k - 1]
  BY <1>1, <1>2, SubSeqProperties
<1> HIDE DEF b
<1>4. Len(b) = (IF n < m THEN m - n ELSE 0) /\ Len(b) \in Nat
  BY <1>1, <1>3
<1>5. DOMAIN b = 1 .. Len(b)
  BY <1>3
<1>6. ASSUME NEW k \in DOMAIN b PROVE n + k \in DOMAIN s /\ b[k] = s[n + k]
  <2>1. k \in 1 .. m - (n + 1) + 1 /\ n + 1 + k - 1 = n + k /\ n + k \in 1 .. m
    BY <1>1, <1>4, <1>5
  <2> QED BY <1>1, <1>3, <2>1
<1> QED BY <1>3, <1>4, <1>5, <1>6 DEF b, m

(* The place of an id that was given for.                                  *)
LEMMA PlaceIs ==
  ASSUME ids \in Seq(Issue), NEW i \in ToSet(ids)
  PROVE  Place(i) \in Nat
<1> DEFINE at == {k \in DOMAIN ids : ids[k] = i}
           First(k) == ids[k] = i /\ \A l \in 1 .. (k - 1) : ids[l] # i
<1>1. DOMAIN ids = 1 .. Len(ids) /\ Len(ids) \in Nat
  OBVIOUS
<1>2. at \in SUBSET Nat /\ at # {}
  BY <1>1 DEF ToSet
<1>3. PICK k \in at : \A l \in at : k <= l
  BY <1>2, LeastNatural
<1>4. k \in DOMAIN ids /\ First(k)
  <2>1. ASSUME NEW l \in 1 .. (k - 1) PROVE ids[l] # i
    <3>1. l \in DOMAIN ids /\ ~(k <= l)
      BY <1>1, <1>3
    <3> QED BY <1>3, <3>1
  <2> QED BY <1>3, <2>1
<1>5. Place(i) = CHOOSE j \in DOMAIN ids : First(j)
  BY DEF Place
<1> HIDE DEF First
<1>6. Place(i) \in DOMAIN ids
  BY <1>4, <1>5
<1> QED BY <1>1, <1>6

LEMMA TimesGrows ==
  ASSUME NEW x \in Nat, NEW y \in Nat, NEW m \in Nat, x <= y
  PROVE  x * m <= y * m
<1>1. (y - x) * m >= 0
  OBVIOUS
<1>2. y * m = x * m + (y - x) * m
  OBVIOUS
<1> QED BY <1>1, <1>2

(* Sorting the items loses none and adds none.                             *)
LEMMA AsAskedIs ==
  ASSUME ids \in Seq(Issue), NEW found \in Seq(Items),
         \A k \in DOMAIN found : found[k].id \in ToSet(ids)
  PROVE  AsAsked(found) \in Seq(Items) /\ TakenFrom(AsAsked(found), found, DOMAIN found)
<1> DEFINE n == Len(found)
           P(k) == Place(found[k].id)
           key == [k \in 1 .. n |-> P(k) * (n + 1) + k]
           Good(p) == \A j, k \in DOMAIN found : j < k => Before(found, p[j], p[k])
           from == CHOOSE p \in [DOMAIN found -> DOMAIN found] : Good(p)
           b == AsAsked(found)
<1>1. n \in Nat /\ DOMAIN found = 1 .. n /\ \A k \in 1 .. n : P(k) \in Nat /\ found[k] \in Items
  BY PlaceIs
<1>2. Cardinality(1 .. n) = n /\ IsFiniteSet(1 .. n)
  <2>1. n \in Nat
    BY <1>1
  <2> HIDE DEF n
  <2> QED BY <2>1, FS_Interval
<1> HIDE DEF P, n
<1>3. \A j, k \in 1 .. n : P(j) * (n + 1) + j \in Nat
  BY <1>1
<1>4. \A a, c \in Nat : \A j, k \in 1 .. n :
        a * (n + 1) + j <= c * (n + 1) + k => a < c \/ (a = c /\ j <= k)
  <2> TAKE a, c \in Nat
  <2> TAKE j, k \in 1 .. n
  <2> DEFINE m == n + 1
  <2>1. m \in Nat /\ m = n + 1
    BY <1>1
  <2> HIDE DEF m
  <2>2. c + 1 <= a => (c + 1) * m <= a * m
    BY <2>1, TimesGrows
  <2>3. (c + 1) * m = c * m + m
    BY <2>1
  <2>4. a * m \in Nat /\ c * m \in Nat
    BY <2>1
  <2>5. a * m + j <= c * m + k => ~(c + 1 <= a)
    BY <1>1, <2>1, <2>2, <2>3, <2>4
  <2>6. a * m + j <= c * m + k => a < c \/ (a = c /\ j <= k)
    <3>1. a = c => a * m = c * m
      OBVIOUS
    <3> QED BY <1>1, <2>1, <2>4, <2>5, <3>1
  <2> QED BY <2>6 DEF m
<1>5. key \in [1 .. n -> Nat] /\ \A j, k \in 1 .. n : key[j] = key[k] => j = k
  <2>1. key \in [1 .. n -> Nat]
    BY <1>3
  <2>2. ASSUME NEW j \in 1 .. n, NEW k \in 1 .. n, key[j] = key[k] PROVE j = k
    <3>1. P(j) \in Nat /\ P(k) \in Nat /\ key[j] \in Nat /\ key[k] \in Nat
      BY <1>1, <2>1
    <3>2. P(j) * (n + 1) + j = P(k) * (n + 1) + k
      BY <2>2
    <3>3. P(j) * (n + 1) + j \in Nat /\ P(k) * (n + 1) + k \in Nat
      BY <1>3
    <3>4. P(j) * (n + 1) + j <= P(k) * (n + 1) + k /\ P(k) * (n + 1) + k <= P(j) * (n + 1) + j
      BY <3>2, <3>3
    <3>5. /\ P(j) < P(k) \/ (P(j) = P(k) /\ j <= k)
          /\ P(k) < P(j) \/ (P(k) = P(j) /\ k <= j)
      BY <1>4, <3>1, <3>4
    <3> QED BY <1>1, <3>1, <3>5
  <2> QED BY <2>1, <2>2
<1>6. \E p \in [DOMAIN found -> DOMAIN found] : Good(p)
  <2>1. PICK p \in [1 .. n -> 1 .. n] : \A j, k \in 1 .. n : j < k => key[p[j]] < key[p[k]]
    <3> HIDE DEF key
    <3> QED BY <1>2, <1>5, KeysOrder
  <2>2. ASSUME NEW j \in 1 .. n, NEW k \in 1 .. n, j < k PROVE Before(found, p[j], p[k])
    <3>1. p[j] \in 1 .. n /\ p[k] \in 1 .. n /\ key[p[j]] < key[p[k]]
      BY <2>1, <2>2
    <3>2. P(p[j]) \in Nat /\ P(p[k]) \in Nat
      BY <1>1, <3>1
    <3>3. P(p[j]) * (n + 1) + p[j] < P(p[k]) * (n + 1) + p[k]
      BY <3>1
    <3>4. P(p[j]) * (n + 1) + p[j] \in Nat /\ P(p[k]) * (n + 1) + p[k] \in Nat
      BY <1>3, <3>1
    <3>5. P(p[j]) * (n + 1) + p[j] <= P(p[k]) * (n + 1) + p[k] /\ p[j] # p[k]
      <4>1. p[j] # p[k]
        BY <3>3, <3>4
      <4> QED BY <3>3, <3>4, <4>1
    <3>6. P(p[j]) < P(p[k]) \/ (P(p[j]) = P(p[k]) /\ p[j] <= p[k])
      BY <1>4, <3>1, <3>2, <3>5
    <3>7. P(p[j]) < P(p[k]) \/ (P(p[j]) = P(p[k]) /\ p[j] < p[k])
      BY <1>1, <3>1, <3>5, <3>6
    <3> QED BY <3>7 DEF Before, P
  <2> QED BY <1>1, <2>1, <2>2
<1>7. from \in [DOMAIN found -> DOMAIN found] /\ Good(from)
  <2> HIDE DEF Good
  <2> QED BY <1>6
<1>8. b = [k \in DOMAIN found |-> found[from[k]]]
  BY DEF AsAsked
<1> HIDE DEF from, b
<1>9. from \in [1 .. n -> 1 .. n] /\ \A j, k \in 1 .. n : j < k => from[j] # from[k]
  <2>1. ASSUME NEW j \in 1 .. n, NEW k \in 1 .. n, j < k PROVE from[j] # from[k]
    <3>1. Before(found, from[j], from[k]) /\ from[j] \in 1 .. n /\ P(from[j]) \in Nat
      BY <1>1, <1>7, <2>1
    <3> QED BY <1>1, <3>1 DEF Before, P
  <2> QED BY <1>1, <1>7, <2>1
<1>10. \A l \in 1 .. n : \E k \in 1 .. n : from[k] = l
  <2>1. n \in Nat
    BY <1>1
  <2> DEFINE D == 1 .. n
  <2>2. IsFiniteSet(D) /\ Cardinality(D) = n
    BY <1>2
  <2>3. from \in [1 .. n -> D]
    BY <1>9
  <2>4. \A j, k \in 1 .. n : j < k => from[j] # from[k]
    BY <1>9
  <2> HIDE DEF D, n
  <2>5. \A l \in D : \E k \in 1 .. n : from[k] = l
    BY <2>1, <2>2, <2>3, <2>4, FillsUp
  <2> QED BY <2>5 DEF D
<1>11. \A j, k \in 1 .. n : from[j] = from[k] => j = k
  <2> TAKE j, k \in 1 .. n
  <2>1. j < k \/ k < j \/ j = k
    BY <1>1
  <2> QED BY <1>9, <2>1
<1>12. b \in Seq(Items) /\ DOMAIN b = 1 .. n
  <2>1. b \in [1 .. n -> Items]
    BY <1>1, <1>8, <1>9
  <2> QED BY <1>1, <2>1
<1>13. TakenBy(from, b, found, DOMAIN found)
  BY <1>1, <1>8, <1>9, <1>10, <1>11, <1>12 DEF TakenBy
<1> QED BY <1>12, <1>13 DEF TakenFrom, b

(* What is left of the items for an answer.                                *)
LEMMA FilterIs ==
  ASSUME NEW found \in Seq(Items)
  PROVE  /\ Filter(found) \in Seq(Items)
         /\ \A k \in DOMAIN Filter(found) : \E l \in DOMAIN found : Filter(found)[k] = found[l]
         /\ Once(found) => \A i \in Issue : match \in {All, i} /\ Has(found, i) =>
              Cardinality({k \in DOMAIN Filter(found) : Filter(found)[k].id = i}) = 1
<1> DEFINE S == {k \in DOMAIN found : match \in {All, found[k].id}}
           b == Filter(found)
<1>1. b \in Seq(Items) /\ TakenFrom(b, found, S)
  BY PickedIs DEF Filter
<1> HIDE DEF b
<1>2. /\ \A k \in DOMAIN b : \E l \in S : b[k] = found[l]
      /\ \A l \in S : \E k \in DOMAIN b : b[k] = found[l]
      /\ Once(found) => Once(b)
  BY <1>1, TakenKeeps
<1>3. ASSUME Once(found), NEW i \in Issue, match \in {All, i}, Has(found, i)
      PROVE  Cardinality({k \in DOMAIN b : b[k].id = i}) = 1
  <2>1. PICK l \in DOMAIN found : found[l].id = i
    BY <1>3 DEF Has
  <2>2. l \in S
    BY <1>3, <2>1
  <2>3. PICK k \in DOMAIN b : b[k] = found[l]
    BY <1>2, <2>2
  <2>4. {x \in DOMAIN b : b[x].id = i} = {k}
    BY <1>2, <1>3, <2>1, <2>3 DEF Once
  <2> QED BY <2>4, FS_Singleton
<1> QED BY <1>1, <1>2, <1>3 DEF b

(* What a page or a batch adds to the items.                               *)
LEMMA CollectedIs ==
  ASSUME items \in Seq(Items), NEW found \in Seq(Issue)
  PROVE  /\ Collected(found) \in Seq(Items)
         /\ \A k \in DOMAIN Collected(found) :
              \/ k \in DOMAIN items /\ Collected(found)[k] = items[k]
              \/ \E l \in DOMAIN found : Collected(found)[k] = Item(found[l])
         /\ \A i : Has(items, i) => Has(Collected(found), i)
         /\ \A l \in DOMAIN found : Has(Collected(found), found[l])
         /\ /\ Once(items)
            /\ \A j, k \in DOMAIN found : found[j] = found[k] => j = k
            /\ \A k \in DOMAIN items, l \in DOMAIN found : items[k].id # found[l]
            => Once(Collected(found))
<1> DEFINE added == [k \in DOMAIN found |-> Item(found[k])]
           b == Collected(found)
           n == Len(items)
           m == Len(found)
<1>1. /\ n \in Nat /\ DOMAIN items = 1 .. n /\ m \in Nat /\ DOMAIN found = 1 .. m
      /\ \A k \in 1 .. n : items[k] \in Items
      /\ \A k \in 1 .. m : found[k] \in Issue
  OBVIOUS
<1>2. \A i \in Issue : Item(i) \in Items /\ Item(i).id = i
  BY DEF Item, Items
<1> HIDE DEF n, m
<1>3. added \in Seq(Items) /\ DOMAIN added = 1 .. m /\ Len(added) = m
  <2>1. added \in [1 .. m -> Items]
    BY <1>1, <1>2
  <2> QED BY <1>1, <2>1
<1>4. b = items \o added
  BY DEF Collected
<1>5. \A k \in 1 .. m : added[k] = Item(found[k])
  BY <1>1
<1> HIDE DEF added, b
<1>6. /\ b \in Seq(Items) /\ Len(b) = n + m
      /\ \A k \in 1 .. n : b[k] = items[k]
      /\ \A k \in 1 .. n + m : n < k => b[k] = added[k - n]
  BY <1>1, <1>3, <1>4 DEF n
<1>7. DOMAIN b = 1 .. n + m
  BY <1>6
<1>8. ASSUME NEW k \in 1 .. n + m
      PROVE  \/ k \in 1 .. n /\ b[k] = items[k]
             \/ k - n \in 1 .. m /\ n < k /\ b[k] = Item(found[k - n])
  <2>1. k \in 1 .. n \/ (n < k /\ k - n \in 1 .. m)
    BY <1>1
  <2> QED BY <1>5, <1>6, <2>1
<1>9. ASSUME NEW i, Has(items, i) PROVE Has(b, i)
  <2>1. PICK k \in 1 .. n : items[k].id = i
    BY <1>1, <1>9 DEF Has
  <2>2. k \in 1 .. n + m
    BY <1>1
  <2> QED BY <1>6, <1>7, <2>1, <2>2 DEF Has
<1>10. ASSUME NEW l \in 1 .. m PROVE Has(b, found[l])
  <2>1. n + l \in 1 .. n + m /\ n < n + l /\ n + l - n = l
    BY <1>1
  <2>2. b[n + l] = Item(found[l])
    <3> DEFINE k == n + l
    <3>1. k \in 1 .. n + m /\ n < k /\ k - n = l
      BY <1>1, <2>1
    <3> HIDE DEF k
    <3>2. b[k] = added[k - n]
      BY <1>6, <3>1
    <3>3. b[k] = Item(found[l])
      BY <1>5, <3>1, <3>2
    <3> QED BY <3>3 DEF k
  <2> QED BY <1>1, <1>2, <1>7, <2>1, <2>2 DEF Has
<1>11. ASSUME Once(items), \A j, k \in 1 .. m : found[j] = found[k] => j = k,
              \A k \in 1 .. n, l \in 1 .. m : items[k].id # found[l]
       PROVE  Once(b)
  <2> SUFFICES ASSUME NEW j \in 1 .. n + m, NEW k \in 1 .. n + m, b[j].id = b[k].id PROVE j = k
    BY <1>7 DEF Once
  <2>1. /\ \/ j \in 1 .. n /\ b[j].id = items[j].id
           \/ j - n \in 1 .. m /\ n < j /\ b[j].id = found[j - n]
        /\ \/ k \in 1 .. n /\ b[k].id = items[k].id
           \/ k - n \in 1 .. m /\ n < k /\ b[k].id = found[k - n]
    BY <1>1, <1>2, <1>8
  <2>2. CASE j \in 1 .. n /\ k \in 1 .. n
    <3>1. b[j] = items[j] /\ b[k] = items[k]
      BY <1>6, <2>2
    <3> QED BY <1>1, <1>11, <2>2, <3>1 DEF Once
  <2>3. CASE j - n \in 1 .. m /\ n < j /\ k - n \in 1 .. m /\ n < k
    <3>1. ~(j \in 1 .. n) /\ ~(k \in 1 .. n)
      BY <1>1, <2>3
    <3>2. found[j - n] = found[k - n]
      BY <2>1, <3>1
    <3>3. j - n = k - n
      BY <1>11, <2>3, <3>2
    <3> QED BY <1>1, <3>3
  <2>4. \/ j \in 1 .. n /\ k \in 1 .. n
        \/ j - n \in 1 .. m /\ n < j /\ k - n \in 1 .. m /\ n < k
    BY <1>11, <2>1
  <2> QED BY <2>2, <2>3, <2>4
<1>12. \A k \in DOMAIN b :
         \/ k \in DOMAIN items /\ b[k] = items[k]
         \/ \E l \in DOMAIN found : b[k] = Item(found[l])
  BY <1>1, <1>7, <1>8
<1>13. \A i : Has(items, i) => Has(b, i)
  BY <1>9
<1>14. \A l \in DOMAIN found : Has(b, found[l])
  BY <1>1, <1>10
<1>15. /\ Once(items)
       /\ \A j, k \in DOMAIN found : found[j] = found[k] => j = k
       /\ \A k \in DOMAIN items, l \in DOMAIN found : items[k].id # found[l]
       => Once(b)
  BY <1>1, <1>11
<1> QED BY <1>6, <1>12, <1>13, <1>14, <1>15 DEF b

(* A page lists what there is behind the cursor, up to its last issue.     *)
LEMMA PageIs ==
  ASSUME after \in Nat, ReaderAssumption
  PROVE  /\ Page(after) \in Seq(Issue) /\ DOMAIN Page(after) = 1 .. Len(Page(after))
         /\ \A k \in DOMAIN Page(after) : Page(after)[k] > after /\ Wanted(reading, issue[Page(after)[k]])
         /\ \A j, k \in DOMAIN Page(after) : Page(after)[j] = Page(after)[k] => j = k
         /\ Len(Behind(after)) > PageSize =>
              /\ Last(Page(after)) \in Nat /\ Last(Page(after)) > after
              /\ \A k \in DOMAIN Page(after) : Page(after)[k] <= Last(Page(after))
              /\ \A i \in Issue : after < i /\ i <= Last(Page(after)) /\ Wanted(reading, issue[i]) =>
                   \E k \in DOMAIN Page(after) : Page(after)[k] = i
         /\ ~(Len(Behind(after)) > PageSize) =>
              \A i \in Issue : after < i /\ Wanted(reading, issue[i]) =>
                \E k \in DOMAIN Page(after) : Page(after)[k] = i
<1> DEFINE S == {i \in Issue : i > after /\ Wanted(reading, issue[i])}
           all == Behind(after)
           p == Page(after)
           n == PageSize
<1>1. Issue \subseteq Nat /\ IsFiniteSet(Issue) /\ n \in Nat \ {0}
  BY DEF ReaderAssumption
<1>2. S \in SUBSET Nat /\ IsFiniteSet(S)
  <2>1. S \in SUBSET Issue
    OBVIOUS
  <2> HIDE DEF S
  <2> QED BY <1>1, <2>1, FS_Subset
<1>3. all = InOrder(S)
  BY DEF Behind
<1>4. p = Slice(all, 1, n)
  BY DEF Page
<1>5. \A i : i \in S <=> i \in Issue /\ i > after /\ Wanted(reading, issue[i])
  OBVIOUS
<1> HIDE DEF S, all, p, n
<1>6. /\ all \in Seq(S) /\ DOMAIN all = 1 .. Len(all)
      /\ \A j, k \in DOMAIN all : j < k => all[j] < all[k]
      /\ \A i \in S : \E k \in DOMAIN all : all[k] = i
  BY <1>2, <1>3, InOrderIs
<1>7. /\ p \in Seq(S) /\ DOMAIN p = 1 .. Len(p)
      /\ Len(p) = IF n < Len(all) THEN n ELSE Len(all)
      /\ \A k \in DOMAIN p : k \in DOMAIN all /\ p[k] = all[k]
  BY <1>1, <1>4, <1>6, FirstPage
<1>8. Len(all) \in Nat /\ Len(p) \in Nat
  BY <1>6, <1>7
<1>9. \A k \in DOMAIN p : p[k] \in S /\ p[k] \in Nat
  <2>1. \A k \in DOMAIN p : p[k] \in S
    BY <1>7
  <2> QED BY <1>2, <2>1
<1>10. \A j, k \in DOMAIN p : j < k => p[j] < p[k]
  BY <1>6, <1>7
<1>11. \A j, k \in DOMAIN p : p[j] = p[k] => j = k
  <2> TAKE j, k \in DOMAIN p
  <2>1. j < k \/ k < j \/ j = k
    BY <1>7, <1>8
  <2>2. p[j] \in Nat /\ p[k] \in Nat
    BY <1>9
  <2>3. (j < k => p[j] < p[k]) /\ (k < j => p[k] < p[j])
    BY <1>10
  <2> QED BY <2>1, <2>2, <2>3
<1>12. p \in Seq(Issue) /\ \A k \in DOMAIN p : p[k] > after /\ Wanted(reading, issue[p[k]])
  <2>1. S \subseteq Issue
    BY <1>5
  <2>2. p \in Seq(Issue)
    BY <1>7, <2>1, SeqMonotonic
  <2> QED BY <1>5, <1>9, <2>2
<1>13. ASSUME Len(all) > n
       PROVE  /\ Last(p) \in Nat /\ Last(p) > after
              /\ \A k \in DOMAIN p : p[k] <= Last(p)
              /\ \A i \in Issue : after < i /\ i <= Last(p) /\ Wanted(reading, issue[i]) =>
                   \E k \in DOMAIN p : p[k] = i
  <2>1. Len(p) = n /\ n \in DOMAIN p /\ n < Len(all) /\ DOMAIN p = 1 .. n
    BY <1>1, <1>7, <1>8, <1>13
  <2>2. Last(p) = p[n]
    BY <2>1 DEF Last
  <2>3. Last(p) \in Nat /\ Last(p) > after
    BY <1>9, <1>12, <2>1, <2>2
  <2>4. ASSUME NEW k \in DOMAIN p PROVE p[k] <= Last(p)
    <3>1. k = n \/ k < n
      BY <1>1, <2>1
    <3>2. k < n => p[k] < p[n]
      BY <1>10, <2>1
    <3>3. p[k] \in Nat /\ p[n] \in Nat
      BY <1>9, <2>1
    <3> QED BY <2>2, <3>1, <3>2, <3>3
  <2>5. ASSUME NEW i \in Issue, after < i, i <= Last(p), Wanted(reading, issue[i])
        PROVE  \E k \in DOMAIN p : p[k] = i
    <3>1. i \in S /\ i \in Nat
      BY <1>1, <1>5, <2>5
    <3>2. PICK k \in DOMAIN all : all[k] = i
      BY <1>6, <3>1
    <3>3. p[n] = all[n] /\ n \in DOMAIN all /\ p[n] \in Nat
      BY <1>7, <1>9, <2>1
    <3>4. ~(n < k)
      <4>1. n < k => all[n] < all[k]
        BY <1>6, <3>3
      <4> QED BY <2>2, <2>5, <3>1, <3>2, <3>3, <4>1
    <3>5. k \in DOMAIN p
      BY <1>1, <1>6, <1>8, <2>1, <3>4
    <3> QED BY <1>7, <3>2, <3>5
  <2> QED BY <2>3, <2>4, <2>5
<1>14. ASSUME ~(Len(all) > n), NEW i \in Issue, after < i, Wanted(reading, issue[i])
       PROVE  \E k \in DOMAIN p : p[k] = i
  <2>1. i \in S
    BY <1>1, <1>5, <1>14
  <2>2. PICK k \in DOMAIN all : all[k] = i
    BY <1>6, <2>1
  <2>3. DOMAIN p = DOMAIN all
    BY <1>1, <1>6, <1>7, <1>8, <1>14
  <2> QED BY <1>7, <2>2, <2>3
<1> QED BY <1>7, <1>11, <1>12, <1>13, <1>14 DEF all, p, n

ReaderTypeOK ==
  /\ issue \in [Issue -> IssueType \cup {Gone}]
  /\ reading \in {"none", "candidates", "states", "refresh"}
  /\ step \in {"none", "viewer", "page", "batch"}
  /\ after \in Nat
  /\ rest \in Seq(Issue) /\ items \in Seq(Items) /\ ids \in Seq(Issue)
  /\ steady \in SUBSET Issue /\ ours \in SUBSET Issue

(* The request that a call is at, and that an answer ends it.              *)
CallSteps ==
  /\ reading = "none" => step = "none" /\ answer = Nothing
  /\ reading \in {"candidates", "states"} => step \in {"viewer", "page"}
  /\ reading = "refresh" => step \in {"viewer", "batch"}
  /\ step \in {"none", "viewer"} => items = <<>>

(* What the two histories say of the tracker as it is.                     *)
SteadyBelongs == reading # "none" => \A i \in steady : Belongs(reading, ids, i, issue[i])
OursSinceCall == reading # "none" => \A i \in Issue : Assigned(issue[i]) => i \in ours

(* A listing has every steady issue up to its cursor, once, and no issue   *)
(* beyond it.                                                              *)
PagesSoFar ==
  reading \in {"candidates", "states"} /\ answer = Nothing =>
    /\ Once(items)
    /\ \A k \in DOMAIN items : items[k].id <= after
    /\ \A i \in steady : i <= after => Has(items, i)

(* A refresh has every steady issue or is still to ask for it, not both    *)
(* and not twice.                                                          *)
BatchesSoFar ==
  reading = "refresh" /\ answer = Nothing =>
    /\ Once(items)
    /\ \A j, k \in DOMAIN rest : rest[j] = rest[k] => j = k
    /\ \A k \in DOMAIN items : items[k].id \notin ToSet(rest)
    /\ \A i \in steady : i \in ToSet(rest) \/ Has(items, i)
    /\ \A k \in DOMAIN items : items[k].id \in ToSet(ids)
    /\ \A k \in DOMAIN rest : rest[k] \in ToSet(ids)

(* What was collected as ours was ours during the call.                    *)
Routed(found) ==
  reading # "states" /\ Assignee # "none"
    => \A k \in DOMAIN found : found[k].routable => found[k].id \in ours
RoutedSoFar == Routed(items)

ReaderInv == /\ ReaderTypeOK /\ CallSteps /\ SteadyBelongs /\ OursSinceCall
             /\ PagesSoFar /\ BatchesSoFar /\ RoutedSoFar
             /\ NothingMissed /\ NoForeignWork

(* The answer of a call is right when everything collected for it is.      *)
LEMMA AnswerIsRight ==
  ASSUME ReaderAssumption, ReaderTypeOK, NEW final \in Seq(Items), Once(final),
         \A i \in steady : Has(final, i), Routed(final),
         answer' = Filter(final), UNCHANGED <<match, reading, steady, ours>>
  PROVE  answer' # Nothing /\ NothingMissed' /\ NoForeignWork'
<1>1. /\ answer' \in Seq(Items)
      /\ \A k \in DOMAIN answer' : \E l \in DOMAIN final : answer'[k] = final[l]
      /\ \A i \in Issue : match \in {All, i} /\ Has(final, i) =>
           Cardinality({k \in DOMAIN answer' : answer'[k].id = i}) = 1
  BY FilterIs
<1>2. answer' # Nothing
  BY <1>1 DEF ReaderAssumption, Items
<1>3. NothingMissed'
  <2> SUFFICES ASSUME NEW i \in steady, match \in {All, i} PROVE Listed(i)' = 1
    BY DEF NothingMissed
  <2>1. i \in Issue /\ Has(final, i)
    BY DEF ReaderTypeOK
  <2>2. Cardinality({k \in DOMAIN answer' : answer'[k].id = i}) = 1
    BY <1>1, <2>1
  <2> QED BY <2>2 DEF Listed
<1>4. NoForeignWork'
  <2> SUFFICES ASSUME reading # "states", Assignee # "none",
                      NEW k \in DOMAIN answer', answer'[k].routable
               PROVE  answer'[k].id \in ours
    BY DEF NoForeignWork
  <2>1. PICK l \in DOMAIN final : answer'[k] = final[l]
    BY <1>1
  <2> QED BY <2>1 DEF Routed
<1> QED BY <1>2, <1>3, <1>4

(* An item of an issue that is there is called ours only if it is.         *)
LEMMA ItemsAreRouted ==
  ASSUME ReaderTypeOK, OursSinceCall, reading # "none", RoutedSoFar,
         NEW found \in Seq(Issue), \A l \in DOMAIN found : issue[found[l]] # Gone
  PROVE  Routed(Collected(found))
<1> SUFFICES ASSUME reading # "states", Assignee # "none",
                    NEW k \in DOMAIN Collected(found), Collected(found)[k].routable
             PROVE  Collected(found)[k].id \in ours
  BY DEF Routed
<1>1. \/ k \in DOMAIN items /\ Collected(found)[k] = items[k]
      \/ \E l \in DOMAIN found : Collected(found)[k] = Item(found[l])
  <2>1. items \in Seq(Items)
    BY DEF ReaderTypeOK
  <2> QED BY <2>1, CollectedIs
<1>2. CASE k \in DOMAIN items /\ Collected(found)[k] = items[k]
  BY <1>2 DEF RoutedSoFar, Routed
<1>3. ASSUME NEW l \in DOMAIN found, Collected(found)[k] = Item(found[l])
      PROVE  Collected(found)[k].id \in ours
  <2> DEFINE i == found[l]
  <2>1. i \in Issue
    OBVIOUS
  <2> HIDE DEF i
  <2>2. Collected(found)[k].id = i
    BY <1>3 DEF Item, i
  <2>3. Routable(i)
    <3>1. Item(i).routable
      BY <1>3 DEF i
    <3>2. reading = "states" \/ Routable(i)
      BY <3>1 DEF Item
    <3> QED BY <3>2
  <2>4. issue[i].assignee = "us"
    BY <2>3 DEF Routable
  <2>5. issue[i] # Gone
    BY DEF i
  <2>6. Assigned(issue[i])
    BY <2>4, <2>5 DEF Assigned
  <2> QED BY <2>1, <2>2, <2>6 DEF OursSinceCall
<1> QED BY <1>1, <1>2, <1>3

LEMMA InitReaderInv ==
  ASSUME ReaderInit
  PROVE  ReaderInv
<1>1. ReaderTypeOK
  <2>1. <<>> \in Seq(Issue) /\ <<>> \in Seq(Items)
    OBVIOUS
  <2> QED BY <2>1 DEF ReaderInit, ReaderTypeOK
<1>2. CallSteps /\ SteadyBelongs /\ OursSinceCall /\ PagesSoFar /\ BatchesSoFar
  BY DEF ReaderInit, CallSteps, SteadyBelongs, OursSinceCall, PagesSoFar, BatchesSoFar
<1>3. RoutedSoFar
  <2>1. DOMAIN <<>> = {}
    OBVIOUS
  <2> QED BY <2>1 DEF ReaderInit, RoutedSoFar, Routed
<1>4. NothingMissed /\ NoForeignWork
  BY DEF ReaderInit, NothingMissed, NoForeignWork, Answered
<1> QED BY <1>1, <1>2, <1>3, <1>4 DEF ReaderInv

(* Somebody changes an issue: it leaves the steady ones unless it still    *)
(* belongs in the answer.                                                  *)
LEMMA ChangeKeeps ==
  ASSUME ReaderInv, NEW j \in Issue, Change(j)
  PROVE  ReaderInv'
<1> USE DEF ReaderInv
<1>1. PICK v \in IssueType \cup {Gone} :
        /\ issue' = [issue EXCEPT ![j] = v]
        /\ steady' = IF Belongs(reading, ids, j, v) THEN steady ELSE steady \ {j}
        /\ ours' = IF Assigned(v) THEN ours \cup {j} ELSE ours
  BY DEF Change
<1>2. /\ reading # "none" /\ answer = Nothing
      /\ UNCHANGED <<match, reading, step, after, rest, items, answer, ids>>
  BY DEF Change, reader
<1>3. issue \in [Issue -> IssueType \cup {Gone}] /\ steady \in SUBSET Issue /\ ours \in SUBSET Issue
  BY DEF ReaderTypeOK
<1>4. /\ issue' \in [Issue -> IssueType \cup {Gone}]
      /\ issue'[j] = v /\ \A i \in Issue : i # j => issue'[i] = issue[i]
      /\ steady' \subseteq steady /\ ours \subseteq ours' /\ ours' \subseteq Issue
  BY <1>1, <1>3
<1>5. ReaderTypeOK' /\ CallSteps'
  BY <1>2, <1>3, <1>4 DEF ReaderTypeOK, CallSteps
<1>6. SteadyBelongs'
  <2> SUFFICES ASSUME NEW i \in steady' PROVE Belongs(reading, ids, i, issue'[i])
    BY <1>2 DEF SteadyBelongs, Belongs
  <2>1. CASE i = j
    <3>1. Belongs(reading, ids, j, v)
      BY <1>1, <2>1
    <3> QED BY <1>4, <2>1, <3>1
  <2>2. CASE i # j
    <3>1. i \in steady /\ i \in Issue
      BY <1>3, <1>4
    <3>2. Belongs(reading, ids, i, issue[i])
      BY <1>2, <3>1 DEF SteadyBelongs
    <3> QED BY <1>4, <2>2, <3>1, <3>2
  <2> QED BY <2>1, <2>2
<1>7. OursSinceCall'
  <2> SUFFICES ASSUME NEW i \in Issue, Assigned(issue'[i]) PROVE i \in ours'
    BY DEF OursSinceCall, Assigned
  <2>1. CASE i = j
    BY <1>1, <1>4, <2>1
  <2>2. CASE i # j
    BY <1>2, <1>4, <2>2 DEF OursSinceCall
  <2> QED BY <2>1, <2>2
<1>8. PagesSoFar'
  BY <1>2, <1>4 DEF PagesSoFar, Once, Has
<1>9. BatchesSoFar'
  BY <1>2, <1>4 DEF BatchesSoFar, Once, Has
<1>10. RoutedSoFar'
  BY <1>2, <1>4 DEF RoutedSoFar, Routed
<1>11. NothingMissed' /\ NoForeignWork'
  BY <1>2 DEF NothingMissed, NoForeignWork, Answered
<1> QED BY <1>5, <1>6, <1>7, <1>8, <1>9, <1>10, <1>11

(* Distinct drops the second of two equal ids and nothing else.            *)
LEMMA DistinctIs ==
  ASSUME NEW given \in Seq(Issue)
  PROVE  /\ Distinct(given) \in Seq(Issue)
         /\ \A j, k \in DOMAIN Distinct(given) : Distinct(given)[j] = Distinct(given)[k] => j = k
         /\ ToSet(Distinct(given)) = ToSet(given)
<1> DEFINE S == {k \in DOMAIN given : \A l \in 1 .. k - 1 : given[l] # given[k]}
           b == Distinct(given)
<1>1. b \in Seq(Issue) /\ TakenFrom(b, given, S)
  BY PickedIs DEF Distinct
<1>2. DOMAIN given = 1 .. Len(given) /\ Len(given) \in Nat
  OBVIOUS
<1> HIDE DEF b
<1>3. /\ \A k \in DOMAIN b : \E l \in S : b[k] = given[l]
      /\ \A l \in S : \E k \in DOMAIN b : b[k] = given[l]
  <2>1. S \in SUBSET DOMAIN given
    OBVIOUS
  <2> HIDE DEF S
  <2> QED BY <1>1, <2>1, TakenKeeps
<1>4. \A j, k \in S : given[j] = given[k] => j = k
  <2> TAKE j, k \in S
  <2>1. j \in 1 .. Len(given) /\ k \in 1 .. Len(given)
    BY <1>2
  <2>2. j < k => j \in 1 .. k - 1
    BY <1>2, <2>1
  <2>3. k < j => k \in 1 .. j - 1
    BY <1>2, <2>1
  <2>4. j < k \/ k < j \/ j = k
    BY <1>2, <2>1
  <2> QED BY <2>2, <2>3, <2>4
<1>5. \A j, k \in DOMAIN b : b[j] = b[k] => j = k
  <2>1. PICK p : TakenBy(p, b, given, S)
    BY <1>1 DEF TakenFrom
  <2>2. /\ \A k \in DOMAIN b : p[k] \in S /\ b[k] = given[p[k]]
        /\ \A j, k \in DOMAIN b : p[j] = p[k] => j = k
    BY <2>1 DEF TakenBy
  <2> HIDE DEF S
  <2> QED BY <1>4, <2>2
<1>6. ASSUME NEW k \in DOMAIN given PROVE \E l \in S : given[l] = given[k]
  <2> DEFINE at == {l \in DOMAIN given : given[l] = given[k]}
  <2>1. at \in SUBSET Nat /\ at # {}
    BY <1>2
  <2>2. PICK l \in at : \A x \in at : l <= x
    BY <2>1, LeastNatural
  <2>3. l \in DOMAIN given /\ given[l] = given[k]
    OBVIOUS
  <2>4. ASSUME NEW x \in 1 .. l - 1 PROVE given[x] # given[l]
    <3>1. x \in DOMAIN given /\ ~(l <= x)
      BY <1>2, <2>3
    <3> QED BY <2>2, <2>3, <3>1
  <2> QED BY <2>3, <2>4
<1>7. ToSet(b) = ToSet(given)
  <2> HIDE DEF S
  <2>1. \A k \in DOMAIN b : \E l \in DOMAIN given : b[k] = given[l]
    BY <1>3 DEF S
  <2>2. ASSUME NEW k \in DOMAIN given PROVE \E l \in DOMAIN b : b[l] = given[k]
    <3>1. PICK l \in S : given[l] = given[k]
      BY <1>6
    <3> QED BY <1>3, <3>1
  <2> QED BY <2>1, <2>2 DEF ToSet
<1> QED BY <1>1, <1>5, <1>7 DEF b

(* A call begins with nothing collected.                                   *)
LEMMA BeginKeeps ==
  ASSUME ReaderInv, NEW kind \in {"candidates", "states", "refresh"},
         NEW given \in Seq(Issue), Begin(kind, given)
  PROVE  ReaderInv'
<1> USE DEF ReaderInv
<1>1. /\ reading = "none" /\ reading' = kind /\ after' = 0 /\ rest' = Distinct(given) /\ ids' = given
      /\ steady' = {i \in Issue : Belongs(kind, given, i, issue[i])}
      /\ ours' = {i \in Issue : Assigned(issue[i])}
      /\ step' \in {"viewer", FirstRequest(kind)}
      /\ UNCHANGED <<issue, match, items, answer>>
  BY DEF Begin
<1>2. items = <<>> /\ DOMAIN items = {} /\ answer = Nothing
  <2>1. items = <<>> /\ answer = Nothing
    BY <1>1 DEF CallSteps
  <2>2. DOMAIN <<>> = {}
    OBVIOUS
  <2> QED BY <2>1, <2>2
<1>3. /\ Distinct(given) \in Seq(Issue)
      /\ \A j, k \in DOMAIN Distinct(given) : Distinct(given)[j] = Distinct(given)[k] => j = k
      /\ ToSet(Distinct(given)) = ToSet(given)
  BY DistinctIs
<1>4. ReaderTypeOK' /\ CallSteps'
  BY <1>1, <1>2, <1>3 DEF ReaderTypeOK, CallSteps, FirstRequest
<1>5. SteadyBelongs' /\ OursSinceCall'
  BY <1>1 DEF SteadyBelongs, OursSinceCall, Belongs, Wanted, Assigned
<1>6. PagesSoFar'
  <2> SUFFICES ASSUME NEW i \in steady' PROVE ~(i <= 0)
    BY <1>1, <1>2 DEF PagesSoFar, Once
  <2>1. i \in Issue
    BY <1>1
  <2> QED BY <2>1, ReaderAssumption
<1>7. BatchesSoFar'
  <2> SUFFICES ASSUME kind = "refresh"
               PROVE  /\ \A i \in steady' : i \in ToSet(rest')
                      /\ \A k \in DOMAIN rest' : rest'[k] \in ToSet(ids')
    BY <1>1, <1>2, <1>3 DEF BatchesSoFar, Once
  <2>1. \A i \in steady' : i \in ToSet(given)
    BY <1>1 DEF Belongs
  <2>2. \A k \in DOMAIN rest' : rest'[k] \in ToSet(rest')
    BY DEF ToSet
  <2> QED BY <1>1, <1>3, <2>1, <2>2
<1>8. RoutedSoFar' /\ NothingMissed' /\ NoForeignWork'
  BY <1>1, <1>2 DEF RoutedSoFar, Routed, NothingMissed, NoForeignWork, Answered
<1> QED BY <1>4, <1>5, <1>6, <1>7, <1>8

(* A page adds what there is up to the new cursor.                         *)
LEMMA ListPageKeeps ==
  ASSUME ReaderInv, ListPage
  PROVE  ReaderInv'
<1> USE DEF ReaderInv
<1> DEFINE page == Page(after)
           more == Len(Behind(after)) > PageSize
<1>1. /\ step = "page" /\ answer = Nothing /\ items' = Collected(page)
      /\ IF more THEN after' = Last(page) /\ answer' = answer
                 ELSE answer' = Filter(items') /\ after' = after
      /\ UNCHANGED <<issue, match, reading, step, rest, ids, steady, ours>>
  BY DEF ListPage
<1>2. reading \in {"candidates", "states"}
  BY <1>1 DEF CallSteps, ReaderTypeOK
<1>3. after \in Nat /\ items \in Seq(Items) /\ steady \subseteq Issue
  BY DEF ReaderTypeOK
<1>4. /\ page \in Seq(Issue) /\ DOMAIN page = 1 .. Len(page)
      /\ \A k \in DOMAIN page : page[k] > after /\ Wanted(reading, issue[page[k]])
      /\ \A j, k \in DOMAIN page : page[j] = page[k] => j = k
  BY <1>3, PageIs, ReaderAssumption
<1>5. more => /\ Last(page) \in Nat /\ Last(page) > after
              /\ \A k \in DOMAIN page : page[k] <= Last(page)
              /\ \A i \in Issue : after < i /\ i <= Last(page) /\ Wanted(reading, issue[i]) =>
                   \E k \in DOMAIN page : page[k] = i
  BY <1>3, PageIs, ReaderAssumption
<1>6. ~more => \A i \in Issue : after < i /\ Wanted(reading, issue[i]) =>
                 \E k \in DOMAIN page : page[k] = i
  BY <1>3, PageIs, ReaderAssumption
<1> HIDE DEF page, more
<1>7. /\ items' \in Seq(Items)
      /\ \A k \in DOMAIN items' : \/ k \in DOMAIN items /\ items'[k] = items[k]
                                  \/ \E l \in DOMAIN page : items'[k] = Item(page[l])
      /\ \A i : Has(items, i) => Has(items', i)
      /\ \A l \in DOMAIN page : Has(items', page[l])
  BY <1>1, <1>3, <1>4, CollectedIs
<1>8. Once(items) /\ (\A k \in DOMAIN items : items[k].id <= after)
      /\ \A i \in steady : i <= after => Has(items, i)
  BY <1>1, <1>2 DEF PagesSoFar
<1>9. \A k \in DOMAIN items : items[k].id \in Issue
  <2>1. \A k \in DOMAIN items : items[k] \in Items
    BY <1>3
  <2> QED BY <2>1 DEF Items
<1>10. Issue \subseteq Nat
  BY ReaderAssumption
<1>11. \A l \in DOMAIN page : page[l] \in Issue /\ page[l] \in Nat
  <2>1. \A l \in DOMAIN page : page[l] \in Issue
    BY <1>4
  <2> QED BY <1>10, <2>1
<1>12. Once(items')
  <2>1. \A k \in DOMAIN items, l \in DOMAIN page : items[k].id # page[l]
    BY <1>3, <1>4, <1>8, <1>9, <1>10, <1>11
  <2> QED BY <1>1, <1>3, <1>4, <1>8, <2>1, CollectedIs
<1>13. \A i \in steady : Wanted(reading, issue[i]) /\ i \in Issue /\ i \in Nat
  BY <1>2, <1>3, <1>10 DEF SteadyBelongs, Belongs
<1>14. Routed(items')
  <2>1. \A l \in DOMAIN page : issue[page[l]] # Gone
    BY <1>4 DEF Wanted
  <2> QED BY <1>1, <1>2, <1>4, <2>1, ItemsAreRouted
<1>15. ReaderTypeOK' /\ after' \in Nat
  BY <1>1, <1>3, <1>5, <1>7 DEF ReaderTypeOK
<1>16. CallSteps' /\ SteadyBelongs' /\ OursSinceCall' /\ BatchesSoFar'
  <2>1. CallSteps'
    BY <1>1, <1>2 DEF CallSteps
  <2>2. SteadyBelongs' /\ OursSinceCall'
    BY <1>1 DEF SteadyBelongs, OursSinceCall, Belongs, Wanted, Assigned
  <2>3. BatchesSoFar'
    BY <1>1, <1>2 DEF BatchesSoFar
  <2> QED BY <2>1, <2>2, <2>3
<1>17. RoutedSoFar'
  BY <1>1, <1>14 DEF RoutedSoFar, Routed
<1>18. CASE more
  <2>1. after' = Last(page) /\ answer' = Nothing
    BY <1>1, <1>18
  <2>2. ASSUME NEW k \in DOMAIN items' PROVE items'[k].id <= after'
    <3>1. CASE k \in DOMAIN items /\ items'[k] = items[k]
      <4>1. items[k].id <= after /\ items[k].id \in Nat
        BY <1>8, <1>9, <1>10, <3>1
      <4> QED BY <1>3, <1>5, <1>18, <2>1, <3>1, <4>1
    <3>2. ASSUME NEW l \in DOMAIN page, items'[k] = Item(page[l]) PROVE items'[k].id <= after'
      <4>1. items'[k].id = page[l]
        BY <3>2 DEF Item
      <4> QED BY <1>5, <1>18, <2>1, <4>1
    <3> QED BY <1>7, <3>1, <3>2
  <2>3. ASSUME NEW i \in steady, i <= after' PROVE Has(items', i)
    <3>1. CASE i <= after
      BY <1>7, <1>8, <3>1
    <3>2. CASE ~(i <= after)
      <4>1. after < i
        BY <1>3, <1>13, <3>2
      <4>2. PICK l \in DOMAIN page : page[l] = i
        BY <1>5, <1>13, <1>18, <2>1, <2>3, <4>1
      <4> QED BY <1>7, <4>2
    <3> QED BY <3>1, <3>2
  <2>4. PagesSoFar'
    BY <1>1, <1>12, <2>2, <2>3 DEF PagesSoFar, Once, Has
  <2>5. NothingMissed' /\ NoForeignWork'
    BY <2>1 DEF NothingMissed, NoForeignWork, Answered
  <2> QED BY <1>15, <1>16, <1>17, <2>4, <2>5
<1>19. CASE ~more
  <2>1. answer' = Filter(items')
    BY <1>1, <1>19
  <2>2. ASSUME NEW i \in steady PROVE Has(items', i)
    <3>1. CASE i <= after
      BY <1>7, <1>8, <3>1
    <3>2. CASE ~(i <= after)
      <4>1. after < i
        BY <1>3, <1>13, <3>2
      <4>2. PICK l \in DOMAIN page : page[l] = i
        BY <1>6, <1>13, <1>19, <4>1
      <4> QED BY <1>7, <4>2
    <3> QED BY <3>1, <3>2
  <2>3. answer' # Nothing /\ NothingMissed' /\ NoForeignWork'
    BY <1>1, <1>7, <1>12, <1>14, <2>1, <2>2, AnswerIsRight, ReaderAssumption
  <2>4. PagesSoFar'
    BY <2>3 DEF PagesSoFar
  <2> QED BY <1>15, <1>16, <1>17, <2>3, <2>4
<1> QED BY <1>18, <1>19

(* A batch adds what there is of the next ids.                             *)
LEMMA RefreshBatchKeeps ==
  ASSUME ReaderInv, RefreshBatch
  PROVE  ReaderInv'
<1> USE DEF ReaderInv
<1> DEFINE first == Slice(rest, 1, PageSize)
           S == {i \in ToSet(first) : issue[i] # Gone}
           found == InOrder(S)
<1>1. /\ step = "batch" /\ answer = Nothing /\ items' = Collected(found)
      /\ rest' = SubSeq(rest, PageSize + 1, Len(rest))
      /\ answer' = IF rest' = <<>> THEN Filter(AsAsked(items')) ELSE Nothing
      /\ UNCHANGED <<issue, match, reading, step, after, ids, steady, ours>>
  BY DEF RefreshBatch
<1>2. reading = "refresh"
  BY <1>1 DEF CallSteps, ReaderTypeOK
<1>3. rest \in Seq(Issue) /\ items \in Seq(Items) /\ steady \subseteq Issue /\ ids \in Seq(Issue)
  BY DEF ReaderTypeOK
<1>4. Issue \subseteq Nat /\ PageSize \in Nat \ {0} /\ IsFiniteSet(Issue)
  BY ReaderAssumption
<1>5. /\ first \in Seq(Issue)
      /\ Len(first) = IF PageSize < Len(rest) THEN PageSize ELSE Len(rest)
      /\ DOMAIN first = 1 .. Len(first)
      /\ \A k \in DOMAIN first : k \in DOMAIN rest /\ first[k] = rest[k]
  BY <1>3, <1>4, FirstPage
<1> HIDE DEF first
<1>6. /\ rest' \in Seq(Issue) /\ DOMAIN rest' = 1 .. Len(rest') /\ Len(rest') \in Nat
      /\ Len(rest') = IF PageSize < Len(rest) THEN Len(rest) - PageSize ELSE 0
      /\ \A k \in DOMAIN rest' : PageSize + k \in DOMAIN rest /\ rest'[k] = rest[PageSize + k]
  BY <1>1, <1>3, <1>4, BehindPage
<1>7. /\ Once(items)
      /\ \A j, k \in DOMAIN rest : rest[j] = rest[k] => j = k
      /\ \A k \in DOMAIN items : items[k].id \notin ToSet(rest)
      /\ \A i \in steady : i \in ToSet(rest) \/ Has(items, i)
      /\ \A k \in DOMAIN items : items[k].id \in ToSet(ids)
      /\ \A k \in DOMAIN rest : rest[k] \in ToSet(ids)
  BY <1>1, <1>2 DEF BatchesSoFar
<1>8. Len(rest) \in Nat /\ DOMAIN rest = 1 .. Len(rest)
  BY <1>3
<1>9. \A k \in DOMAIN rest : k \in DOMAIN first \/ (k - PageSize \in DOMAIN rest' /\ rest[k] = rest'[k - PageSize])
  <2> TAKE k \in DOMAIN rest
  <2> SUFFICES ASSUME k \notin DOMAIN first
               PROVE  k - PageSize \in DOMAIN rest' /\ rest[k] = rest'[k - PageSize]
    OBVIOUS
  <2>1. k - PageSize \in 1 .. Len(rest')
    <3>1. k \in 1 .. Len(rest) /\ ~(k \in 1 .. Len(first))
      BY <1>5, <1>8
    <3>2. /\ Len(first) = IF PageSize < Len(rest) THEN PageSize ELSE Len(rest)
          /\ Len(rest') = IF PageSize < Len(rest) THEN Len(rest) - PageSize ELSE 0
      BY <1>5, <1>6
    <3> DEFINE n == Len(rest)
               m == Len(first)
               l == Len(rest')
    <3>3. n \in Nat /\ PageSize \in Nat
      BY <1>4, <1>8
    <3>4. /\ k \in 1 .. n /\ ~(k \in 1 .. m)
          /\ m = (IF PageSize < n THEN PageSize ELSE n)
          /\ l = (IF PageSize < n THEN n - PageSize ELSE 0)
      BY <3>1, <3>2
    <3> HIDE DEF n, m, l
    <3>5. k - PageSize \in 1 .. l
      BY <3>3, <3>4
    <3> QED BY <3>5 DEF l
  <2>2. PageSize + (k - PageSize) = k
    BY <1>4, <1>8
  <2>3. rest'[k - PageSize] = rest[PageSize + (k - PageSize)]
    BY <1>6, <2>1
  <2> QED BY <1>6, <2>1, <2>2, <2>3
<1>10. ToSet(first) \subseteq ToSet(rest) /\ ToSet(rest') \subseteq ToSet(rest)
  BY <1>5, <1>6 DEF ToSet
<1>11. ToSet(rest) \subseteq ToSet(first) \cup ToSet(rest')
  BY <1>5, <1>9 DEF ToSet
<1>12. ToSet(first) \cap ToSet(rest') = {}
  <2> SUFFICES ASSUME NEW j \in DOMAIN first, NEW k \in DOMAIN rest', first[j] = rest'[k]
               PROVE  FALSE
    BY DEF ToSet
  <2>1. j \in DOMAIN rest /\ PageSize + k \in DOMAIN rest /\ rest[j] = rest[PageSize + k]
    BY <1>5, <1>6
  <2>2. j = PageSize + k
    BY <1>7, <2>1
  <2>3. j <= PageSize /\ k >= 1 /\ k \in Nat
    <3>1. j \in 1 .. Len(first) /\ k \in 1 .. Len(rest')
      BY <1>5, <1>6
    <3>2. Len(first) = IF PageSize < Len(rest) THEN PageSize ELSE Len(rest)
      BY <1>5
    <3>3. Len(rest') \in Nat
      BY <1>6
    <3> QED BY <1>4, <1>8, <3>1, <3>2, <3>3
  <2> QED BY <1>4, <2>2, <2>3
<1>13. \A i : i \in S <=> i \in ToSet(first) /\ issue[i] # Gone
  OBVIOUS
<1>14. S \in SUBSET Issue /\ S \in SUBSET Nat /\ IsFiniteSet(S)
  <2>1. ToSet(first) \subseteq Issue
    BY <1>5 DEF ToSet
  <2>2. S \in SUBSET Issue
    BY <2>1
  <2> HIDE DEF S
  <2> QED BY <1>4, <2>2, FS_Subset
<1> HIDE DEF S
<1>15. /\ found \in Seq(S) /\ DOMAIN found = 1 .. Len(found)
       /\ \A j, k \in DOMAIN found : j < k => found[j] < found[k]
       /\ \A i \in S : \E k \in DOMAIN found : found[k] = i
  BY <1>14, InOrderIs
<1> HIDE DEF found
<1>16. found \in Seq(Issue) /\ \A l \in DOMAIN found : found[l] \in S /\ found[l] \in Nat
  <2>1. \A l \in DOMAIN found : found[l] \in S
    BY <1>15
  <2>2. found \in Seq(Issue)
    BY <1>14, <1>15, SeqMonotonic
  <2> QED BY <1>14, <2>1, <2>2
<1>17. \A j, k \in DOMAIN found : found[j] = found[k] => j = k
  <2> TAKE j, k \in DOMAIN found
  <2>1. j < k \/ k < j \/ j = k
    BY <1>15
  <2>2. (j < k => found[j] < found[k]) /\ (k < j => found[k] < found[j])
    BY <1>15
  <2>3. found[j] \in Nat /\ found[k] \in Nat
    BY <1>16
  <2> QED BY <2>1, <2>2, <2>3
<1>18. /\ items' \in Seq(Items)
       /\ \A k \in DOMAIN items' : \/ k \in DOMAIN items /\ items'[k] = items[k]
                                   \/ \E l \in DOMAIN found : items'[k] = Item(found[l])
       /\ \A i : Has(items, i) => Has(items', i)
       /\ \A l \in DOMAIN found : Has(items', found[l])
  BY <1>1, <1>3, <1>16, CollectedIs
<1>19. Once(items')
  <2>1. \A k \in DOMAIN items, l \in DOMAIN found : items[k].id # found[l]
    BY <1>7, <1>10, <1>13, <1>16
  <2> QED BY <1>1, <1>3, <1>7, <1>16, <1>17, <2>1, CollectedIs
<1>20. \A k \in DOMAIN items' :
         \/ \E l \in DOMAIN items : items'[k].id = items[l].id
         \/ items'[k].id \in ToSet(first)
  <2> TAKE k \in DOMAIN items'
  <2>1. ASSUME NEW l \in DOMAIN found, items'[k] = Item(found[l])
        PROVE  items'[k].id \in ToSet(first)
    <3>1. items'[k].id = found[l]
      BY <2>1 DEF Item
    <3> QED BY <1>13, <1>16, <3>1
  <2> QED BY <1>18, <2>1
<1>21. \A i \in steady : issue[i] # Gone
  BY <1>2 DEF SteadyBelongs, Belongs, Wanted
<1>22. \A i \in steady : i \in ToSet(rest') \/ Has(items', i)
  <2> SUFFICES ASSUME NEW i \in steady, i \notin ToSet(rest') PROVE Has(items', i)
    OBVIOUS
  <2>1. CASE Has(items, i)
    BY <1>18, <2>1
  <2>2. CASE i \in ToSet(first)
    <3>1. i \in S
      BY <1>13, <1>21, <2>2
    <3>2. PICK l \in DOMAIN found : found[l] = i
      BY <1>15, <3>1
    <3> QED BY <1>18, <3>2
  <2> QED BY <1>7, <1>11, <2>1, <2>2
<1>23. ToSet(rest) \subseteq ToSet(ids)
  BY <1>7 DEF ToSet
<1>24. \A k \in DOMAIN items' : items'[k].id \in ToSet(ids)
  BY <1>7, <1>10, <1>20, <1>23
<1>25. Routed(items')
  <2>1. \A l \in DOMAIN found : issue[found[l]] # Gone
    BY <1>13, <1>16
  <2> QED BY <1>1, <1>2, <1>16, <2>1, ItemsAreRouted
<1>26. ReaderTypeOK' /\ CallSteps' /\ SteadyBelongs' /\ OursSinceCall' /\ PagesSoFar' /\ RoutedSoFar'
  <2>1. ReaderTypeOK'
    BY <1>1, <1>6, <1>18 DEF ReaderTypeOK
  <2>2. CallSteps' /\ PagesSoFar'
    BY <1>1, <1>2 DEF CallSteps, PagesSoFar
  <2>3. SteadyBelongs' /\ OursSinceCall'
    BY <1>1 DEF SteadyBelongs, OursSinceCall, Belongs, Wanted, Assigned
  <2>4. RoutedSoFar'
    BY <1>1, <1>25 DEF RoutedSoFar, Routed
  <2> QED BY <2>1, <2>2, <2>3, <2>4
<1>27. CASE rest' # <<>>
  <2>1. answer' = Nothing
    BY <1>1, <1>27
  <2>2. \A j, k \in DOMAIN rest' : rest'[j] = rest'[k] => j = k
    <3> TAKE j, k \in DOMAIN rest'
    <3>1. rest'[j] = rest'[k] => PageSize + j = PageSize + k
      BY <1>6, <1>7
    <3> QED BY <1>4, <1>6, <3>1
  <2>3. \A k \in DOMAIN items' : items'[k].id \notin ToSet(rest')
    BY <1>7, <1>10, <1>12, <1>20
  <2>4. \A k \in DOMAIN rest' : rest'[k] \in ToSet(ids)
    BY <1>6, <1>7
  <2>5. BatchesSoFar'
    BY <1>1, <1>19, <1>22, <1>24, <2>2, <2>3, <2>4 DEF BatchesSoFar, Once, Has
  <2>6. NothingMissed' /\ NoForeignWork'
    BY <2>1 DEF NothingMissed, NoForeignWork, Answered
  <2> QED BY <1>26, <2>5, <2>6
<1>28. CASE rest' = <<>>
  <2> DEFINE final == AsAsked(items')
  <2>1. answer' = Filter(final)
    BY <1>1, <1>28
  <2>2. final \in Seq(Items) /\ TakenFrom(final, items', DOMAIN items')
    BY <1>3, <1>18, <1>24, AsAskedIs
  <2> HIDE DEF final
  <2>3. /\ \A k \in DOMAIN final : \E l \in DOMAIN items' : final[k] = items'[l]
        /\ \A l \in DOMAIN items' : \E k \in DOMAIN final : final[k] = items'[l]
        /\ Once(items') => Once(final)
    BY <2>2, TakenKeeps
  <2>4. ToSet(rest') = {}
    <3>1. DOMAIN rest' = {}
      BY <1>28
    <3> QED BY <3>1 DEF ToSet
  <2>5. ASSUME NEW i \in steady PROVE Has(final, i)
    <3>1. PICK l \in DOMAIN items' : items'[l].id = i
      BY <1>22, <2>4 DEF Has
    <3>2. PICK k \in DOMAIN final : final[k] = items'[l]
      BY <2>3
    <3> QED BY <3>1, <3>2 DEF Has
  <2>6. Routed(final)
    <3> SUFFICES ASSUME reading # "states", Assignee # "none",
                        NEW k \in DOMAIN final, final[k].routable
                 PROVE  final[k].id \in ours
      BY DEF Routed
    <3>1. PICK l \in DOMAIN items' : final[k] = items'[l]
      BY <2>3
    <3> QED BY <1>25, <3>1 DEF Routed
  <2>7. answer' # Nothing /\ NothingMissed' /\ NoForeignWork'
    BY <1>1, <1>19, <2>1, <2>2, <2>3, <2>5, <2>6, AnswerIsRight, ReaderAssumption
  <2>8. BatchesSoFar'
    BY <2>7 DEF BatchesSoFar
  <2> QED BY <1>26, <2>7, <2>8
<1> QED BY <1>27, <1>28

LEMMA NextReaderInv ==
  ASSUME ReaderInv, ReaderNext
  PROVE  ReaderInv'
<1>1. CASE \E i \in Issue : Change(i)
  BY <1>1, ChangeKeeps
<1>2. CASE ListCandidates \/ ListByStates
  <2>1. <<>> \in Seq(Issue)
    OBVIOUS
  <2>2. Begin("candidates", <<>>) \/ Begin("states", <<>>)
    BY <1>2 DEF ListCandidates, ListByStates
  <2> QED BY <2>1, <2>2, BeginKeeps
<1>3. CASE RefreshByIDs
  <2>1. PICK given \in Asked : Begin("refresh", given)
    BY <1>3 DEF RefreshByIDs
  <2>2. given \in Seq(Issue)
    BY ReaderAssumption
  <2> QED BY <2>1, <2>2, BeginKeeps
<1>4. CASE Viewer
  <2> USE DEF ReaderInv
  <2>1. /\ step = "viewer" /\ answer = Nothing /\ step' = FirstRequest(reading)
        /\ UNCHANGED <<issue, match, reading, after, rest, items, answer, ids, steady, ours>>
    BY <1>4 DEF Viewer
  <2>2. ReaderTypeOK' /\ CallSteps'
    BY <2>1 DEF ReaderTypeOK, CallSteps, FirstRequest
  <2>3. SteadyBelongs' /\ OursSinceCall'
    BY <2>1 DEF SteadyBelongs, OursSinceCall, Belongs, Wanted, Assigned
  <2>4. PagesSoFar' /\ BatchesSoFar'
    BY <2>1 DEF PagesSoFar, BatchesSoFar, Once, Has
  <2>5. RoutedSoFar' /\ NothingMissed' /\ NoForeignWork'
    BY <2>1 DEF RoutedSoFar, Routed, NothingMissed, NoForeignWork, Answered
  <2> QED BY <2>2, <2>3, <2>4, <2>5
<1>5. CASE ListPage
  BY <1>5, ListPageKeeps
<1>6. CASE RefreshBatch
  BY <1>6, RefreshBatchKeeps
<1>7. CASE Fails
  <2> USE DEF ReaderInv
  <2>1. /\ reading # "none" /\ answer' = Failed
        /\ UNCHANGED <<issue, match, reading, step, after, rest, items, ids, steady, ours>>
    BY <1>7 DEF Fails
  <2>2. answer = Nothing
    BY <1>7 DEF Fails
  <2>3. ReaderTypeOK' /\ CallSteps'
    BY <2>1 DEF ReaderTypeOK, CallSteps
  <2>4. SteadyBelongs' /\ OursSinceCall'
    BY <2>1 DEF SteadyBelongs, OursSinceCall, Belongs, Wanted, Assigned
  <2>5. PagesSoFar' /\ BatchesSoFar'
    BY <2>1, <2>2 DEF PagesSoFar, BatchesSoFar, Once, Has
  <2>6. RoutedSoFar' /\ NothingMissed' /\ NoForeignWork'
    BY <2>1 DEF RoutedSoFar, Routed, NothingMissed, NoForeignWork, Answered
  <2> QED BY <2>3, <2>4, <2>5, <2>6
<1>8. CASE Return
  <2>1. /\ reading' = "none" /\ step' = "none" /\ after' = 0 /\ rest' = <<>>
        /\ items' = <<>> /\ answer' = Nothing /\ ids' = <<>> /\ steady' = {} /\ ours' = {}
        /\ issue' = issue
    BY <1>8 DEF Return
  <2>2. <<>> \in Seq(Issue) /\ <<>> \in Seq(Items) /\ DOMAIN <<>> = {}
    OBVIOUS
  <2>3. ReaderTypeOK'
    BY <2>1, <2>2 DEF ReaderInv, ReaderTypeOK
  <2>4. CallSteps' /\ SteadyBelongs' /\ OursSinceCall' /\ PagesSoFar' /\ BatchesSoFar'
    BY <2>1 DEF CallSteps, SteadyBelongs, OursSinceCall, PagesSoFar, BatchesSoFar
  <2>5. RoutedSoFar' /\ NothingMissed' /\ NoForeignWork'
    BY <2>1, <2>2 DEF RoutedSoFar, Routed, NothingMissed, NoForeignWork, Answered
  <2> QED BY <2>3, <2>4, <2>5 DEF ReaderInv
<1> QED BY <1>1, <1>2, <1>3, <1>4, <1>5, <1>6, <1>7, <1>8 DEF ReaderNext

LEMMA ReaderInvHolds == ReaderSpec => []ReaderInv
<1>1. ReaderInit => ReaderInv
  BY InitReaderInv
<1>2. ReaderInv /\ [ReaderNext]_readerVars => ReaderInv'
  <2> SUFFICES ASSUME ReaderInv, [ReaderNext]_readerVars PROVE ReaderInv'
    OBVIOUS
  <2>1. CASE ReaderNext
    BY <2>1, NextReaderInv
  <2>2. CASE UNCHANGED readerVars
    <3> USE DEF ReaderInv
    <3>1. UNCHANGED <<issue, match, reading, step, after, rest, items, answer, ids, steady, ours>>
      BY <2>2 DEF readerVars, reader
    <3>2. ReaderTypeOK' /\ CallSteps'
      BY <3>1 DEF ReaderTypeOK, CallSteps
    <3>3. SteadyBelongs' /\ OursSinceCall'
      BY <3>1 DEF SteadyBelongs, OursSinceCall, Belongs, Wanted, Assigned
    <3>4. PagesSoFar' /\ BatchesSoFar'
      BY <3>1 DEF PagesSoFar, BatchesSoFar, Once, Has
    <3>5. RoutedSoFar' /\ NoForeignWork'
      BY <3>1 DEF RoutedSoFar, Routed, NoForeignWork, Answered
    <3>6. NothingMissed'
      BY <3>1 DEF NothingMissed, Answered, Listed
    <3> QED BY <3>2, <3>3, <3>4, <3>5, <3>6
  <2> QED BY <2>1, <2>2
<1> QED BY <1>1, <1>2, PTL DEF ReaderSpec

(* An issue that belonged in the answer all the time of a call is in it,   *)
(* once, whatever happened to other issues between two pages or batches.   *)
THEOREM NoSteadyIssueIsMissed == ReaderSpec => []NothingMissed
<1>1. ReaderInv => NothingMissed
  BY DEF ReaderInv
<1> QED BY <1>1, ReaderInvHolds, PTL

(* No item is said to be routed here that was not assigned to the          *)
(* configured assignee at some time of the call.                           *)
THEOREM ForeignWorkIsNotRouted == ReaderSpec => []NoForeignWork
<1>1. ReaderInv => NoForeignWork
  BY DEF ReaderInv
<1> QED BY <1>1, ReaderInvHolds, PTL
=============================================================================
