---------------------------- MODULE LinearReader ----------------------------
(***************************************************************************)
(* internal/trackers/linear/reader.go: a call of the reader asks Linear    *)
(* page by page, or batch by batch, while the issues change.  The question *)
(* is what the collected answer says about a tracker that was never seen   *)
(* as a whole: the scheduler stops runs that an answer leaves out.         *)
(***************************************************************************)
EXTENDS Integers, FiniteSets, SequencesExt

CONSTANTS
  Issue,       (* numbers, in the order in which Linear lists issues         *)
  PageSize,    (* pageSize                                                   *)
  Asked,       (* lists of ids that RefreshByIDs is called with              *)
  Assignee,    (* provider.assignee: "none", "me" or "named"                 *)
  Match,       (* items that a reader may be narrowed to (tracker/filter.go) *)
               (* one of them All: not at all                                *)
  All, Gone, Nothing, Failed

ASSUME ReaderAssumption ==
  /\ Issue \subseteq Nat \ {0} /\ IsFiniteSet(Issue)
  /\ PageSize \in Nat \ {0}
  /\ \A asked \in Asked : asked \in Seq(Issue)
  /\ Assignee \in {"none", "me", "named"}
  /\ Match \subseteq Issue \cup {All}
  /\ Nothing \notin Seq([id : Issue, routable : BOOLEAN])

(* An issue as far as the reader looks: active or terminal, and assigned   *)
(* to the configured assignee, to somebody else or to nobody.              *)
IssueType == [state : {"active", "terminal"}, assignee : {"us", "other", "nobody"}]

VARIABLES
  issue,   (* Linear: every issue, or Gone                                  *)
  match,   (* of the filtered reader, or All                                *)
  reading, (* the call under way: its kind, or "none"                       *)
  step,    (* its next request                                              *)
  after,   (* cursor: the last issue listed, or 0                           *)
  rest,    (* ids not asked for yet                                         *)
  items,   (* collected                                                     *)
  answer,  (* Nothing, Failed or what the call returns                      *)
  ids,     (* history: the ids of the call                                  *)
  steady,  (* history: issues that belong in the answer since it was called *)
  ours     (* history: issues assigned to us at some time since             *)

reader == <<reading, step, after, rest, items, answer>>
readerVars == <<issue, match, reader, ids, steady, ours>>

(* The issues a call is about.                                             *)
Wanted(kind, v) ==
  /\ v # Gone
  /\ kind = "candidates" => v.state = "active"
  /\ kind = "states" => v.state = "terminal"

Belongs(kind, asked, i, v) ==
  Wanted(kind, v) /\ (kind = "refresh" => i \in ToSet(asked))

Assigned(v) == v # Gone /\ v.assignee = "us"

ReaderInit ==
  /\ issue \in [Issue -> IssueType \cup {Gone}]
  /\ match \in Match
  /\ reading = "none" /\ step = "none" /\ after = 0 /\ rest = <<>>
  /\ items = <<>> /\ answer = Nothing
  /\ ids = <<>> /\ steady = {} /\ ours = {}

-----------------------------------------------------------------------------
(* Linear.                                                                 *)

(* Somebody edits, creates or removes an issue.                            *)
Change(i) ==
  /\ reading # "none" /\ answer = Nothing
  /\ \E v \in IssueType \cup {Gone} :
       /\ v # issue[i]
       /\ issue' = [issue EXCEPT ![i] = v]
       /\ steady' = IF Belongs(reading, ids, i, v) THEN steady ELSE steady \ {i}
       /\ ours' = IF Assigned(v) THEN ours \cup {i} ELSE ours
  /\ UNCHANGED <<reader, match, ids>>

(* A set of numbers in order, and what a sequence has at such positions.   *)
InOrder(S) ==
  CHOOSE s \in [1 .. Cardinality(S) -> S] : \A j, k \in DOMAIN s : j < k => s[j] < s[k]
Picked(s, S) == LET place == InOrder(S) IN [k \in DOMAIN place |-> s[place[k]]]

Slice(s, first, last) == SubSeq(s, first, IF last < Len(s) THEN last ELSE Len(s))

(* The issues of a listing behind a cursor, and the first page of them.    *)
Behind(cursor) == InOrder({i \in Issue : i > cursor /\ Wanted(reading, issue[i])})
Page(cursor) == Slice(Behind(cursor), 1, PageSize)

-----------------------------------------------------------------------------
(* The reader.                                                             *)

(* Altered: an issue without assignee is everybody's.                      *)
RoutableUnlessTaken(i) == issue[i].assignee # "other"

Routable(i) == Assignee = "none" \/ issue[i].assignee = "us"

(* normalizeIssue; only candidates and refreshed items say whether they    *)
(* are routed here.                                                        *)
Item(i) == [id |-> i, routable |-> reading = "states" \/ Routable(i)]

Filter(found) == Picked(found, {k \in DOMAIN found : match \in {All, found[k].id}})

Distinct(asked) ==
  Picked(asked, {k \in DOMAIN asked : \A l \in 1 .. k - 1 : asked[l] # asked[k]})

FirstRequest(kind) == IF kind = "refresh" THEN "batch" ELSE "page"

Begin(kind, asked) ==
  /\ reading = "none"
  /\ reading' = kind
  /\ step' = IF kind # "states" /\ Assignee = "me" THEN "viewer" ELSE FirstRequest(kind)
  /\ after' = 0
  /\ rest' = Distinct(asked)
  /\ ids' = asked
  /\ steady' = {i \in Issue : Belongs(kind, asked, i, issue[i])}
  /\ ours' = {i \in Issue : Assigned(issue[i])}
  /\ UNCHANGED <<issue, match, items, answer>>

ListCandidates == Begin("candidates", <<>>)
ListByStates == Begin("states", <<>>)

(* Without ids there is nothing to ask.                                    *)
RefreshByIDs == \E asked \in Asked : asked # <<>> /\ Begin("refresh", asked)

(* assigneeFilter asks who "me" is.                                        *)
Viewer ==
  /\ step = "viewer" /\ answer = Nothing
  /\ step' = FirstRequest(reading)
  /\ UNCHANGED <<issue, match, reading, after, rest, items, answer, ids, steady, ours>>

Collected(found) == items \o [k \in DOMAIN found |-> Item(found[k])]

(* Altered: the cursor is a number of issues to skip.                      *)
ListPageByOffset ==
  /\ step = "page" /\ answer = Nothing
  /\ LET page == Slice(Behind(0), after + 1, after + PageSize)
     IN  /\ items' = Collected(page)
         /\ IF Len(Behind(0)) > after + PageSize
              THEN after' = after + PageSize /\ UNCHANGED answer
              ELSE answer' = Filter(items') /\ UNCHANGED after
  /\ UNCHANGED <<issue, match, reading, step, rest, ids, steady, ours>>

(* listByStatesPage: on to the end cursor while there is a next page.      *)
ListPage ==
  /\ step = "page" /\ answer = Nothing
  /\ LET page == Page(after)
     IN  /\ items' = Collected(page)
         /\ IF Len(Behind(after)) > PageSize
              THEN after' = Last(page) /\ UNCHANGED answer
              ELSE answer' = Filter(items') /\ UNCHANGED after
  /\ UNCHANGED <<issue, match, reading, step, rest, ids, steady, ours>>

Place(i) == CHOOSE k \in DOMAIN ids : ids[k] = i /\ \A l \in 1..(k - 1) : ids[l] # i

(* sort.SliceStable: items of one place keep their order.                  *)
Before(found, j, k) ==
  LET a == Place(found[j].id)
      b == Place(found[k].id)
  IN  a < b \/ (a = b /\ j < k)

AsAsked(found) ==
  LET from == CHOOSE p \in [DOMAIN found -> DOMAIN found] :
                \A j, k \in DOMAIN found : j < k => Before(found, p[j], p[k])
  IN  [k \in DOMAIN found |-> found[from[k]]]

(* One batch of RefreshByIDs; in the end the items are put in the order of *)
(* the ids.                                                                *)
RefreshBatch ==
  /\ step = "batch" /\ answer = Nothing
  /\ LET batch == ToSet(Slice(rest, 1, PageSize))
         found == InOrder({i \in batch : issue[i] # Gone})
     IN  items' = Collected(found)
  /\ rest' = SubSeq(rest, PageSize + 1, Len(rest))
  /\ answer' = IF rest' = <<>> THEN Filter(AsAsked(items')) ELSE Nothing
  /\ UNCHANGED <<issue, match, reading, step, after, ids, steady, ours>>

(* A request fails, or its answer has errors or lacks the list or the page *)
(* information; what was collected is dropped.  In a list Linear's schema  *)
(* makes every node an object and hasNextPage a boolean: the reader would  *)
(* skip another node, and take a page without hasNextPage for the last,    *)
(* without an error (reader.go:244, 266).                                  *)
Fails ==
  /\ reading # "none" /\ answer = Nothing
  /\ answer' = Failed
  /\ UNCHANGED <<issue, match, reading, step, after, rest, items, ids, steady, ours>>

Return ==
  /\ answer # Nothing
  /\ reading' = "none" /\ step' = "none" /\ after' = 0 /\ rest' = <<>>
  /\ items' = <<>> /\ answer' = Nothing
  /\ ids' = <<>> /\ steady' = {} /\ ours' = {}
  /\ UNCHANGED <<issue, match>>

ReaderNext ==
  \/ \E i \in Issue : Change(i)
  \/ ListCandidates \/ ListByStates \/ RefreshByIDs
  \/ Viewer \/ ListPage \/ RefreshBatch \/ Fails \/ Return

ReaderSpec == ReaderInit /\ [][ReaderNext]_readerVars

-----------------------------------------------------------------------------

Answered == answer \notin {Nothing, Failed}
Listed(i) == Cardinality({k \in DOMAIN answer : answer[k].id = i})

(* An issue that belonged in the answer all the time of the call is in it  *)
(* once, whatever happened to others between two pages (reader.go:168): a  *)
(* run that a refresh leaves out is stopped, an item that a listing leaves *)
(* out is not started, one listed twice is offered twice.                  *)
NothingMissed ==
  Answered => \A i \in steady : match \in {All, i} => Listed(i) = 1

(* An item is said to be routed here only if it was assigned to the        *)
(* configured assignee at some time of the call (reader.go:283).           *)
NoForeignWork ==
  Answered /\ reading # "states" /\ Assignee # "none"
    => \A k \in DOMAIN answer : answer[k].routable => answer[k].id \in ours
=============================================================================
