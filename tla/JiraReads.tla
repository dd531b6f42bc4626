----------------------------- MODULE JiraReads -----------------------------
(***************************************************************************)
(* JiraReadAdapter.snapshot: the issue's fields and then its comments, page *)
(* by page, from a JIRA that other people write to meanwhile.  The requests *)
(* see different moments of the issue, and startAt counts comments that may *)
(* no longer be there.                                                      *)
(*                                                                          *)
(* A comment is the number of its creation; JIRA lists comments in that     *)
(* order, says how many there are in all, and may answer with a page that   *)
(* is shorter than maxResults.  Fields and bodies are left out, and with    *)
(* them the conversion of a body to text.                                   *)
(***************************************************************************)
EXTENDS Integers, Sequences, FiniteSetsExt, Functions

CONSTANTS
  PageSize,     \* page_size
  MaxComments   \* bound on the comments ever made

VARIABLES
  comments,     \* the comments of the issue in JIRA
  made,         \* comments made so far
  step,         \* of the snapshot() call
  start,        \* its local variable start
  got,          \* its local variable comments
  before        \* the issue's comments when the paging began

server == <<comments, made>>
reading == <<step, start, got, before>>

Init ==
  /\ made \in 0..MaxComments
  /\ comments = [i \in 1..made |-> i]
  /\ step = "idle" /\ start = 0 /\ got = << >> /\ before = << >>

(* snapshot and issue: the fields.  comments: its local variables.          *)
Snapshot ==
  /\ step = "idle"
  /\ step' = "paging" /\ start' = 0 /\ got' = << >> /\ before' = comments
  /\ UNCHANGED server

(* A page of at most n comments from startAt on.                            *)
Page(n) == SubSeq(comments, start + 1, Min({start + n, Len(comments)}))

GetPageByRequest(n) ==           \* broken form: start += page_size
  LET values == Page(n) IN
  /\ step = "paging"
  /\ got' = got \o values
  /\ start' = start + PageSize
  /\ step' = IF values = << >> \/ start' >= Len(comments) THEN "read" ELSE "paging"
  /\ UNCHANGED <<server, before>>

GetPage(n) ==
  LET values == Page(n) IN
  /\ step = "paging"
  /\ got' = got \o values
  /\ start' = start + Len(values)
  /\ step' = IF values = << >> \/ start' >= Len(comments) THEN "read" ELSE "paging"
  /\ UNCHANGED <<server, before>>

(* snapshot returns; or a request fails with JiraReadError.                 *)
Return ==
  /\ step # "idle"
  /\ step' = "idle" /\ start' = 0 /\ got' = << >> /\ before' = << >>
  /\ UNCHANGED server

(* Other people.                                                            *)
AddComment ==
  /\ made < MaxComments
  /\ made' = made + 1
  /\ comments' = Append(comments, made')
  /\ UNCHANGED reading

(* The i-th comment goes, and those behind it move up.                      *)
DeleteComment(i) ==
  /\ comments' = [j \in 1..Len(comments) - 1 |-> comments[IF j < i THEN j ELSE j + 1]]
  /\ UNCHANGED <<made, reading>>

Next ==
  \/ Snapshot \/ (\E n \in 1..PageSize : GetPage(n)) \/ Return
  \/ AddComment \/ (\E i \in DOMAIN comments : DeleteComment(i))
-----------------------------------------------------------------------------
(* Properties.                                                              *)
(* The variables have their types.                                          *)
TypeOK ==
  /\ made \in 0..MaxComments
  /\ comments \in Seq(1..made) /\ got \in Seq(1..made) /\ before \in Seq(1..made)
  /\ step \in {"idle", "paging", "read"}
  /\ start \in Nat

(* What was read has no comment twice and keeps their order; and when all   *)
(* comments that were there at the beginning are still there at the end, it *)
(* has every one of them, whoever commented meanwhile.  The condition is    *)
(* real: a deletion shifts the pages, and a comment that stays is skipped.  *)
NoCommentIsMissed ==
  step = "read" =>
    /\ \A i, j \in DOMAIN got : i < j => got[i] < got[j]
    /\ Range(before) \subseteq Range(comments) => Range(before) \subseteq Range(got)
=============================================================================
