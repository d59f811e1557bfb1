---------------------------- MODULE ReplaySources ----------------------------
(***************************************************************************)
(* How the player reads the history of a repository from GitHub or GitLab  *)
(* (player/src/lib/publicRepoAdapter.js, accountRepoAdapter.js), and what  *)
(* was said about it on pull requests (collaborationOverlayAdapter.js).    *)
(* First the list of commits, then the details of all of them at once,     *)
(* then the pull requests of the branch, then their threads at once. A     *)
(* call that fails fails the load; but one about pull requests only leaves *)
(* them out (App.jsx, loadOverlayEventsSafe). Answers of the calls a       *)
(* failure has left behind are ignored.                                    *)
(***************************************************************************)
EXTENDS Naturals, Sequences, FiniteSets, SequencesExt

CONSTANTS
  Commits,  \* commits of the branch
  Pulls,    \* its pull or merge requests
  Failures, \* how a call fails: "NETWORK", "RATE_LIMITED", "NOT_FOUND", "API_ERROR"
  None

VARIABLES
  access,   \* provider and whether a token is used
  stage,    \* what the load waits for
  calls,    \* calls that have not been answered
  listed,   \* what the last list contained
  got,      \* calls of this stage that were answered
  read,     \* commits whose details were read
  threads,  \* pull requests whose threads were read
  lacking,  \* pull requests whose approvals could not be read
  code      \* why the load failed

vars == <<access, stage, calls, listed, got, read, threads, lacking, code>>

Access == [provider : {"github", "gitlab"}, token : BOOLEAN]
Kinds == {"detail", "diff", "reviews", "issueComments", "reviewComments", "discussions", "approvals"}
Call == ({"list", "pulls"} \X {None}) \cup (Kinds \X (Commits \cup Pulls))

\* What is asked about a commit, and about a pull request.
AboutCommit == IF access.provider = "gitlab" THEN {"detail", "diff"} ELSE {"detail"}
AboutPull ==
  IF access.provider = "github" THEN {"reviews", "issueComments", "reviewComments"}
  ELSE IF access.token THEN {"discussions", "approvals"} ELSE {"discussions"}

Init ==
  /\ access \in Access
  /\ stage = "list" /\ calls = {<<"list", None>>} /\ listed = {} /\ got = {}
  /\ read = {} /\ threads = {} /\ lacking = {} /\ code = None

Asks(next, kinds, about) == stage' = next /\ calls' = kinds \X about /\ got' = {}

\* loadOverlayEventsSafe begins when every commit has been read.
AsksForPulls == Asks("pulls", {"pulls"}, {None})
Shows == stage' = "shown" /\ calls' = {} /\ got' = {}

\* The commits of the branch, of which there may be none.
ListArrives ==
  /\ stage = "list"
  /\ \E found \in SUBSET Commits :
       /\ listed' = found
       /\ IF found = {} THEN AsksForPulls ELSE Asks("details", AboutCommit, found)
  /\ UNCHANGED <<access, read, threads, lacking, code>>

\* A detail or a diff; with the last of them every commit becomes an event.
DetailArrives(c) ==
  /\ stage = "details" /\ c \in calls
  /\ IF calls = {c} THEN AsksForPulls /\ read' = listed
     ELSE /\ calls' = calls \ {c} /\ got' = got \cup {c}
          /\ UNCHANGED <<stage, read>>
  /\ UNCHANGED <<access, listed, threads, lacking, code>>

\* The pull requests; those of another branch or repository are left out.
PullsArrive ==
  /\ stage = "pulls"
  /\ \E found \in SUBSET Pulls :
       /\ listed' = found
       /\ IF found = {} THEN Shows ELSE Asks("threads", AboutPull, found)
  /\ UNCHANGED <<access, read, threads, lacking, code>>

Whole(c) ==
  IF calls = {c} THEN Shows /\ threads' = listed
  ELSE calls' = calls \ {c} /\ got' = got \cup {c} /\ UNCHANGED <<stage, threads>>

ThreadArrives(c) ==
  /\ stage = "threads" /\ c \in calls
  /\ Whole(c)
  /\ UNCHANGED <<access, listed, read, lacking, code>>

\* Approvals that cannot be read are none.
ApprovalsFail(c) ==
  /\ stage = "threads" /\ c \in calls /\ c[1] = "approvals"
  /\ lacking' = lacking \cup {c[2]}
  /\ Whole(c)
  /\ UNCHANGED <<access, listed, read, code>>

\* A call for the list or for a detail fails, and Promise.all with it. Only what is read without
\* an account has a code.
LoadFails(why) ==
  /\ stage \in {"list", "details"}
  /\ stage' = "failed" /\ calls' = {} /\ got' = {}
  /\ code' = IF access.token THEN "none" ELSE why
  /\ UNCHANGED <<access, listed, read, threads, lacking>>

\* A call about pull requests fails: the events are shown without any of them.
OverlayFails(c) ==
  /\ stage \in {"pulls", "threads"} /\ c \in calls /\ c[1] # "approvals"
  /\ Shows /\ lacking' = {}
  /\ UNCHANGED <<access, listed, read, threads, code>>

Next ==
  \/ ListArrives \/ PullsArrive
  \/ \E why \in Failures : LoadFails(why)
  \/ \E c \in calls : DetailArrives(c) \/ ThreadArrives(c) \/ ApprovalsFail(c) \/ OverlayFails(c)

Spec == Init /\ [][Next]_vars

-----------------------------------------------------------------------------
TypeOK ==
  /\ access \in Access /\ stage \in {"list", "details", "pulls", "threads", "shown", "failed"}
  /\ calls \subseteq Call /\ got \subseteq Call
  /\ read \subseteq Commits /\ threads \subseteq Pulls /\ lacking \subseteq Pulls
  /\ listed \subseteq Commits \cup Pulls /\ code \in Failures \cup {None, "none"}

\* Nothing is shown in part: a commit becomes an event only when everything asked about every
\* commit was answered, the threads of pull requests are all read or none is, and what failed
\* shows nothing. Only approvals may be missing from a thread.
NothingInPart ==
  /\ stage \in {"pulls", "threads", "shown"} => code = None
  /\ stage = "failed" => read = {} /\ threads = {}
  /\ stage = "details" => read = {} /\ got \cup calls = AboutCommit \X listed
  /\ stage = "threads" => threads = {} /\ got \cup calls = AboutPull \X listed
  /\ lacking # {} => access.token /\ stage \in {"threads", "shown"}
  /\ threads # {} => lacking \subseteq threads

\* Why it holds: a load has a code only when it has failed, and what was read, by the stage.
SourcesInvariant ==
  /\ TypeOK /\ NothingInPart
  /\ stage # "failed" => code = None
  /\ stage \in {"list", "details"} => read = {}
  /\ stage \in {"list", "details", "pulls", "threads"} => threads = {}
  /\ stage = "details" => listed \subseteq Commits
  /\ stage = "threads" => listed \subseteq Pulls /\ lacking \subseteq listed

-----------------------------------------------------------------------------
\* mapGitLabDiscussionToOverlayEvents: the notes of a discussion in the order they were written,
\* TRUE where a note that can be resolved is, become events: one that requests changes, and one
\* wherever the state changes. (They are then sorted by time, a resolution by resolved_at and
\* the others by created_at, which keeps this order while notes are resolved before the next.)
StateEvents(resolved) ==
  LET at(k) == IF resolved[k] = (k > 1 /\ resolved[k - 1]) THEN <<>>
               ELSE IF resolved[k] THEN <<"review-resolve">> ELSE <<"review-reopen">> IN
  IF resolved = <<>> THEN <<>>
  ELSE <<"review-request-changes">> \o FlattenSeq([k \in DOMAIN resolved |-> at(k)])

Discussions == UNION {[1..n -> BOOLEAN] : n \in 0..4}

\* A discussion is opened once, resolved and reopened in turns, and ends as its last note says.
DiscussionsAlternate ==
  \A d \in Discussions :
    LET e == StateEvents(d) IN
    d # <<>> =>
      /\ \A k \in 1..Len(e) : e[k] = IF k = 1 THEN "review-request-changes"
                                     ELSE IF k % 2 = 0 THEN "review-resolve" ELSE "review-reopen"
      /\ (Last(e) = "review-resolve") = Last(d)
=============================================================================
