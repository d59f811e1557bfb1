--------------------------- MODULE EmailConnector ---------------------------
(***************************************************************************)
(* The reference connector of the workflow server                          *)
(* (workflow/examples/email-connector/lib.mjs): for each unprocessed mail  *)
(* it asks for a triage decision, then for a decision on the reply, hears  *)
(* them by socket or by polling, acknowledges them, sends and marks the    *)
(* mail. A run may die or fail anywhere and be started again; what it had  *)
(* asked stays on the server, which here only keeps requests and their     *)
(* first decision (DecisionLedger). Another run may register the same      *)
(* actor, which replaces the token of this one.                            *)
(***************************************************************************)
EXTENDS Naturals, Sequences, FiniteSets

CONSTANTS
  Mails,
  None,         \* "no decision yet", "no mail"
  MaxRequests,  \* bound: requests ever created
  MaxRuns,      \* bound: runs of the connector
  MaxFailures   \* bound: calls that fail, or whose answer is lost

Verdicts == {"approve", "reject"}

VARIABLES
  pc,         \* what the run awaits or does next
  mail,       \* the mail it is at
  todo,       \* what is left of driver.listUnprocessed()
  request,    \* the request whose decision it needs
  asked,      \* the server's requests: mail, stage, verdict and whether it was acknowledged
  socket,     \* "closed", "opening" or "open" (authorized)
  received,   \* receivedDecisions
  current,    \* the run's actor token is the registered one
  processed,  \* the mailbox: mails marked as processed
  sent,       \* how often an answer to a mail was sent
  torn,       \* how often a run died between sending and marking
  runs, failures

vars == <<pc, mail, todo, request, asked, socket, received, current, processed, sent, torn, runs, failures>>

Request == [mail : Mails, stage : {"triage", "reply"}, verdict : Verdicts \cup {None}, acked : BOOLEAN]

Init ==
  /\ pc = "ended" /\ mail = None /\ todo = {} /\ request = 0
  /\ asked = <<>> /\ socket = "closed" /\ received = {} /\ current = FALSE
  /\ processed = {} /\ sent = [m \in Mails |-> 0] /\ torn = [m \in Mails |-> 0]
  /\ runs = 0 /\ failures = 0

mailbox == <<processed, sent, torn>>
here == <<mail, todo, request>>

\* runEmailConnector starts: the actor is registered with the server's token,
Register ==
  /\ pc = "ended" /\ runs < MaxRuns
  /\ runs' = runs + 1
  /\ pc' = "connect" /\ current' = TRUE /\ socket' = "opening" /\ received' = {}
  /\ mail' = None /\ todo' = {} /\ request' = 0
  /\ UNCHANGED <<asked, mailbox, failures>>

\* the socket is authorized, and the mails are listed. A socket that is closed before that
\* is never noticed: the run waits for ever.
Connected ==
  /\ pc = "connect" /\ socket = "opening" /\ current
  /\ socket' = "open" /\ pc' = "next" /\ todo' = Mails \ processed
  /\ UNCHANGED <<mail, request, asked, received, current, mailbox, runs, failures>>

\* The server restarts, or closes the socket of a token that was replaced.
SocketCloses ==
  /\ socket # "closed" /\ socket' = "closed"
  /\ UNCHANGED <<pc, here, asked, received, current, mailbox, runs, failures>>

\* Somebody else registers the same actor.
Rival ==
  /\ current /\ pc # "ended" /\ failures < MaxFailures
  /\ current' = FALSE /\ failures' = failures + 1
  /\ UNCHANGED <<pc, here, asked, socket, received, mailbox, runs>>

\* The run ends: `finally` closes the socket.
EndsRun == pc' = "ended" /\ socket' = "closed" /\ UNCHANGED <<here, received, current, runs>>

NextMail ==
  /\ pc = "next"
  /\ \/ \E m \in todo : mail' = m /\ todo' = todo \ {m}
        /\ pc' = "askTriage" /\ UNCHANGED <<request, socket, received, current, runs>>
     \/ todo = {} /\ EndsRun
  /\ UNCHANGED <<asked, mailbox, failures>>

Stage == IF pc \in {"askTriage", "awaitTriage", "ackTriage"} THEN "triage" ELSE "reply"

\* createRequest, for the mail or for the answer to it.
Asks ==
  /\ pc \in {"askTriage", "askReply"} /\ current /\ Len(asked) < MaxRequests
  /\ asked' = Append(asked, [mail |-> mail, stage |-> Stage, verdict |-> None, acked |-> FALSE])
  /\ request' = Len(asked) + 1
  /\ pc' = IF Stage = "triage" THEN "awaitTriage" ELSE "awaitReply"
  /\ UNCHANGED <<mail, todo, socket, received, current, mailbox, runs, failures>>

\* An operator decides; the actor's socket is told.
Decide(i) ==
  /\ asked[i].verdict = None
  /\ \E v \in Verdicts : asked' = [asked EXCEPT ![i].verdict = v]
  /\ received' = IF socket = "open" THEN received \cup {i} ELSE received
  /\ UNCHANGED <<pc, here, socket, current, mailbox, runs, failures>>

\* awaitDecision: the socket has told this request's decision, or a poll does.
Knows == request \in received \/ (current /\ asked[request].verdict # None)

Hears ==
  /\ pc \in {"awaitTriage", "awaitReply"} /\ Knows
  /\ pc' = IF Stage = "triage" THEN "ackTriage" ELSE "ackReply"
  /\ UNCHANGED <<here, asked, socket, received, current, mailbox, runs, failures>>

\* decisionTimeoutMs has passed: the promise is rejected and the run ends with the error.
TimesOut ==
  /\ pc \in {"awaitTriage", "awaitReply"} /\ request \notin received
  /\ EndsRun
  /\ UNCHANGED <<asked, mailbox, failures>>

\* Mutant: the answer to a mail that was approved is sent without asking again.
After_bug(verdict) == IF verdict # "approve" THEN "mark" ELSE "send"

\* What follows an acknowledged decision.
After(verdict) ==
  IF verdict # "approve" THEN "mark" ELSE IF Stage = "triage" THEN "askReply" ELSE "send"

Acks ==
  /\ pc \in {"ackTriage", "ackReply"} /\ current
  /\ asked' = [asked EXCEPT ![request].acked = TRUE]
  /\ pc' = After(asked[request].verdict)
  /\ UNCHANGED <<here, socket, received, current, mailbox, runs, failures>>

\* driver.send, then driver.markProcessed.
Sends ==
  /\ pc = "send" /\ sent' = [sent EXCEPT ![mail] = @ + 1]
  /\ pc' = "mark"
  /\ UNCHANGED <<here, asked, socket, received, current, processed, torn, runs, failures>>

Marks ==
  /\ pc = "mark" /\ processed' = processed \cup {mail}
  /\ pc' = "next"
  /\ UNCHANGED <<here, asked, socket, received, current, sent, torn, runs, failures>>

\* A call throws: it never arrived, its answer was lost, or the token is not valid any more.
CallFails ==
  /\ pc \in {"askTriage", "askReply", "ackTriage", "ackReply"}
  /\ \/ ~current /\ UNCHANGED <<asked, failures>>
     \/ failures < MaxFailures /\ failures' = failures + 1
        /\ \/ UNCHANGED asked
           \/ pc \in {"askTriage", "askReply"} /\ Len(asked) < MaxRequests
              /\ asked' = Append(asked, [mail |-> mail, stage |-> Stage, verdict |-> None, acked |-> FALSE])
           \/ pc \in {"ackTriage", "ackReply"} /\ asked' = [asked EXCEPT ![request].acked = TRUE]
  /\ EndsRun
  /\ UNCHANGED mailbox

Dies ==
  /\ pc # "ended"
  /\ torn' = IF pc = "mark" /\ asked[request].verdict = "approve" THEN [torn EXCEPT ![mail] = @ + 1] ELSE torn
  /\ EndsRun
  /\ UNCHANGED <<asked, processed, sent, failures>>

Next ==
  \/ Register \/ Connected \/ SocketCloses \/ Rival \/ NextMail \/ Asks \/ Hears \/ TimesOut
  \/ Acks \/ Sends \/ Marks \/ CallFails \/ Dies
  \/ \E i \in 1..Len(asked) : Decide(i)

Spec == Init /\ [][Next]_vars

-----------------------------------------------------------------------------
TypeOK ==
  /\ pc \in {"ended", "connect", "next", "askTriage", "awaitTriage", "ackTriage", "askReply",
             "awaitReply", "ackReply", "send", "mark"}
  /\ mail \in Mails \cup {None} /\ todo \subseteq Mails /\ request \in 0..Len(asked)
  /\ asked \in Seq(Request) /\ Len(asked) <= MaxRequests
  /\ socket \in {"closed", "opening", "open"}
  /\ received \subseteq 1..Len(asked) /\ current \in BOOLEAN
  /\ processed \subseteq Mails
  /\ sent \in [Mails -> Nat] /\ torn \in [Mails -> Nat]
  /\ runs \in 0..MaxRuns /\ failures \in 0..MaxFailures

Answered(m, verdicts) ==
  {i \in 1..Len(asked) : asked[i].mail = m /\ asked[i].verdict \in verdicts /\ asked[i].acked}

\* No answer is sent without an approval of a reply to that mail which was acknowledged, one
\* for each time it was sent, and it is sent a second time only if a run died between sending
\* and marking.
SentAsApproved ==
  \A m \in Mails :
    /\ sent[m] <= Cardinality({i \in Answered(m, {"approve"}) : asked[i].stage = "reply"})
    /\ sent[m] <= 1 + torn[m]

\* A mail is marked as processed only when it was answered or an operator has refused it.
MarkedIsSettled ==
  \A m \in processed : sent[m] > 0 \/ Answered(m, Verdicts \ {"approve"}) # {}

-----------------------------------------------------------------------------
(* Inductive invariants, for the proofs. *)

ApprovedReplies(m) == {i \in Answered(m, {"approve"}) : asked[i].stage = "reply"}

Waiting == {"awaitTriage", "ackTriage", "awaitReply", "ackReply"}

\* The request whose decision the run needs is about its mail and was not acknowledged, not even
\* by a run that died.
RequestInv ==
  /\ pc \in Waiting \cup {"send", "mark"} =>
       request \in 1..Len(asked) /\ asked[request].mail = mail
  /\ pc \in Waiting => asked[request].stage = Stage /\ ~asked[request].acked
  /\ pc \in {"ackTriage", "ackReply"} => asked[request].verdict # None
  /\ \A i \in received : asked[i].verdict # None

\* The mails it has not come to are not marked, nor is the one it is at.
TodoInv ==
  /\ pc \notin {"ended", "connect"} => todo \cap processed = {}
  /\ pc \notin {"ended", "connect", "next"} => mail \in Mails \ (processed \cup todo)

\* Whether an answer to m is about to be sent; whether one more was sent than a death explains.
Promised(m) == IF pc = "send" /\ m = mail THEN 1 ELSE 0
Excused(m) ==
  IF m \in processed \/ (pc = "mark" /\ m = mail /\ asked[request].verdict = "approve") THEN 1 ELSE 0

\* Before an answer is sent there is one approval more than answers, and who dies after it and
\* before the mail is marked leaves a trace.
SentInv ==
  /\ pc = "send" => asked[request].verdict = "approve"
  /\ pc = "mark" =>
       \/ asked[request].verdict = "approve" /\ sent[mail] > 0
       \/ asked[request].verdict \in Verdicts \ {"approve"} /\ asked[request].acked
  /\ \A m \in Mails : sent[m] + Promised(m) <= Cardinality(ApprovedReplies(m))
  /\ \A m \in Mails : sent[m] <= torn[m] + Excused(m)
=============================================================================
