------------------------------ MODULE ToolClient ------------------------------
(***************************************************************************)
(* The client of the Spring tool service (tools/spring_client.py) and the  *)
(* service as its answers show it.                                         *)
(*                                                                         *)
(* invoke_with_recovery posts a call; when the answer is lost or the error *)
(* is retryable it asks for the execution of the toolCallId, adopts that   *)
(* when it is over, and otherwise posts again, with the same id and the    *)
(* same arguments.  A request whose answer the client no longer waits for  *)
(* may still reach the service.                                            *)
(*                                                                         *)
(* The service is external: it keeps one execution per toolCallId, answers *)
(* a repeated call from it, and refuses other arguments for it.            *)
(***************************************************************************)
EXTENDS Integers, FiniteSets

CONSTANTS
  Caller,       \* executions of the run, each has one client
  Call,         \* toolCallIds of the run
  Arguments,
  MaxRetries,   \* max_retries
  NoArguments

ASSUME ToolAssumption == MaxRetries \in Nat /\ NoArguments \notin Arguments

VARIABLES
  service,      \* executions of the service; received: arguments of its requests
  requests,     \* sent, not yet received
  client        \* the invoke_with_recovery of each caller

toolVars == <<service, requests, client>>

\* REJECTED is counted with FAILED.
Terminal == {"SUCCEEDED", "FAILED"}

\* What invoke_with_recovery returns, the status of an execution, or that it raises.
Outcome == Terminal \union {"ERROR"}

IdleClient == [pc |-> "IDLE", call |-> 0, arguments |-> NoArguments,
               attempt |-> 0, outcome |-> "ERROR"]

ToolInit ==
  /\ service = [c \in Call |-> [status |-> "NONE", arguments |-> NoArguments, received |-> {}]]
  /\ requests = {}
  /\ client = [x \in Caller |-> IdleClient]

-----------------------------------------------------------------------------
(* The service *)

Serve ==
  \E q \in requests :
    LET c == q.call IN
    /\ requests' = requests \ {q}
    /\ service' = [service EXCEPT ![c] =
         [status |-> IF @.status = "NONE" THEN "RUNNING" ELSE @.status,
          arguments |-> IF @.status = "NONE" THEN q.arguments ELSE @.arguments,
          received |-> @.received \union {q.arguments}]]
    /\ UNCHANGED client

FinishExecution ==
  \E c \in Call, s \in Terminal :
    /\ service[c].status = "RUNNING"
    /\ service' = [service EXCEPT ![c].status = s]
    /\ UNCHANGED <<requests, client>>

-----------------------------------------------------------------------------
(* The client *)

Sent(x) == [call |-> client[x].call, arguments |-> client[x].arguments]

Post(x, c, a, n) ==
  /\ client' = [client EXCEPT ![x] = [pc |-> "INVOKE", call |-> c, arguments |-> a,
                                      attempt |-> n, outcome |-> "ERROR"]]
  /\ requests' = requests \union {[call |-> c, arguments |-> a]}
  /\ UNCHANGED service

Invoke(x, c, a) == Post(x, c, a, 0)

Return(x, outcome) ==
  /\ client' = [client EXCEPT ![x].pc = "DONE", ![x].outcome = outcome]
  /\ UNCHANGED <<service, requests>>

\* Answered by an execution that is over, or by an error that is not retryable: the
\* request was not acceptable, or the toolCallId is taken (TOOL_CALL_CONFLICT).
Answered(x) ==
  LET execution == service[client[x].call] IN
  /\ client[x].pc = "INVOKE"
  /\ \/ /\ Sent(x) \notin requests
        /\ execution.status \in Terminal
        /\ execution.arguments = client[x].arguments
        /\ Return(x, execution.status)
     \/ Return(x, "ERROR")

\* A timeout, a broken connection, an answer that is no JSON, or a retryable error:
\* the client is going to ask for the execution.
AnswerLost(x) ==
  /\ client[x].pc = "INVOKE"
  /\ client' = [client EXCEPT ![x].pc = "LOOKUP"]
  /\ UNCHANGED <<service, requests>>

\* GET executions/{toolCallId}; or the time for the recovery is over, or the lookup
\* fails for good.
Adopt(x) ==
  LET execution == service[client[x].call] IN
  /\ client[x].pc = "LOOKUP"
  /\ \/ execution.status \in Terminal /\ Return(x, execution.status)
     \/ Return(x, "ERROR")

PostForever(x) ==                                   \* mutation of PostAgain
  /\ client[x].pc = "LOOKUP"
  /\ Post(x, client[x].call, client[x].arguments, client[x].attempt + 1)

\* Not found, still running, or no answer: post again while attempts and time are left.
PostAgain(x) ==
  /\ client[x].pc = "LOOKUP"
  /\ client[x].attempt < MaxRetries
  /\ Post(x, client[x].call, client[x].arguments, client[x].attempt + 1)

ClientStep(x) == Answered(x) \/ AnswerLost(x) \/ Adopt(x) \/ PostAgain(x)

ServiceStep == Serve \/ FinishExecution

-----------------------------------------------------------------------------
ToolTypeOK ==
  /\ service \in [Call -> [status : {"NONE", "RUNNING"} \union Terminal,
                           arguments : Arguments \union {NoArguments},
                           received : SUBSET Arguments]]
  /\ requests \subseteq [call : Call, arguments : Arguments]
  /\ client \in [Caller -> [pc : {"IDLE", "INVOKE", "LOOKUP", "DONE"},
                            call : Call \union {0}, arguments : Arguments \union {NoArguments},
                            attempt : 0 .. MaxRetries, outcome : Outcome]]
=============================================================================
