-------------------------------- MODULE Agent --------------------------------
(***************************************************************************)
(* agent/agent.py and agent/reliability.py: one SQLAgent.run().  The agent *)
(* is one coroutine; what interleaves with it is its environment: the      *)
(* model, the MCP server and the clock, which may strike at every await.   *)
(* expired says that the monotonic clock has passed the request deadline;  *)
(* asyncio.timeout() is armed right after the deadline was computed, so it *)
(* fires at an await only when expired is set.                             *)
(* The token and the cost budgets work alike: one response costs one unit. *)
(***************************************************************************)
EXTENDS Naturals, Sequences

CONSTANTS Tools,          \* names the model may call
          Blocked,        \* BLOCKED_TOOLS
          RetrySafe,      \* RETRY_SAFE_TOOLS
          MaxIterations, MaxToolCalls, MaxRepairs, MaxTokens,
          MaxLlmRetries, MaxMcpRetries,
          MaxParallel     \* bound: tool calls in one response of the model

ASSUME AgentAssumption ==
    /\ Blocked \subseteq Tools /\ RetrySafe \subseteq Tools
    /\ MaxIterations \in Nat /\ MaxToolCalls \in Nat /\ MaxRepairs \in Nat
    /\ MaxTokens \in Nat /\ MaxLlmRetries \in Nat /\ MaxMcpRetries \in Nat
    /\ MaxParallel \in Nat

VARIABLES pc,
          status,      \* RunResult.status, an ErrorCode
          expired,     \* the request deadline has passed
          iterations, toolCalls, repairs, tokens,   \* the Budget
          attempt,     \* retries of the call under way
          todo,        \* tool calls of the response not yet taken up
          tool,        \* the tool being called
          sent,        \* history: times its call went to the server
          unanswered,  \* tool calls of the last response without a message of role "tool"
          last         \* history: what the last call to the outside ended with

budget == <<iterations, toolCalls, repairs, tokens>>
round  == <<todo, tool, sent, unanswered>>
vars   == <<pc, status, expired, budget, attempt, round, last>>

ErrorCodes == {"success", "timeout", "model_error", "tool_error", "sql_syntax_error",
               "permission_denied", "budget_exceeded"}

\* What run_query and the other tools answer, up to what classify_error() tells apart.
\* "refused": a code of _FATAL_PERMISSION_CODES; "denied": a code of the authorization
\* service that is not among them (table_permission_denied, column_permission_denied,
\* row_policy_denied, authorization_parse_error, authorization_rewrite_error).
classify_error ==
    [ok        |-> "success",         refused |-> "fatal_permission",
     denied    |-> "fatal_tool",      timeout |-> "fatal_timeout",
     dangerous |-> "fatal_dangerous", sql     |-> "repairable_sql",
     busy      |-> "transient",       other   |-> "fatal_tool"]

Answers == DOMAIN classify_error

error_code_for_kind_Mixed ==
    [fatal_permission |-> "permission_denied", fatal_dangerous |-> "permission_denied",
     fatal_timeout    |-> "timeout",           fatal_tool      |-> "sql_syntax_error"]
error_code_for_kind ==
    [fatal_permission |-> "permission_denied", fatal_dangerous |-> "permission_denied",
     fatal_timeout    |-> "timeout",           fatal_tool      |-> "tool_error"]

Fatal == DOMAIN error_code_for_kind

Awaits == {"connect", "context", "schema", "llmwait", "llmbackoff", "toolwait",
           "toolbackoff", "closing"}
Steps == Awaits \cup {"loop", "llm", "tools", "invoke", "done"}

Init ==
    /\ pc = "connect"
    /\ status = "model_error"
    /\ expired = FALSE
    /\ iterations = 0 /\ toolCalls = 0 /\ repairs = 0 /\ tokens = 0
    /\ attempt = 0
    /\ todo = <<>>
    /\ tool = "none"
    /\ sent = 0
    /\ unanswered = 0
    /\ last = "none"

Goto(s) == pc' = s
Saw(e) == last' = e

\* run() has an outcome or an exception in hand: the MCP session is closed.
Close(code) == status' = code /\ Goto("closing")

Tick ==
    /\ ~expired /\ pc # "done"
    /\ expired' = TRUE
    /\ UNCHANGED <<pc, status, budget, attempt, round, last>>

CanTimeOut_Never == FALSE
CanTimeOut == expired /\ pc \in Awaits

\* asyncio.timeout(REQUEST_DEADLINE_SECONDS) around the whole run: the await is cancelled
\* and what was entered of the session is left.  The awaits of that exit end too, by this
\* timeout or by those of the HTTP client, and an exception they raise wins.
OuterTimeout ==
    /\ CanTimeOut
    /\ \/ pc # "closing" /\ Close("timeout") /\ UNCHANGED last
       \/ pc = "closing" /\ status' = "timeout" /\ Goto("done") /\ UNCHANGED last
       \/ pc = "closing" /\ Saw("exception") /\ status' = "tool_error" /\ Goto("done")
    /\ UNCHANGED <<expired, budget, attempt, round>>

-----------------------------------------------------------------------------
(* run(): session and context *)

\* mcp_session() and the deadline check at the head of _gather_context().
Connect ==
    /\ pc = "connect"
    /\ \/ ~expired /\ Goto("context") /\ UNCHANGED <<status, last>>
       \/ expired /\ Close("timeout") /\ UNCHANGED last
       \/ Saw("exception") /\ status' = "tool_error" /\ Goto("done")
    /\ UNCHANGED <<expired, budget, attempt, round>>

\* list_tools() under wait_for.  The time for read_resource() is what is left by then: with
\* nothing left wait_for cancels it before it starts.
ListTools ==
    /\ pc = "context"
    /\ \/ ~expired /\ Goto("schema") /\ UNCHANGED <<status, last>>
       \/ expired /\ Close("timeout") /\ UNCHANGED last
       \/ Saw("timeout") /\ Close("timeout")
       \/ Saw("exception") /\ Close("tool_error")
    /\ UNCHANGED <<expired, budget, attempt, round>>

\* read_resource("database://schema") under wait_for, and its JSON.
ReadSchema ==
    /\ pc = "schema"
    /\ \/ Goto("loop") /\ UNCHANGED <<status, last>>
       \/ Saw("timeout") /\ Close("timeout")
       \/ Saw("exception") /\ Close("tool_error")
    /\ UNCHANGED <<expired, budget, attempt, round>>

\* Leaving the session may raise, whatever the outcome was: the exception wins.
CloseSession ==
    /\ pc = "closing"
    /\ Goto("done")
    /\ \/ UNCHANGED <<status, last>>
       \/ Saw("exception") /\ status' = "tool_error"
    /\ UNCHANGED <<expired, budget, attempt, round>>

-----------------------------------------------------------------------------
(* _drive() and _call_llm() *)

iterations_exceeded == iterations >= MaxIterations

LoopHead ==
    /\ pc = "loop"
    /\ \/ expired /\ Close("timeout") /\ UNCHANGED attempt
       \/ ~expired /\ iterations_exceeded /\ Close("budget_exceeded") /\ UNCHANGED attempt
       \/ ~expired /\ ~iterations_exceeded /\ attempt' = 0 /\ Goto("llm") /\ UNCHANGED status
    /\ UNCHANGED <<expired, budget, round, last>>

CallLlm ==
    /\ pc = "llm"
    /\ \/ expired /\ Close("timeout")
       \/ ~expired /\ Goto("llmwait") /\ UNCHANGED status
    /\ UNCHANGED <<expired, budget, attempt, round, last>>

\* The model answers: _account_usage, the budgets, then its message.
LlmAnswers(calls) ==
    /\ pc = "llmwait"
    /\ Saw("ok")
    /\ tokens' = tokens + 1
    /\ \/ /\ tokens' > MaxTokens
          /\ Close("budget_exceeded")
          /\ UNCHANGED <<todo, unanswered>>
       \/ /\ tokens' <= MaxTokens /\ calls = <<>>
          /\ Close("success")
          /\ UNCHANGED <<todo, unanswered>>
       \/ /\ tokens' <= MaxTokens /\ calls # <<>>
          /\ todo' = calls
          /\ unanswered' = Len(calls)
          /\ Goto("tools")
          /\ UNCHANGED status
    /\ UNCHANGED <<expired, iterations, toolCalls, repairs, attempt, tool, sent>>

LlmTimesOut ==
    /\ pc = "llmwait"
    /\ Saw("timeout")
    /\ Close("timeout")
    /\ UNCHANGED <<expired, budget, attempt, round>>

\* A connection error, a timeout of the client, a rate limit or a 5xx.
LlmTransient ==
    /\ pc = "llmwait"
    /\ Saw("transient")
    /\ attempt' = attempt + 1
    /\ IF attempt' > MaxLlmRetries \/ expired THEN Close("model_error")
       ELSE Goto("llmbackoff") /\ UNCHANGED status
    /\ UNCHANGED <<expired, budget, round>>

\* Any other 4xx or exception.
LlmRefuses ==
    /\ pc = "llmwait"
    /\ Saw("refused")
    /\ Close("model_error")
    /\ UNCHANGED <<expired, budget, attempt, round>>

LlmBackoff ==
    /\ pc = "llmbackoff"
    /\ Goto("llm")
    /\ UNCHANGED <<status, expired, budget, attempt, round, last>>

-----------------------------------------------------------------------------
(* the loop over tool_calls, _run_tool() and _invoke_tool() *)

Reply_Forgotten == UNCHANGED unanswered
Reply == unanswered' = unanswered - 1     \* messages.append({"role": "tool", ...})

RoundDone ==
    /\ pc = "tools"
    /\ todo = <<>>
    /\ iterations' = iterations + 1
    /\ Goto("loop")
    /\ UNCHANGED <<status, expired, toolCalls, repairs, tokens, attempt, round, last>>

ToolBudget_OffByOne == toolCalls > MaxToolCalls
ToolBudget == toolCalls >= MaxToolCalls

TooManyCalls ==
    /\ pc = "tools"
    /\ todo # <<>>
    /\ ToolBudget
    /\ Close("budget_exceeded")
    /\ UNCHANGED <<expired, budget, attempt, round, last>>

\* The call is counted before its arguments are parsed and its name is checked.
TakeCall ==
    /\ pc = "tools"
    /\ todo # <<>>
    /\ ~ToolBudget
    /\ toolCalls' = toolCalls + 1
    /\ todo' = Tail(todo)
    /\ tool' = Head(todo)
    /\ sent' = 0
    /\ attempt' = 0
    /\ \/ Reply /\ UNCHANGED <<pc, status>>              \* arguments are not JSON
       \/ /\ tool' \notin Blocked
          /\ Goto("invoke")
          /\ UNCHANGED <<status, unanswered>>
       \/ /\ tool' \in Blocked
          /\ Reply
          /\ Close("tool_error")
    /\ UNCHANGED <<expired, iterations, repairs, tokens, last>>

\* _run_tool() after _invoke_tool() returned the kind.
Conclude(kind) ==
    /\ Reply
    /\ \/ kind = "success" /\ Goto("tools") /\ UNCHANGED <<status, repairs>>
       \/ /\ kind = "repairable_sql"
          /\ IF repairs >= MaxRepairs
               THEN Close("sql_syntax_error") /\ UNCHANGED repairs
               ELSE repairs' = repairs + 1 /\ Goto("tools") /\ UNCHANGED status
       \/ kind \in Fatal /\ Close(error_code_for_kind[kind]) /\ UNCHANGED repairs
    /\ UNCHANGED <<iterations, toolCalls, tokens, todo, tool>>

InvokeTool ==
    /\ pc = "invoke"
    /\ \/ expired /\ Conclude("fatal_timeout") /\ UNCHANGED <<attempt, sent>>
       \/ /\ ~expired
          /\ sent' = sent + 1
          /\ Goto("toolwait")
          /\ UNCHANGED <<status, budget, attempt, todo, tool, unanswered>>
    /\ UNCHANGED <<expired, last>>

ToolTimesOut ==
    /\ pc = "toolwait"
    /\ Saw("timeout")
    /\ Conclude("fatal_timeout")
    /\ UNCHANGED <<expired, attempt, sent>>

can_retry_Always == TRUE
can_retry == tool \in RetrySafe

\* A transport exception, or an answer classified as transient.
RetryOrFail(event) ==
    /\ Saw(event)
    /\ \/ ~can_retry /\ Conclude("fatal_tool") /\ UNCHANGED attempt
       \/ /\ can_retry
          /\ attempt' = attempt + 1
          /\ IF attempt' > MaxMcpRetries \/ expired
               THEN Conclude("fatal_tool")
               ELSE /\ Goto("toolbackoff")
                    /\ UNCHANGED <<status, budget, todo, tool, unanswered>>
    /\ UNCHANGED <<expired, sent>>

ToolFails == pc = "toolwait" /\ RetryOrFail("exception")

ToolAnswers(answer) ==
    /\ pc = "toolwait"
    /\ \/ classify_error[answer] = "transient" /\ RetryOrFail(answer)
       \/ /\ classify_error[answer] # "transient"
          /\ Saw(answer)
          /\ Conclude(classify_error[answer])
          /\ UNCHANGED <<expired, attempt, sent>>

AfterBackoff_NoCheck == "toolwait"
AfterBackoff == "invoke"          \* back to the head of the loop, where the deadline is read

ToolBackoff ==
    /\ pc = "toolbackoff"
    /\ Goto(AfterBackoff)
    /\ UNCHANGED <<status, expired, budget, attempt, round, last>>

-----------------------------------------------------------------------------
Responses == UNION {[1..n -> Tools] : n \in 0..MaxParallel}

\* The agent's own steps.
AgentStep ==
    \/ LoopHead \/ CallLlm \/ LlmBackoff \/ RoundDone \/ TooManyCalls \/ TakeCall
    \/ InvokeTool \/ ToolBackoff \/ OuterTimeout

\* What awaits end with.
Environment ==
    \/ Connect \/ ListTools \/ ReadSchema \/ CloseSession
    \/ \E calls \in Responses : LlmAnswers(calls)
    \/ LlmTimesOut \/ LlmTransient \/ LlmRefuses
    \/ ToolTimesOut \/ ToolFails \/ \E answer \in Answers : ToolAnswers(answer)

Next == Tick \/ AgentStep \/ Environment

Spec == Init /\ [][Next]_vars

\* The clock advances and the event loop runs the coroutine and its timers.  The model
\* and the server owe nothing: they may never answer.
FairSpec == Spec /\ WF_vars(Tick) /\ WF_vars(AgentStep)

-----------------------------------------------------------------------------
\* Every variable has its type.
TypeOK ==
    /\ pc \in Steps
    /\ status \in ErrorCodes
    /\ expired \in BOOLEAN
    /\ iterations \in Nat /\ toolCalls \in Nat /\ repairs \in Nat /\ tokens \in Nat
    /\ attempt \in Nat
    /\ todo \in Seq(Tools)
    /\ tool \in Tools \cup {"none"}
    /\ sent \in Nat
    /\ unanswered \in Nat
    /\ last \in Answers \cup {"none", "exception", "transient"}

\* Whatever path a tool call took (bad arguments, repair, retry), the model is called
\* again only when every tool call of its last response has its "tool" message.
RepliesComplete == pc \in {"loop", "llm", "llmwait", "llmbackoff"} => unanswered = 0

\* A blocked tool is never called, a tool that is not retry-safe goes to the server once
\* per call of the model, a retry-safe one at most 1 + MCP_MAX_RETRIES times.
SubmittedOnce ==
    /\ tool \in Blocked => sent = 0
    /\ tool \notin RetrySafe => sent <= 1
    /\ sent <= 1 + MaxMcpRetries

\* Rounds, tool calls and repairs never pass their limits; the responses pass the token
\* limit by one and are one more than the finished rounds at most.
BudgetsHold ==
    /\ iterations <= MaxIterations
    /\ toolCalls <= MaxToolCalls
    /\ repairs <= MaxRepairs
    /\ tokens <= MaxTokens + 1
    /\ tokens <= iterations + 1

\* The status a caller reads is about what happened: a timeout needs a deadline or a call
\* that timed out, an exceeded budget is one that is used up, a success has a final answer
\* and no tool call in the air.
StatusTruthful ==
    pc = "done" =>
        /\ status = "success" => last = "ok" /\ unanswered = 0 /\ tokens <= MaxTokens
        /\ status = "timeout" => expired \/ last = "timeout"
        /\ status = "budget_exceeded" =>
              iterations = MaxIterations \/ toolCalls = MaxToolCalls \/ tokens > MaxTokens
        /\ status = "sql_syntax_error" => last = "sql" /\ repairs = MaxRepairs
        /\ status = "permission_denied" => last \in {"refused", "dangerous"}

\* Once the deadline has passed nothing new is sent to the model or to the server.
NothingNewSent ==
    expired => ~(pc # pc' /\ pc' \in {"context", "schema", "llmwait", "toolwait"})

QuietAfterDeadline == [][NothingNewSent]_vars

\* Every run ends, even if the model or the server never answers.
Terminates == <>(pc = "done")

\* PERMISSION_DENIED is the code for permission refusals: a run that ends because the
\* server's authorization refused the query says so.
RefusalIsPermissionDenied ==
    pc = "done" /\ last = "denied" /\ ~expired => status = "permission_denied"
=============================================================================
