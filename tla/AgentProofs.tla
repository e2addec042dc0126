----------------------------- MODULE AgentProofs -----------------------------
(***************************************************************************)
(* Proofs about Agent, for any tools, limits and length of responses.      *)
(***************************************************************************)
EXTENDS Agent, TLAPS

InCall  == {"invoke", "toolwait", "toolbackoff"}
InLlm   == {"llm", "llmwait", "llmbackoff"}
Outside == {"connect", "context", "schema", "loop"} \cup InLlm
Ending  == {"closing", "done"}

\* Outside a round no tool call waits for its message; inside, those not yet taken up do,
\* and the one under way.
RepliesPending ==
    /\ pc \in Outside => unanswered = 0
    /\ pc = "tools" => unanswered = Len(todo)
    /\ pc \in InCall => unanswered = Len(todo) + 1

\* The budgets, with what the checks before each step have established.
BudgetsLeft ==
    /\ BudgetsHold
    /\ pc \in InLlm \cup InCall \cup {"tools"} => iterations < MaxIterations
    /\ pc \in Outside => tokens <= iterations
    /\ pc \notin Ending => tokens <= MaxTokens

\* The number of submissions is the number of attempts.
SubmissionsCounted ==
    /\ SubmittedOnce
    /\ pc \in {"invoke", "toolbackoff"} => sent <= attempt
    /\ pc = "toolwait" => sent <= attempt + 1
    /\ pc \in InCall => /\ attempt <= MaxMcpRetries
                        /\ tool \notin Blocked
                        /\ tool \notin RetrySafe => attempt = 0

\* What StatusTruthful says of the result holds from the moment the outcome is known.
StatusKnown ==
    pc \in Ending =>
        /\ status = "success" => last = "ok" /\ unanswered = 0 /\ tokens <= MaxTokens
        /\ status = "timeout" => expired \/ last = "timeout"
        /\ status = "budget_exceeded" =>
              iterations = MaxIterations \/ toolCalls = MaxToolCalls \/ tokens > MaxTokens
        /\ status = "sql_syntax_error" => last = "sql" /\ repairs = MaxRepairs
        /\ status = "permission_denied" => last \in {"refused", "dangerous"}

IInv == TypeOK /\ RepliesPending /\ BudgetsLeft /\ SubmissionsCounted /\ StatusKnown

LEMMA ResponseSeq == \A calls \in Responses : calls \in Seq(Tools)
BY AgentAssumption DEF Responses

LEMMA InitIInv == Init => IInv
<1> SUFFICES ASSUME Init PROVE IInv
  OBVIOUS
<1>1. TypeOK
  <2>1. todo \in Seq(Tools)
    BY DEF Init
  <2>2. pc \in Steps /\ status \in ErrorCodes
    BY DEF Init, Steps, Awaits, ErrorCodes
  <2>3. QED BY <2>1, <2>2 DEF Init, TypeOK
<1>2. RepliesPending /\ StatusKnown
  BY DEF Init, RepliesPending, StatusKnown, Outside, InLlm, InCall, Ending
<1>3. BudgetsLeft
  BY AgentAssumption DEF Init, BudgetsLeft, BudgetsHold, Outside, InLlm, InCall, Ending
<1>4. SubmissionsCounted
  BY AgentAssumption DEF Init, SubmissionsCounted, SubmittedOnce, InCall
<1>5. QED BY <1>1, <1>2, <1>3, <1>4 DEF IInv

\* Every step keeps the types.
LEMMA TypeStep == ASSUME IInv, [Next]_vars PROVE TypeOK'
<1> USE AgentAssumption DEF IInv, TypeOK, budget, round, Goto, Saw, Outside, InLlm, InCall,
        Ending, RepliesPending, Steps, Awaits, ErrorCodes, Fatal, Answers, classify_error, error_code_for_kind
<1>1. CASE UNCHANGED vars
  BY <1>1 DEF vars
<1>2. CASE Tick
  BY <1>2 DEF Tick
<1>3. CASE LoopHead
  BY <1>3 DEF LoopHead, iterations_exceeded, Close
<1>4. CASE CallLlm
  BY <1>4 DEF CallLlm, Close
<1>5. CASE LlmBackoff
  BY <1>5 DEF LlmBackoff
<1>6. CASE RoundDone
  BY <1>6 DEF RoundDone
<1>7. CASE TooManyCalls
  BY <1>7 DEF TooManyCalls, ToolBudget, Close
<1>8. CASE TakeCall
  BY <1>8 DEF TakeCall, ToolBudget, Reply, Close
<1>9. CASE InvokeTool
  BY <1>9 DEF InvokeTool, Conclude, Reply, Close
<1>10. CASE ToolBackoff
  BY <1>10 DEF ToolBackoff, AfterBackoff
<1>11. CASE OuterTimeout
  BY <1>11 DEF OuterTimeout, CanTimeOut, Awaits, Close
<1>12. CASE Connect
  BY <1>12 DEF Connect, Close
<1>13. CASE ListTools
  BY <1>13 DEF ListTools, Close
<1>14. CASE ReadSchema
  BY <1>14 DEF ReadSchema, Close
<1>15. CASE CloseSession
  BY <1>15 DEF CloseSession
<1>16. CASE LlmTimesOut
  BY <1>16 DEF LlmTimesOut, Close
<1>17. CASE LlmTransient
  BY <1>17 DEF LlmTransient, Close
<1>18. CASE LlmRefuses
  BY <1>18 DEF LlmRefuses, Close
<1>19. CASE ToolTimesOut
  BY <1>19 DEF ToolTimesOut, Conclude, Reply, Close
<1>20. CASE ToolFails
  BY <1>20 DEF ToolFails, RetryOrFail, can_retry, Conclude, Reply, Close
<1>21. ASSUME NEW calls \in Responses, LlmAnswers(calls) PROVE TypeOK'
  BY <1>21, ResponseSeq DEF LlmAnswers, Close
<1>22. ASSUME NEW answer \in Answers, ToolAnswers(answer) PROVE TypeOK'
  BY <1>22 DEF ToolAnswers, RetryOrFail, can_retry, Conclude, Reply, Close
<1>23. QED
  BY <1>1, <1>2, <1>3, <1>4, <1>5, <1>6, <1>7, <1>8, <1>9, <1>10, <1>11,
     <1>12, <1>13, <1>14, <1>15, <1>16, <1>17, <1>18, <1>19, <1>20, <1>21, <1>22 DEF Next, AgentStep, Environment

\* Every tool call taken up gets its message before the next step of the round.
LEMMA RepliesStep == ASSUME IInv, [Next]_vars PROVE RepliesPending'
<1> USE AgentAssumption DEF IInv, TypeOK, budget, round, Goto, Saw, Outside, InLlm, InCall,
        Ending, RepliesPending
<1>1. CASE UNCHANGED vars
  BY <1>1 DEF vars
<1>2. CASE Tick
  BY <1>2 DEF Tick
<1>3. CASE LoopHead
  BY <1>3 DEF LoopHead, iterations_exceeded, Close
<1>4. CASE CallLlm
  BY <1>4 DEF CallLlm, Close
<1>5. CASE LlmBackoff
  BY <1>5 DEF LlmBackoff
<1>6. CASE RoundDone
  BY <1>6 DEF RoundDone
<1>7. CASE TooManyCalls
  BY <1>7 DEF TooManyCalls, ToolBudget, Close
<1>8. CASE TakeCall
  BY <1>8 DEF TakeCall, ToolBudget, Reply, Close
<1>9. CASE InvokeTool
  BY <1>9 DEF InvokeTool, Conclude, Reply, Close
<1>10. CASE ToolBackoff
  BY <1>10 DEF ToolBackoff, AfterBackoff
<1>11. CASE OuterTimeout
  BY <1>11 DEF OuterTimeout, CanTimeOut, Awaits, Close
<1>12. CASE Connect
  BY <1>12 DEF Connect, Close
<1>13. CASE ListTools
  BY <1>13 DEF ListTools, Close
<1>14. CASE ReadSchema
  BY <1>14 DEF ReadSchema, Close
<1>15. CASE CloseSession
  BY <1>15 DEF CloseSession
<1>16. CASE LlmTimesOut
  BY <1>16 DEF LlmTimesOut, Close
<1>17. CASE LlmTransient
  BY <1>17 DEF LlmTransient, Close
<1>18. CASE LlmRefuses
  BY <1>18 DEF LlmRefuses, Close
<1>19. CASE ToolTimesOut
  BY <1>19 DEF ToolTimesOut, Conclude, Reply, Close
<1>20. CASE ToolFails
  BY <1>20 DEF ToolFails, RetryOrFail, can_retry, Conclude, Reply, Close
<1>21. ASSUME NEW calls \in Responses, LlmAnswers(calls) PROVE RepliesPending'
  BY <1>21, ResponseSeq DEF LlmAnswers, Close
<1>22. ASSUME NEW answer \in Answers, ToolAnswers(answer) PROVE RepliesPending'
  BY <1>22 DEF ToolAnswers, RetryOrFail, can_retry, Conclude, Reply, Close
<1>23. QED
  BY <1>1, <1>2, <1>3, <1>4, <1>5, <1>6, <1>7, <1>8, <1>9, <1>10, <1>11,
     <1>12, <1>13, <1>14, <1>15, <1>16, <1>17, <1>18, <1>19, <1>20, <1>21, <1>22 DEF Next, AgentStep, Environment

\* Every counter is compared with its limit before it is raised.
LEMMA BudgetsStep == ASSUME IInv, [Next]_vars PROVE BudgetsLeft'
<1> USE AgentAssumption DEF IInv, TypeOK, budget, round, Goto, Saw, Outside, InLlm, InCall,
        Ending, BudgetsLeft, BudgetsHold
<1>1. CASE UNCHANGED vars
  BY <1>1 DEF vars
<1>2. CASE Tick
  BY <1>2 DEF Tick
<1>3. CASE LoopHead
  BY <1>3 DEF LoopHead, iterations_exceeded, Close
<1>4. CASE CallLlm
  BY <1>4 DEF CallLlm, Close
<1>5. CASE LlmBackoff
  BY <1>5 DEF LlmBackoff
<1>6. CASE RoundDone
  BY <1>6 DEF RoundDone
<1>7. CASE TooManyCalls
  BY <1>7 DEF TooManyCalls, ToolBudget, Close
<1>8. CASE TakeCall
  BY <1>8 DEF TakeCall, ToolBudget, Reply, Close
<1>9. CASE InvokeTool
  BY <1>9 DEF InvokeTool, Conclude, Reply, Close
<1>10. CASE ToolBackoff
  BY <1>10 DEF ToolBackoff, AfterBackoff
<1>11. CASE OuterTimeout
  BY <1>11 DEF OuterTimeout, CanTimeOut, Awaits, Close
<1>12. CASE Connect
  BY <1>12 DEF Connect, Close
<1>13. CASE ListTools
  BY <1>13 DEF ListTools, Close
<1>14. CASE ReadSchema
  BY <1>14 DEF ReadSchema, Close
<1>15. CASE CloseSession
  BY <1>15 DEF CloseSession
<1>16. CASE LlmTimesOut
  BY <1>16 DEF LlmTimesOut, Close
<1>17. CASE LlmTransient
  BY <1>17 DEF LlmTransient, Close
<1>18. CASE LlmRefuses
  BY <1>18 DEF LlmRefuses, Close
<1>19. CASE ToolTimesOut
  BY <1>19 DEF ToolTimesOut, Conclude, Reply, Close
<1>20. CASE ToolFails
  BY <1>20 DEF ToolFails, RetryOrFail, can_retry, Conclude, Reply, Close
<1>21. ASSUME NEW calls \in Responses, LlmAnswers(calls) PROVE BudgetsLeft'
  BY <1>21, ResponseSeq DEF LlmAnswers, Close
<1>22. ASSUME NEW answer \in Answers, ToolAnswers(answer) PROVE BudgetsLeft'
  BY <1>22 DEF ToolAnswers, RetryOrFail, can_retry, Conclude, Reply, Close
<1>23. QED
  BY <1>1, <1>2, <1>3, <1>4, <1>5, <1>6, <1>7, <1>8, <1>9, <1>10, <1>11,
     <1>12, <1>13, <1>14, <1>15, <1>16, <1>17, <1>18, <1>19, <1>20, <1>21, <1>22 DEF Next, AgentStep, Environment

\* Every submission is an attempt, and only retry-safe tools have a second one.
LEMMA SubmissionsStep == ASSUME IInv, [Next]_vars PROVE SubmissionsCounted'
<1> USE AgentAssumption DEF IInv, TypeOK, budget, round, Goto, Saw, Outside, InLlm, InCall,
        Ending, SubmissionsCounted, SubmittedOnce
<1>1. CASE UNCHANGED vars
  BY <1>1 DEF vars
<1>2. CASE Tick
  BY <1>2 DEF Tick
<1>3. CASE LoopHead
  BY <1>3 DEF LoopHead, iterations_exceeded, Close
<1>4. CASE CallLlm
  BY <1>4 DEF CallLlm, Close
<1>5. CASE LlmBackoff
  BY <1>5 DEF LlmBackoff
<1>6. CASE RoundDone
  BY <1>6 DEF RoundDone
<1>7. CASE TooManyCalls
  BY <1>7 DEF TooManyCalls, ToolBudget, Close
<1>8. CASE TakeCall
  BY <1>8 DEF TakeCall, ToolBudget, Reply, Close
<1>9. CASE InvokeTool
  BY <1>9 DEF InvokeTool, Conclude, Reply, Close
<1>10. CASE ToolBackoff
  BY <1>10 DEF ToolBackoff, AfterBackoff
<1>11. CASE OuterTimeout
  BY <1>11 DEF OuterTimeout, CanTimeOut, Awaits, Close
<1>12. CASE Connect
  BY <1>12 DEF Connect, Close
<1>13. CASE ListTools
  BY <1>13 DEF ListTools, Close
<1>14. CASE ReadSchema
  BY <1>14 DEF ReadSchema, Close
<1>15. CASE CloseSession
  BY <1>15 DEF CloseSession
<1>16. CASE LlmTimesOut
  BY <1>16 DEF LlmTimesOut, Close
<1>17. CASE LlmTransient
  BY <1>17 DEF LlmTransient, Close
<1>18. CASE LlmRefuses
  BY <1>18 DEF LlmRefuses, Close
<1>19. CASE ToolTimesOut
  BY <1>19 DEF ToolTimesOut, Conclude, Reply, Close
<1>20. CASE ToolFails
  BY <1>20 DEF ToolFails, RetryOrFail, can_retry, Conclude, Reply, Close
<1>21. ASSUME NEW calls \in Responses, LlmAnswers(calls) PROVE SubmissionsCounted'
  BY <1>21, ResponseSeq DEF LlmAnswers, Close
<1>22. ASSUME NEW answer \in Answers, ToolAnswers(answer) PROVE SubmissionsCounted'
  BY <1>22 DEF ToolAnswers, RetryOrFail, can_retry, Conclude, Reply, Close
<1>23. QED
  BY <1>1, <1>2, <1>3, <1>4, <1>5, <1>6, <1>7, <1>8, <1>9, <1>10, <1>11,
     <1>12, <1>13, <1>14, <1>15, <1>16, <1>17, <1>18, <1>19, <1>20, <1>21, <1>22 DEF Next, AgentStep, Environment

\* The outcome and the session exit give the status its cause.
LEMMA StatusStep == ASSUME IInv, [Next]_vars PROVE StatusKnown'
<1> USE AgentAssumption DEF IInv, TypeOK, budget, round, Goto, Saw, Outside, InLlm, InCall,
        Ending, StatusKnown, BudgetsLeft, BudgetsHold, RepliesPending, Answers, classify_error, error_code_for_kind, Fatal
<1>1. CASE UNCHANGED vars
  BY <1>1 DEF vars
<1>2. CASE Tick
  BY <1>2 DEF Tick
<1>3. CASE LoopHead
  BY <1>3 DEF LoopHead, iterations_exceeded, Close
<1>4. CASE CallLlm
  BY <1>4 DEF CallLlm, Close
<1>5. CASE LlmBackoff
  BY <1>5 DEF LlmBackoff
<1>6. CASE RoundDone
  BY <1>6 DEF RoundDone
<1>7. CASE TooManyCalls
  BY <1>7 DEF TooManyCalls, ToolBudget, Close
<1>8. CASE TakeCall
  BY <1>8 DEF TakeCall, ToolBudget, Reply, Close
<1>9. CASE InvokeTool
  BY <1>9 DEF InvokeTool, Conclude, Reply, Close
<1>10. CASE ToolBackoff
  BY <1>10 DEF ToolBackoff, AfterBackoff
<1>11. CASE OuterTimeout
  BY <1>11 DEF OuterTimeout, CanTimeOut, Awaits, Close
<1>12. CASE Connect
  BY <1>12 DEF Connect, Close
<1>13. CASE ListTools
  BY <1>13 DEF ListTools, Close
<1>14. CASE ReadSchema
  BY <1>14 DEF ReadSchema, Close
<1>15. CASE CloseSession
  BY <1>15 DEF CloseSession
<1>16. CASE LlmTimesOut
  BY <1>16 DEF LlmTimesOut, Close
<1>17. CASE LlmTransient
  BY <1>17 DEF LlmTransient, Close
<1>18. CASE LlmRefuses
  BY <1>18 DEF LlmRefuses, Close
<1>19. CASE ToolTimesOut
  BY <1>19 DEF ToolTimesOut, Conclude, Reply, Close
<1>20. CASE ToolFails
  BY <1>20 DEF ToolFails, RetryOrFail, can_retry, Conclude, Reply, Close
<1>21. ASSUME NEW calls \in Responses, LlmAnswers(calls) PROVE StatusKnown'
  BY <1>21, ResponseSeq DEF LlmAnswers, Close
<1>22. ASSUME NEW answer \in Answers, ToolAnswers(answer) PROVE StatusKnown'
  BY <1>22 DEF ToolAnswers, RetryOrFail, can_retry, Conclude, Reply, Close
<1>23. QED
  BY <1>1, <1>2, <1>3, <1>4, <1>5, <1>6, <1>7, <1>8, <1>9, <1>10, <1>11,
     <1>12, <1>13, <1>14, <1>15, <1>16, <1>17, <1>18, <1>19, <1>20, <1>21, <1>22 DEF Next, AgentStep, Environment

\* A call to the outside starts behind a check of the deadline.
LEMMA QuietStep ==
    ASSUME TypeOK, [Next]_vars, expired
    PROVE  ~(pc # pc' /\ pc' \in {"context", "schema", "llmwait", "toolwait"})
<1> USE DEF Goto, Close
<1>1. CASE UNCHANGED vars
  BY <1>1 DEF vars
<1>2. CASE Tick
  BY <1>2 DEF Tick
<1>3. CASE LoopHead
  BY <1>3 DEF LoopHead, iterations_exceeded, Close
<1>4. CASE CallLlm
  BY <1>4 DEF CallLlm, Close
<1>5. CASE LlmBackoff
  BY <1>5 DEF LlmBackoff
<1>6. CASE RoundDone
  BY <1>6 DEF RoundDone
<1>7. CASE TooManyCalls
  BY <1>7 DEF TooManyCalls, ToolBudget, Close
<1>8. CASE TakeCall
  BY <1>8 DEF TakeCall, ToolBudget, Reply, Close
<1>9. CASE InvokeTool
  BY <1>9 DEF InvokeTool, Conclude, Reply, Close
<1>10. CASE ToolBackoff
  BY <1>10 DEF ToolBackoff, AfterBackoff
<1>11. CASE OuterTimeout
  BY <1>11 DEF OuterTimeout, CanTimeOut, Awaits, Close
<1>12. CASE Connect
  BY <1>12 DEF Connect, Close
<1>13. CASE ListTools
  BY <1>13 DEF ListTools, Close
<1>14. CASE ReadSchema
  BY <1>14 DEF ReadSchema, Close
<1>15. CASE CloseSession
  BY <1>15 DEF CloseSession
<1>16. CASE LlmTimesOut
  BY <1>16 DEF LlmTimesOut, Close
<1>17. CASE LlmTransient
  BY <1>17 DEF LlmTransient, Close
<1>18. CASE LlmRefuses
  BY <1>18 DEF LlmRefuses, Close
<1>19. CASE ToolTimesOut
  BY <1>19 DEF ToolTimesOut, Conclude, Reply, Close, error_code_for_kind, Fatal
<1>20. CASE ToolFails
  BY <1>20 DEF ToolFails, RetryOrFail, can_retry, Conclude, Reply, Close, error_code_for_kind, Fatal
<1>21. ASSUME NEW calls \in Responses, LlmAnswers(calls)
      PROVE  ~(pc # pc' /\ pc' \in {"context", "schema", "llmwait", "toolwait"})
  BY <1>21 DEF LlmAnswers
<1>22. ASSUME NEW answer \in Answers, ToolAnswers(answer)
      PROVE  ~(pc # pc' /\ pc' \in {"context", "schema", "llmwait", "toolwait"})
  BY <1>22 DEF ToolAnswers, RetryOrFail, Conclude
<1>23. QED
  BY <1>1, <1>2, <1>3, <1>4, <1>5, <1>6, <1>7, <1>8, <1>9, <1>10, <1>11,
     <1>12, <1>13, <1>14, <1>15, <1>16, <1>17, <1>18, <1>19, <1>20, <1>21, <1>22 DEF Next, AgentStep, Environment
-----------------------------------------------------------------------------
\* The invariant holds in every reachable state.
THEOREM AgentInvariant == Spec => []IInv
<1>1. IInv /\ [Next]_vars => IInv'
  BY TypeStep, RepliesStep, BudgetsStep, SubmissionsStep, StatusStep DEF IInv
<1>2. QED BY InitIInv, <1>1, PTL DEF Spec

\* Type correctness.
THEOREM AgentTypeOK == Spec => []TypeOK
<1>1. IInv => TypeOK
  BY DEF IInv
<1>2. QED BY AgentInvariant, <1>1, PTL

\* The model never sees a tool call without its message.
THEOREM AgentRepliesComplete == Spec => []RepliesComplete
<1>1. IInv => RepliesComplete
  BY DEF IInv, RepliesPending, RepliesComplete, Outside, InLlm
<1>2. QED BY AgentInvariant, <1>1, PTL

\* A tool that is not retry-safe is submitted once per call, a blocked one never.
THEOREM AgentSubmittedOnce == Spec => []SubmittedOnce
<1>1. IInv => SubmittedOnce
  BY DEF IInv, SubmissionsCounted
<1>2. QED BY AgentInvariant, <1>1, PTL

\* No budget is ever passed.
THEOREM AgentBudgetsHold == Spec => []BudgetsHold
<1>1. IInv => BudgetsHold
  BY DEF IInv, BudgetsLeft
<1>2. QED BY AgentInvariant, <1>1, PTL

\* The status of a run is about what happened in it.
THEOREM AgentStatusTruthful == Spec => []StatusTruthful
<1>1. IInv => StatusTruthful
  BY DEF IInv, StatusKnown, StatusTruthful, Ending
<1>2. QED BY AgentInvariant, <1>1, PTL

\* After the deadline nothing new is sent to the model or to the server.
THEOREM AgentQuietAfterDeadline == Spec => QuietAfterDeadline
<1>1. TypeOK /\ [Next]_vars =>
        [NothingNewSent]_vars
  BY QuietStep DEF NothingNewSent
<1>2. QED BY AgentTypeOK, <1>1, PTL DEF Spec, QuietAfterDeadline
=============================================================================
