------------------------------- MODULE AiChat -------------------------------
(***************************************************************************)
(* Calls of an LLM: the tool-calling loop of ai_chat and the single-shot   *)
(* completion of construct_knowledge and the pipeline's steps, the choice  *)
(* of a provider, the retries of a request and the telemetry of the calls. *)
(*                                                                         *)
(* ai_chat keeps nothing on the server: the client sends the history it    *)
(* got back from its last call with a new question at its end.  A request  *)
(* blocks the event loop, so that only while a tool of this chat runs do   *)
(* others get to make theirs: the module follows one client, and has the   *)
(* others for what they leave in the telemetry, which is the process's.    *)
(* The provider is chosen again for every request; the setting may be      *)
(* another one when the server has been restarted.                         *)
(*                                                                         *)
(* External: the client, the providers, the tools.                         *)
(***************************************************************************)
EXTENDS LlmFormats

CONSTANTS
    Setting,        \* the values that CKS_LLM_PROVIDER has in turn
    Allowed,        \* tools that are registered and not in _DISALLOWED_TOOLS
    Other,          \* other names that the LLM asks for
    Id,             \* ids that providers give to calls
    Response,       \* [Provider -> sequences of parts]: what it may answer
    MaxIterations,  \* _MAX_ITERATIONS
    MaxAttempts,    \* max_attempts of call_with_retry
    MaxRecords,     \* max_calls of LLMTelemetry
    MaxAsks,        \* bound: calls that the client makes
    MaxRequests     \* bound: requests remembered when another makes one

ASSUME SettingAssumption == Setting \subseteq Provider \cup {"auto"}
ASSUME ToolAssumption == Allowed \cap Other = {} /\ Nothing \notin Allowed \cup Other
ASSUME IdAssumption == Nothing \notin Id /\ \A id \in Id : id \notin Provider \X Nat

\* A response is of texts and calls.  The ids in one are distinct; Anthropic gives
\* one to each call.
Part == {Text} \cup [type : {"tool_use"}, id : Id \cup {Nothing}, name : Allowed \cup Other]

ASSUME ResponseAssumption ==
    \A provider \in Provider : \A parts \in Response[provider] :
        /\ parts \in Seq(Part)
        /\ \A i, j \in DOMAIN parts :
                i # j => parts[i].id # parts[j].id \/ parts[i].id = Nothing
        /\ provider = "anthropic" =>
                \A i \in DOMAIN parts : IsCall(parts[i]) => parts[i].id # Nothing
ASSUME LimitAssumption ==
    /\ MaxIterations \in Nat \ {0} /\ MaxAttempts \in Nat \ {0} /\ MaxRecords \in Nat \ {0}

VARIABLES
    setting,    \* CKS_LLM_PROVIDER
    keyed,      \* whether the environment has the keys of the providers that need one
    job,        \* "chat" or "completion"
    phase,      \* where the call is
    via,        \* the provider of the request
    attempt,    \* attempts made of the request
    iteration,  \* round-trips made by this call of ai_chat
    messages,   \* the history, as the call has it
    pending,    \* tool_use blocks still to execute
    results,    \* tool_result blocks of this round-trip
    answer,     \* what the call returned, or how it ended
    kept,       \* the history that the client has
    asks,       \* calls made by the client
    telemetry,  \* LLMTelemetry._calls: whether each of them was a success
    requests,   \* history: the process's requests, in order, up to the one that ends the call
    rounds      \* history: responses that the call had

loopVars == <<iteration, messages, pending, results>>
clientVars == <<kept, asks>>
serverVars == <<setting, keyed>>
recordVars == <<telemetry, requests, rounds>>
chatVars ==
    <<serverVars, job, phase, via, attempt, loopVars, answer, clientVars, recordVars>>

\* What is recorded of a request, and, of this call's that were answered, what was made of it.
Outcome == {"success", "failure"}
Requested == Outcome \cup {"answered"}

Step == {"idle", "turn", "calling", "backoff", "tools"}
Answer == {"none", "reply", "text", "llm_call_failed", "llm_provider_unavailable",
           "truncated", "raised"}

ChatInit ==
    /\ setting \in Setting /\ keyed \in BOOLEAN
    /\ job = "chat" /\ phase = "idle" /\ via = Nothing /\ attempt = 0
    /\ iteration = 0 /\ messages = <<>> /\ pending = <<>> /\ results = <<>>
    /\ answer = "none"
    /\ kept = <<>> /\ asks = 0
    /\ telemetry = <<>> /\ requests = <<>> /\ rounds = 0

-----------------------------------------------------------------------------
(* The client, and the end of a call                                       *)

\* The server is restarted between two calls, perhaps with another environment; its
\* telemetry is in memory, the history is the client's.
Reconfigure ==
    /\ phase = "idle"
    /\ setting' \in Setting /\ keyed' \in BOOLEAN
    /\ telemetry' = <<>> /\ requests' = <<>> /\ rounds' = 0
    /\ answer' = "none"
    /\ UNCHANGED <<job, phase, via, attempt, loopVars, clientVars>>

\* The client asks on, or a tool or a step of the pipeline asks for a completion.
Ask(j) ==
    /\ phase = "idle" /\ asks < MaxAsks
    /\ asks' = asks + 1
    /\ job' = j /\ phase' = "turn" /\ answer' = "none"
    /\ messages' = IF j = "chat" THEN Append(kept, Message("user", <<Text>>)) ELSE <<>>
    /\ requests' = telemetry /\ rounds' = 0
    /\ UNCHANGED <<serverVars, via, attempt, iteration, pending, results, kept, telemetry>>

\* The call returns a, a call of ai_chat with the history; what it kept in variables
\* is gone.
Return(a, history) ==
    /\ phase' = "idle" /\ answer' = a
    /\ kept' = IF job = "chat" /\ a # "raised" THEN history ELSE kept
    /\ via' = Nothing /\ attempt' = 0
    /\ iteration' = 0 /\ messages' = <<>> /\ pending' = <<>> /\ results' = <<>>
    /\ UNCHANGED <<serverVars, job, asks>>

-----------------------------------------------------------------------------
(* A request                                                               *)

\* "auto" takes Ollama when it answers the probe, and otherwise Anthropic.
Routes == IF setting = "auto" THEN {"ollama", "anthropic"} ELSE {setting}

Route ==
    /\ phase = "turn"
    /\ via' \in Routes
    /\ attempt' = 1 /\ phase' = "calling"
    /\ UNCHANGED <<serverVars, job, loopVars, answer, clientVars, recordVars>>

CallWithTools == job = "chat" /\ Route
CallSingleShot == job = "completion" /\ Route

\* The provider's key is missing: nothing is requested or recorded.
NoKey ==
    /\ phase = "calling" /\ via # "ollama" /\ ~keyed
    /\ Return(IF setting = "auto" THEN "llm_provider_unavailable" ELSE "llm_call_failed",
              messages)
    /\ UNCHANGED recordVars

\* Variant: the ring buffer drops its newest entries.
EvictedNewest(s) == SubSeq(s, 1, IF Len(s) > MaxRecords THEN MaxRecords ELSE Len(s))

\* The ring buffer drops its oldest entries.
Evicted(s) == SubSeq(s, IF Len(s) > MaxRecords THEN Len(s) - MaxRecords + 1 ELSE 1, Len(s))

Record(outcome) == telemetry' = Evicted(Append(telemetry, outcome))

\* Variant: the attempts of a request are not counted.
NextAttemptUncounted(n) == n

NextAttempt(n) == n + 1

\* HTTP 429 or 529, or a network error without a status: tried again.
Retry ==
    /\ attempt < MaxAttempts
    /\ phase' = "backoff"
    /\ UNCHANGED <<serverVars, job, via, attempt, loopVars, answer, clientVars, recordVars>>

Again ==
    /\ phase = "backoff"
    /\ phase' = "calling" /\ attempt' = NextAttempt(attempt)
    /\ UNCHANGED <<serverVars, job, via, loopVars, answer, clientVars, recordVars>>

\* Another status, or the last attempt: the provider's function raises RuntimeError.
RequestFails ==
    /\ Record("failure")
    /\ Return("llm_call_failed", messages)
    /\ UNCHANGED <<requests, rounds>>

\* A response without candidates, choices, message or text.
Unusable ==
    /\ Record("failure")
    /\ Return("llm_call_failed", messages)
    /\ UNCHANGED <<requests, rounds>>

\* The response breaks off or is not JSON: neither exception is an URLError or a
\* RuntimeError, so it is not recorded and leaves ai_chat, history and all.
Escapes ==
    /\ Return("raised", messages)
    /\ UNCHANGED recordVars

Answered ==
    /\ Record("success")
    /\ requests' = Append(requests, "answered") /\ rounds' = rounds + 1

\* A completion has its text.
Complete == Answered /\ Return("text", messages)

\* A turn of the dialogue: the answer is final when it calls no tool.
Reply ==
    /\ Answered
    /\ \E parts \in Response[via] :
        LET content == Received(via, parts)
            history == Append(messages, Message("assistant", content))
            calls == OfType(content, "tool_use")
        IN IF calls = <<>>
           THEN Return("reply", history)
           ELSE /\ messages' = history
                /\ phase' = "tools" /\ pending' = calls /\ results' = <<>>
                /\ via' = Nothing /\ attempt' = 0
                /\ UNCHANGED <<serverVars, job, iteration, answer, clientVars>>

\* The functions of the providers.  Ollama needs no key; the tool-calling function
\* for Anthropic takes any response for a success.
Requesting(provider, j) ==
    /\ phase = "calling" /\ via = provider /\ job = j
    /\ provider = "ollama" \/ keyed

CallOllama ==
    Requesting("ollama", "completion")
    /\ (Retry \/ RequestFails \/ Escapes \/ Unusable \/ Complete)
CallAnthropic ==
    Requesting("anthropic", "completion")
    /\ (Retry \/ RequestFails \/ Escapes \/ Unusable \/ Complete)
CallOpenaiCompatibleSingleShot ==
    Requesting("openai_compatible", "completion")
    /\ (Retry \/ RequestFails \/ Escapes \/ Unusable \/ Complete)
CallGoogle ==
    Requesting("google", "completion")
    /\ (Retry \/ RequestFails \/ Escapes \/ Unusable \/ Complete)

CallOllamaWithTools ==
    Requesting("ollama", "chat")
    /\ (Retry \/ RequestFails \/ Escapes \/ Unusable \/ Reply)
CallAnthropicWithTools ==
    Requesting("anthropic", "chat")
    /\ (Retry \/ RequestFails \/ Escapes \/ Reply)
CallOpenaiCompatibleWithTools ==
    Requesting("openai_compatible", "chat")
    /\ (Retry \/ RequestFails \/ Escapes \/ Unusable \/ Reply)
CallGoogleWithTools ==
    Requesting("google", "chat")
    /\ (Retry \/ RequestFails \/ Escapes \/ Unusable \/ Reply)

-----------------------------------------------------------------------------
(* The tools                                                               *)

\* Variant: the result does not say which function it is of.
ResultUnnamed(block) ==
    [type |-> "tool_result", id |-> block.id, name |-> Nothing]

Result(block) ==
    [type |-> "tool_result", id |-> block.id, name |-> block.name]

\* The handler's result or error, also when it raises; an error for other names.
ResultOf(block) == <<Result(block)>>

\* A call is executed and its result noted; after the last one, the results are a
\* message of the user's, and the loop goes on unless it has come to its limit.
RunTool ==
    /\ phase = "tools"
    /\ LET done == results \o ResultOf(Head(pending))
           history == Append(messages, Message("user", done))
       IN IF Len(pending) > 1
          THEN /\ results' = done /\ pending' = Tail(pending)
               /\ UNCHANGED <<serverVars, job, phase, via, attempt, iteration, messages,
                              answer, clientVars>>
          ELSE IF iteration + 1 < MaxIterations
          THEN /\ phase' = "turn" /\ iteration' = iteration + 1
               /\ messages' = history /\ pending' = <<>> /\ results' = <<>>
               /\ UNCHANGED <<serverVars, job, via, attempt, answer, clientVars>>
          ELSE Return("truncated", history)
    /\ UNCHANGED recordVars

\* The result cannot be written as JSON, which is done outside of the try: the exception
\* leaves ai_chat.
ResultEscapes ==
    /\ phase = "tools" /\ Head(pending).name \in Allowed
    /\ Return("raised", messages)
    /\ UNCHANGED recordVars

\* While the tool runs, it or somebody else in the process has a request answered or refused.
OthersRequest ==
    /\ phase = "tools" /\ Head(pending).name \in Allowed /\ Len(requests) < MaxRequests
    /\ \E outcome \in Outcome : Record(outcome) /\ requests' = Append(requests, outcome)
    /\ UNCHANGED <<serverVars, job, phase, via, attempt, loopVars, answer, clientVars, rounds>>

Serve ==
    \/ CallWithTools \/ CallSingleShot \/ NoKey \/ Again
    \/ CallOllama \/ CallAnthropic \/ CallOpenaiCompatibleSingleShot \/ CallGoogle
    \/ CallOllamaWithTools \/ CallAnthropicWithTools
    \/ CallOpenaiCompatibleWithTools \/ CallGoogleWithTools
    \/ RunTool \/ ResultEscapes

ChatNext == Reconfigure \/ Ask("chat") \/ Ask("completion") \/ OthersRequest \/ Serve

ChatSpec == ChatInit /\ [][ChatNext]_chatVars

\* Every attempt ends by its timeout, and the tools return.
ChatFairSpec == ChatSpec /\ WF_chatVars(Serve)

-----------------------------------------------------------------------------
(* Properties                                                              *)

\* What a translated message pairs by.
Keys(s, type) ==
    LET items == OfType(s, type) IN [k \in DOMAIN items |-> items[k].key]

\* The calls of a message are answered by the results that open the next one: one for
\* each, in the same order, by the same keys; no call of the last message waits.  Where
\* results are paired by ids, the ids of a message's calls are distinct.
Paired(provider, sent) ==
    /\ \A i \in DOMAIN sent :
        /\ Keys(sent[i], "tool_result") =
                IF i = 1 THEN <<>> ELSE Keys(sent[i - 1], "tool_use")
        /\ \A j \in Positions(sent[i], "tool_result") :
                1..j \subseteq Positions(sent[i], "tool_result")
        /\ provider \in {"anthropic", "openai_compatible"} =>
                LET ids == Keys(sent[i], "tool_use")
                IN \A j, k \in DOMAIN ids : ids[j] = ids[k] => j = k
    /\ sent # <<>> => Keys(sent[Len(sent)], "tool_use") = <<>>

\* Every provider can be sent the history that a request starts from, whoever
\* answered before: across errors of tools, unknown tools, calls cut off at the
\* iteration limit, failed requests and changes of provider.
CallsAreAnswered ==
    phase = "turn" => \A p \in Provider : Paired(p, Sent(p, messages))

\* The last request of the call was answered with an error.
RequestFailed == answer = "llm_call_failed" /\ (keyed \/ setting \in {"auto", "ollama"})

\* A request of the call that was answered is a success, also when the call then ends in
\* an error; the one that ended it with an error is a failure.
Outcomes ==
    [i \in 1..Len(requests) |-> IF requests[i] = "answered" THEN "success" ELSE requests[i]]
    \o (IF RequestFailed THEN <<"failure">> ELSE <<>>)

\* The newest outcomes, and as many of them as the ring buffer may hold.
AreNewest(records, outcomes) ==
    /\ Len(records) = IF Len(outcomes) < MaxRecords THEN Len(outcomes) ELSE MaxRecords
    /\ \A i \in 1..Len(records) : records[i] = outcomes[Len(outcomes) - Len(records) + i]

\* The telemetry shows each request once, by what came of it, among those that the tools
\* and others made meanwhile: a success for each round-trip of the call, however often it
\* was retried, and a failure only for the one that ended it; a missing key, an answer that
\* broke off, or a result that could not be written leaves none.
RequestsAreRecorded == AreNewest(telemetry, Outcomes)

\* A call is answered or raises: retries and round-trips are bounded.
EventuallyAnswered == phase # "idle" ~> phase = "idle"
=============================================================================
