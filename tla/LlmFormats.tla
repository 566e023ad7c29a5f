----------------------------- MODULE LlmFormats -----------------------------
(***************************************************************************)
(* A chat's history is kept in Anthropic's shape: messages whose content   *)
(* is a sequence of text, tool_use and tool_result blocks.  Each provider  *)
(* is sent a translation of it, and its response is translated back.       *)
(*                                                                         *)
(* Of what is sent, the model keeps for each message of the history the    *)
(* order of texts, calls and results, and the key by which the format      *)
(* pairs a result with its call: the id for Anthropic and OpenAI, the      *)
(* function's name for Google, for Ollama nothing but the position.        *)
(***************************************************************************)
EXTENDS Integers, Sequences, FiniteSets

CONSTANT Nothing    \* no id, no name

Provider == {"ollama", "anthropic", "openai_compatible", "google"}

Text == [type |-> "text", id |-> Nothing, name |-> Nothing]
IsText(b) == b.type = "text"
IsCall(b) == b.type = "tool_use"
IsResult(b) == b.type = "tool_result"

Message(role, content) == [role |-> role, content |-> content]

\* The members of s that have the type, in their order.
Positions(s, type) == {i \in DOMAIN s : s[i].type = type}
Nth(at, k) == CHOOSE i \in at : Cardinality({j \in at : j <= i}) = k
OfType(s, type) ==
    LET at == Positions(s, type) IN [k \in 1..Cardinality(at) |-> s[Nth(at, k)]]

-----------------------------------------------------------------------------
(* What is sent.                                                           *)

Item(b, key) == [type |-> b.type, key |-> key]

\* Sent as it is.
ToAnthropic(content) == [i \in DOMAIN content |-> Item(content[i], content[i].id)]

\* Of one message: its results, each a message of its own, then its text, then
\* its calls.
ResultsFirst(content) ==
    OfType(content, "tool_result") \o OfType(content, "text") \o OfType(content, "tool_use")

ToOpenai(content) ==
    LET s == ResultsFirst(content) IN [i \in DOMAIN s |-> Item(s[i], s[i].id)]

ToOllama(content) ==
    LET s == ResultsFirst(content) IN [i \in DOMAIN s |-> Item(s[i], Nothing)]

\* The name of the last call in the history that has the id.
NameByUseId(messages, id) ==
    LET places == UNION {{<<m, i>> : i \in DOMAIN messages[m].content} : m \in DOMAIN messages}
        block(p) == messages[p[1]].content[p[2]]
        uses == {p \in places : IsCall(block(p)) /\ block(p).id = id}
        last == CHOOSE p \in uses :
                    \A q \in uses : q[1] < p[1] \/ (q[1] = p[1] /\ q[2] <= p[2])
    IN IF uses = {} THEN Nothing ELSE block(last).name

\* A response names its function: the name stashed on the result, or else the
\* name found by the id.
ToGoogle(messages, content) ==
    LET key(b) == IF IsResult(b) /\ b.name = Nothing
                  THEN NameByUseId(messages, b.id) ELSE b.name
    IN [i \in DOMAIN content |-> Item(content[i], key(content[i]))]

Translated(provider, messages, content) ==
    CASE provider = "ollama" -> ToOllama(content)
      [] provider = "anthropic" -> ToAnthropic(content)
      [] provider = "openai_compatible" -> ToOpenai(content)
      [] provider = "google" -> ToGoogle(messages, content)

Sent(provider, messages) ==
    [i \in DOMAIN messages |-> Translated(provider, messages, messages[i].content)]

-----------------------------------------------------------------------------
(* What comes back: a sequence of parts, texts and calls; a call may lack  *)
(* an id, and is then given one from its position.                         *)

Call(provider, part, position) ==
    [type |-> "tool_use", name |-> part.name,
     id |-> IF part.id = Nothing THEN <<provider, position>> ELSE part.id]

\* Google's parts stay in their order.
FromGoogle(parts) ==
    [i \in DOMAIN parts |-> IF IsText(parts[i]) THEN Text ELSE Call("google", parts[i], i)]

\* A message of the other two has its text and a list of calls.
TextThenCalls(provider, parts) ==
    LET calls == OfType(parts, "tool_use")
        text == IF \E i \in DOMAIN parts : IsText(parts[i]) THEN <<Text>> ELSE <<>>
    IN text \o [i \in DOMAIN calls |-> Call(provider, calls[i], i)]

FromOpenai(parts) == TextThenCalls("openai_compatible", parts)
FromOllama(parts) == TextThenCalls("ollama", parts)

\* "Keep the envelope well-formed": no content at all is an empty text, except
\* for Anthropic, whose content is taken as it is.
WellFormed(content) == IF content = <<>> THEN <<Text>> ELSE content

Received(provider, parts) ==
    CASE provider = "anthropic" -> parts
      [] provider = "google" -> WellFormed(FromGoogle(parts))
      [] provider = "openai_compatible" -> WellFormed(FromOpenai(parts))
      [] provider = "ollama" -> WellFormed(FromOllama(parts))

=============================================================================
