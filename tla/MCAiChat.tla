----------------------------- MODULE MCAiChat ------------------------------
(***************************************************************************)
(* A client that asks a few times; responses of up to three parts.         *)
(***************************************************************************)
EXTENDS AiChat, TLC

CONSTANTS search, drop    \* an allowed tool, and one that is not

\* The ids by their position in a response.
MCId == {<<"given", i>> : i \in 1..3}

\* Ollama and Google give no ids, OpenAI-compatible backends may or may not.
Named(provider) ==
    CASE provider = "anthropic" -> {TRUE}
      [] provider = "openai_compatible" -> BOOLEAN
      [] OTHER -> {FALSE}

MCPart(i, tool, named) ==
    [type |-> "tool_use", name |-> tool, id |-> IF named THEN <<"given", i>> ELSE Nothing]

MCResponse ==
    [provider \in Provider |->
       {<<Text>>}
       \cup {<<MCPart(1, t, d)>> : t \in {search, drop}, d \in Named(provider)}
       \cup {<<MCPart(1, search, d), MCPart(2, drop, d)>> : d \in Named(provider)}
       \cup {<<MCPart(1, drop, d), Text, MCPart(3, search, d)>> : d \in Named(provider)}
       \cup (IF provider \in {"anthropic", "ollama"} THEN {<<>>} ELSE {})]

MCSetting == {"auto", "google", "openai_compatible"}
=============================================================================
