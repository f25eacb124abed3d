------------------------- MODULE MCAssistantMessage -------------------------
(* Messages with up to two tool calls, short texts and names.              *)
EXTENDS AssistantMessage

MCKeyOrder == <<"arguments", "content", "function", "id", "name", "role", "tool_calls", "type">>
MCSpecial == {"n"}
MCContents == {<<>>, <<"<", "n">>}
MCNames == {<<"g">>, <<"g", "h">>}
MCArguments == {<<>>, <<"a", "b">>}
MCIds == <<<<"x">>, <<"y">>>>
=============================================================================
