--------------------------- MODULE MCAgentAttempt ---------------------------
(* AgentAttempt with one contract of each format and answers that meet or  *)
(* break each of them in every way validate() tells apart.                 *)
EXTENDS AgentAttempt, TLC

TextMarkdownAndJson ==
    {[format |-> "text", schema |-> <<>>],
     [format |-> "markdown", schema |-> <<>>],
     [format |-> "json", schema |-> ("n" :> "number")]}

Plain(kind, fields) == [kind |-> kind, fields |-> fields, text |-> TRUE, parsed |-> Unset]
Number == "n" :> "integer"
GoodAndBad ==
    {Plain(k, <<>>) : k \in {"blank", "prose", "array"}}
    \cup {Plain("object", f) : f \in {<<>>, Number, "n" :> "boolean"}}
    \cup {[Plain("object", Number) EXCEPT !.text = FALSE]}
    \cup {[Plain("prose", <<>>) EXCEPT !.parsed = [kind |-> "object", fields |-> Number]],
          [Plain("object", Number) EXCEPT !.parsed = [kind |-> "array", fields |-> <<>>]]}
=============================================================================
