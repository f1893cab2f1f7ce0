-------------------------------- MODULE LlmCall --------------------------------
(***************************************************************************)
(* One question to the model provider: retries of failed requests          *)
(* (src/src/llm/transport.rs) and the single repair of an answer that is   *)
(* not the JSON asked for (src/src/llm/protocol.rs).  A function of the    *)
(* sequence of answers the provider would give.                            *)
(***************************************************************************)
EXTENDS Integers, Sequences

\* What one request comes to: a text that holds the JSON object asked for or
\* not, an error that is_retryable_llm_error knows, or another one.
Answers == {"json", "prose", "retryable", "fatal"}

\* call_chat from request i on: the request whose outcome it returns.
CallChat(answers, maxRetries, i) ==
    LET settled(k) == answers[k] # "retryable"
        last == i + maxRetries
    IN  IF \E k \in i..last : settled(k)
          THEN CHOOSE k \in i..last : settled(k) /\ \A j \in i..(k - 1) : ~settled(j)
          ELSE last

\* call_json_with_repair: the request it ends with and what that gave.
JsonWithRepair(answers, maxRetries) ==
    LET first == CallChat(answers, maxRetries, 1)
        end   == IF answers[first] = "prose" THEN CallChat(answers, maxRetries, first + 1)
                                             ELSE first
    IN  [requests |-> end, ok |-> answers[end] = "json"]

(***************************************************************************)
(* call_chat_streaming: the text of the deltas before [DONE] or before the *)
(* end of the stream; a line that is no JSON is an error.  There is no     *)
(* retry.  "cut" is a connection that ends without [DONE] and without a    *)
(* read error.                                                             *)
(***************************************************************************)
StreamEvents == {"delta", "other", "bad", "done", "cut"}

Streamed(events) ==
    LET ends == {i \in DOMAIN events : events[i] \in {"bad", "done", "cut"}}
        end  == CHOOSE i \in ends : \A j \in ends : i <= j
    IN  [ok     |-> events[end] # "bad",
         deltas |-> {i \in 1..(end - 1) : events[i] = "delta"}]
================================================================================
