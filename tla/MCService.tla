----------------------------- MODULE MCService -----------------------------
(* The service around the tools, one part to a behaviour: requests on their    *)
(* way to a tool, calls of one session, or the capture of a command's output.  *)
EXTENDS Requests, Sessions, Output

VARIABLE part  \* which part a behaviour is about

vars == <<reqVars, sessVars, outVars, part>>

UpTo(S, n) == UNION {[1..k -> S] : k \in 0..n}

\* One request with any headers, or two with any token, method and tool.
Messages(peers, xffs, reals, tokens, methods, tools) ==
  [peer : peers, xff : xffs, real : reals, token : tokens, method : methods, tool : tools]
AnyHeaders == Messages({"p", "a"}, UpTo({"p", "a", "b", Bad}, 3), UpTo({"a", Bad}, 2), {TRUE}, {"call"}, {"write"})
AnyCalls ==
  Messages({"p"}, {<<"a">>, <<"b", "p">>}, {<<>>}, BOOLEAN, {"call", "list", "stream"}, {"write"})
  \cup Messages({"p"}, {<<"a">>}, {<<>>}, BOOLEAN, {"call"}, {"read"})
RequestsInit ==
  \/ \E m \in AnyHeaders, r \in HttpCalls :
       RequestsStart({[c \in HttpCalls |-> IF c = r THEN m ELSE NoMessage]}, {{}}, {FALSE})
  \/ RequestsStart([HttpCalls -> AnyCalls], SUBSET AllToolNames, BOOLEAN)
NoRequests == RequestsStart({[c \in HttpCalls |-> NoMessage]}, {{}}, {FALSE})

NoSession ==
  /\ time = 0 /\ inMap = FALSE /\ expiresAt = 0 /\ cwd = <<>>
  /\ ex = [c \in Calls |-> "idle"] /\ dir = [c \in Calls |-> <<>>]
  /\ sweep = "idle" /\ sweepNow = 0
  /\ use = [last |-> 0, lapsed |-> TRUE, closed |-> TRUE, before |-> [c \in Calls |-> {}], stored |-> {}]

Chars == {<<"head">>, <<"head", "more">>, <<"head", "more", "more">>, <<"head", "more", "more", "more">>}
Streams == {s \in {a \o b \o c \o d : a, b, c, d \in Chars \cup {<<>>}} : Len(s) \in 8..10}
OutputInit == OutputStarts([stream : Streams, max : 0..4, tail : BOOLEAN, decode : BOOLEAN])
NoOutput == OutputStarts({[stream |-> <<>>, max |-> 0, tail |-> FALSE, decode |-> FALSE]})

Init ==
  /\ part \in {"requests", "session", "output"}
  /\ IF part = "requests" THEN RequestsInit ELSE NoRequests
  /\ IF part = "session" THEN Create ELSE NoSession
  /\ IF part = "output" THEN OutputInit ELSE NoOutput

Next ==
  /\ UNCHANGED part
  /\ \/ part = "requests" /\ RequestsNext
     \/ part = "session" /\ SessNext
     \/ part = "output" /\ OutputNext
  /\ part # "requests" => UNCHANGED reqVars
  /\ part # "session" => UNCHANGED sessVars
  /\ part # "output" => UNCHANGED outVars

\* The cleanup loop of a running server has its ticker.
Spec == Init /\ [][Next]_vars /\ WF_vars(part = "session" /\ Cleanup /\ UNCHANGED <<part, reqVars, outVars>>)

=============================================================================
