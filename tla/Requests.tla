----------------------------- MODULE Requests -----------------------------
(***************************************************************************)
(* The way of an HTTP request to a tool and back (newHTTPHandler in        *)
(* main.go): the client's address, the access log, the rate limit, the     *)
(* token, then the MCP server with the tools that are registered, the      *)
(* audit of a tool call and the guards of read-only mode. Requests are     *)
(* handled concurrently. The refill of a bucket is RateLimiter's subject;  *)
(* here it gets a token back at any time.                                  *)
(***************************************************************************)
EXTENDS Integers, Sequences, FiniteSets

CONSTANTS
  HttpCalls,       \* the HTTP requests
  TrustedProxies,  \* addresses in cfg.TrustedProxies
  RateBurst,       \* tokens of a full bucket
  AllToolNames,    \* allToolNames
  ReadOnlyTools,   \* readOnlyTools, the tools that change nothing
  Mutating         \* the tools whose operation calls guardReadOnly first

ASSUME RequestsAssumption == RateBurst \in Nat

VARIABLES
  rcfg,      \* Config: readOnly, disabled; latch: readOnlyEnabled; env: the settings
  msgs,      \* call -> what its client sent
  hreq,      \* call -> its request: pc, ip, info (requestInfo), paid, failed
  buckets,   \* address -> tokens left
  access,    \* access lines
  audits,    \* audit lines
  effects    \* <<call, tool>>: what changed the host

reqVars == <<rcfg, msgs, hreq, buckets, access, audits, effects>>

None == "none"
Bad == "bad"        \* a header value that is no address
NoMessage == [peer |-> None, xff |-> <<>>, real |-> <<>>, token |-> FALSE, method |-> None, tool |-> None]
NoInfo == [remote |-> None, tool |-> None, method |-> None]

-----------------------------------------------------------------------------
(* Configuration.                                                          *)

\* Mutant of ApplyReadOnly: the early return is inverted.
ApplyReadOnlyInverted(c, enabled) ==
  IF enabled THEN c ELSE [c EXCEPT !.readOnly = TRUE, !.disabled = @ \cup (AllToolNames \ ReadOnlyTools), !.latch = TRUE]

ApplyReadOnly(c, enabled) ==
  IF ~enabled THEN c ELSE [c EXCEPT !.readOnly = TRUE, !.disabled = @ \cup (AllToolNames \ ReadOnlyTools), !.latch = TRUE]

\* LoadConfig: the operator's blacklist, then the read-only switch.
LoadConfig(blacklist, readOnlyEnv) ==
  ApplyReadOnly([readOnly |-> FALSE, disabled |-> blacklist, latch |-> FALSE,
                 env |-> [blacklist |-> blacklist, readOnly |-> readOnlyEnv]], readOnlyEnv)

ToolEnabled(c, t) == ~(c.readOnly /\ t \notin ReadOnlyTools) /\ t \notin c.disabled

RequestsStart(messages, blacklists, readOnlyEnvs) ==
  /\ \E b \in blacklists, e \in readOnlyEnvs : rcfg = LoadConfig(b, e)
  /\ msgs \in messages
  /\ hreq = [c \in HttpCalls |-> [pc |-> IF msgs[c] = NoMessage THEN "done" ELSE "arrived", ip |-> None, info |-> NoInfo,
                              paid |-> None, failed |-> FALSE]]
  /\ buckets = <<>> /\ access = {} /\ audits = {} /\ effects = {}

-----------------------------------------------------------------------------
(* resolveClientIP.                                                        *)

\* The first hop, from the server's end, that is no trusted proxy.
LastUntrusted(chain) ==
  LET past == {i \in 1..Len(chain) : \A j \in i..Len(chain) : j > i => chain[j] \in TrustedProxies}
  IN  chain[CHOOSE i \in past : \A j \in past : i <= j]

\* An X-Forwarded-For with anything that is no address is not used, and not
\* replaced by X-Real-IP either.
ResolveClientIP(peer, xff, real) ==
  CASE peer \notin TrustedProxies -> peer
    [] peer \in TrustedProxies /\ xff # <<>> ->
         IF \E i \in 1..Len(xff) : xff[i] = Bad THEN peer ELSE LastUntrusted(xff)
    [] OTHER -> IF Len(real) = 1 /\ real # <<Bad>> THEN real[1] ELSE peer

ClientIPMiddleware(c) ==
  /\ hreq[c].pc = "arrived"
  /\ hreq' = [hreq EXCEPT ![c].pc = "log", ![c].ip = ResolveClientIP(msgs[c].peer, msgs[c].xff, msgs[c].real)]
  /\ UNCHANGED <<rcfg, msgs, buckets, access, audits, effects>>

-----------------------------------------------------------------------------
(* The other middlewares, in their order.                                  *)

\* LoggingMiddleware gives the request its id, here the call itself.
LoggingMiddleware(c) ==
  /\ hreq[c].pc = "log"
  /\ hreq' = [hreq EXCEPT ![c].pc = "limit", ![c].info.remote = hreq[c].ip]
  /\ UNCHANGED <<rcfg, msgs, buckets, access, audits, effects>>

\* isMCPStream: a request that costs no token.
IsMCPStream(m) == m.method = "stream"

Tokens(ip) == IF ip \in DOMAIN buckets THEN buckets[ip] ELSE RateBurst

RateLimitMiddleware(c) ==
  LET ip == hreq[c].ip
      set(n) == [a \in DOMAIN buckets \cup {ip} |-> IF a = ip THEN n ELSE buckets[a]]
  IN  /\ hreq[c].pc = "limit"
      /\ \/ /\ IsMCPStream(msgs[c])
            /\ hreq' = [hreq EXCEPT ![c].pc = "auth"] /\ UNCHANGED buckets
         \/ /\ ~IsMCPStream(msgs[c]) /\ Tokens(ip) >= 1
            /\ hreq' = [hreq EXCEPT ![c].pc = "auth", ![c].paid = ip]
            /\ buckets' = set(Tokens(ip) - 1)
         \/ /\ ~IsMCPStream(msgs[c]) /\ Tokens(ip) < 1
            /\ hreq' = [hreq EXCEPT ![c].pc = "answered"]
            /\ buckets' = set(Tokens(ip))
      /\ UNCHANGED <<rcfg, msgs, access, audits, effects>>

\* Time passes for one bucket.
Regain(ip) ==
  /\ ip \in DOMAIN buckets /\ buckets[ip] < RateBurst
  /\ buckets' = [buckets EXCEPT ![ip] = @ + 1]
  /\ UNCHANGED <<rcfg, msgs, hreq, access, audits, effects>>

AuthMiddleware(c) ==
  /\ hreq[c].pc = "auth"
  /\ hreq' = [hreq EXCEPT ![c].pc = IF msgs[c].token THEN "mcp" ELSE "answered"]
  /\ UNCHANGED <<rcfg, msgs, buckets, access, audits, effects>>

-----------------------------------------------------------------------------
(* The MCP server.                                                         *)

\* The method is noted; a tool that is not registered is unknown.
Dispatch(c) ==
  LET m == msgs[c]
      runs == m.method = "call" /\ ToolEnabled(rcfg, m.tool)
  IN  /\ hreq[c].pc = "mcp"
      /\ hreq' = [hreq EXCEPT ![c].pc = IF runs THEN "tool" ELSE "answered",
                              ![c].info.method = m.method,
                              ![c].info.tool = IF runs THEN m.tool ELSE None]
      /\ UNCHANGED <<rcfg, msgs, buckets, access, audits, effects>>

\* guardReadOnly.
GuardRefuses(t) == t \in Mutating /\ rcfg.latch

\* The handler of the tool: it is refused by the guard, fails or succeeds.
RunTool(c) ==
  LET t == msgs[c].tool
  IN  /\ hreq[c].pc = "tool"
      /\ \/ /\ hreq' = [hreq EXCEPT ![c].pc = "audit", ![c].failed = TRUE]
            /\ UNCHANGED effects
         \/ /\ ~GuardRefuses(t)
            /\ hreq' = [hreq EXCEPT ![c].pc = "audit"]
            /\ effects' = IF t \in Mutating THEN effects \cup {<<c, t>>} ELSE effects
      /\ UNCHANGED <<rcfg, msgs, buckets, access, audits>>

\* Mutant of SourceIP: the connection's peer.
SourceIPPeer(c) == msgs[c].peer

\* sourceIPFrom, from mcpHTTPContext.
SourceIP(c) == hreq[c].ip

\* The end of withAudit.
WithAudit(c) ==
  /\ hreq[c].pc = "audit"
  /\ audits' = audits \cup {[id |-> c, remote |-> SourceIP(c), tool |-> msgs[c].tool, ok |-> ~hreq[c].failed]}
  /\ hreq' = [hreq EXCEPT ![c].pc = "answered"]
  /\ UNCHANGED <<rcfg, msgs, buckets, access, effects>>

\* The end of LoggingMiddleware.
AccessLine(c) ==
  /\ hreq[c].pc = "answered"
  /\ access' = access \cup {[id |-> c, remote |-> hreq[c].info.remote, tool |-> hreq[c].info.tool, method |-> hreq[c].info.method]}
  /\ hreq' = [hreq EXCEPT ![c].pc = "done"]
  /\ UNCHANGED <<rcfg, msgs, buckets, audits, effects>>

RequestsNext ==
  \/ \E c \in HttpCalls : \/ ClientIPMiddleware(c) \/ LoggingMiddleware(c) \/ RateLimitMiddleware(c) \/ AuthMiddleware(c)
                      \/ Dispatch(c) \/ RunTool(c) \/ WithAudit(c) \/ AccessLine(c)
  \/ \E ip \in DOMAIN buckets : Regain(ip)

\* A request from one of addrs, with any headers.
Message(addrs) ==
  [peer : addrs, xff : Seq(addrs \cup {Bad}), real : Seq(addrs \cup {Bad}), token : BOOLEAN,
   method : {"call", "list", "stream"}, tool : AllToolNames]

\* The service under any settings and any requests from addrs.
RequestsSpec(addrs) ==
  /\ RequestsStart([HttpCalls -> Message(addrs) \cup {NoMessage}], SUBSET AllToolNames, BOOLEAN)
  /\ [][RequestsNext]_reqVars

-----------------------------------------------------------------------------
(* What holds.                                                             *)

\* Whatever changed the host was asked for with the token, by an address that
\* paid for it and whose tokens were not below zero, and once its request is
\* over it has an audit line and an access line that name this request, tool
\* and address (newHTTPHandler, withAudit, LoggingMiddleware).
EffectsAreAccountedFor ==
  /\ \A ip \in DOMAIN buckets : buckets[ip] >= 0
  /\ \A e \in effects :
       /\ msgs[e[1]].token /\ hreq[e[1]].paid # None
       /\ hreq[e[1]].pc = "done" =>
            /\ \E l \in audits : l.id = e[1] /\ l.tool = e[2] /\ l.remote = hreq[e[1]].paid /\ l.ok
            /\ \E l \in access : l.id = e[1] /\ l.tool = e[2] /\ l.remote = hreq[e[1]].paid
  /\ \A l \in audits : l.ok /\ l.tool \in Mutating => <<l.id, l.tool>> \in effects

\* A server that was started read-only changes nothing and runs only tools of
\* its allowlist, whatever is on the operator's blacklist, and no tool on the
\* blacklist is ever run (applyReadOnly, toolEnabled, guardReadOnly).
ReadOnlyHolds ==
  /\ rcfg.env.readOnly => effects = {} /\ \A l \in audits : l.tool \in ReadOnlyTools
  /\ \A l \in audits : l.tool \notin rcfg.env.blacklist

\* No header of a client that does not come through a trusted proxy counts, and
\* what is put in front of the hop a trusted proxy has seen changes nothing,
\* as long as it is an address (resolveClientIP).
ForgedHopsAreIgnored ==
  \A c \in HttpCalls : hreq[c].ip # None =>
    LET m == msgs[c]
        real == {i \in 1..Len(m.xff) : m.xff[i] \notin TrustedProxies}
    IN  /\ m.peer \notin TrustedProxies => hreq[c].ip = m.peer
        /\ real # {} /\ Bad \notin {m.xff[i] : i \in 1..Len(m.xff)} =>
             \A n \in 1..Len(m.xff) : (\E i \in real : i >= n) =>
               hreq[c].ip = ResolveClientIP(m.peer, SubSeq(m.xff, n, Len(m.xff)), m.real)

\* Effects are authorised, charged and logged under an address the client could
\* not choose (newHTTPHandler, withAudit, resolveClientIP).
RequestsAreAccountedFor == EffectsAreAccountedFor /\ ForgedHopsAreIgnored

\* Why it holds. What a request has passed is written in its pc, and the address
\* it was given first is the one it pays, is logged and is audited under.
Stage(c) ==
  LET r == hreq[c]
      m == msgs[c]
  IN  /\ r.pc # "done" => m # NoMessage
      /\ r.ip # None => m # NoMessage /\ r.ip = ResolveClientIP(m.peer, m.xff, m.real)
      /\ r.pc \notin {"arrived", "done"} => r.ip # None
      /\ r.pc \notin {"arrived", "log", "done"} => r.info.remote = r.ip
      /\ r.pc \in {"auth", "mcp", "tool", "audit"} /\ m.method # "stream" => r.paid = r.ip
      /\ r.pc \in {"mcp", "tool", "audit"} => m.token
      /\ r.pc \in {"tool", "audit"} =>
           m.method = "call" /\ r.info.tool = m.tool /\ ToolEnabled(rcfg, m.tool)
      /\ r.failed => r.pc \in {"audit", "answered", "done"}
      /\ r.pc = "audit" /\ ~r.failed /\ m.tool \in Mutating => <<c, m.tool>> \in effects

\* What is known of a request that changed the host.
Effected(c) ==
  LET r == hreq[c]
      t == msgs[c].tool
  IN  /\ t \in Mutating /\ ~rcfg.latch /\ msgs[c].token /\ ~r.failed
      /\ r.paid # None /\ r.paid = r.ip /\ r.info.remote = r.ip /\ r.info.tool = t
      /\ r.pc \in {"audit", "answered", "done"}
      /\ r.pc # "audit" => \E l \in audits : l.id = c /\ l.tool = t /\ l.remote = r.paid /\ l.ok
      /\ r.pc = "done" => \E l \in access : l.id = c /\ l.tool = t /\ l.remote = r.paid

\* ... and of an audit line.
AuditLine(l) ==
  /\ l.id \in HttpCalls /\ l.tool = msgs[l.id].tool /\ l.ok = ~hreq[l.id].failed
  /\ hreq[l.id].pc \in {"answered", "done"}
  /\ ToolEnabled(rcfg, l.tool)
  /\ l.ok /\ l.tool \in Mutating => <<l.id, l.tool>> \in effects

HttpRequest(addrs) ==
  [pc : {"arrived", "log", "limit", "auth", "mcp", "tool", "audit", "answered", "done"},
   ip : addrs \cup {None},
   info : [remote : addrs \cup {None}, tool : AllToolNames \cup {None},
           method : {"call", "list", "stream", None}],
   paid : addrs \cup {None}, failed : BOOLEAN]

ReqTypeOK(addrs) ==
  /\ msgs \in [HttpCalls -> Message(addrs) \cup {NoMessage}]
  /\ hreq \in [HttpCalls -> HttpRequest(addrs)]
  /\ buckets \in [DOMAIN buckets -> Nat]
  /\ effects \subseteq HttpCalls \X AllToolNames
  /\ \E b \in SUBSET AllToolNames, e \in BOOLEAN : rcfg = LoadConfig(b, e)

ReqInv(addrs) ==
  /\ ReqTypeOK(addrs)
  /\ \A c \in HttpCalls : Stage(c)
  /\ \A e \in effects : e[2] = msgs[e[1]].tool /\ Effected(e[1])
  /\ \A l \in audits : AuditLine(l)
=============================================================================
