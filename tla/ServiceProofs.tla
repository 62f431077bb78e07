---------------------------- MODULE ServiceProofs ----------------------------
(***************************************************************************)
(* What a request to run a command goes through: the request pipeline, the *)
(* sessions, the run itself and the capture of its output, for any number  *)
(* of requests, calls and characters, any exit codes and any limits.  The  *)
(* four share no variable; each part proves its own inductive invariant    *)
(* and the properties it gives.                                            *)
(***************************************************************************)
EXTENDS Requests, Sessions, CommandRun, Output, Counting, SequenceTheorems

(* Requests: who a request is, what it is charged to, what its lines say. *)

\* LastUntrusted is the hop after which all are trusted proxies, the first of these.
LEMMA LastUntrustedIs ==
  ASSUME NEW S, NEW chain \in Seq(S), chain # <<>>
  PROVE  \E m \in 1..Len(chain) :
           /\ LastUntrusted(chain) = chain[m]
           /\ \A j \in (m + 1)..Len(chain) : chain[j] \in TrustedProxies
           /\ \A i \in 1..Len(chain) :
                (\A j \in (i + 1)..Len(chain) : chain[j] \in TrustedProxies) => m <= i
<1> DEFINE past == {i \in 1..Len(chain) : \A j \in i..Len(chain) : j > i => chain[j] \in TrustedProxies}
<1>1. Len(chain) \in Nat /\ Len(chain) > 0
  BY EmptySeq
<1>2. past \in SUBSET Nat /\ Len(chain) \in past
  BY <1>1
<1>3. PICK m \in past : \A j \in past : m <= j
  <2> HIDE DEF past
  <2> QED
    BY <1>2, LeastNat
<1>4. m = CHOOSE i \in past : \A j \in past : i <= j
  <2>1. \A i \in past : (\A j \in past : i <= j) => i = m
    BY <1>1, <1>3
  <2> HIDE DEF past
  <2> QED
    BY <1>3, <2>1
<1>5. LastUntrusted(chain) = chain[m]
  BY <1>4 DEF LastUntrusted
<1>6. \A i \in 1..Len(chain) :
        (\A j \in (i + 1)..Len(chain) : chain[j] \in TrustedProxies) => i \in past
  BY <1>1
<1>7. \A j \in (m + 1)..Len(chain) : chain[j] \in TrustedProxies
  BY <1>1, <1>3
<1> QED
  BY <1>3, <1>5, <1>6, <1>7

\* Hops in front of one that a trusted proxy has seen change nothing.
LEMMA PrefixIgnored ==
  ASSUME NEW S, NEW chain \in Seq(S), NEW n \in 1..Len(chain),
         NEW i \in 1..Len(chain), i >= n, chain[i] \notin TrustedProxies
  PROVE  LastUntrusted(SubSeq(chain, n, Len(chain))) = LastUntrusted(chain)
<1> DEFINE sub == SubSeq(chain, n, Len(chain))
           len == Len(chain)
<1>1. len \in Nat /\ chain # <<>>
  BY EmptySeq
<1>2. /\ sub \in Seq(S) /\ Len(sub) = len - n + 1 /\ sub # <<>>
      /\ \A k \in 1..(len - n + 1) : sub[k] = chain[n + k - 1]
  <2>1. \A k \in n..len : chain[k] \in S
    BY <1>1
  <2>2. n <= len /\ n \in Int /\ len \in Int
    BY <1>1
  <2>3. /\ sub \in Seq(S) /\ Len(sub) = len - n + 1
        /\ \A k \in 1..(len - n + 1) : sub[k] = chain[n + k - 1]
    BY <2>1, <2>2, SubSeqProperties
  <2> HIDE DEF sub, len
  <2>4. Len(sub) # 0
    BY <2>2, <2>3
  <2> QED
    BY <2>3, <2>4, EmptySeq
<1> HIDE DEF sub
<1>3. PICK m \in 1..len :
        /\ LastUntrusted(chain) = chain[m]
        /\ \A j \in (m + 1)..len : chain[j] \in TrustedProxies
        /\ \A k \in 1..len : (\A j \in (k + 1)..len : chain[j] \in TrustedProxies) => m <= k
  BY <1>1, LastUntrustedIs
<1>4. PICK p \in 1..Len(sub) :
        /\ LastUntrusted(sub) = sub[p]
        /\ \A j \in (p + 1)..Len(sub) : sub[j] \in TrustedProxies
        /\ \A k \in 1..Len(sub) :
             (\A j \in (k + 1)..Len(sub) : sub[j] \in TrustedProxies) => p <= k
  BY <1>2, LastUntrustedIs
<1>5. m >= i
  BY <1>1, <1>3
<1>6. m - n + 1 \in 1..Len(sub)
  BY <1>1, <1>2, <1>5
<1>7. \A j \in (m - n + 2)..Len(sub) : sub[j] \in TrustedProxies
  <2> SUFFICES ASSUME NEW j \in (m - n + 2)..Len(sub) PROVE sub[j] \in TrustedProxies
    OBVIOUS
  <2>1. j \in 1..(len - n + 1) /\ n + j - 1 \in (m + 1)..len
    BY <1>1, <1>2, <1>6
  <2> QED
    BY <1>2, <1>3, <2>1
<1>8. p <= m - n + 1
  <2>1. (m - n + 1) + 1 = m - n + 2
    BY <1>1
  <2> QED
    BY <1>4, <1>6, <1>7, <2>1
<1>9. m <= n + p - 1
  <2>1. n + p - 1 \in 1..len
    BY <1>1, <1>2
  <2>2. ASSUME NEW j \in (n + p)..len PROVE chain[j] \in TrustedProxies
    <3>1. /\ j - n + 1 \in (p + 1)..Len(sub) /\ j - n + 1 \in 1..(len - n + 1)
          /\ n + (j - n + 1) - 1 = j
      BY <1>1, <1>2
    <3> QED
      BY <1>2, <1>4, <3>1
  <2>3. n + p - 1 + 1 = n + p
    BY <1>1, <1>2
  <2> QED
    BY <1>3, <2>1, <2>2, <2>3
<1>10. p = m - n + 1 /\ n + p - 1 = m /\ p \in 1..(len - n + 1)
  BY <1>1, <1>2, <1>8, <1>9
<1>11. sub[p] = chain[m]
  BY <1>2, <1>10
<1> QED
  BY <1>3, <1>4, <1>11 DEF sub

\* The address a request is given is one that was sent, never a bad one.
LEMMA ResolvesToAddress ==
  ASSUME NEW addrs, NEW m \in Message(addrs)
  PROVE  ResolveClientIP(m.peer, m.xff, m.real) \in addrs
<1>1. /\ m.peer \in addrs /\ m.xff \in Seq(addrs \cup {Bad}) /\ m.real \in Seq(addrs \cup {Bad})
  BY DEF Message
<1>2. CASE m.peer \notin TrustedProxies
  BY <1>1, <1>2 DEF ResolveClientIP
<1>3. CASE m.peer \in TrustedProxies /\ m.xff # <<>>
  <2>1. PICK k \in 1..Len(m.xff) : LastUntrusted(m.xff) = m.xff[k]
    BY <1>1, <1>3, LastUntrustedIs
  <2>2. m.xff[k] \in addrs \cup {Bad}
    BY <1>1
  <2> QED
    BY <1>1, <1>3, <2>1, <2>2 DEF ResolveClientIP
<1>4. CASE m.peer \in TrustedProxies /\ m.xff = <<>>
  <2>1. CASE Len(m.real) = 1 /\ m.real # <<Bad>>
    <3>1. m.real[1] \in addrs \cup {Bad} /\ m.real[1] # Bad
      BY <1>1, <2>1
    <3> QED
      BY <1>4, <2>1, <3>1 DEF ResolveClientIP
  <2> QED
    BY <1>1, <1>4, <2>1 DEF ResolveClientIP
<1> QED
  BY <1>2, <1>3, <1>4

\* A step of one request leaves the others where they are.
LEMMA OneMoves ==
  ASSUME NEW addrs, ReqInv(addrs), NEW x \in HttpCalls,
         UNCHANGED <<rcfg, msgs>>,
         hreq' \in [HttpCalls -> HttpRequest(addrs)],
         \A c \in HttpCalls \ {x} : hreq'[c] = hreq[c],
         buckets' \in [DOMAIN buckets' -> Nat],
         access \subseteq access', audits \subseteq audits', effects \subseteq effects',
         effects' \subseteq HttpCalls \X AllToolNames,
         Stage(x)',
         \A e \in effects' : \/ e \in effects /\ e[1] # x
                             \/ e[1] = x /\ e[2] = msgs[x].tool /\ Effected(x)',
         \A l \in audits' : (l \in audits /\ l.id # x) \/ AuditLine(l)'
  PROVE  ReqInv(addrs)'
<1>1. ReqTypeOK(addrs)'
  BY DEF ReqInv, ReqTypeOK
<1>2. ASSUME NEW c \in HttpCalls PROVE Stage(c)'
  <2>1. CASE c # x
    BY <2>1 DEF ReqInv, Stage
  <2> QED
    BY <2>1
<1>3. ASSUME NEW e \in effects' PROVE e[2] = msgs'[e[1]].tool /\ Effected(e[1])'
  <2>1. CASE e \in effects /\ e[1] # x
    <3>1. e[1] \in HttpCalls /\ e[2] = msgs[e[1]].tool /\ Effected(e[1])
      BY <2>1 DEF ReqInv, ReqTypeOK
    <3>2. hreq'[e[1]] = hreq[e[1]]
      BY <2>1, <3>1
    <3>3. Effected(e[1])'
      BY <3>1, <3>2 DEF Effected
    <3> QED
      BY <3>1, <3>3
  <2> QED
    BY <2>1
<1>4. ASSUME NEW l \in audits' PROVE AuditLine(l)'
  <2>1. CASE l \in audits /\ l.id # x
    <3>1. AuditLine(l) /\ hreq'[l.id] = hreq[l.id]
      BY <2>1 DEF ReqInv, AuditLine
    <3> QED
      BY <3>1 DEF AuditLine
  <2> QED
    BY <2>1
<1> QED
  BY <1>1, <1>2, <1>3, <1>4 DEF ReqInv

\* Before its tool has run, a request has no effect and no audit line.
LEMMA NothingYet ==
  ASSUME NEW addrs, ReqInv(addrs), NEW x \in HttpCalls,
         hreq[x].pc \in {"arrived", "log", "limit", "auth", "mcp", "tool"}
  PROVE  (\A e \in effects : e[1] # x) /\ (\A l \in audits : l.id # x)
  BY DEF ReqInv, Effected, AuditLine

\* A stage before the tool: only the request and the buckets move.
LEMMA EarlyStage ==
  ASSUME NEW addrs, ReqInv(addrs), NEW x \in HttpCalls,
         hreq[x].pc \in {"arrived", "log", "limit", "auth", "mcp"},
         hreq' = [hreq EXCEPT ![x] = hreq'[x]], hreq'[x] \in HttpRequest(addrs),
         buckets' \in [DOMAIN buckets' -> Nat],
         UNCHANGED <<rcfg, msgs, access, audits, effects>>,
         Stage(x)'
  PROVE  ReqInv(addrs)'
<1>1. /\ hreq' \in [HttpCalls -> HttpRequest(addrs)]
      /\ \A c \in HttpCalls \ {x} : hreq'[c] = hreq[c]
      /\ effects' \subseteq HttpCalls \X AllToolNames
  BY DEF ReqInv, ReqTypeOK
<1> QED
  BY <1>1, NothingYet, OneMoves

\* What is known of a request that is not over.
LEMMA Underway ==
  ASSUME NEW addrs, ReqInv(addrs), NEW x \in HttpCalls, hreq[x].pc # "done"
  PROVE  /\ msgs[x] \in Message(addrs) /\ msgs[x] # NoMessage
         /\ hreq[x] \in HttpRequest(addrs) /\ Stage(x)
         /\ buckets \in [DOMAIN buckets -> Nat]
BY DEF ReqInv, ReqTypeOK, Stage

\* ClientIPMiddleware gives the request its address.
LEMMA ClientIPPreserves ==
  ASSUME NEW addrs, None \notin addrs, ReqInv(addrs), NEW x \in HttpCalls, ClientIPMiddleware(x)
  PROVE  ReqInv(addrs)'
<1> DEFINE ip == ResolveClientIP(msgs[x].peer, msgs[x].xff, msgs[x].real)
<1>1. hreq[x].pc = "arrived"
  BY DEF ClientIPMiddleware
<1>2. msgs[x] \in Message(addrs) /\ msgs[x] # NoMessage /\ hreq[x] \in HttpRequest(addrs) /\ Stage(x)
  BY <1>1, Underway
<1>3. ip \in addrs /\ ip # None
  BY <1>2, ResolvesToAddress
<1> HIDE DEF ip
<1>4. hreq' = [hreq EXCEPT ![x].pc = "log", ![x].ip = ip]
  BY DEF ClientIPMiddleware, ip
<1>5. hreq'[x] = [hreq[x] EXCEPT !.pc = "log", !.ip = ip] /\ hreq' = [hreq EXCEPT ![x] = hreq'[x]]
  BY <1>4 DEF ReqInv, ReqTypeOK
<1>6. hreq'[x] \in HttpRequest(addrs) /\ hreq'[x].pc = "log" /\ hreq'[x].ip = ip
      /\ ~hreq'[x].failed
  BY <1>1, <1>2, <1>3, <1>5 DEF HttpRequest, Stage
<1>7. UNCHANGED <<rcfg, msgs, buckets, access, audits, effects>>
  BY DEF ClientIPMiddleware
<1>8. Stage(x)'
  BY <1>2, <1>3, <1>6, <1>7 DEF Stage, ip
<1> QED
  BY <1>1, <1>5, <1>6, <1>7, <1>8, EarlyStage, Underway

\* LoggingMiddleware notes it.
LEMMA LoggingPreserves ==
  ASSUME NEW addrs, ReqInv(addrs), NEW x \in HttpCalls, LoggingMiddleware(x)
  PROVE  ReqInv(addrs)'
<1>1. hreq[x].pc = "log"
  BY DEF LoggingMiddleware
<1>2. msgs[x] # NoMessage /\ hreq[x] \in HttpRequest(addrs) /\ Stage(x)
  BY <1>1, Underway
<1> DEFINE info == [hreq[x].info EXCEPT !.remote = hreq[x].ip]
<1>3. /\ hreq'[x] = [hreq[x] EXCEPT !.pc = "limit", !.info = info]
      /\ hreq' = [hreq EXCEPT ![x] = hreq'[x]]
  BY DEF LoggingMiddleware, ReqInv, ReqTypeOK
<1>4. /\ info \in [remote : addrs \cup {None}, tool : AllToolNames \cup {None},
                   method : {"call", "list", "stream", None}]
      /\ info.remote = hreq[x].ip
  BY <1>2 DEF HttpRequest
<1> HIDE DEF info
<1>5. /\ hreq'[x] \in HttpRequest(addrs) /\ hreq'[x].pc = "limit" /\ hreq'[x].ip = hreq[x].ip
      /\ hreq'[x].info.remote = hreq[x].ip /\ hreq'[x].failed = hreq[x].failed
  BY <1>2, <1>3, <1>4 DEF HttpRequest
<1>6. UNCHANGED <<rcfg, msgs, buckets, access, audits, effects>>
  BY DEF LoggingMiddleware
<1>7. Stage(x)'
  BY <1>1, <1>2, <1>5, <1>6 DEF Stage
<1> QED
  BY <1>1, <1>3, <1>5, <1>6, <1>7, EarlyStage, Underway

\* RateLimitMiddleware charges the address, or answers without a tool.
LEMMA RateLimitPreserves ==
  ASSUME NEW addrs, ReqInv(addrs), NEW x \in HttpCalls, RateLimitMiddleware(x)
  PROVE  ReqInv(addrs)'
<1> DEFINE ip == hreq[x].ip
<1>1. hreq[x].pc = "limit"
  BY DEF RateLimitMiddleware
<1>2. /\ msgs[x] # NoMessage /\ hreq[x] \in HttpRequest(addrs) /\ Stage(x)
      /\ buckets \in [DOMAIN buckets -> Nat]
  BY <1>1, Underway
<1>3. Tokens(ip) \in Nat
  BY <1>2, RequestsAssumption DEF Tokens
<1>4. ASSUME NEW n \in Nat,
             buckets' = [a \in DOMAIN buckets \cup {ip} |-> IF a = ip THEN n ELSE buckets[a]]
      PROVE  buckets' \in [DOMAIN buckets' -> Nat]
  BY <1>2, <1>4
<1>5. buckets' \in [DOMAIN buckets' -> Nat]
  <2>1. \/ UNCHANGED buckets
        \/ \E n \in Nat :
             buckets' = [a \in DOMAIN buckets \cup {ip} |-> IF a = ip THEN n ELSE buckets[a]]
    BY <1>3 DEF RateLimitMiddleware
  <2> QED
    BY <1>2, <1>4, <2>1
<1>6. /\ \/ IsMCPStream(msgs[x]) /\ hreq'[x] = [hreq[x] EXCEPT !.pc = "auth"]
         \/ hreq'[x] = [hreq[x] EXCEPT !.pc = "auth", !.paid = ip]
         \/ hreq'[x] = [hreq[x] EXCEPT !.pc = "answered"]
      /\ hreq' = [hreq EXCEPT ![x] = hreq'[x]]
  BY DEF RateLimitMiddleware, ReqInv, ReqTypeOK
<1>7. /\ hreq'[x] \in HttpRequest(addrs) /\ hreq'[x].ip = ip
      /\ hreq'[x].info = hreq[x].info /\ hreq'[x].failed = hreq[x].failed
      /\ \/ IsMCPStream(msgs[x]) /\ hreq'[x].pc = "auth"
         \/ hreq'[x].pc = "auth" /\ hreq'[x].paid = ip
         \/ hreq'[x].pc = "answered"
  <2>1. CASE IsMCPStream(msgs[x]) /\ hreq'[x] = [hreq[x] EXCEPT !.pc = "auth"]
    BY <1>2, <2>1 DEF HttpRequest
  <2>2. CASE hreq'[x] = [hreq[x] EXCEPT !.pc = "auth", !.paid = ip]
    BY <1>2, <2>2 DEF HttpRequest
  <2>3. CASE hreq'[x] = [hreq[x] EXCEPT !.pc = "answered"]
    BY <1>2, <2>3 DEF HttpRequest
  <2> QED
    BY <1>6, <2>1, <2>2, <2>3
<1>8. UNCHANGED <<rcfg, msgs, access, audits, effects>>
  BY DEF RateLimitMiddleware
<1>9. Stage(x)'
  BY <1>1, <1>2, <1>7, <1>8 DEF Stage, IsMCPStream
<1> QED
  BY <1>1, <1>5, <1>6, <1>7, <1>8, <1>9, EarlyStage

\* AuthMiddleware lets the token through.
LEMMA AuthPreserves ==
  ASSUME NEW addrs, ReqInv(addrs), NEW x \in HttpCalls, AuthMiddleware(x)
  PROVE  ReqInv(addrs)'
<1>1. hreq[x].pc = "auth"
  BY DEF AuthMiddleware
<1>2. msgs[x] # NoMessage /\ hreq[x] \in HttpRequest(addrs) /\ Stage(x)
  BY <1>1, Underway
<1>3. /\ hreq'[x] = [hreq[x] EXCEPT !.pc = IF msgs[x].token THEN "mcp" ELSE "answered"]
      /\ hreq' = [hreq EXCEPT ![x] = hreq'[x]]
  BY DEF AuthMiddleware, ReqInv, ReqTypeOK
<1>4. /\ hreq'[x] \in HttpRequest(addrs) /\ hreq'[x].ip = hreq[x].ip /\ hreq'[x].paid = hreq[x].paid
      /\ hreq'[x].info = hreq[x].info /\ hreq'[x].failed = hreq[x].failed
      /\ \/ msgs[x].token /\ hreq'[x].pc = "mcp"
         \/ hreq'[x].pc = "answered"
  BY <1>2, <1>3 DEF HttpRequest
<1>5. UNCHANGED <<rcfg, msgs, buckets, access, audits, effects>>
  BY DEF AuthMiddleware
<1>6. Stage(x)'
  BY <1>1, <1>2, <1>4, <1>5 DEF Stage
<1> QED
  BY <1>1, <1>3, <1>4, <1>5, <1>6, EarlyStage, Underway

\* The MCP server runs registered tools only.
LEMMA DispatchPreserves ==
  ASSUME NEW addrs, ReqInv(addrs), NEW x \in HttpCalls, Dispatch(x)
  PROVE  ReqInv(addrs)'
<1> DEFINE runs == msgs[x].method = "call" /\ ToolEnabled(rcfg, msgs[x].tool)
           info == [hreq[x].info EXCEPT !.method = msgs[x].method,
                                        !.tool = IF runs THEN msgs[x].tool ELSE None]
<1>1. hreq[x].pc = "mcp"
  BY DEF Dispatch
<1>2. /\ msgs[x] \in Message(addrs) /\ msgs[x] # NoMessage
      /\ hreq[x] \in HttpRequest(addrs) /\ Stage(x)
  BY <1>1, Underway
<1>3. /\ hreq'[x] = [hreq[x] EXCEPT !.pc = IF runs THEN "tool" ELSE "answered", !.info = info]
      /\ hreq' = [hreq EXCEPT ![x] = hreq'[x]]
  BY DEF Dispatch, ReqInv, ReqTypeOK
<1>4. /\ info \in [remote : addrs \cup {None}, tool : AllToolNames \cup {None},
                   method : {"call", "list", "stream", None}]
      /\ info.remote = hreq[x].info.remote
      /\ runs => info.tool = msgs[x].tool
  BY <1>2 DEF HttpRequest, Message
<1> HIDE DEF info
<1>5. /\ hreq'[x] \in HttpRequest(addrs) /\ hreq'[x].ip = hreq[x].ip /\ hreq'[x].paid = hreq[x].paid
      /\ hreq'[x].info = info /\ hreq'[x].failed = hreq[x].failed
      /\ \/ runs /\ hreq'[x].pc = "tool"
         \/ hreq'[x].pc = "answered"
  BY <1>2, <1>3, <1>4 DEF HttpRequest
<1>6. UNCHANGED <<rcfg, msgs, buckets, access, audits, effects>>
  BY DEF Dispatch
<1>7. Stage(x)'
  BY <1>1, <1>2, <1>4, <1>5, <1>6 DEF Stage
<1> QED
  BY <1>1, <1>3, <1>5, <1>6, <1>7, EarlyStage, Underway

\* A tool that changes the host runs only past the guard, and leaves its mark.
LEMMA RunToolPreserves ==
  ASSUME NEW addrs, None \notin addrs, ReqInv(addrs), NEW x \in HttpCalls, RunTool(x)
  PROVE  ReqInv(addrs)'
<1> DEFINE t == msgs[x].tool
<1>1. hreq[x].pc = "tool"
  BY DEF RunTool
<1>2. /\ msgs[x] \in Message(addrs) /\ msgs[x] # NoMessage
      /\ hreq[x] \in HttpRequest(addrs) /\ Stage(x) /\ buckets \in [DOMAIN buckets -> Nat]
  BY <1>1, Underway
<1>3. UNCHANGED <<rcfg, msgs, buckets, access, audits>>
  BY DEF RunTool
<1>4. (\A e \in effects : e[1] # x) /\ (\A l \in audits : l.id # x)
  BY <1>1, NothingYet
<1>5. effects \subseteq HttpCalls \X AllToolNames /\ t \in AllToolNames
  BY <1>2 DEF ReqInv, ReqTypeOK, Message
<1>6. ASSUME hreq' = [hreq EXCEPT ![x] = hreq'[x]], hreq'[x] \in HttpRequest(addrs)
      PROVE  /\ hreq' \in [HttpCalls -> HttpRequest(addrs)]
             /\ \A c \in HttpCalls \ {x} : hreq'[c] = hreq[c]
  BY <1>6 DEF ReqInv, ReqTypeOK
<1>7. CASE UNCHANGED effects /\ hreq' = [hreq EXCEPT ![x].pc = "audit", ![x].failed = TRUE]
  <2>1. /\ hreq'[x] = [hreq[x] EXCEPT !.pc = "audit", !.failed = TRUE]
        /\ hreq' = [hreq EXCEPT ![x] = hreq'[x]]
    BY <1>7 DEF ReqInv, ReqTypeOK
  <2>2. /\ hreq'[x] \in HttpRequest(addrs) /\ hreq'[x].ip = hreq[x].ip /\ hreq'[x].paid = hreq[x].paid
        /\ hreq'[x].info = hreq[x].info /\ hreq'[x].failed /\ hreq'[x].pc = "audit"
    BY <1>2, <2>1 DEF HttpRequest
  <2>3. Stage(x)'
    BY <1>1, <1>2, <1>3, <2>2 DEF Stage
  <2> QED
    BY <1>2, <1>3, <1>4, <1>5, <1>6, <1>7, <2>1, <2>2, <2>3, OneMoves
<1>8. CASE /\ ~GuardRefuses(t) /\ hreq' = [hreq EXCEPT ![x].pc = "audit"]
           /\ effects' = IF t \in Mutating THEN effects \cup {<<x, t>>} ELSE effects
  <2>1. hreq'[x] = [hreq[x] EXCEPT !.pc = "audit"] /\ hreq' = [hreq EXCEPT ![x] = hreq'[x]]
    BY <1>8 DEF ReqInv, ReqTypeOK
  <2>2. /\ hreq'[x] \in HttpRequest(addrs) /\ hreq'[x].ip = hreq[x].ip /\ hreq'[x].paid = hreq[x].paid
        /\ hreq'[x].info = hreq[x].info /\ hreq'[x].failed = hreq[x].failed
        /\ hreq'[x].pc = "audit"
    BY <1>2, <2>1 DEF HttpRequest
  <2>3. t \in Mutating => <<x, t>> \in effects'
    BY <1>8
  <2>4. Stage(x)'
    BY <1>1, <1>2, <1>3, <2>2, <2>3 DEF Stage
  <2>5. t \in Mutating => Effected(x)'
    BY <1>1, <1>2, <1>3, <1>8, <2>2 DEF Stage, Effected, GuardRefuses, HttpRequest
  <2>6. /\ effects \subseteq effects' /\ effects' \subseteq HttpCalls \X AllToolNames
        /\ \A e \in effects' : e \in effects \/ (e[1] = x /\ e[2] = t /\ t \in Mutating)
    BY <1>5, <1>8
  <2>7. \A e \in effects' : \/ e \in effects /\ e[1] # x
                            \/ e[1] = x /\ e[2] = msgs[x].tool /\ Effected(x)'
    BY <1>4, <2>5, <2>6
  <2> QED
    BY <1>2, <1>3, <1>4, <1>6, <2>1, <2>2, <2>4, <2>6, <2>7, OneMoves
<1> QED
  BY <1>7, <1>8 DEF RunTool

\* withAudit writes the line of the tool that ran.
LEMMA WithAuditPreserves ==
  ASSUME NEW addrs, ReqInv(addrs), NEW x \in HttpCalls, WithAudit(x)
  PROVE  ReqInv(addrs)'
<1> DEFINE t == msgs[x].tool
           line == [id |-> x, remote |-> hreq[x].ip, tool |-> t, ok |-> ~hreq[x].failed]
<1>1. hreq[x].pc = "audit"
  BY DEF WithAudit
<1>2. /\ msgs[x] # NoMessage
      /\ hreq[x] \in HttpRequest(addrs) /\ Stage(x) /\ buckets \in [DOMAIN buckets -> Nat]
  BY <1>1, Underway
<1>3. UNCHANGED <<rcfg, msgs, buckets, access, effects>> /\ audits' = audits \cup {line}
  BY DEF WithAudit, SourceIP
<1>4. hreq'[x] = [hreq[x] EXCEPT !.pc = "answered"] /\ hreq' = [hreq EXCEPT ![x] = hreq'[x]]
  BY DEF WithAudit, ReqInv, ReqTypeOK
<1>5. /\ hreq'[x] \in HttpRequest(addrs) /\ hreq'[x].ip = hreq[x].ip /\ hreq'[x].paid = hreq[x].paid
      /\ hreq'[x].info = hreq[x].info /\ hreq'[x].failed = hreq[x].failed
      /\ hreq'[x].pc = "answered"
  BY <1>2, <1>4 DEF HttpRequest
<1>6. /\ hreq' \in [HttpCalls -> HttpRequest(addrs)]
      /\ \A c \in HttpCalls \ {x} : hreq'[c] = hreq[c]
      /\ effects \subseteq HttpCalls \X AllToolNames
  BY <1>4, <1>5 DEF ReqInv, ReqTypeOK
<1>7. Stage(x)'
  BY <1>1, <1>2, <1>3, <1>5 DEF Stage
<1>8. /\ line.id = x /\ line.tool = t /\ line.remote = hreq[x].ip /\ line.ok = ~hreq[x].failed
      /\ line \in audits'
  BY <1>3
<1> HIDE DEF line
<1>9. ASSUME NEW e \in effects, e[1] = x PROVE e[2] = t /\ Effected(x)'
  <2>1. e[2] = t /\ Effected(x)
    BY <1>9 DEF ReqInv
  <2>2. \E l \in audits' : l.id = x /\ l.tool = t /\ l.remote = hreq[x].paid /\ l.ok
    BY <1>8, <2>1 DEF Effected
  <2> QED
    BY <1>3, <1>5, <2>1, <2>2 DEF Effected
<1>10. ASSUME NEW l \in audits', l \notin audits PROVE AuditLine(l)'
  <2>1. l.id = x /\ l.tool = t /\ l.ok = ~hreq[x].failed
    BY <1>3, <1>8, <1>10
  <2> QED
    BY <1>1, <1>2, <1>3, <1>5, <2>1 DEF AuditLine, Stage
<1>11. \A l \in audits : l.id # x
  BY <1>1 DEF ReqInv, AuditLine
<1> QED
  BY <1>2, <1>3, <1>6, <1>7, <1>9, <1>10, <1>11, OneMoves

\* LoggingMiddleware writes the access line of the request.
LEMMA AccessLinePreserves ==
  ASSUME NEW addrs, ReqInv(addrs), NEW x \in HttpCalls, AccessLine(x)
  PROVE  ReqInv(addrs)'
<1> DEFINE line == [id |-> x, remote |-> hreq[x].info.remote, tool |-> hreq[x].info.tool,
                    method |-> hreq[x].info.method]
<1>1. hreq[x].pc = "answered"
  BY DEF AccessLine
<1>2. /\ msgs[x] # NoMessage
      /\ hreq[x] \in HttpRequest(addrs) /\ Stage(x) /\ buckets \in [DOMAIN buckets -> Nat]
  BY <1>1, Underway
<1>3. UNCHANGED <<rcfg, msgs, buckets, audits, effects>> /\ access' = access \cup {line}
  BY DEF AccessLine
<1>4. hreq'[x] = [hreq[x] EXCEPT !.pc = "done"] /\ hreq' = [hreq EXCEPT ![x] = hreq'[x]]
  BY DEF AccessLine, ReqInv, ReqTypeOK
<1>5. /\ hreq'[x] \in HttpRequest(addrs) /\ hreq'[x].ip = hreq[x].ip /\ hreq'[x].paid = hreq[x].paid
      /\ hreq'[x].info = hreq[x].info /\ hreq'[x].failed = hreq[x].failed
      /\ hreq'[x].pc = "done"
  BY <1>2, <1>4 DEF HttpRequest
<1>6. /\ hreq' \in [HttpCalls -> HttpRequest(addrs)]
      /\ \A c \in HttpCalls \ {x} : hreq'[c] = hreq[c]
      /\ effects \subseteq HttpCalls \X AllToolNames
  BY <1>4, <1>5 DEF ReqInv, ReqTypeOK
<1>7. Stage(x)'
  BY <1>1, <1>2, <1>3, <1>5 DEF Stage
<1>8. /\ line.id = x /\ line.tool = hreq[x].info.tool /\ line.remote = hreq[x].info.remote
      /\ line \in access'
  BY <1>3
<1> HIDE DEF line
<1>9. ASSUME NEW e \in effects, e[1] = x PROVE e[2] = msgs[x].tool /\ Effected(x)'
  <2>1. e[2] = msgs[x].tool /\ Effected(x)
    BY <1>9 DEF ReqInv
  <2>2. \E l \in access' : l.id = x /\ l.tool = msgs[x].tool /\ l.remote = hreq[x].paid
    BY <1>8, <2>1 DEF Effected
  <2> QED
    BY <1>1, <1>3, <1>5, <2>1, <2>2 DEF Effected
<1>10. ASSUME NEW l \in audits, l.id = x PROVE AuditLine(l)'
  <2>1. AuditLine(l)
    BY DEF ReqInv
  <2> QED
    BY <1>3, <1>5, <1>10, <2>1 DEF AuditLine
<1> QED
  BY <1>2, <1>3, <1>6, <1>7, <1>9, <1>10, OneMoves

\* Each request keeps to its stages, and what changed the host stays accounted
\* for, while the other requests take theirs.
THEOREM RequestsInductive ==
  ASSUME NEW addrs, None \notin addrs
  PROVE  RequestsSpec(addrs) => []ReqInv(addrs)
<1>1. RequestsStart([HttpCalls -> Message(addrs) \cup {NoMessage}], SUBSET AllToolNames, BOOLEAN)
      => ReqInv(addrs)
  <2> SUFFICES ASSUME RequestsStart([HttpCalls -> Message(addrs) \cup {NoMessage}],
                                    SUBSET AllToolNames, BOOLEAN)
               PROVE  ReqInv(addrs)
    OBVIOUS
  <2>1. buckets \in [DOMAIN buckets -> Nat]
    BY DEF RequestsStart
  <2>2. hreq \in [HttpCalls -> HttpRequest(addrs)]
    BY DEF RequestsStart, HttpRequest, NoInfo
  <2>3. ReqTypeOK(addrs)
    BY <2>1, <2>2 DEF RequestsStart, ReqTypeOK
  <2>4. \A c \in HttpCalls : Stage(c)
    BY DEF RequestsStart, Stage, NoInfo
  <2> QED
    BY <2>3, <2>4 DEF ReqInv, RequestsStart
<1>2. ReqInv(addrs) /\ [RequestsNext]_reqVars => ReqInv(addrs)'
  <2> SUFFICES ASSUME ReqInv(addrs), [RequestsNext]_reqVars
               PROVE  ReqInv(addrs)'
    OBVIOUS
  <2>1. CASE \E c \in HttpCalls : \/ ClientIPMiddleware(c) \/ LoggingMiddleware(c)
                                  \/ RateLimitMiddleware(c) \/ AuthMiddleware(c) \/ Dispatch(c)
                                  \/ RunTool(c) \/ WithAudit(c) \/ AccessLine(c)
    BY <2>1, ClientIPPreserves, LoggingPreserves, RateLimitPreserves, AuthPreserves,
       DispatchPreserves, RunToolPreserves, WithAuditPreserves, AccessLinePreserves
  <2>2. ASSUME UNCHANGED <<rcfg, msgs, hreq, access, audits, effects>>,
               buckets' \in [DOMAIN buckets' -> Nat]
        PROVE  ReqInv(addrs)'
    BY <2>2 DEF ReqInv, ReqTypeOK, Stage, Effected, AuditLine
  <2>3. ASSUME NEW ip \in DOMAIN buckets, Regain(ip) PROVE ReqInv(addrs)'
    <3>1. buckets \in [DOMAIN buckets -> Nat] /\ buckets' = [buckets EXCEPT ![ip] = @ + 1]
      BY <2>3 DEF Regain, ReqInv, ReqTypeOK
    <3>2. buckets' \in [DOMAIN buckets' -> Nat]
      BY <3>1
    <3> QED
      BY <2>2, <2>3, <3>2 DEF Regain
  <2>4. CASE UNCHANGED reqVars
    BY <2>2, <2>4 DEF reqVars, ReqInv, ReqTypeOK
  <2> QED
    BY <2>1, <2>3, <2>4 DEF RequestsNext
<1> QED
  BY <1>1, <1>2, PTL DEF RequestsSpec

\* Whatever the clients send and however their requests interleave, what changed
\* the host was authorised, charged and logged under an address that no hop in
\* front of a trusted proxy could choose.
THEOREM AccountedFor ==
  ASSUME NEW addrs, None \notin addrs
  PROVE  RequestsSpec(addrs) => []RequestsAreAccountedFor
<1>1. ReqInv(addrs) => EffectsAreAccountedFor
  <2> SUFFICES ASSUME ReqInv(addrs) PROVE EffectsAreAccountedFor
    OBVIOUS
  <2>1. \A ip \in DOMAIN buckets : buckets[ip] >= 0
    BY DEF ReqInv, ReqTypeOK
  <2>2. ASSUME NEW e \in effects
        PROVE  /\ msgs[e[1]].token /\ hreq[e[1]].paid # None
               /\ hreq[e[1]].pc = "done" =>
                    /\ \E l \in audits : l.id = e[1] /\ l.tool = e[2] /\ l.remote = hreq[e[1]].paid /\ l.ok
                    /\ \E l \in access : l.id = e[1] /\ l.tool = e[2] /\ l.remote = hreq[e[1]].paid
    BY DEF ReqInv, Effected
  <2>3. \A l \in audits : l.ok /\ l.tool \in Mutating => <<l.id, l.tool>> \in effects
    BY DEF ReqInv, AuditLine
  <2> QED
    BY <2>1, <2>2, <2>3 DEF EffectsAreAccountedFor
<1>2. ReqInv(addrs) => ForgedHopsAreIgnored
  <2> SUFFICES ASSUME ReqInv(addrs), NEW c \in HttpCalls, hreq[c].ip # None
               PROVE  LET m == msgs[c]
                          real == {i \in 1..Len(m.xff) : m.xff[i] \notin TrustedProxies}
                      IN  /\ m.peer \notin TrustedProxies => hreq[c].ip = m.peer
                          /\ real # {} /\ Bad \notin {m.xff[i] : i \in 1..Len(m.xff)} =>
                               \A n \in 1..Len(m.xff) : (\E i \in real : i >= n) =>
                                 hreq[c].ip = ResolveClientIP(m.peer, SubSeq(m.xff, n, Len(m.xff)), m.real)
    BY DEF ForgedHopsAreIgnored
  <2> DEFINE m == msgs[c]
  <2>1. /\ m \in Message(addrs)
        /\ hreq[c].ip = ResolveClientIP(m.peer, m.xff, m.real)
    <3>1. m \in Message(addrs) \cup {NoMessage}
      BY DEF ReqInv, ReqTypeOK
    <3>2. m # NoMessage /\ hreq[c].ip = ResolveClientIP(m.peer, m.xff, m.real)
      BY DEF ReqInv, Stage
    <3> QED
      BY <3>1, <3>2
  <2>2. m.xff \in Seq(addrs \cup {Bad})
    BY <2>1 DEF Message
  <2>3. m.peer \notin TrustedProxies => hreq[c].ip = m.peer
    BY <2>1 DEF ResolveClientIP
  <2>4. ASSUME Bad \notin {m.xff[i] : i \in 1..Len(m.xff)},
               NEW n \in 1..Len(m.xff), NEW i \in 1..Len(m.xff),
               m.xff[i] \notin TrustedProxies, i >= n
        PROVE  hreq[c].ip = ResolveClientIP(m.peer, SubSeq(m.xff, n, Len(m.xff)), m.real)
    <3> DEFINE sub == SubSeq(m.xff, n, Len(m.xff))
    <3>1. /\ Len(m.xff) \in Nat /\ n <= Len(m.xff)
          /\ \A k \in n..Len(m.xff) : m.xff[k] \in addrs \cup {Bad}
      BY <2>2
    <3>2. /\ Len(sub) = Len(m.xff) - n + 1 /\ sub \in Seq(addrs \cup {Bad})
          /\ \A k \in 1..(Len(m.xff) - n + 1) : sub[k] = m.xff[n + k - 1]
      BY <3>1, SubSeqProperties
    <3>3. LastUntrusted(sub) = LastUntrusted(m.xff)
      BY <2>2, <2>4, PrefixIgnored
    <3> HIDE DEF sub
    <3>4. sub # <<>> /\ m.xff # <<>>
      BY <3>1, <3>2
    <3>5. \A k \in 1..Len(sub) : sub[k] # Bad
      <4> SUFFICES ASSUME NEW k \in 1..Len(sub) PROVE sub[k] # Bad
        OBVIOUS
      <4>1. n + k - 1 \in 1..Len(m.xff) /\ sub[k] = m.xff[n + k - 1]
        BY <3>1, <3>2
      <4> QED
        BY <2>4, <4>1
    <3>6. ResolveClientIP(m.peer, sub, m.real) = ResolveClientIP(m.peer, m.xff, m.real)
      BY <2>4, <3>3, <3>4, <3>5 DEF ResolveClientIP
    <3> QED
      BY <2>1, <3>6 DEF sub
  <2> QED
    BY <2>3, <2>4
<1> QED
  BY <1>1, <1>2, RequestsInductive, PTL DEF RequestsAreAccountedFor

\* A server that was started read-only changes nothing and runs only tools of its
\* allowlist, and no blacklisted tool runs on any.
THEOREM ReadOnlyKept ==
  ASSUME NEW addrs, None \notin addrs
  PROVE  RequestsSpec(addrs) => []ReadOnlyHolds
<1>1. ReqInv(addrs) => ReadOnlyHolds
  <2> SUFFICES ASSUME ReqInv(addrs) PROVE ReadOnlyHolds
    OBVIOUS
  <2>1. PICK b \in SUBSET AllToolNames, e \in BOOLEAN : rcfg = LoadConfig(b, e)
    BY DEF ReqInv, ReqTypeOK
  <2>2. /\ rcfg.env.readOnly = e /\ rcfg.env.blacklist = b
        /\ e => rcfg.readOnly /\ rcfg.latch
        /\ b \subseteq rcfg.disabled
    BY <2>1 DEF LoadConfig, ApplyReadOnly
  <2>3. e => effects = {}
    BY <2>2 DEF ReqInv, Effected
  <2>4. ASSUME NEW l \in audits PROVE (e => l.tool \in ReadOnlyTools) /\ l.tool \notin b
    BY <2>2 DEF ReqInv, AuditLine, ToolEnabled
  <2> QED
    BY <2>2, <2>3, <2>4 DEF ReadOnlyHolds
<1> QED
  BY <1>1, RequestsInductive, PTL

-----------------------------------------------------------------------------
(* Sessions: a session in use is kept, and the directory is that of its cds. *)

\* The shape of the ghost, which EXCEPT needs.
UseTyped ==
  use \in [last : Nat, lapsed : BOOLEAN, closed : BOOLEAN,
          before : [Calls -> SUBSET Calls], stored : SUBSET Calls]

\* Looking up, renewing, running, storing, closing, sweeping and the clock keep
\* KeptInv: the check of Get and of the cleanup loop and their delete are two
\* steps, but what they saw stays true, since a lapse is for good.
THEOREM KeptInductive == SessSpec => [](UseTyped /\ KeptInv)
<1>. USE SessionsAssumption
<1>1. Create => UseTyped /\ KeptInv
  BY DEF Create, UseTyped, KeptInv, UsedSessionKept, Over
<1>2. UseTyped /\ KeptInv /\ [SessNext]_sessVars => UseTyped' /\ KeptInv'
  <2>. SUFFICES ASSUME UseTyped, KeptInv, [SessNext]_sessVars
       PROVE  UseTyped' /\ KeptInv'
    OBVIOUS
  <2>. USE DEF UseTyped, KeptInv, UsedSessionKept, Over
  <2>1. CASE UNCHANGED sessVars
    BY <2>1 DEF sessVars
  <2>2. ASSUME NEW c \in Calls, ExecuteStep(c) PROVE UseTyped' /\ KeptInv'
    <3>1. CASE Lookup(c)
      BY <3>1 DEF Lookup, Expired
    <3>2. CASE GetDeletes(c)
      BY <3>2 DEF GetDeletes
    <3>3. CASE Touch(c)
      BY <3>3 DEF Touch, Renewed
    <3>4. CASE ReadCwd(c)
      BY <3>4 DEF ReadCwd
    <3>5. CASE CommandEnds(c)
      BY <3>5 DEF CommandEnds
    <3>6. CASE PwdEnds(c)
      BY <3>6 DEF PwdEnds
    <3>7. CASE UpdateWorkingDirectory(c)
      BY <3>7 DEF UpdateWorkingDirectory
    <3>. QED
      BY <2>2, <3>1, <3>2, <3>3, <3>4, <3>5, <3>6, <3>7 DEF ExecuteStep
  <2>3. CASE CloseSession
    BY <2>3 DEF CloseSession
  <2>4. CASE Cleanup
    BY <2>4 DEF Cleanup, SweepStarts, SweepChecks, SweepDeletes, Expired
  <2>5. CASE SessTick
    <3>1. /\ time' = time + 1
          /\ use' = [use EXCEPT !.lapsed = use.lapsed \/ time' > use.last + TTL]
          /\ UNCHANGED <<inMap, expiresAt, cwd, ex, dir, sweep, sweepNow>>
      BY <2>5 DEF SessTick
    <3>2. (use.lapsed \/ time' > use.last + TTL) \in BOOLEAN
      OBVIOUS
    <3>3. UseTyped' /\ use'.last = use.last /\ use'.closed = use.closed
      BY <3>1, <3>2
    <3>4. use'.lapsed = (use.lapsed \/ time' > use.last + TTL)
      BY <3>1
    <3>5. use'.lapsed <=> (use.lapsed \/ time' > use.last + TTL)
      BY <3>2, <3>3, <3>4
    <3>. QED
      BY <3>1, <3>3, <3>5
  <2>. QED
    BY <2>1, <2>2, <2>3, <2>4, <2>5 DEF SessNext
<1>. QED
  BY <1>1, <1>2, PTL DEF SessSpec

\* TTL is an idle timeout, whatever calls, cleanups and deletes overlap: only a
\* close takes away a session whose uses were never more than TTL apart.
THEOREM UsedKept == SessSpec => []UsedSessionKept
<1>1. UseTyped /\ KeptInv => UsedSessionKept
  BY DEF KeptInv
<1>. QED
  BY <1>1, KeptInductive, PTL

\* cd adds one step.
LEMMA StepsOfAppend ==
  ASSUME NEW S, NEW p \in Seq(S), NEW x \in S
  PROVE  Append(p, x) \in Seq(S) /\ Steps(Append(p, x)) = Steps(p) \cup {x}
<1> DEFINE q == Append(p, x)
<1>1. /\ q \in Seq(S) /\ DOMAIN q = 1..(Len(p) + 1) /\ DOMAIN p = 1..Len(p) /\ Len(p) \in Nat
      /\ q[Len(p) + 1] = x /\ \A i \in 1..Len(p) : q[i] = p[i]
  OBVIOUS
<1> HIDE DEF q
<1>2. ASSUME NEW i \in 1..(Len(p) + 1) PROVE i = Len(p) + 1 \/ i \in 1..Len(p)
  BY <1>1
<1>3. Steps(q) \subseteq Steps(p) \cup {x}
  BY <1>1, <1>2 DEF Steps
<1>4. \A i \in 1..Len(p) : i \in DOMAIN q
  BY <1>1
<1>5. Len(p) + 1 \in DOMAIN q
  BY <1>1
<1>6. Steps(p) \cup {x} \subseteq Steps(q)
  BY <1>1, <1>4, <1>5 DEF Steps
<1> QED
  BY <1>1, <1>3, <1>6 DEF q

\* Whether a call ran alone is settled when it is over: whoever begins later has
\* it in its past.
LEMMA AloneIsSettled ==
  ASSUME UseTyped, KeptInv, CdInv, [SessNext]_sessVars, NEW c \in Calls, ex[c] = "told", Alone(c)'
  PROVE  Alone(c) /\ ex'[c] = "told"
<1> USE DEF UseTyped, KeptInv, Alone, Over
<1>1. ASSUME NEW x \in Calls, Lookup(x)
      PROVE  Alone(c) /\ ex'[c] = "told"
  <2>1. x # c /\ ex'[c] = "told" /\ use'.before[c] = use.before[c]
    BY <1>1 DEF Lookup
  <2>2. \A d \in Calls \ {x} : ex'[d] = ex[d] /\ use'.before[d] = use.before[d]
    BY <1>1 DEF Lookup
  <2> QED
    BY <1>1, <2>1, <2>2 DEF Lookup
<1>2. ASSUME UNCHANGED use, NEW x \in Calls, NEW s, s # "idle", ex[x] \notin {"idle", "told"},
             ex' = [ex EXCEPT ![x] = s]
      PROVE  Alone(c) /\ ex'[c] = "told"
  BY <1>2
<1>3. ASSUME NEW x \in Calls, \/ GetDeletes(x) \/ ReadCwd(x) \/ CommandEnds(x) \/ PwdEnds(x)
      PROVE  Alone(c) /\ ex'[c] = "told"
  BY <1>2, <1>3 DEF GetDeletes, ReadCwd, CommandEnds, PwdEnds
<1>4. ASSUME NEW x \in Calls, Touch(x) \/ UpdateWorkingDirectory(x)
      PROVE  Alone(c) /\ ex'[c] = "told"
  <2>1. use'.before = use.before
    BY <1>4 DEF Touch, UpdateWorkingDirectory
  <2> QED
    BY <1>4, <2>1 DEF Touch, UpdateWorkingDirectory
<1>5. CASE UNCHANGED ex /\ use'.before = use.before
  BY <1>5
<1>6. CASE CloseSession \/ Cleanup \/ SessTick \/ UNCHANGED sessVars
  <2>1. UNCHANGED ex /\ use'.before = use.before
    BY <1>6 DEF CloseSession, Cleanup, SweepStarts, SweepChecks, SweepDeletes, SessTick, sessVars
  <2> QED
    BY <1>5, <2>1
<1> QED
  BY <1>1, <1>3, <1>4, <1>6 DEF SessNext, ExecuteStep

\* Whoever may still store runs below the steps that have to stay: no call, sweep,
\* close or tick breaks CdInv.
LEMMA CdPreserved ==
  ASSUME UseTyped, KeptInv, CdInv, [SessNext]_sessVars
  PROVE  CdInv'
<1> USE DEF UseTyped, KeptInv, Over
<1>0. /\ \A c \in Calls : \A d \in use.before[c] : ex[d] \in {"refused", "told"}
      /\ \A c \in use.stored : ex[c] = "told"
      /\ cwd \in Seq(Calls) /\ dir \in [Calls -> Seq(Calls)]
      /\ \A c \in use.stored : Alone(c) => c \in Steps(cwd)
  BY DEF CdInv, CdsCompose
<1>1. ASSUME NEW c \in use.stored, Alone(c)' PROVE Alone(c) /\ ex'[c] = "told"
  BY <1>0, <1>1, AloneIsSettled
\* The steps that move no directory.
<1>2. ASSUME UNCHANGED <<cwd, dir>>, use'.stored = use.stored,
             \A d \in Calls : ex'[d] \in {"running", "pwd", "store"} =>
               ex[d] \in {"running", "pwd", "store"} /\ use'.before[d] = use.before[d],
             \A c \in Calls : \A d \in use'.before[c] : ex'[d] \in {"refused", "told"},
             \A c \in use.stored : ex'[c] = "told"
      PROVE  CdInv'
  <2>1. ASSUME NEW d \in Calls, NEW c \in use.stored,
               ex'[d] \in {"running", "pwd", "store"}, c \in use'.before[d], Alone(c)'
        PROVE  c \in Steps(dir[d])
    BY <1>1, <1>2, <2>1 DEF CdInv
  <2>2. CdsCompose'
    BY <1>0, <1>1, <1>2 DEF CdsCompose
  <2> QED
    BY <1>0, <1>2, <2>1, <2>2 DEF CdInv
<1>3. ASSUME NEW x \in Calls, Lookup(x) PROVE CdInv'
  <2>1. UNCHANGED <<cwd, dir>> /\ use'.stored = use.stored
    BY <1>3 DEF Lookup
  <2>2. \A d \in Calls \ {x} : ex'[d] = ex[d] /\ use'.before[d] = use.before[d]
    BY <1>3 DEF Lookup
  <2>3. ex'[x] \in {"refused", "expired", "live"} /\ ex[x] = "idle"
    BY <1>3 DEF Lookup
  <2>4. use'.before[x] = {d \in Calls : ex[d] \in {"refused", "told"}}
    BY <1>3 DEF Lookup
  <2>5. \A c \in Calls : \A d \in use'.before[c] : ex'[d] \in {"refused", "told"}
    BY <1>0, <2>2, <2>3, <2>4
  <2>6. \A c \in use.stored : ex'[c] = "told"
    BY <1>0, <2>2, <2>3
  <2>7. \A d \in Calls : ex'[d] \in {"running", "pwd", "store"} =>
               ex[d] \in {"running", "pwd", "store"} /\ use'.before[d] = use.before[d]
    BY <2>2, <2>3
  <2> QED
    BY <1>2, <2>1, <2>5, <2>6, <2>7
<1>4. ASSUME NEW x \in Calls, GetDeletes(x) \/ Touch(x) \/ CommandEnds(x) \/ PwdEnds(x)
      PROVE  CdInv'
  <2>1. UNCHANGED <<cwd, dir>> /\ use'.stored = use.stored /\ use'.before = use.before
    BY <1>4 DEF GetDeletes, Touch, CommandEnds, PwdEnds
  <2>2. \A d \in Calls \ {x} : ex'[d] = ex[d]
    BY <1>4 DEF GetDeletes, Touch, CommandEnds, PwdEnds
  <2>3. /\ ex[x] \notin {"refused", "told"}
        /\ ex'[x] \in {"running", "pwd", "store"} => ex[x] \in {"running", "pwd", "store"}
    BY <1>4 DEF GetDeletes, Touch, CommandEnds, PwdEnds
  <2> QED
    BY <1>0, <1>2, <2>1, <2>2, <2>3
<1>5. ASSUME NEW x \in Calls, ReadCwd(x) PROVE CdInv'
  <2>1. /\ UNCHANGED <<cwd, use>> /\ ex[x] = "touched"
        /\ \A d \in Calls \ {x} : ex'[d] = ex[d]
        /\ ex'[x] = "running"
    BY <1>5 DEF ReadCwd
  <2>2. dir' \in [Calls -> Seq(Calls)] /\ dir'[x] = cwd /\ \A d \in Calls \ {x} : dir'[d] = dir[d]
    BY <1>0, <1>5 DEF ReadCwd
  <2>3. ASSUME NEW d \in Calls, NEW c \in use.stored,
               ex'[d] \in {"running", "pwd", "store"}, c \in use.before[d], Alone(c)'
        PROVE  c \in Steps(dir'[d])
    <3>1. CASE d = x
      <4>1. dir'[d] = cwd /\ c \in Steps(cwd)
        BY <1>0, <1>1, <2>2, <2>3, <3>1
      <4> QED
        BY <4>1
    <3>2. CASE d # x
      <4>1. dir'[d] = dir[d] /\ ex[d] \in {"running", "pwd", "store"} /\ Alone(c)
        BY <1>1, <2>1, <2>2, <2>3, <3>2
      <4> QED
        BY <2>3, <4>1 DEF CdInv
    <3> QED
      BY <3>1, <3>2
  <2>4. CdsCompose'
    BY <1>0, <1>1, <2>1 DEF CdsCompose
  <2>5. /\ \A c \in Calls : \A d \in use'.before[c] : ex'[d] \in {"refused", "told"}
        /\ \A c \in use'.stored : ex'[c] = "told"
        /\ cwd' \in Seq(Calls)
    BY <1>0, <2>1
  <2> QED
    BY <2>1, <2>2, <2>3, <2>4, <2>5 DEF CdInv
<1>6. ASSUME NEW x \in Calls, UpdateWorkingDirectory(x) PROVE CdInv'
  <2>1. /\ UNCHANGED dir /\ use'.before = use.before /\ ex[x] = "store"
        /\ \A d \in Calls \ {x} : ex'[d] = ex[d]
        /\ ex'[x] = "told"
    BY <1>6 DEF UpdateWorkingDirectory
  <2>2. CASE ~inMap
    BY <1>0, <1>2, <1>6, <2>1, <2>2 DEF UpdateWorkingDirectory
  <2>3. CASE inMap
    <3>1. cwd' = Append(dir[x], x) /\ use'.stored = use.stored \cup {x}
      BY <1>6, <2>3 DEF UpdateWorkingDirectory, NewDir
    <3>2. /\ cwd' \in Seq(Calls)
          /\ Steps(cwd') = Steps(dir[x]) \cup {x}
      BY <1>0, <3>1, StepsOfAppend
    <3>3. ASSUME NEW c \in use'.stored, Alone(c)' PROVE c \in Steps(cwd')
      <4>1. CASE c = x
        BY <3>2, <4>1
      <4>2. CASE c # x
        <5>1. c \in use.stored /\ Alone(c) /\ x \notin use.before[c]
          BY <1>0, <1>1, <2>1, <3>1, <3>3, <4>2
        <5>2. c \in use.before[x]
          BY <2>1, <4>2, <5>1 DEF Alone
        <5>3. c \in Steps(dir[x])
          BY <2>1, <5>1, <5>2 DEF CdInv
        <5> QED
          BY <3>2, <5>3
      <4> QED
        BY <4>1, <4>2
    <3>4. ASSUME NEW d \in Calls, NEW c \in use'.stored,
                 ex'[d] \in {"running", "pwd", "store"}, c \in use.before[d], Alone(c)'
          PROVE  c \in Steps(dir[d])
      <4>1. c \in use.stored /\ d # x
        BY <1>0, <2>1, <3>1, <3>4
      <4> QED
        BY <1>1, <2>1, <3>4, <4>1 DEF CdInv
    <3>5. CdsCompose'
      BY <3>3 DEF CdsCompose
    <3>6. /\ \A c \in Calls : \A d \in use'.before[c] : ex'[d] \in {"refused", "told"}
          /\ \A c \in use'.stored : ex'[c] = "told"
      BY <1>0, <2>1, <3>1
    <3> QED
      BY <1>0, <2>1, <3>2, <3>4, <3>5, <3>6 DEF CdInv
  <2> QED
    BY <2>2, <2>3
<1>7. CASE CloseSession \/ Cleanup \/ SessTick \/ UNCHANGED sessVars
  <2>1. UNCHANGED <<ex, cwd, dir>> /\ use'.before = use.before /\ use'.stored = use.stored
    BY <1>7 DEF CloseSession, Cleanup, SweepStarts, SweepChecks, SweepDeletes, SessTick, sessVars
  <2> QED
    BY <1>0, <1>2, <2>1
<1> QED
  BY <1>3, <1>4, <1>5, <1>6, <1>7 DEF SessNext, ExecuteStep

\* A cd that ran alone is in the directory of the session for good, whatever other
\* calls, cleanups and renewals overlap.
THEOREM CdsStay == SessSpec => []CdsCompose
<1>1. Create => CdInv
  BY DEF Create, CdInv, CdsCompose
<1>2. UseTyped /\ KeptInv /\ CdInv /\ [SessNext]_sessVars => CdInv'
  BY CdPreserved
<1>3. CdInv => CdsCompose
  BY DEF CdInv
<1> QED
  BY <1>1, <1>2, <1>3, KeptInductive, PTL DEF SessSpec

-----------------------------------------------------------------------------
(* Output: what the capped buffer keeps, and how the answer is cut from it. *)

\* A run counts up by one.
LEMMA RunIs ==
  ASSUME NEW from \in Int, NEW n \in Nat
  PROVE  Run(from, n) \in Seq(Int) /\ Len(Run(from, n)) = n /\ \A i \in 1..n : Run(from, n)[i] = from + i
BY DEF Run

\* A ring counts up from behind start, and goes on at its beginning.
LEMMA RingIs ==
  ASSUME NEW limit \in Nat, NEW total \in Nat, NEW start \in Nat
  PROVE  /\ Ring(limit, total, start) \in Seq(Int) /\ Len(Ring(limit, total, start)) = limit
         /\ \A i \in 1..limit : Ring(limit, total, start)[i] =
              IF i > start THEN total - limit + i - start ELSE total + i - start
BY DEF Ring

\* What counts up is a run.
LEMMA IsRun ==
  ASSUME NEW s \in Seq(Int), NEW from \in Int, NEW n \in Nat, Len(s) = n, \A i \in 1..n : s[i] = from + i
  PROVE  s = Run(from, n)
<1> DEFINE c == Run(from, n)
<1>1. c \in Seq(Int) /\ Len(c) = n /\ \A i \in 1..n : c[i] = from + i
  BY RunIs
<1> HIDE DEF c
<1>2. s = c
  BY <1>1, SeqEqual
<1> QED
  BY <1>2 DEF c

\* Runs that meet join.
LEMMA RunConcat ==
  ASSUME NEW from \in Int, NEW m \in Nat, NEW n \in Nat
  PROVE  Run(from, m) \o Run(from + m, n) = Run(from, m + n)
<1> DEFINE a == Run(from, m)
           b == Run(from + m, n)
           c == a \o b
<1>1. a \in Seq(Int) /\ Len(a) = m /\ \A i \in 1..m : a[i] = from + i
  BY RunIs
<1>2. b \in Seq(Int) /\ Len(b) = n /\ \A i \in 1..n : b[i] = from + m + i
  <2>1. from + m \in Int
    OBVIOUS
  <2> QED
    BY <2>1, RunIs
<1> HIDE DEF a, b
<1>3. /\ c \in Seq(Int) /\ Len(c) = m + n
      /\ \A i \in 1..(m + n) : c[i] = IF i <= m THEN a[i] ELSE b[i - m]
  BY <1>1, <1>2, ConcatProperties
<1> HIDE DEF c
<1>4. ASSUME NEW i \in 1..(m + n) PROVE c[i] = from + i
  <2>1. CASE i <= m
    <3>1. i \in 1..m /\ c[i] = a[i]
      BY <1>3, <2>1
    <3> QED
      BY <1>1, <3>1
  <2>2. CASE i > m
    <3>1. i - m \in 1..n /\ c[i] = b[i - m]
      BY <1>3, <2>2
    <3>2. b[i - m] = from + m + (i - m)
      BY <1>2, <3>1
    <3> QED
      BY <3>1, <3>2
  <2> QED
    BY <2>1, <2>2
<1>5. m + n \in Nat
  OBVIOUS
<1>6. c = Run(from, m + n)
  BY <1>3, <1>4, <1>5, IsRun
<1> QED
  BY <1>6 DEF a, b, c

\* A stretch of a run is a run.
LEMMA RunSub ==
  ASSUME NEW from \in Int, NEW n \in Nat, NEW i \in Nat, NEW j \in Nat, i <= j, j <= n
  PROVE  SubSeq(Run(from, n), i + 1, j) = Run(from + i, j - i)
<1> DEFINE a == Run(from, n)
           b == SubSeq(a, i + 1, j)
<1>1. \A k \in 1..n : a[k] = from + k
  BY RunIs
<1> HIDE DEF a
<1>2. /\ b \in Seq(Int) /\ Len(b) = IF i + 1 <= j THEN j - (i + 1) + 1 ELSE 0
      /\ \A k \in 1..(j - (i + 1) + 1) : b[k] = a[i + 1 + k - 1]
  <2>1. \A k \in (i + 1)..j : a[k] \in Int
    BY <1>1
  <2> QED
    BY <2>1, SubSeqProperties
<1> HIDE DEF b
<1>3. ASSUME NEW k \in 1..(j - i) PROVE b[k] = from + i + k
  <2>1. k \in 1..(j - (i + 1) + 1) /\ i + 1 + k - 1 = i + k /\ i + k \in 1..n
    OBVIOUS
  <2>2. b[k] = a[i + k]
    BY <1>2, <2>1
  <2> QED
    BY <1>1, <2>1, <2>2
<1>4. j - i \in Nat /\ from + i \in Int /\ Len(b) = j - i
  BY <1>2
<1>5. b = Run(from + i, j - i)
  BY <1>2, <1>3, <1>4, IsRun
<1> QED
  BY <1>5 DEF a, b

\* The remainder of a number below twice the modulus.
LEMMA ModOnce ==
  ASSUME NEW a \in Nat, NEW n \in Nat, n > 0, a < 2 * n
  PROVE  a % n = IF a < n THEN a ELSE a - n
<1>1. CASE a < n
  BY <1>1
<1>2. CASE a >= n
  BY <1>2
<1> QED
  BY <1>1, <1>2

\* A stretch of a sequence that counts up is a run.
LEMMA SubIsRun ==
  ASSUME NEW s \in Seq(Int), NEW i \in Nat, NEW j \in Nat, i <= j, j <= Len(s), NEW from \in Int,
         \A k \in 1..(j - i) : s[i + k] = from + k
  PROVE  SubSeq(s, i + 1, j) = Run(from, j - i)
<1> DEFINE b == SubSeq(s, i + 1, j)
<1>1. /\ b \in Seq(Int) /\ Len(b) = IF i + 1 <= j THEN j - (i + 1) + 1 ELSE 0
      /\ \A k \in 1..(j - (i + 1) + 1) : b[k] = s[i + 1 + k - 1]
  <2> DEFINE m == i + 1
  <2>1. m \in Int /\ j \in Int /\ \A k \in m..j : s[k] \in Int
    BY ElementOfSeq
  <2> HIDE DEF m
  <2>2. /\ SubSeq(s, m, j) \in Seq(Int) /\ Len(SubSeq(s, m, j)) = IF m <= j THEN j - m + 1 ELSE 0
        /\ \A k \in 1..(j - m + 1) : SubSeq(s, m, j)[k] = s[m + k - 1]
    BY <2>1, SubSeqProperties
  <2> QED
    BY <2>2 DEF m
<1> HIDE DEF b
<1>2. ASSUME NEW k \in 1..(j - i) PROVE b[k] = from + k
  <2>1. k \in 1..(j - (i + 1) + 1) /\ i + 1 + k - 1 = i + k
    OBVIOUS
  <2>2. b[k] = s[i + k]
    BY <1>1, <2>1
  <2> QED
    BY <2>2
<1>3. j - i \in Nat /\ Len(b) = j - i
  BY <1>1
<1>4. b = Run(from, j - i)
  BY <1>1, <1>2, <1>3, IsRun
<1> QED
  BY <1>4 DEF b

\* Bytes puts the two halves of a ring in order.
LEMMA RingInOrder ==
  ASSUME NEW limit \in Nat, NEW total \in Nat, NEW start \in Nat, start < limit
  PROVE  SubSeq(Ring(limit, total, start), start + 1, limit) \o SubSeq(Ring(limit, total, start), 1, start)
           = Run(total - limit, limit)
<1> DEFINE r == Ring(limit, total, start)
<1>1. /\ r \in Seq(Int) /\ Len(r) = limit
      /\ \A i \in 1..limit : r[i] = IF i > start THEN total - limit + i - start ELSE total + i - start
  BY RingIs
<1> HIDE DEF r
<1>2. SubSeq(r, start + 1, limit) = Run(total - limit, limit - start)
  <2>1. ASSUME NEW k \in 1..(limit - start) PROVE r[start + k] = total - limit + k
    <3>1. start + k \in 1..limit /\ start + k > start
      OBVIOUS
    <3>2. r[start + k] = total - limit + (start + k) - start
      BY <1>1, <3>1
    <3> QED
      BY <3>2
  <2>2. total - limit \in Int /\ start <= limit /\ limit <= Len(r)
    BY <1>1
  <2> QED
    BY <1>1, <2>1, <2>2, SubIsRun
<1>3. SubSeq(r, 1, start) = Run(total - start, start)
  <2>1. ASSUME NEW k \in 1..(start - 0) PROVE r[0 + k] = total - start + k
    <3>1. k \in 1..limit /\ ~(k > start)
      OBVIOUS
    <3>2. r[k] = total + k - start
      BY <1>1, <3>1
    <3> QED
      BY <3>2
  <2>2. /\ total - start \in Int /\ 0 \in Nat /\ 0 <= start /\ start <= Len(r)
        /\ start - 0 = start /\ 0 + 1 = 1
    BY <1>1
  <2>3. SubSeq(r, 0 + 1, start) = Run(total - start, start - 0)
    BY <1>1, <2>1, <2>2, SubIsRun
  <2> QED
    BY <2>2, <2>3
<1>4. Run(total - limit, limit - start) \o Run(total - start, start) = Run(total - limit, limit)
  <2>1. /\ total - limit \in Int /\ limit - start \in Nat
        /\ (total - limit) + (limit - start) = total - start /\ (limit - start) + start = limit
    OBVIOUS
  <2>2. Run(total - limit, limit - start) \o Run((total - limit) + (limit - start), start)
          = Run(total - limit, (limit - start) + start)
    BY <2>1, RunConcat
  <2> QED
    BY <2>1, <2>2
<1> QED
  BY <1>2, <1>3, <1>4 DEF r

Buffers == [limit : Nat \ {0}, buf : Seq(Int), start : Nat, full : BOOLEAN, total : Nat]

\* A write that wraps moves the ring by what it wrote.
LEMMA WrappedRing ==
  ASSUME NEW b \in Buffers, NEW total \in Nat, NEW n \in Nat,
         b.buf = Ring(b.limit, total, b.start), b.start < b.limit, n < b.limit
  PROVE  LET st == (b.start + n) % b.limit
         IN  /\ st \in Nat /\ st < b.limit
             /\ Wrapped(b, Run(total, n)) = [b EXCEPT !.buf = Ring(b.limit, total + n, st), !.start = st]
<1> DEFINE p == Run(total, n)
           limit == b.limit
           start == b.start
           st == (start + n) % limit
           at(i) == (i - 1 - start + limit) % limit
           new == [i \in 1..limit |-> IF at(i) < n THEN p[at(i) + 1] ELSE b.buf[i]]
<1>1. limit \in Nat /\ start \in Nat /\ start < limit /\ n < limit /\ b.buf = Ring(limit, total, start)
  BY DEF Buffers
<1>2. Len(p) = n /\ \A i \in 1..n : p[i] = total + i
  <2>1. total \in Int
    OBVIOUS
  <2> QED
    BY <2>1, RunIs
<1>3. Len(b.buf) = limit
  <2> HIDE DEF limit, start
  <2>1. Len(Ring(limit, total, start)) = limit
    BY <1>1, RingIs
  <2> QED
    BY <1>1, <2>1
<1>4. Wrapped(b, p) = [b EXCEPT !.buf = new, !.start = st]
  <2> HIDE DEF p
  <2> QED
    BY <1>2, <1>3 DEF Wrapped, Buffers
<1>5. st \in Nat /\ st < limit
  <2> HIDE DEF limit, start
  <2> QED
    BY <1>1
<1>6. ASSUME NEW i \in 1..limit
      PROVE  (IF at(i) < n THEN p[at(i) + 1] ELSE b.buf[i]) = Ring(limit, total + n, st)[i]
  <2> DEFINE k == at(i)
  <2>1. k = (i - 1 - start + limit) % limit /\ st = (start + n) % limit
    OBVIOUS
  <2> HIDE DEF limit, start, k, st, p, at, new
  <2>2. k \in Nat /\ (IF k < n THEN total + k + 1 ELSE Ring(limit, total, start)[i]) = Ring(limit, total + n, st)[i]
    <3>1. st = IF start + n < limit THEN start + n ELSE start + n - limit
      <4> DEFINE a == start + n
      <4>1. a \in Nat /\ limit > 0 /\ a < 2 * limit /\ st = a % limit
        BY <1>1, <2>1
      <4> HIDE DEF a
      <4>2. st = IF a < limit THEN a ELSE a - limit
        BY <1>1, <4>1, ModOnce
      <4> QED
        BY <1>1, <4>2 DEF a
    <3>2. k = IF i > start THEN i - 1 - start ELSE i - 1 - start + limit
      <4> DEFINE a == i - 1 - start + limit
      <4>1. a \in Nat /\ limit > 0 /\ a < 2 * limit /\ (a < limit <=> i <= start) /\ a - limit = i - 1 - start
        BY <1>1
      <4>2. k = a % limit
        BY <2>1
      <4> HIDE DEF a
      <4>3. k = IF a < limit THEN a ELSE a - limit
        BY <1>1, <4>1, <4>2, ModOnce
      <4>4. k = IF i > start THEN a - limit ELSE a
        BY <1>1, <4>1, <4>3
      <4> QED
        BY <4>1, <4>4 DEF a
    <3> DEFINE old == Ring(limit, total, start)[i]
               next == Ring(limit, total + n, st)[i]
    <3>3. old = IF i > start THEN total - limit + i - start ELSE total + i - start
      BY DEF Ring
    <3>4. next = IF i > st THEN total + n - limit + i - st ELSE total + n + i - st
      BY <1>1, <1>5 DEF Ring
    <3>5. limit \in Nat /\ start \in Nat /\ start < limit /\ n < limit
      BY <1>1
    <3> SUFFICES k \in Nat /\ (IF k < n THEN total + k + 1 ELSE old) = next
      OBVIOUS
    <3> HIDE DEF old, next
    <3>6. k \in Nat
      BY <3>2, <3>5
    <3>7. CASE start + n < limit
      BY <3>1, <3>2, <3>3, <3>4, <3>5, <3>6, <3>7
    <3>8. CASE start + n >= limit
      BY <3>1, <3>2, <3>3, <3>4, <3>5, <3>6, <3>8
    <3> QED
      BY <3>5, <3>6, <3>7, <3>8
  <2>3. k < n => p[k + 1] = total + k + 1
    <3>1. k < n => k + 1 \in 1..n
      BY <2>2
    <3>2. k < n => p[k + 1] = total + (k + 1)
      BY <1>2, <3>1
    <3> QED
      BY <2>2, <3>2
  <2>4. (IF k < n THEN p[k + 1] ELSE b.buf[i]) = Ring(limit, total + n, st)[i]
    BY <1>1, <2>2, <2>3
  <2> QED
    BY <2>4, Zenon DEF k
<1>7. new = Ring(limit, total + n, st)
  <2>1. new = [i \in 1..limit |-> Ring(limit, total + n, st)[i]]
    <3> HIDE DEF limit, start, st, p, at
    <3> QED
      BY <1>6
  <2>2. Ring(limit, total + n, st) = [i \in 1..limit |-> Ring(limit, total + n, st)[i]]
    <3> HIDE DEF limit, start, st
    <3> QED
      BY DEF Ring
  <2> HIDE DEF new, limit, start, st
  <2> QED
    BY <2>1, <2>2
<1> HIDE DEF new
<1> QED
  BY <1>4, <1>5, <1>7

\* A ring that begins at its first place is a run.
LEMMA RingZero ==
  ASSUME NEW limit \in Nat, NEW total \in Nat
  PROVE  Ring(limit, total, 0) = Run(total - limit, limit)
<1>1. \A i \in 1..limit : (IF i > 0 THEN total - limit + i - 0 ELSE total + i - 0) = total - limit + i
  OBVIOUS
<1> QED
  BY <1>1 DEF Ring, Run

\* There is one empty run.
LEMMA RunNone ==
  ASSUME NEW from \in Int, NEW to \in Int
  PROVE  Run(from, 0) = Run(to, 0)
<1>1. 1..0 = {}
  OBVIOUS
<1>2. [i \in {} |-> from + i] = [i \in {} |-> to + i]
  OBVIOUS
<1> QED
  BY <1>1, <1>2 DEF Run

\* What was written and what is written next is a run from the first byte.
LEMMA RunsFromZero ==
  ASSUME NEW m \in Nat, NEW n \in Nat
  PROVE  Run(0, m) \o Run(m, n) = Run(0, m + n)
<1>1. 0 \in Int /\ 0 + m = m
  OBVIOUS
<1>2. Run(0, m) \o Run(0 + m, n) = Run(0, m + n)
  BY <1>1, RunConcat
<1> QED
  BY <1>1, <1>2

\* The first m bytes of a run.
LEMMA RunFirst ==
  ASSUME NEW from \in Int, NEW n \in Nat, NEW m \in Nat, m <= n
  PROVE  SubSeq(Run(from, n), 1, m) = Run(from, m)
<1>1. 0 \in Nat /\ 0 <= m /\ from + 0 = from /\ m - 0 = m /\ 0 + 1 = 1
  OBVIOUS
<1>2. SubSeq(Run(from, n), 0 + 1, m) = Run(from + 0, m - 0)
  BY <1>1, RunSub
<1> QED
  BY <1>1, <1>2

\* The last m bytes of a run.
LEMMA RunLast ==
  ASSUME NEW from \in Int, NEW n \in Nat, NEW m \in Nat, m <= n
  PROVE  SubSeq(Run(from, n), n - m + 1, n) = Run(from + n - m, m)
<1> DEFINE i == n - m
<1>1. i \in Nat /\ i <= n /\ n <= n
  OBVIOUS
<1> HIDE DEF i
<1>2. SubSeq(Run(from, n), i + 1, n) = Run(from + i, n - i)
  BY <1>1, RunSub
<1>3. from + i = from + n - m /\ n - i = m
  BY DEF i
<1> QED
  BY <1>2, <1>3 DEF i

\* The type and length of a run from the first byte.
LEMMA RunZeroIs ==
  ASSUME NEW n \in Nat
  PROVE  Run(0, n) \in Seq(Int) /\ Len(Run(0, n)) = n
<1>1. 0 \in Int
  OBVIOUS
<1> QED
  BY <1>1, RunIs

\* The first bytes: Write of a buffer that keeps the head.
LEMMA HeadKept ==
  ASSUME NEW b \in Buffers, NEW n \in Nat, BufferInv(b, FALSE)
  PROVE  b.buf \o SubSeq(Run(b.total, n), 1, Less(n, b.limit - Len(b.buf))) = Run(0, Less(b.limit, b.total + n))
<1> DEFINE L == b.limit
           T == b.total
           m == Less(n, L - Len(b.buf))
<1> SUFFICES b.buf \o SubSeq(Run(T, n), 1, m) = Run(0, Less(L, T + n))
  OBVIOUS
<1>1. L \in Nat /\ T \in Nat /\ b.buf = Run(0, Less(L, T))
  BY DEF Buffers, BufferInv
<1>2. Less(L, T) \in Nat /\ Len(b.buf) = Less(L, T)
  <2> DEFINE k == Less(L, T)
  <2>1. k \in Nat
    BY <1>1 DEF Less
  <2> HIDE DEF k
  <2>2. Len(Run(0, k)) = k
    BY <2>1, RunZeroIs
  <2> QED
    BY <1>1, <2>1, <2>2 DEF k
<1>3. m \in Nat /\ m <= n /\ (T <= L => T + m = Less(L, T + n)) /\ (T > L => m = 0)
  BY <1>1, <1>2 DEF Less
<1> HIDE DEF L, T, m
<1>4. SubSeq(Run(T, n), 1, m) = Run(T, m)
  <2>1. T \in Int
    BY <1>1
  <2> QED
    BY <1>3, <2>1, RunFirst
<1>5. CASE T <= L
  <2>1. Less(L, T) = T
    BY <1>1, <1>5 DEF Less
  <2>2. Run(0, T) \o Run(T, m) = Run(0, T + m)
    BY <1>1, <1>3, RunsFromZero
  <2> QED
    BY <1>1, <1>3, <1>4, <1>5, <2>1, <2>2
<1>6. CASE T > L
  <2>1. Less(L, T) = L /\ Less(L, T + n) = L /\ L + 0 = L /\ 0 \in Nat /\ L \in Int /\ T \in Int
    BY <1>1, <1>6 DEF Less
  <2>2. Run(0, L) \o Run(L, 0) = Run(0, L + 0)
    BY <1>1, <2>1, RunsFromZero
  <2>3. Run(T, m) = Run(L, 0)
    BY <1>3, <1>6, <2>1, RunNone
  <2> QED
    BY <1>1, <1>4, <2>1, <2>2, <2>3
<1>7. T <= L \/ T > L
  BY <1>1
<1> QED
  BY <1>5, <1>6, <1>7

\* A write that fills the ring.
LEMMA FilledRing ==
  ASSUME NEW b \in Buffers, NEW n \in Nat, n < b.limit, ~b.full, BufferInv(b, TRUE), b.total + n > b.limit
  PROVE  LET d == [b EXCEPT !.total = @ + n]
             c == Filled(d, Run(b.total, n))
         IN  c \in Buffers /\ c.limit = b.limit /\ c.total = b.total + n /\ BufferInv(c, TRUE)
<1> DEFINE L == b.limit
           T == b.total
           fill == L - T
           d == [b EXCEPT !.total = T + n]
           e == [d EXCEPT !.buf = Ring(L, L, 0), !.full = TRUE, !.start = 0]
           st == (0 + (n - fill)) % L
           c == [e EXCEPT !.buf = Ring(L, L + (n - fill), st), !.start = st]
<1>1. L \in Nat \ {0} /\ T \in Nat /\ T <= L /\ b.buf = Run(0, T)
  BY DEF Buffers, BufferInv
<1>2. Len(b.buf) = T
  BY <1>1, RunZeroIs
<1>3. fill \in Nat /\ fill <= n /\ n - fill \in Nat /\ n - fill < L /\ L + (n - fill) = T + n /\ T + fill = L
  BY <1>1
<1>4. b.buf \o SubSeq(Run(T, n), 1, fill) = Ring(L, L, 0)
  <2> HIDE DEF L, T, fill
  <2>1. T \in Int /\ L - L = 0
    BY <1>1
  <2>2. SubSeq(Run(T, n), 1, fill) = Run(T, fill)
    BY <1>3, <2>1, RunFirst
  <2>3. Run(0, T) \o Run(T, fill) = Run(0, T + fill)
    BY <1>1, <1>3, RunsFromZero
  <2>4. Ring(L, L, 0) = Run(L - L, L)
    BY <1>1, RingZero
  <2> QED
    BY <1>1, <1>3, <2>1, <2>2, <2>3, <2>4
<1>5. SubSeq(Run(T, n), fill + 1, Len(Run(T, n))) = Run(L, n - fill)
  <2> HIDE DEF L, T, fill
  <2>1. T \in Int /\ n <= n
    BY <1>1
  <2>2. Len(Run(T, n)) = n
    BY <2>1, RunIs
  <2>3. SubSeq(Run(T, n), fill + 1, n) = Run(T + fill, n - fill)
    BY <1>3, <2>1, RunSub
  <2> QED
    BY <1>3, <2>2, <2>3
<1>6. Filled(d, Run(T, n)) = Wrapped(e, Run(L, n - fill))
  <2>1. d.limit = L /\ d.buf = b.buf
    BY DEF Buffers
  <2>2. Filled(d, Run(T, n)) = Wrapped([d EXCEPT !.buf = b.buf \o SubSeq(Run(T, n), 1, fill), !.full = TRUE, !.start = 0],
                                       SubSeq(Run(T, n), fill + 1, Len(Run(T, n))))
    <3> HIDE DEF d
    <3> QED
      BY <1>2, <2>1 DEF Filled
  <2> HIDE DEF d, fill, L, T
  <2> QED
    BY <1>4, <1>5, <2>2
<1>7. e \in Buffers
  <2> DEFINE r == Ring(L, L, 0)
  <2>1. r \in Seq(Int)
    BY <1>1, RingIs
  <2>2. d \in Buffers
    BY <1>1 DEF Buffers
  <2> SUFFICES [d EXCEPT !.buf = r, !.full = TRUE, !.start = 0] \in Buffers
    OBVIOUS
  <2> HIDE DEF r, d
  <2> QED
    BY <2>1, <2>2 DEF Buffers
<1>8. e.limit = L /\ e.start = 0 /\ e.buf = Ring(L, L, 0) /\ e.total = T + n /\ e.full
  BY <1>1 DEF Buffers
<1>9. st \in Nat /\ st < L /\ Wrapped(e, Run(L, n - fill)) = c
  <2> DEFINE m == n - fill
  <2>1. m \in Nat /\ m < e.limit /\ L \in Nat /\ e.buf = Ring(e.limit, L, e.start) /\ e.start < e.limit
    BY <1>1, <1>3, <1>8
  <2> HIDE DEF e, fill, L, m
  <2>2. /\ (e.start + m) % e.limit \in Nat /\ (e.start + m) % e.limit < e.limit
        /\ Wrapped(e, Run(L, m)) = [e EXCEPT !.buf = Ring(e.limit, L + m, (e.start + m) % e.limit),
                                            !.start = (e.start + m) % e.limit]
    BY <1>7, <2>1, WrappedRing
  <2> QED
    BY <1>8, <2>2 DEF m
<1> HIDE DEF st, fill
<1>10. c \in Buffers /\ c.limit = L /\ c.total = T + n /\ BufferInv(c, TRUE)
  <2>1. Ring(L, L + (n - fill), st) \in Seq(Int)
    <3>1. T + n \in Nat
      BY <1>1
    <3> HIDE DEF L, T
    <3> QED
      BY <1>1, <1>3, <1>9, <3>1, RingIs
  <2>2. /\ c.limit = L /\ c.total = T + n /\ c.full /\ c.start = st /\ c.buf = Ring(L, L + (n - fill), st)
        /\ c \in Buffers
    <3> HIDE DEF e, L, T
    <3> QED
      BY <1>7, <1>8, <1>9, <2>1 DEF Buffers
  <2>3. T + n >= L
    BY <1>1, <1>3
  <2> HIDE DEF c, L, T
  <2> QED
    BY <1>3, <1>9, <2>2, <2>3 DEF BufferInv
<1>11. Filled(d, Run(T, n)) = c
  BY <1>6, <1>9
<1> QED
  BY <1>10, <1>11

\* The paths through Write.
LEMMA KeptCases ==
  ASSUME NEW b, NEW p, NEW tail \in BOOLEAN,
         Len(p) \in Nat, b.limit \in Nat, Len(b.buf) \in Nat, b.full \in BOOLEAN
  PROVE  /\ ~tail => Kept(b, p, tail) = [b EXCEPT !.buf = b.buf \o SubSeq(p, 1, Less(Len(p), b.limit - Len(b.buf)))]
         /\ tail /\ Len(p) >= b.limit => Kept(b, p, tail) =
              [b EXCEPT !.buf = SubSeq(p, Len(p) - b.limit + 1, Len(p)), !.start = 0, !.full = TRUE]
         /\ tail /\ Len(p) < b.limit /\ ~b.full /\ Len(b.buf) + Len(p) <= b.limit =>
              Kept(b, p, tail) = [b EXCEPT !.buf = b.buf \o p]
         /\ tail /\ Len(p) < b.limit /\ ~b.full /\ Len(b.buf) + Len(p) > b.limit => Kept(b, p, tail) = Filled(b, p)
         /\ tail /\ Len(p) < b.limit /\ b.full => Kept(b, p, tail) = Wrapped(b, p)
<1> DEFINE X == b.limit
           Y == Len(p)
           Z == Len(b.buf)
           A == [b EXCEPT !.buf = b.buf \o SubSeq(p, 1, Less(Len(p), b.limit - Len(b.buf)))]
           B == [b EXCEPT !.buf = SubSeq(p, Len(p) - b.limit + 1, Len(p)), !.start = 0, !.full = TRUE]
           C == [b EXCEPT !.buf = b.buf \o p]
<1>1. Kept(b, p, tail) = CASE ~tail -> A
                           [] tail /\ Y >= X -> B
                           [] tail /\ Y < X /\ ~b.full /\ Z + Y <= X -> C
                           [] tail /\ Y < X /\ ~b.full /\ Z + Y > X -> Filled(b, p)
                           [] OTHER -> Wrapped(b, p)
  BY Zenon DEF Kept
<1>2. X \in Nat /\ Y \in Nat /\ Z \in Nat
  OBVIOUS
<1> SUFFICES /\ ~tail => Kept(b, p, tail) = A
             /\ tail /\ Y >= X => Kept(b, p, tail) = B
             /\ tail /\ Y < X /\ ~b.full /\ Z + Y <= X => Kept(b, p, tail) = C
             /\ tail /\ Y < X /\ ~b.full /\ Z + Y > X => Kept(b, p, tail) = Filled(b, p)
             /\ tail /\ Y < X /\ b.full => Kept(b, p, tail) = Wrapped(b, p)
  OBVIOUS
<1> HIDE DEF A, B, C, X, Y, Z
<1> QED
  BY <1>1, <1>2

\* Whatever its size, a write leaves the buffer as the fields say.
LEMMA KeptIsExact ==
  ASSUME NEW b \in Buffers, NEW tail \in BOOLEAN, NEW n \in Nat, BufferInv(b, tail)
  PROVE  LET d == [b EXCEPT !.total = @ + n]
             c == Kept(d, Run(b.total, n), tail)
         IN  c \in Buffers /\ c.limit = b.limit /\ c.total = b.total + n /\ BufferInv(c, tail)
<1> DEFINE L == b.limit
           T == b.total
           p == Run(T, n)
           d == [b EXCEPT !.total = T + n]
           c == Kept(d, p, tail)
<1>1. L \in Nat \ {0} /\ T \in Nat /\ T \in Int /\ T + n \in Nat
  BY DEF Buffers
<1>2. Len(p) = n
  <2> HIDE DEF T
  <2> QED
    BY <1>1, RunIs
<1>3. d \in Buffers /\ d.limit = L /\ d.buf = b.buf /\ d.start = b.start /\ d.full = b.full /\ d.total = T + n
  BY <1>1 DEF Buffers
<1> SUFFICES c \in Buffers /\ c.limit = L /\ c.total = T + n /\ BufferInv(c, tail)
  OBVIOUS
<1>0. /\ ~tail => c = [d EXCEPT !.buf = d.buf \o SubSeq(p, 1, Less(n, d.limit - Len(d.buf)))]
      /\ tail /\ n >= d.limit => c = [d EXCEPT !.buf = SubSeq(p, n - d.limit + 1, n), !.start = 0, !.full = TRUE]
      /\ tail /\ n < d.limit /\ ~d.full /\ Len(d.buf) + n <= d.limit => c = [d EXCEPT !.buf = d.buf \o p]
      /\ tail /\ n < d.limit /\ ~d.full /\ Len(d.buf) + n > d.limit => c = Filled(d, p)
      /\ tail /\ n < d.limit /\ d.full => c = Wrapped(d, p)
  <2> HIDE DEF d, p
  <2>1. d.limit \in Nat /\ d.full \in BOOLEAN /\ Len(d.buf) \in Nat
    BY <1>3, LenProperties DEF Buffers
  <2>2. Len(p) \in Nat
    BY <1>2
  <2> QED
    BY <1>2, <2>1, <2>2, KeptCases, Zenon
<1>4. CASE ~tail
  <2> DEFINE s == Run(0, Less(L, T + n))
  <2>1. s \in Seq(Int)
    <3>1. Less(L, T + n) \in Nat
      BY <1>1 DEF Less
    <3> HIDE DEF L, T
    <3> QED
      BY <3>1, RunZeroIs
  <2>2. b.buf \o SubSeq(Run(b.total, n), 1, Less(n, b.limit - Len(b.buf))) = Run(0, Less(b.limit, b.total + n))
    BY <1>4, HeadKept
  <2>3. c = [d EXCEPT !.buf = s]
    <3> HIDE DEF d, p, c
    <3>1. c = [d EXCEPT !.buf = b.buf \o SubSeq(p, 1, Less(n, L - Len(b.buf)))]
      BY <1>0, <1>3, <1>4
    <3> QED
      BY <2>2, <3>1 DEF p
  <2>4. ~b.full /\ b.start = 0
    BY <1>4 DEF BufferInv
  <2> HIDE DEF s, c, d
  <2>5. c \in Buffers /\ c.limit = L /\ c.total = T + n /\ c.buf = s /\ ~c.full /\ c.start = 0
    BY <1>3, <2>1, <2>3, <2>4 DEF Buffers
  <2> QED
    BY <1>4, <2>5 DEF BufferInv, s
<1>5. CASE tail /\ n >= L
  <2> DEFINE r == Ring(L, T + n, 0)
  <2>1. r \in Seq(Int)
    <3> HIDE DEF L, T
    <3> QED
      BY <1>1, RingIs
  <2>2. SubSeq(p, n - L + 1, n) = r
    <3> HIDE DEF L, T
    <3>1. SubSeq(Run(T, n), n - L + 1, n) = Run(T + n - L, L)
      BY <1>1, <1>5, RunLast
    <3>2. r = Run((T + n) - L, L)
      BY <1>1, RingZero
    <3>3. (T + n) - L = T + n - L
      BY <1>1
    <3> QED
      BY <3>1, <3>2, <3>3
  <2>3. c = [d EXCEPT !.buf = r, !.start = 0, !.full = TRUE]
    <3> HIDE DEF d, p, r, c
    <3> QED
      BY <1>0, <1>3, <1>5, <2>2
  <2> HIDE DEF r, c, d
  <2>4. c \in Buffers /\ c.limit = L /\ c.total = T + n /\ c.buf = r /\ c.full /\ c.start = 0
    BY <1>3, <2>1, <2>3 DEF Buffers
  <2>5. c.start < c.limit /\ c.total >= c.limit
    BY <1>1, <1>5, <2>4
  <2> QED
    BY <1>5, <2>4, <2>5 DEF BufferInv, r
<1>6. CASE tail /\ n < L /\ ~b.full
  <2>1. b.start = 0 /\ T <= L /\ b.buf = Run(0, T)
    BY <1>6 DEF BufferInv
  <2>2. Len(b.buf) = T
    <3> HIDE DEF T
    <3> QED
      BY <1>1, <2>1, RunZeroIs
  <2>3. CASE T + n <= L
    <3> DEFINE s == Run(0, T + n)
    <3>1. s \in Seq(Int) /\ b.buf \o p = s
      <4> HIDE DEF T
      <4> QED
        BY <1>1, <2>1, RunZeroIs, RunsFromZero
    <3>2. c = [d EXCEPT !.buf = s]
      <4> HIDE DEF d, p, s, c
      <4> QED
        BY <1>0, <1>3, <1>6, <2>2, <2>3, <3>1
    <3> HIDE DEF c, d, s
    <3>3. c \in Buffers /\ c.limit = L /\ c.total = T + n /\ c.buf = s /\ ~c.full /\ c.start = 0
      BY <1>3, <1>6, <2>1, <3>1, <3>2 DEF Buffers
    <3> QED
      BY <1>6, <2>3, <3>3 DEF BufferInv, s
  <2>4. CASE T + n > L
    <3>1. c = Filled(d, p)
      <4> HIDE DEF d, p, c
      <4> QED
        BY <1>0, <1>3, <1>6, <2>2, <2>4
    <3>2. LET f == Filled([b EXCEPT !.total = @ + n], Run(b.total, n))
          IN  f \in Buffers /\ f.limit = b.limit /\ f.total = b.total + n /\ BufferInv(f, TRUE)
      <4>1. BufferInv(b, TRUE)
        BY <1>6
      <4> QED
        BY <1>6, <2>4, <4>1, FilledRing
    <3>3. tail = TRUE
      BY <1>6
    <3> HIDE DEF c
    <3> QED
      BY <3>1, <3>2, <3>3
  <2> QED
    BY <1>1, <2>3, <2>4
<1>7. CASE tail /\ n < L /\ b.full
  <2> DEFINE st == (d.start + n) % d.limit
             r == Ring(d.limit, T + n, st)
  <2>1. b.start < L /\ T >= L /\ b.buf = Ring(L, T, b.start)
    BY <1>7 DEF BufferInv
  <2>2. c = Wrapped(d, p)
    <3> HIDE DEF d, p, c
    <3> QED
      BY <1>0, <1>3, <1>7
  <2>3. st \in Nat /\ st < d.limit /\ Wrapped(d, p) = [d EXCEPT !.buf = r, !.start = st]
    <3> HIDE DEF d, T
    <3>1. d.buf = Ring(d.limit, T, d.start) /\ d.start < d.limit /\ n < d.limit
      BY <1>3, <1>7, <2>1
    <3> QED
      BY <1>1, <1>3, <3>1, WrappedRing, Zenon
  <2> HIDE DEF st, c
  <2>4. r \in Seq(Int)
    <3> DEFINE l == d.limit
    <3>1. l \in Nat
      BY <1>1, <1>3
    <3> HIDE DEF l, T
    <3>2. Ring(l, T + n, st) \in Seq(Int)
      BY <1>1, <2>3, <3>1, RingIs
    <3> QED
      BY <3>2 DEF l
  <2> HIDE DEF r, d
  <2>5. c \in Buffers /\ c.limit = L /\ c.total = T + n /\ c.buf = r /\ c.full /\ c.start = st
    BY <1>3, <1>7, <2>2, <2>3, <2>4 DEF Buffers
  <2>6. c.start < c.limit /\ c.total >= c.limit
    BY <1>1, <1>3, <2>1, <2>3, <2>5
  <2>7. c.buf = Ring(c.limit, c.total, c.start)
    BY <1>3, <2>5 DEF r
  <2> QED
    BY <1>7, <2>5, <2>6, <2>7 DEF BufferInv
<1> QED
  <2>1. n >= L \/ n < L
    BY <1>1
  <2> QED
    BY <1>4, <1>5, <1>6, <1>7, <2>1

-----------------------------------------------------------------------------
(* What Bytes and finishOutput make of the buffer.                         *)

OneBuffer ==
  /\ OutputRequest(oreq) /\ cb \in Buffers /\ cb.limit = oreq.max + UTFMax - 1 /\ cb.total <= Len(oreq.stream)
  /\ BufferInv(cb, oreq.tail)

\* Bytes returns the first or the last bytes of the stream, unrolling the ring.
LEMMA BytesAreTheEdge ==
  ASSUME OneBuffer
  PROVE  BufferKeepsTheEdge
<1> DEFINE L == cb.limit
           T == cb.total
           n == Less(L, T)
<1>1. L \in Nat \ {0} /\ T \in Nat /\ cb.start \in Nat /\ oreq.tail \in BOOLEAN /\ cb.full \in BOOLEAN
  BY DEF OneBuffer, Buffers, OutputRequest
<1>2. n \in Nat /\ (T <= L => n = T) /\ (T >= L => n = L) /\ T - T = 0
  BY <1>1 DEF Less
<1> HIDE DEF n
<1>3. CASE ~oreq.tail
  <2>1. cb.buf = Run(0, n)
    BY <1>3 DEF OneBuffer, BufferInv, n
  <2>2. Bytes(cb) = Run(0, n)
    BY <1>3, <2>1 DEF Bytes
  <2>3. Len(cb.buf) = n
    BY <1>2, <2>1, RunZeroIs
  <2> QED
    BY <1>3, <2>2, <2>3, Zenon DEF BufferKeepsTheEdge, IsTruncated, n
<1>4. CASE oreq.tail /\ ~cb.full
  <2>1. T <= L /\ cb.buf = Run(0, T)
    BY <1>4 DEF OneBuffer, BufferInv
  <2>2. n = T /\ T - n = 0
    BY <1>2, <2>1
  <2>3. Bytes(cb) = Run(T - n, n)
    BY <1>4, <2>1, <2>2 DEF Bytes
  <2>4. Len(cb.buf) = n
    BY <1>2, <2>1, <2>2, RunZeroIs
  <2> QED
    BY <1>4, <2>3, <2>4, Zenon DEF BufferKeepsTheEdge, IsTruncated, n
<1>5. CASE oreq.tail /\ cb.full
  <2>1. cb.start < L /\ T >= L /\ cb.buf = Ring(L, T, cb.start)
    BY <1>5 DEF OneBuffer, BufferInv
  <2>2. n = L
    BY <1>2, <2>1
  <2> DEFINE st == cb.start
  <2>3. st \in Nat /\ L \in Nat /\ T \in Nat /\ st < L
    BY <1>1, <2>1
  <2>4. Len(cb.buf) = L
    <3> HIDE DEF L, T, st
    <3>1. Len(Ring(L, T, st)) = L
      BY <2>3, RingIs
    <3> QED
      BY <2>1, <3>1 DEF st
  <2>5. Bytes(cb) = Run(T - n, n)
    <3>1. CASE st = 0
      <4>1. Bytes(cb) = Ring(L, T, 0)
        BY <2>1, <3>1 DEF Bytes
      <4> HIDE DEF L, T
      <4>2. Ring(L, T, 0) = Run(T - L, L)
        BY <2>3, RingZero
      <4> QED
        BY <2>2, <4>1, <4>2
    <3>2. CASE st # 0
      <4>1. Bytes(cb) = SubSeq(Ring(L, T, st), st + 1, L) \o SubSeq(Ring(L, T, st), 1, st)
        BY <1>5, <2>1, <2>4, <3>2 DEF Bytes
      <4> HIDE DEF L, T, st
      <4>2. SubSeq(Ring(L, T, st), st + 1, L) \o SubSeq(Ring(L, T, st), 1, st) = Run(T - L, L)
        BY <2>3, RingInOrder
      <4> QED
        BY <2>2, <4>1, <4>2
    <3> QED
      BY <3>1, <3>2
  <2>6. Len(cb.buf) = n
    BY <2>2, <2>4
  <2> QED
    BY <1>5, <2>5, <2>6, Zenon DEF BufferKeepsTheEdge, IsTruncated, n
<1> QED
  BY <1>1, <1>3, <1>4, <1>5

\* In text a character begins at most UTFMax bytes back.
LEMMA CharBefore ==
  ASSUME NEW r, OutputRequest(r), NEW i \in 1..Len(r.stream)
  PROVE  \E j \in 1..i : i - j < UTFMax /\ r.stream[j] = "head"
BY Zenon DEF OutputRequest

\* Some character begins, or the output ends, within the bytes that fit.
LEMMA BestEdgeIs ==
  ASSUME NEW r, OutputRequest(r), NEW t \in 0..Len(r.stream)
  PROVE  LET e == BestEdge(r, t)
         IN  e \in Edges(r, t) /\ \A j \in Edges(r, t) : IF r.tail THEN e <= j ELSE e >= j
<1> DEFINE E == Edges(r, t)
<1>1. r.max \in Nat /\ r.tail \in BOOLEAN /\ Len(r.stream) \in Nat /\ t \in Nat
  BY LenProperties DEF OutputRequest
<1>2. E \in SUBSET (0..t)
  BY DEF Edges
<1>3. E # {}
  <2>1. CASE r.tail \/ t <= r.max
    <3>1. t \in E
      BY <1>1, <2>1 DEF Edges
    <3> QED
      BY <3>1
  <2>2. CASE ~r.tail /\ t > r.max
    <3>1. 1 \in 1..Len(r.stream) /\ \A j \in 1..1 : j = 1
      BY <1>1, <2>2
    <3>2. r.stream[1] = "head"
      BY <3>1 DEF OutputRequest
    <3>3. 0 \in E
      BY <1>1, <2>2, <3>2 DEF Edges
    <3> QED
      BY <3>3
  <2> QED
    BY <1>1, <2>1, <2>2
<1>4. \E i \in E : \A j \in E : IF r.tail THEN i <= j ELSE i >= j
  <2> HIDE DEF E
  <2>1. CASE r.tail
    <3>1. E \in SUBSET Nat
      BY <1>2
    <3> QED
      BY <1>3, <2>1, <3>1, LeastNat
  <2>2. CASE ~r.tail
    BY <1>1, <1>2, <1>3, <2>2, GreatestNat
  <2> QED
    BY <1>1, <2>1, <2>2
<1> QED
  BY <1>4, Zenon DEF BestEdge

\* truncateToLimit finds the best edge: the first bytes, ...
LEMMA HeadCutIs ==
  ASSUME OutputRequest(oreq), ~oreq.tail, oreq.max > 0, NEW t \in 0..Len(oreq.stream),
         NEW n \in Nat, n <= t, n > oreq.max
  PROVE  HeadCut(Run(0, n), oreq.max) = BestEdge(oreq, t)
<1> DEFINE m == oreq.max
           e == BestEdge(oreq, t)
           s == Run(0, n)
           E == Edges(oreq, t)
           P(c) == IsHeadCut(s, m, c)
           S == (m - UTFMax + 1)..m
<1>1. m \in Nat /\ Len(oreq.stream) \in Nat /\ t \in Nat
  BY LenProperties DEF OutputRequest
<1>2. e \in E /\ \A j \in E : e >= j
  BY BestEdgeIs
<1>3. \A i \in 1..n : BeginsChar(s, i) <=> oreq.stream[i] = "head"
  <2>1. \A i \in 1..n : s[i] = i
    BY DEF Run
  <2> HIDE DEF s
  <2> QED
    BY <2>1 DEF BeginsChar
<1>4. \A i \in 0..m : i \in E <=> oreq.stream[i + 1] = "head"
  BY <1>1 DEF Edges
<1>5. e \in 0..m
  BY <1>1, <1>2 DEF Edges
<1>6. e >= m - UTFMax + 1
  <2> DEFINE i == m + 1
  <2>1. i \in 1..Len(oreq.stream)
    BY <1>1
  <2> HIDE DEF i
  <2>2. PICK j \in 1..i : i - j < UTFMax /\ oreq.stream[j] = "head"
    BY <2>1, CharBefore
  <2>3. j - 1 \in 0..m /\ j - 1 + 1 = j /\ m + 1 - j < UTFMax
    BY <1>1, <2>2 DEF i
  <2>4. j - 1 \in E
    BY <1>4, <2>2, <2>3
  <2>5. e >= j - 1
    BY <1>2, <2>4
  <2> HIDE DEF e, m
  <2> QED
    BY <1>1, <1>5, <2>3, <2>5, OutputAssumption
<1> HIDE DEF e, E, m, s
<1>7. \A i \in 0..m : i + 1 \in 1..n
  BY <1>1, <1>5 DEF m
<1>8. \A i \in 0..m : BeginsChar(s, i + 1) <=> i \in E
  BY <1>3, <1>4, <1>7
<1>9. e \in S /\ P(e)
  <2>1. e \in S
    BY <1>1, <1>5, <1>6, OutputAssumption
  <2>2. BeginsChar(s, e + 1)
    BY <1>2, <1>5, <1>8
  <2>3. ASSUME NEW d \in (e + 1)..m PROVE d > 0 /\ ~BeginsChar(s, d + 1)
    <3>1. d \in 0..m /\ d > e /\ d > 0
      BY <1>1, <1>5
    <3>2. d \notin E
      BY <1>2, <1>5, <3>1
    <3> QED
      BY <1>8, <3>1, <3>2
  <2> QED
    BY <2>1, <2>2, <2>3 DEF IsHeadCut
<1>10. ASSUME NEW c \in S, P(c) PROVE c = e
  <2>1. c \in Int /\ c <= m /\ e \in Int /\ e <= m
    BY <1>1, <1>5, OutputAssumption
  <2>2. ~(c < e)
    <3>1. SUFFICES ASSUME c < e PROVE FALSE
      OBVIOUS
    <3>2. e \in (c + 1)..m
      BY <1>1, <2>1, <3>1
    <3>3. ~BeginsChar(s, e + 1)
      BY <1>10, <3>2 DEF IsHeadCut
    <3> QED
      BY <1>2, <1>5, <1>8, <3>3
  <2>3. ~(c > e)
    <3>1. SUFFICES ASSUME c > e PROVE FALSE
      OBVIOUS
    <3>2. c \in 0..m /\ ~(c <= 0) /\ c # m - UTFMax + 1
      BY <1>1, <1>5, <1>6, <2>1, <3>1, OutputAssumption
    <3>3. BeginsChar(s, c + 1)
      BY <1>10, <3>2 DEF IsHeadCut
    <3>4. c \in E
      BY <1>8, <3>2, <3>3
    <3> QED
      BY <1>2, <2>1, <3>1, <3>4
  <2> QED
    BY <2>1, <2>2, <2>3
<1>11. HeadCut(s, m) = e
  <2>1. HeadCut(s, m) = CHOOSE c \in S : P(c)
    BY Zenon DEF HeadCut
  <2> HIDE DEF P, S
  <2>2. (CHOOSE c \in S : P(c)) = e
    BY <1>9, <1>10, Zenon
  <2> QED
    BY <2>1, <2>2
<1> QED
  BY <1>11 DEF s, m, e

\* ... and the last.
LEMMA TailCutIs ==
  ASSUME OutputRequest(oreq), oreq.tail, oreq.max > 0, NEW t \in 0..Len(oreq.stream),
         NEW n \in Nat, n <= t, n > oreq.max
  PROVE  TailCut(Run(t - n, n), oreq.max) = BestEdge(oreq, t) - (t - n)
<1> DEFINE m == oreq.max
           e == BestEdge(oreq, t)
           s == Run(t - n, n)
           E == Edges(oreq, t)
           from == n - m
           g == e - (t - n)
           P(c) == IsTailCut(s, from, c)
           S == from..(from + UTFMax - 1)
<1>1. m \in Nat /\ Len(oreq.stream) \in Nat /\ t \in Nat /\ t - n \in Nat
  BY LenProperties DEF OutputRequest
<1>2. e \in E /\ \A j \in E : e <= j
  BY BestEdgeIs
<1>3. Len(s) = n /\ \A c \in 0..(n - 1) : BeginsChar(s, c + 1) <=> oreq.stream[t - n + c + 1] = "head"
  <2>1. Len(s) = n /\ \A i \in 1..n : s[i] = t - n + i
    <3>1. t - n \in Int
      BY <1>1
    <3> QED
      BY <3>1, RunIs
  <2> HIDE DEF s
  <2>2. \A c \in 0..(n - 1) : c + 1 \in 1..n /\ t - n + (c + 1) = t - n + c + 1
    BY <1>1
  <2>3. \A c \in 0..(n - 1) : s[c + 1] = t - n + c + 1
    BY <2>1, <2>2
  <2> QED
    BY <2>1, <2>3 DEF BeginsChar
<1>4. \A i \in (t - m)..t : i \in E <=> (i = t \/ oreq.stream[i + 1] = "head")
  BY <1>1 DEF Edges
<1>5. e \in (t - m)..t
  BY <1>1, <1>2 DEF Edges
<1>6. e <= t - m + UTFMax - 1
  <2> DEFINE q == t - m + UTFMax - 1
  <2>1. CASE q >= t
    BY <1>1, <1>5, <2>1, OutputAssumption
  <2>2. CASE q < t
    <3>1. q + 1 \in 1..Len(oreq.stream)
      BY <1>1, <2>2, OutputAssumption
    <3> DEFINE i == q + 1
    <3> HIDE DEF i
    <3>2. PICK j \in 1..i : i - j < UTFMax /\ oreq.stream[j] = "head"
      BY <3>1, CharBefore DEF i
    <3>3. j - 1 \in (t - m)..t /\ j - 1 + 1 = j /\ j - 1 <= q
      BY <1>1, <2>2, <3>2, OutputAssumption DEF i
    <3>4. j - 1 \in E
      BY <1>4, <3>2, <3>3
    <3>5. e <= j - 1
      BY <1>2, <3>4
    <3> HIDE DEF e, q
    <3>6. q \in Int
      BY <1>1, OutputAssumption DEF q
    <3>7. e <= q
      BY <1>1, <1>5, <3>3, <3>5, <3>6
    <3> QED
      BY <3>7 DEF q
  <2>3. q \in Int
    BY <1>1, OutputAssumption
  <2> HIDE DEF q
  <2> QED
    BY <1>1, <2>1, <2>2, <2>3
<1> HIDE DEF e, E, m, s
<1>7. \A c \in from..n : t - n + c \in (t - m)..t /\ (c < n <=> t - n + c # t) /\ (c < n => c \in 0..(n - 1))
  BY <1>1 DEF m
<1>8. \A c \in from..n : t - n + c \in E <=> (c >= n \/ BeginsChar(s, c + 1))
  <2> SUFFICES ASSUME NEW c \in from..n PROVE t - n + c \in E <=> (c >= n \/ BeginsChar(s, c + 1))
    OBVIOUS
  <2>1. t - n + c \in E <=> (t - n + c = t \/ oreq.stream[t - n + c + 1] = "head")
    BY <1>4, <1>7
  <2>2. c \in Int
    BY <1>1
  <2>3. CASE c < n
    BY <1>3, <1>7, <2>1, <2>2, <2>3
  <2>4. CASE c >= n
    BY <1>7, <2>1, <2>2, <2>4
  <2> QED
    BY <2>2, <2>3, <2>4
<1>9. g \in from..n /\ t - n + g = e /\ g <= from + UTFMax - 1 /\ g \in Int
  BY <1>1, <1>5, <1>6, OutputAssumption
<1> HIDE DEF g
<1>10. g \in S /\ P(g)
  <2>1. g \in S
    BY <1>1, <1>9, OutputAssumption
  <2>2. g >= n \/ BeginsChar(s, g + 1)
    BY <1>2, <1>8, <1>9
  <2>3. ASSUME NEW d \in from..(g - 1) PROVE d < n /\ ~BeginsChar(s, d + 1)
    <3>1. d \in from..n /\ t - n + d < e /\ d < n
      BY <1>1, <1>9
    <3>2. t - n + d \notin E
      BY <1>1, <1>2, <1>5, <3>1
    <3> QED
      BY <1>8, <3>1, <3>2
  <2> QED
    BY <1>3, <2>1, <2>2, <2>3 DEF IsTailCut
<1>11. ASSUME NEW c \in S, P(c) PROVE c = g
  <2>1. c \in Int /\ c >= from
    BY <1>1, OutputAssumption
  <2>2. ~(c < g)
    <3>1. SUFFICES ASSUME c < g PROVE FALSE
      OBVIOUS
    <3>2. c \in from..n /\ ~(c >= n) /\ c # from + UTFMax - 1
      BY <1>1, <1>9, <2>1, <3>1, OutputAssumption
    <3>3. BeginsChar(s, c + 1)
      BY <1>3, <1>11, <3>2 DEF IsTailCut
    <3>4. t - n + c \in E
      BY <1>8, <3>2, <3>3
    <3>5. e <= t - n + c
      BY <1>2, <3>4
    <3> QED
      BY <1>1, <1>9, <2>1, <3>1, <3>5
  <2>3. ~(c > g)
    <3>1. SUFFICES ASSUME c > g PROVE FALSE
      OBVIOUS
    <3>2. g \in from..(c - 1)
      BY <1>1, <1>9, <2>1, <3>1
    <3>3. g < n /\ ~BeginsChar(s, g + 1)
      BY <1>3, <1>11, <3>2 DEF IsTailCut
    <3> QED
      BY <1>2, <1>8, <1>9, <3>3
  <2> QED
    BY <1>9, <2>1, <2>2, <2>3
<1>12. TailCut(s, m) = g
  <2>1. TailCut(s, m) = CHOOSE c \in S : P(c)
    BY <1>3, Zenon DEF TailCut
  <2> HIDE DEF P, S
  <2>2. (CHOOSE c \in S : P(c)) = g
    BY <1>10, <1>11, Zenon
  <2> QED
    BY <2>1, <2>2
<1> QED
  BY <1>12 DEF s, m, e, g

\* The paths through finishOutput.
LEMMA CutCases ==
  ASSUME NEW s, NEW max \in Nat, NEW tail \in BOOLEAN, Len(s) \in Nat
  PROVE  /\ Len(s) <= max => CutForDecoding(s, max, tail) = s /\ TruncateToLimit(s, max, tail) = s
         /\ Len(s) > max /\ tail => CutForDecoding(s, max, tail) = SubSeq(s, Len(s) - max + 1, Len(s))
         /\ Len(s) > max /\ ~tail => CutForDecoding(s, max, tail) = SubSeq(s, 1, max)
         /\ Len(s) > max /\ max = 0 => TruncateToLimit(s, max, tail) = <<>>
         /\ Len(s) > max /\ max > 0 /\ ~tail => TruncateToLimit(s, max, tail) = SubSeq(s, 1, HeadCut(s, max))
         /\ Len(s) > max /\ max > 0 /\ tail =>
              TruncateToLimit(s, max, tail) = SubSeq(s, TailCut(s, max) + 1, Len(s))
<1> DEFINE n == Len(s)
           A == SubSeq(s, Len(s) - max + 1, Len(s))
           B == SubSeq(s, 1, max)
           C == SubSeq(s, 1, HeadCut(s, max))
           D == SubSeq(s, TailCut(s, max) + 1, Len(s))
<1>1. n \in Nat
  OBVIOUS
<1>2. CutForDecoding(s, max, tail) = CASE n <= max -> s [] n > max /\ tail -> A [] OTHER -> B
  BY Zenon DEF CutForDecoding
<1>3. TruncateToLimit(s, max, tail) =
        CASE n <= max -> s [] n > max /\ max <= 0 -> <<>> [] n > max /\ max > 0 /\ ~tail -> C [] OTHER -> D
  BY Zenon DEF TruncateToLimit
<1> SUFFICES /\ n <= max => CutForDecoding(s, max, tail) = s /\ TruncateToLimit(s, max, tail) = s
             /\ n > max /\ tail => CutForDecoding(s, max, tail) = A
             /\ n > max /\ ~tail => CutForDecoding(s, max, tail) = B
             /\ n > max /\ max = 0 => TruncateToLimit(s, max, tail) = <<>>
             /\ n > max /\ max > 0 /\ ~tail => TruncateToLimit(s, max, tail) = C
             /\ n > max /\ max > 0 /\ tail => TruncateToLimit(s, max, tail) = D
  OBVIOUS
<1> HIDE DEF n, A, B, C, D
<1> QED
  BY <1>1, <1>2, <1>3

\* WholeText, case by case.
LEMMA WholeTextCases ==
  ASSUME NEW r, NEW t, OutputRequest(r)
  PROVE  /\ r.decode => WholeText(r, t) = Run(IF r.tail THEN t - Less(r.max, t) ELSE 0, Less(r.max, t))
         /\ ~r.decode /\ r.tail => WholeText(r, t) = Run(BestEdge(r, t), t - BestEdge(r, t))
         /\ ~r.decode /\ ~r.tail => WholeText(r, t) = Run(0, BestEdge(r, t))
<1> DEFINE A == Run(IF r.tail THEN t - Less(r.max, t) ELSE 0, Less(r.max, t))
           B == Run(BestEdge(r, t), t - BestEdge(r, t))
           C == Run(0, BestEdge(r, t))
<1>1. WholeText(r, t) = CASE r.decode -> A [] ~r.decode /\ r.tail -> B [] OTHER -> C
  BY Zenon DEF WholeText
<1>2. r.decode \in BOOLEAN /\ r.tail \in BOOLEAN
  BY DEF OutputRequest
<1> SUFFICES /\ r.decode => WholeText(r, t) = A
             /\ ~r.decode /\ r.tail => WholeText(r, t) = B
             /\ ~r.decode /\ ~r.tail => WholeText(r, t) = C
  OBVIOUS
<1> HIDE DEF A, B, C
<1> QED
  BY <1>1, <1>2

\* What finishOutput makes of the buffer is the text that is promised.
LEMMA AnswerIsWhole ==
  ASSUME OneBuffer
  PROVE  LET text == IF oreq.decode THEN CutForDecoding(Bytes(cb), oreq.max, oreq.tail)
                     ELSE TruncateToLimit(Bytes(cb), oreq.max, oreq.tail)
         IN  /\ text = WholeText(oreq, cb.total)
             /\ (IsTruncated(cb) \/ Len(Bytes(cb)) > oreq.max) = (Len(text) < cb.total)
<1> DEFINE L == cb.limit
           T == cb.total
           m == oreq.max
           n == Less(L, T)
           s == Bytes(cb)
           e == BestEdge(oreq, T)
           text == IF oreq.decode THEN CutForDecoding(s, m, oreq.tail) ELSE TruncateToLimit(s, m, oreq.tail)
           from == IF oreq.tail THEN T - n ELSE 0
<1>1. /\ L \in Nat /\ T \in Nat /\ m \in Nat /\ L = m + UTFMax - 1 /\ T \in 0..Len(oreq.stream)
      /\ oreq.tail \in BOOLEAN /\ oreq.decode \in BOOLEAN /\ OutputRequest(oreq)
  BY LenProperties DEF OneBuffer, Buffers, OutputRequest
<1>2. s = Run(from, n) /\ IsTruncated(cb) = (T > n)
  BY BytesAreTheEdge, Zenon DEF BufferKeepsTheEdge
<1>3. e \in Edges(oreq, T) /\ \A j \in Edges(oreq, T) : IF oreq.tail THEN e <= j ELSE e >= j
  <2> HIDE DEF T
  <2> QED
    BY <1>1, BestEdgeIs, Zenon
<1>4. WholeText(oreq, T) = IF oreq.decode THEN Run(IF oreq.tail THEN T - Less(m, T) ELSE 0, Less(m, T))
                           ELSE IF oreq.tail THEN Run(e, T - e) ELSE Run(0, e)
  <2> HIDE DEF T
  <2> QED
    BY <1>1, WholeTextCases
<1> SUFFICES text = WholeText(oreq, T) /\ (IsTruncated(cb) \/ Len(s) > m) = (Len(text) < T)
  OBVIOUS
<1> HIDE DEF L, T, m, s
<1>5. n \in Nat /\ n <= T /\ (T <= m => n = T) /\ (T > m => n > m)
  BY <1>1, OutputAssumption DEF Less
<1> HIDE DEF n
<1>6. from \in Int /\ Len(s) = n /\ Len(s) \in Nat
  <2>1. from \in Int
    BY <1>1, <1>5
  <2> HIDE DEF from
  <2> QED
    BY <1>2, <1>5, <2>1, RunIs
<1>7. e \in 0..T /\ IF oreq.tail THEN T - e <= m ELSE e <= m
  BY <1>3 DEF Edges, m
<1>8. /\ n <= m => CutForDecoding(s, m, oreq.tail) = s /\ TruncateToLimit(s, m, oreq.tail) = s
      /\ n > m /\ oreq.tail => CutForDecoding(s, m, oreq.tail) = SubSeq(s, n - m + 1, n)
      /\ n > m /\ ~oreq.tail => CutForDecoding(s, m, oreq.tail) = SubSeq(s, 1, m)
      /\ n > m /\ m = 0 => TruncateToLimit(s, m, oreq.tail) = <<>>
      /\ n > m /\ m > 0 /\ ~oreq.tail => TruncateToLimit(s, m, oreq.tail) = SubSeq(s, 1, HeadCut(s, m))
      /\ n > m /\ m > 0 /\ oreq.tail => TruncateToLimit(s, m, oreq.tail) = SubSeq(s, TailCut(s, m) + 1, n)
  BY <1>1, <1>6, CutCases, Zenon
<1>9. CASE T <= m
  <2>1. n = T /\ from = 0 /\ Less(m, T) = T /\ T - T = 0 /\ T - 0 = T /\ n <= m
    BY <1>1, <1>5, <1>9 DEF Less
  <2>2. text = Run(0, T)
    BY <1>2, <1>8, <2>1
  <2>3. oreq.tail => e = 0
    <3>1. T > 0 => oreq.stream[1] = "head"
      <4>1. T > 0 => 1 \in 1..Len(oreq.stream) /\ \A j \in 1..1 : j = 1
        BY <1>1
      <4> QED
        BY <1>1, <4>1, CharBefore
    <3>2. oreq.tail => 0 \in Edges(oreq, T)
      BY <1>1, <1>9, <3>1 DEF Edges, m
    <3> HIDE DEF e
    <3> QED
      BY <1>1, <1>3, <1>7, <3>2
  <2>4. ~oreq.tail => e = T
    <3>1. ~oreq.tail => T \in Edges(oreq, T)
      BY <1>1, <1>9 DEF Edges, m
    <3> HIDE DEF e
    <3> QED
      BY <1>1, <1>3, <1>7, <3>1
  <2>5. WholeText(oreq, T) = Run(0, T)
    <3> HIDE DEF e
    <3> QED
      BY <1>1, <1>4, <2>1, <2>3, <2>4
  <2>6. Len(text) = T
    BY <1>1, <2>2, RunZeroIs
  <2> HIDE DEF text
  <2>7. ~(T > n) /\ ~(n > m) /\ ~(Len(text) < T)
    BY <1>1, <1>5, <1>9, <2>1, <2>6
  <2>8. ~IsTruncated(cb) /\ ~(Len(s) > m)
    BY <1>2, <1>6, <2>7
  <2> QED
    BY <2>2, <2>5, <2>7, <2>8
<1>10. CASE T > m
  <2>1. n > m
    BY <1>5, <1>10
  <2>2. SUFFICES text = WholeText(oreq, T) /\ Len(text) < T
    BY <1>2, <1>6, <2>1
  <2>3. CASE oreq.decode
    <3>1. Less(m, T) = m /\ T - n + n - m = T - m /\ m <= n
      BY <1>1, <1>5, <1>10, <2>1 DEF Less
    <3>2. CASE oreq.tail
      <4>1. SubSeq(Run(T - n, n), n - m + 1, n) = Run(T - n + n - m, m)
        <5>1. T - n \in Int
          BY <1>1, <1>5
        <5> QED
          BY <1>1, <1>5, <3>1, <5>1, RunLast
      <4>2. text = Run(T - m, m)
        BY <1>2, <1>8, <2>1, <2>3, <3>1, <3>2, <4>1
      <4>3. Len(Run(T - m, m)) = m
        <5>1. T - m \in Int
          BY <1>1
        <5> QED
          BY <1>1, <5>1, RunIs
      <4> HIDE DEF text
      <4> QED
        BY <1>1, <1>4, <1>10, <2>3, <3>1, <3>2, <4>2, <4>3
    <3>3. CASE ~oreq.tail
      <4>1. SubSeq(Run(0, n), 1, m) = Run(0, m)
        <5>1. 0 \in Int
          OBVIOUS
        <5> QED
          BY <1>1, <1>5, <3>1, <5>1, RunFirst
      <4>2. text = Run(0, m)
        BY <1>2, <1>8, <2>1, <2>3, <3>1, <3>3, <4>1
      <4>3. Len(Run(0, m)) = m
        BY <1>1, RunZeroIs
      <4> HIDE DEF text
      <4> QED
        BY <1>1, <1>4, <1>10, <2>3, <3>1, <3>3, <4>2, <4>3
    <3> QED
      BY <1>1, <3>2, <3>3
  <2>4. CASE ~oreq.decode /\ m = 0
    <3>1. text = <<>>
      BY <1>8, <2>1, <2>4
    <3>2. T - T = 0 /\ (oreq.tail => e = T) /\ (~oreq.tail => e = 0)
      <4> HIDE DEF e
      <4> QED
        BY <1>1, <1>7, <2>4
    <3>3. Run(T, 0) = <<>> /\ Run(0, 0) = <<>>
      BY <1>1 DEF Run
    <3>4. WholeText(oreq, T) = <<>>
      <4> HIDE DEF e
      <4> QED
        BY <1>1, <1>4, <2>4, <3>2, <3>3
    <3>5. Len(text) = 0
      BY <3>1
    <3> HIDE DEF text
    <3> QED
      BY <1>1, <1>10, <2>4, <3>1, <3>4, <3>5
  <2>5. CASE ~oreq.decode /\ m > 0 /\ ~oreq.tail
    <3>1. HeadCut(Run(0, n), m) = e
      BY <1>1, <1>5, <2>1, <2>5, HeadCutIs DEF m
    <3>2. e \in Nat /\ e <= n /\ e < T /\ 0 \in Int
      BY <1>1, <1>5, <1>7, <1>10, <2>1, <2>5
    <3> HIDE DEF e
    <3>3. SubSeq(Run(0, n), 1, e) = Run(0, e)
      BY <1>5, <3>2, RunFirst
    <3>4. text = Run(0, e)
      BY <1>2, <1>8, <2>1, <2>5, <3>1, <3>3
    <3>5. Len(Run(0, e)) = e
      BY <3>2, RunZeroIs
    <3> HIDE DEF text
    <3> QED
      BY <1>4, <2>5, <3>2, <3>4, <3>5
  <2>6. CASE ~oreq.decode /\ m > 0 /\ oreq.tail
    <3> DEFINE c == e - (T - n)
    <3>1. TailCut(Run(T - n, n), m) = c
      BY <1>1, <1>5, <2>1, <2>6, TailCutIs DEF m
    <3>2. /\ c \in Nat /\ c <= n /\ n <= n /\ T - n \in Int /\ T - e < T /\ T - e \in Nat /\ e \in Int
          /\ T - n + c = e /\ n - c = T - e
      <4> HIDE DEF e
      <4> QED
        BY <1>1, <1>5, <1>7, <1>10, <2>1, <2>6
    <3> HIDE DEF c, e
    <3>3. SubSeq(Run(T - n, n), c + 1, n) = Run(T - n + c, n - c)
      <4> DEFINE a == T - n
      <4>1. a \in Int /\ c \in Nat /\ n \in Nat /\ c <= n /\ n <= n
        BY <1>5, <3>2
      <4> HIDE DEF a
      <4>2. SubSeq(Run(a, n), c + 1, n) = Run(a + c, n - c)
        BY <4>1, RunSub
      <4> QED
        BY <4>2 DEF a
    <3>4. text = Run(e, T - e)
      BY <1>2, <1>8, <2>1, <2>6, <3>1, <3>2, <3>3
    <3>5. Len(Run(e, T - e)) = T - e
      BY <3>2, RunIs
    <3> HIDE DEF text
    <3> QED
      BY <1>4, <2>6, <3>2, <3>4, <3>5
  <2>7. m = 0 \/ m > 0
    BY <1>1
  <2> QED
    BY <1>1, <2>3, <2>4, <2>5, <2>6, <2>7
<1> QED
  BY <1>1, <1>9, <1>10

\* The parts of the invariant, as the lemmas above take them.
LEMMA OneBufferIs ==
  ASSUME OutputInv
  PROVE  OneBuffer
<1>1. oreq.max \in Nat /\ Len(oreq.stream) \in Nat
  BY LenProperties DEF OutputInv, OutputRequest
<1>2. oreq.max + UTFMax - 1 \in Nat \ {0}
  BY <1>1, OutputAssumption
<1>3. cb \in Buffers /\ cb.limit = oreq.max + UTFMax - 1 /\ cb.total <= Len(oreq.stream)
  BY <1>1, <1>2 DEF OutputInv, Buffers
<1> QED
  BY <1>3 DEF OutputInv, OneBuffer

\* The invariant of the capture of output: a request is text, the fields of the
\* buffer agree with what was written, and the answer, once given, is right.
THEOREM OutputInductive ==
  ASSUME NEW requests, \A r \in requests : OutputRequest(r)
  PROVE  OutputSpec(requests) => []OutputInv
<1>1. ASSUME OutputStarts(requests) PROVE OutputInv
  <2>1. OutputRequest(oreq) /\ cb = NewCappedBuffer(oreq.max) /\ ~oans.done
    BY <1>1 DEF OutputStarts, NoAnswer
  <2>2. oreq.max \in Nat /\ Len(oreq.stream) \in Nat /\ oreq.tail \in BOOLEAN
    BY <2>1, LenProperties DEF OutputRequest
  <2>3. Run(0, 0) = <<>> /\ <<>> \in Seq(Int)
    BY DEF Run
  <2>4. /\ cb.limit = oreq.max + UTFMax - 1 /\ cb.buf = <<>> /\ cb.start = 0 /\ cb.full = FALSE /\ cb.total = 0
        /\ cb \in [limit : {oreq.max + UTFMax - 1}, buf : Seq(Int), start : Nat, full : BOOLEAN,
                   total : 0..Len(oreq.stream)]
    BY <2>1, <2>2, <2>3 DEF NewCappedBuffer
  <2>5. Less(cb.limit, 0) = 0 /\ 0 <= cb.limit
    BY <2>2, <2>4, OutputAssumption DEF Less
  <2>6. BufferInv(cb, oreq.tail)
    BY <2>2, <2>3, <2>4, <2>5 DEF BufferInv
  <2> QED
    BY <2>1, <2>4, <2>6 DEF OutputInv, TextIsWholeCharacters
<1>2. ASSUME OutputInv, [OutputNext]_outVars PROVE OutputInv'
  <2> USE <1>2
  <2>0. OneBuffer
    BY OneBufferIs
  <2>1. oreq.tail \in BOOLEAN /\ Len(oreq.stream) \in Nat
    BY LenProperties DEF OutputInv, OutputRequest
  <2>2. ASSUME NEW n \in 0..MaxPerWrite, CappedWrite(n) PROVE OutputInv'
    <3>1. ~oans.done /\ cb.total + n <= Len(oreq.stream) /\ oreq' = oreq /\ oans' = oans
      BY <2>2 DEF CappedWrite
    <3>2. cb' = Kept([cb EXCEPT !.total = @ + n], Run(cb.total, n), oreq.tail)
      BY <2>2 DEF CappedWrite, Run
    <3>3. n \in Nat /\ cb \in Buffers /\ BufferInv(cb, oreq.tail)
      BY <2>0, OutputAssumption DEF OneBuffer
    <3>4. cb' \in Buffers /\ cb'.limit = cb.limit /\ cb'.total = cb.total + n /\ BufferInv(cb', oreq.tail)
      BY <2>1, <3>2, <3>3, KeptIsExact, Zenon
    <3>5. cb'.limit = oreq.max + UTFMax - 1 /\ cb'.total \in 0..Len(oreq.stream)
      <4>1. cb.limit = oreq.max + UTFMax - 1 /\ cb.total \in Nat
        BY <2>0 DEF OneBuffer, Buffers
      <4> QED
        BY <2>1, <3>1, <3>3, <3>4, <4>1
    <3>6. cb' \in [limit : {oreq.max + UTFMax - 1}, buf : Seq(Int), start : Nat, full : BOOLEAN,
                  total : 0..Len(oreq.stream)]
      BY <3>4, <3>5 DEF Buffers
    <3> QED
      BY <3>1, <3>4, <3>6, Zenon DEF OutputInv, TextIsWholeCharacters
  <2>3. CASE FinishOutput
    <3> DEFINE text == IF oreq.decode THEN CutForDecoding(Bytes(cb), oreq.max, oreq.tail)
                       ELSE TruncateToLimit(Bytes(cb), oreq.max, oreq.tail)
    <3>1. /\ oans'.text = text /\ oans'.truncated = (IsTruncated(cb) \/ Len(Bytes(cb)) > oreq.max)
          /\ oreq' = oreq /\ cb' = cb
      BY <2>3 DEF FinishOutput
    <3>2. text = WholeText(oreq, cb.total) /\ (IsTruncated(cb) \/ Len(Bytes(cb)) > oreq.max) = (Len(text) < cb.total)
      BY <2>0, AnswerIsWhole, Zenon
    <3> HIDE DEF text
    <3>3. oans'.text = WholeText(oreq', cb'.total) /\ oans'.truncated = (Len(oans'.text) < cb'.total)
      BY <3>1, <3>2
    <3> QED
      BY <3>1, <3>3, Zenon DEF OutputInv, TextIsWholeCharacters
  <2>4. CASE UNCHANGED outVars
    <3>1. oreq' = oreq /\ cb' = cb /\ oans' = oans
      BY <2>4 DEF outVars
    <3> QED
      BY <3>1, Zenon DEF OutputInv, TextIsWholeCharacters
  <2> QED
    BY <2>2, <2>3, <2>4 DEF OutputNext
<1> QED
  BY <1>1, <1>2, PTL DEF OutputSpec

\* From the writes of the command to the text of the answer nothing is lost that
\* fits, for every limit, every text and every way it is written in pieces
\* (cappedBuffer, finishOutput, truncateToLimit).
THEOREM OutputExact ==
  ASSUME NEW requests, \A r \in requests : OutputRequest(r)
  PROVE  OutputSpec(requests) => []OutputIsExact
<1>1. OutputInv => OutputIsExact
  BY OneBufferIs, BytesAreTheEdge, Zenon DEF OutputIsExact, OutputInv
<1>2. OutputSpec(requests) => []OutputInv
  BY OutputInductive
<1> QED
  BY <1>1, <1>2, PTL

-----------------------------------------------------------------------------
(* A command run, with any exit codes: what execute reports is what happened. *)

\* execute starts with RunInv: nothing is started and nothing decided.
LEMMA RunInvInit == Init => RunInv
<1>. SUFFICES ASSUME Init PROVE RunInv
  OBVIOUS
<1>. USE ExitCodesAssumption DEF Init, NoResult
<1>1. TypeOK
  BY DEF TypeOK
<1>2. CompletedIsOwnExit /\ SuccessIsNotFailure /\ OutcomeNamesCause
  BY DEF CompletedIsOwnExit, SuccessIsNotFailure, OutcomeNamesCause
<1>3. BeforeStart /\ KilledByWatcher /\ WaitErrIsTrue /\ DeadlineIsSeen
  BY DEF BeforeStart, KilledByWatcher, WaitErrIsTrue, DeadlineIsSeen, NoCode, SignalCode
<1>. QED
  BY <1>1, <1>2, <1>3 DEF RunInv, OutcomeIsTrue

\* Every step of execute, of the kernel and of the command keeps it: the kill and
\* the exit of the shell exclude each other, and the two reads of the context
\* in classifyWait and execute agree on what the watcher saw.
LEMMA RunInvNext == RunInv /\ [Next]_vars => RunInv'
<1>. SUFFICES ASSUME RunInv, [Next]_vars PROVE RunInv'
  OBVIOUS
<1>. USE ExitCodesAssumption
     DEF RunInv, OutcomeIsTrue, TypeOK, CompletedIsOwnExit, SuccessIsNotFailure, OutcomeNamesCause, States,
         BeforeStart, KilledByWatcher, WaitErrIsTrue, DeadlineIsSeen, NoResult, NoCode, SignalCode
<1>1. CASE Refuse
  BY <1>1 DEF Refuse
<1>2. CASE Accept
  BY <1>2 DEF Accept
<1>3. CASE StartFails
  BY <1>3 DEF StartFails
<1>4. CASE Start
  BY <1>4 DEF Start
<1>5. CASE WatcherFires
  <2>1. CASE shell = "alive"
    <3>1. killed' = TRUE
      BY <1>5, <2>1 DEF WatcherFires, KillProcessGroup
    <3>2. /\ pc = "wait" /\ ctx # "live" /\ res = NoResult /\ ~timedOut
          /\ shell' = "zombie" /\ exit' = -1 /\ watcher' = "fired"
          /\ stray' \in {"none", "group", "detached"}
          /\ UNCHANGED <<pc, ctx, waitErr, timedOut, res>>
      BY <1>5, <2>1 DEF WatcherFires, KillProcessGroup
    <3>. QED
      BY <3>1, <3>2
  <2>2. CASE shell # "alive"
    <3>1. killed' = killed
      BY <1>5, <2>2 DEF WatcherFires, KillProcessGroup
    <3>. QED
      BY <1>5, <2>2, <3>1 DEF WatcherFires, KillProcessGroup
  <2>. QED
    BY <2>1, <2>2
<1>6. CASE WaitReaps
  BY <1>6 DEF WaitReaps
<1>7. CASE WaitTakesVerdict
  BY <1>7 DEF WaitTakesVerdict
<1>8. CASE PipesClose
  BY <1>8 DEF PipesClose
<1>9. CASE WaitDelayPasses
  BY <1>9 DEF WaitDelayPasses
<1>10. CASE ClassifyWait
  <2>1. /\ pc = "classify" /\ pc' = "cancelled"
        /\ UNCHANGED <<shell, exit, stray, ctx, watcher, killed, waitErr, res>>
    BY <1>10 DEF ClassifyWait
  <2>2. CASE waitErr \notin {"nil", "waitdelay"} /\ ctx = "deadline"
    <3>1. timedOut' = TRUE
      BY <1>10, <2>2 DEF ClassifyWait
    <3>. QED
      BY <2>1, <2>2, <3>1
  <2>3. CASE ~(waitErr \notin {"nil", "waitdelay"} /\ ctx = "deadline")
    <3>1. timedOut' = FALSE
      BY <1>10, <2>3 DEF ClassifyWait
    <3>. QED
      BY <2>1, <2>3, <3>1
  <2>. QED
    BY <2>2, <2>3
<1>11. CASE Finish
  BY <1>11 DEF Finish, ExitCode
<1>12. ASSUME NEW c \in ExitCodes, ShellExits(c) PROVE RunInv'
  <2>1. c \in Nat /\ pc = "wait" /\ exit = -2 /\ ~killed
    BY <1>12 DEF ShellExits
  <2>. QED
    BY <1>12, <2>1 DEF ShellExits
<1>13. ASSUME NEW kind \in {"group", "detached"}, Forks(kind) PROVE RunInv'
  BY <1>13 DEF Forks
<1>14. CASE StrayExits
  BY <1>14 DEF StrayExits
<1>15. CASE DeadlinePasses
  BY <1>15 DEF DeadlinePasses
<1>16. CASE CancelArrives
  BY <1>16 DEF CancelArrives
<1>17. CASE UNCHANGED vars
  BY <1>17 DEF vars
<1>. QED
  BY <1>1, <1>2, <1>3, <1>4, <1>5, <1>6, <1>7, <1>8, <1>9, <1>10, <1>11, <1>12, <1>13, <1>14, <1>15, <1>16, <1>17
  DEF Next, Execute, Environment

-----------------------------------------------------------------------------
(* What follows.                                                              *)

\* What a client is told of a run is what happened to it: a run reported as
\* completed ended by itself with that code, no success becomes a failure, and
\* the limit that is named is the one that fired (execute, classifyWait).
THEOREM OutcomeTrue == Spec => []OutcomeIsTrue
<1>1. RunInv => OutcomeIsTrue
  BY DEF RunInv
<1>. QED
  BY <1>1, RunInvInit, RunInvNext, PTL DEF Spec

\* After Wait has released its watcher, no timeout and no cancel of this run
\* kills anything: descendants left behind survive it (os/exec, Setpgid).
THEOREM ReleasedKillsNothing == Spec => ReleasedRunKillsNothing
<1>1. RunInv /\ [Next]_vars => [watcher = "released" => killed' = killed /\ watcher' = watcher]_vars
  <2>. SUFFICES ASSUME RunInv, Next, watcher = "released"
       PROVE  killed' = killed /\ watcher' = watcher
    OBVIOUS
  <2>1. pc \notin {"start", "watch"}
    BY DEF RunInv, BeforeStart, WaitErrIsTrue
  <2>. QED
    BY <2>1 DEF Next, Execute, Environment, Refuse, Accept, StartFails, Start, WatcherFires, WaitReaps,
        WaitTakesVerdict, PipesClose, WaitDelayPasses, ClassifyWait, Finish, ShellExits, Forks, StrayExits,
        DeadlinePasses, CancelArrives
<1>. QED
  BY <1>1, RunInvInit, RunInvNext, PTL DEF Spec, ReleasedRunKillsNothing
=============================================================================
