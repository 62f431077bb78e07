----------------------------- MODULE Sessions -----------------------------
(***************************************************************************)
(* A persistent session (session.go; remote_session_execute of mcp.go;     *)
(* create, list and close of mcp_system.go). Sessions share nothing, so    *)
(* there is one, used by several calls at once, reclaimed by the cleanup   *)
(* loop, and perhaps closed by a client.                                   *)
(*                                                                         *)
(* The map is a sync.Map and the fields have a mutex of their own: looking *)
(* a session up, finding it expired, deleting it and renewing it are       *)
(* separate steps. Every call runs `cd <name of the call>`, so a directory *)
(* is the sequence of the calls that led to it.                            *)
(***************************************************************************)
EXTENDS Naturals, Sequences

CONSTANTS
  Calls,    \* calls of remote_session_execute
  TTL,      \* Session.TTL
  MaxAge    \* bound: the clock stops here

ASSUME SessionsAssumption == TTL \in Nat /\ MaxAge \in Nat

VARIABLES
  time,       \* the clock
  inMap,      \* the session is in SessionManager.sessions
  expiresAt,  \* Session.expiresAt
  cwd,        \* Session.workingDirectory
  ex,         \* where each call stands
  dir,        \* the directory each call has read and runs in
  sweep,      \* cleanupLoop: "idle", "ranging", "deleting"
  sweepNow,   \* its now
  use         \* ghost: [last]: time of the last creation or renewal; [lapsed]: more than TTL
              \* went by without one; [closed]; [before]: for each call the calls that were
              \* over when it began; [stored]: calls whose directory was stored

sessVars == <<time, inMap, expiresAt, cwd, ex, dir, sweep, sweepNow, use>>

Over == {"idle", "refused", "told"}

\* remote_session_create, long before the rest.
Create ==
  /\ time = 0 /\ inMap = TRUE /\ expiresAt = TTL /\ cwd = <<>>
  /\ ex = [c \in Calls |-> "idle"] /\ dir = [c \in Calls |-> <<>>]
  /\ sweep = "idle" /\ sweepNow = 0
  /\ use = [last |-> 0, lapsed |-> FALSE, closed |-> FALSE,
            before |-> [c \in Calls |-> {}], stored |-> {}]

-----------------------------------------------------------------------------
(* remote_session_execute                                                  *)

Expired(t) == t > expiresAt

\* Get, up to the decision: gone, expired or live.
Lookup(c) ==
  /\ ex[c] = "idle"
  /\ ex' = [ex EXCEPT ![c] = IF ~inMap THEN "refused" ELSE IF Expired(time) THEN "expired" ELSE "live"]
  /\ use' = [use EXCEPT !.before[c] = {d \in Calls : ex[d] \in {"refused", "told"}}]
  /\ UNCHANGED <<time, inMap, expiresAt, cwd, dir, sweep, sweepNow>>

\* Get deletes the session it found expired.
GetDeletes(c) ==
  /\ ex[c] = "expired"
  /\ inMap' = FALSE
  /\ ex' = [ex EXCEPT ![c] = "refused"]
  /\ UNCHANGED <<time, expiresAt, cwd, dir, sweep, sweepNow, use>>

\* Mutant of Renewed: the session expires at a fixed age.
RenewedNot == expiresAt

Renewed == time + TTL

\* Touch renews the session it was given, still in the map or not.
Touch(c) ==
  /\ ex[c] = "live"
  /\ expiresAt' = Renewed
  /\ ex' = [ex EXCEPT ![c] = "touched"]
  /\ use' = [use EXCEPT !.last = time]
  /\ UNCHANGED <<time, inMap, cwd, dir, sweep, sweepNow>>

\* The call runs in the directory the session has now.
ReadCwd(c) ==
  /\ ex[c] = "touched"
  /\ dir' = [dir EXCEPT ![c] = cwd]
  /\ ex' = [ex EXCEPT ![c] = "running"]
  /\ UNCHANGED <<time, inMap, expiresAt, cwd, sweep, sweepNow, use>>

\* The command outlives the call budget, fails or is no bare cd; or it is a
\* bare cd that succeeded and is run again with `&& pwd`, which may fail too.
CommandEnds(c) ==
  /\ ex[c] = "running"
  /\ \E s \in {"told", "pwd"} : ex' = [ex EXCEPT ![c] = s]
  /\ UNCHANGED <<time, inMap, expiresAt, cwd, dir, sweep, sweepNow, use>>

PwdEnds(c) ==
  /\ ex[c] = "pwd"
  /\ \E s \in {"told", "store"} : ex' = [ex EXCEPT ![c] = s]
  /\ UNCHANGED <<time, inMap, expiresAt, cwd, dir, sweep, sweepNow, use>>

\* Mutant of NewDir: pwd runs in the directory the session began in.
NewDirHome(c) == <<c>>

\* pwd runs in the directory read at the start of the call.
NewDir(c) == Append(dir[c], c)

UpdateWorkingDirectory(c) ==
  /\ ex[c] = "store"
  /\ cwd' = IF inMap THEN NewDir(c) ELSE cwd
  /\ use' = IF inMap THEN [use EXCEPT !.stored = @ \cup {c}] ELSE use
  /\ ex' = [ex EXCEPT ![c] = "told"]
  /\ UNCHANGED <<time, inMap, expiresAt, dir, sweep, sweepNow>>

ExecuteStep(c) ==
  \/ Lookup(c) \/ GetDeletes(c) \/ Touch(c) \/ ReadCwd(c)
  \/ CommandEnds(c) \/ PwdEnds(c) \/ UpdateWorkingDirectory(c)

-----------------------------------------------------------------------------
(* Others.                                                                 *)

CloseSession ==
  /\ inMap
  /\ inMap' = FALSE
  /\ use' = [use EXCEPT !.closed = TRUE]
  /\ UNCHANGED <<time, expiresAt, cwd, ex, dir, sweep, sweepNow>>

SweepStarts ==
  /\ sweep = "idle" /\ inMap
  /\ sweep' = "ranging" /\ sweepNow' = time
  /\ UNCHANGED <<time, inMap, expiresAt, cwd, ex, dir, use>>

\* Mutant of SweepChecks: the check never finds a session expired.
SweepNeverExpires ==
  /\ sweep = "ranging"
  /\ sweep' = "idle"
  /\ UNCHANGED <<time, inMap, expiresAt, cwd, ex, dir, sweepNow, use>>

SweepChecks ==
  /\ sweep = "ranging"
  /\ sweep' = IF inMap /\ Expired(sweepNow) THEN "deleting" ELSE "idle"
  /\ UNCHANGED <<time, inMap, expiresAt, cwd, ex, dir, sweepNow, use>>

SweepDeletes ==
  /\ sweep = "deleting"
  /\ inMap' = FALSE /\ sweep' = "idle"
  /\ UNCHANGED <<time, expiresAt, cwd, ex, dir, sweepNow, use>>

Cleanup == SweepStarts \/ SweepChecks \/ SweepDeletes

SessTick ==
  /\ time < MaxAge
  /\ time' = time + 1
  /\ use' = [use EXCEPT !.lapsed = @ \/ time' > use.last + TTL]
  /\ UNCHANGED <<inMap, expiresAt, cwd, ex, dir, sweep, sweepNow>>

SessNext == (\E c \in Calls : ExecuteStep(c)) \/ CloseSession \/ Cleanup \/ SessTick

SessSpec == Create /\ [][SessNext]_sessVars

-----------------------------------------------------------------------------
(* Properties.                                                             *)

\* TTL is an idle timeout: nothing but a close takes away a session that was
\* used again and again, each time within TTL of the use before, although Get
\* and the cleanup delete in a step of their own after the check.
UsedSessionKept == ~inMap => use.closed \/ use.lapsed

\* Nobody ran at the same time as call c.
Alone(c) ==
  \A d \in Calls \ {c} : ex[d] = "idle" \/ d \in use.before[c] \/ c \in use.before[d]

Steps(path) == {path[i] : i \in DOMAIN path}

\* cd composes: the directory of the session contains the step of every call
\* whose directory was stored and that ran alone, whoever has stored since. Only
\* of overlapping cd calls one may be lost (remote_session_execute,
\* UpdateWorkingDirectory).
CdsCompose ==
  \A c \in use.stored : Alone(c) => c \in Steps(cwd)

\* What keeps UsedSessionKept: the expiry follows the last use, and whoever is
\* about to delete has seen the session lapse.
KeptInv ==
  /\ time \in Nat /\ use.last \in Nat /\ sweepNow \in Nat
  /\ ex \in [Calls -> Over \cup {"live", "expired", "touched", "running", "pwd", "store"}]
  /\ expiresAt = use.last + TTL
  /\ sweepNow <= time
  /\ ~use.lapsed => time <= expiresAt
  /\ \A c \in Calls : ex[c] = "expired" => use.lapsed
  /\ sweep = "deleting" => use.lapsed
  /\ UsedSessionKept

\* What keeps CdsCompose: a call that is over when another begins has stored
\* before that one reads the directory, so every call that may still store runs
\* below the steps of those that ran alone before it.
CdInv ==
  /\ \A c \in Calls : \A d \in use.before[c] : ex[d] \in {"refused", "told"}
  /\ \A c \in use.stored : ex[c] = "told"
  /\ cwd \in Seq(Calls) /\ dir \in [Calls -> Seq(Calls)]
  /\ \A d \in Calls, c \in use.stored :
       ex[d] \in {"running", "pwd", "store"} /\ c \in use.before[d] /\ Alone(c) =>
         c \in Steps(dir[d])
  /\ CdsCompose

\* An expired session nobody renews leaves the map: the cleanup reclaims it.
ExpiredIsReclaimed == (inMap /\ Expired(time)) ~> (~inMap \/ ~Expired(time))

=============================================================================
