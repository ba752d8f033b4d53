------------------------------- MODULE Quota -------------------------------
(***************************************************************************)
(* QuotaManager (src/src/quota.rs): the worker that runs a `codex          *)
(* app-server` child, asks it for the rate limits and publishes them in a  *)
(* snapshot; the child at the other end of two pipes, which may die, fall  *)
(* silent or answer with errors; and the shutdown in cli.rs run().         *)
(*                                                                         *)
(* A rate limit is the number of changes of the account it reflects.  The  *)
(* two errors of a session differ only in their text; the second, for JSON *)
(* that cannot be encoded, does not occur.                                 *)
(***************************************************************************)
EXTENDS Naturals, Sequences

CONSTANTS
  MaxUsage,     \* bound: changes of the account
  MaxFailures,  \* bound: sessions that fail, whatever the reason
  MaxInFlight   \* bound: lines in the two pipes

ASSUME QuotaAssumption ==
  /\ MaxUsage \in Nat \ {0}
  /\ MaxFailures \in Nat
  /\ MaxInFlight \in Nat \ {0}

None     == 0                        \* no rate limit; a line that holds none
Limits   == 1..MaxUsage
Sessions == 1..(MaxFailures + 1)
MaxDelay == 30                       \* seconds

VARIABLES
  snapshot,   \* what /status publishes
  pc,         \* where the worker is
  delay,      \* retry_delay, in seconds
  session,    \* app servers spawned so far; the last is the current one
  from,       \* the session that delivered snapshot.limit
  running,    \* app servers that are alive
  piped,      \* app servers whose pipes the worker still holds
  requests,   \* lines in the stdin pipe of the current app server
  lines,      \* lines in its stdout pipe
  usage,      \* state of the account
  cancelled,  \* the shutdown token
  late,       \* app servers spawned after the shutdown
  failures    \* failures so far

vars == <<snapshot, pc, delay, session, from, running, piped, requests, lines,
          usage, cancelled, late, failures>>

Calls    == {"initialize", "initialized", "read"}
Greeting == {"hello", "notify", "ask"}
Pcs      == Greeting \cup {"checking", "spawning", "select", "failed", "sleeping", "gone"}
Snapshot == [state : {"initializing", "ready", "stale", "unavailable"},
             stale : BOOLEAN, limit : Limits \cup {None}, error : BOOLEAN]

TypeOK ==
  /\ snapshot \in Snapshot
  /\ pc \in Pcs
  /\ delay \in 1..MaxDelay
  /\ session \in Sessions \cup {0}
  /\ from \in Sessions \cup {0}
  /\ running \in SUBSET Sessions
  /\ piped \in SUBSET Sessions
  /\ requests \in Seq(Calls)
  /\ lines \in Seq(Limits \cup {None})
  /\ usage \in Limits
  /\ cancelled \in BOOLEAN
  /\ late \in Nat
  /\ failures \in 0..MaxFailures

Init ==
  /\ snapshot = [state |-> "initializing", stale |-> FALSE, limit |-> None, error |-> FALSE]
  /\ pc = "checking"
  /\ delay = 1
  /\ session = 0
  /\ from = 0
  /\ running = {}
  /\ piped = {}
  /\ requests = <<>>
  /\ lines = <<>>
  /\ usage = 1
  /\ cancelled = FALSE
  /\ late = 0
  /\ failures = 0

-----------------------------------------------------------------------------
(* The worker: run() around run_app_server_session().                      *)

pipes == <<piped, requests, lines>>
world == <<usage, cancelled>>

\* Mutant: the loop does not look at the token.
Check_Unguarded ==
  /\ pc = "checking"
  /\ pc' = "spawning"
  /\ UNCHANGED <<snapshot, delay, session, from, running, pipes, late, failures, world>>

\* The top of the loop.  The token may be cancelled right after the check.
Check ==
  /\ pc = "checking"
  /\ pc' = IF cancelled THEN "gone" ELSE "spawning"
  /\ UNCHANGED <<snapshot, delay, session, from, running, pipes, late, failures, world>>

Spawn ==
  /\ pc = "spawning"
  /\ session' = session + 1
  /\ running' = running \cup {session + 1}
  /\ piped' = piped \cup {session + 1}
  /\ late' = late + (IF cancelled THEN 1 ELSE 0)
  /\ pc' = "hello"
  /\ UNCHANGED <<snapshot, delay, from, requests, lines, failures, world>>

Fail == failures < MaxFailures /\ failures' = failures + 1

\* Mutant: a missing binary ends the worker.
SpawnFails_GivesUp ==
  /\ pc = "spawning"
  /\ Fail
  /\ pc' = "gone"
  /\ UNCHANGED <<snapshot, delay, session, from, running, pipes, late, world>>

\* codex is not installed or cannot be started.
SpawnFails ==
  /\ pc = "spawning"
  /\ Fail
  /\ pc' = "failed"
  /\ UNCHANGED <<snapshot, delay, session, from, running, pipes, late, world>>

\* A `?` in the session: pipes and unread lines are dropped, the child is not
\* killed.
LoseSession ==
  /\ pc' = "failed"
  /\ piped' = piped \ {session}
  /\ requests' = <<>>
  /\ lines' = <<>>
  /\ UNCHANGED <<snapshot, delay, session, from, running, late, world>>

\* send_json_line(): a write to a dead app server fails.
Send(call, next) ==
  \/ /\ session \in running
     /\ requests' = Append(requests, call)
     /\ pc' = next
     /\ UNCHANGED <<snapshot, delay, session, from, running, piped, lines, late,
                    failures, world>>
  \/ session \notin running /\ LoseSession /\ UNCHANGED failures

\* The three writes before the select loop; none of them looks at the token.
Greet ==
  \/ pc = "hello"  /\ Send("initialize", "notify")
  \/ pc = "notify" /\ Send("initialized", "ask")
  \/ pc = "ask"    /\ Send("read", "select")

\* select!: the interval.
Tick ==
  /\ pc = "select"
  /\ Len(requests) + Len(lines) < MaxInFlight
  /\ Send("read", "select")

\* handle_message(): a rate limit replaces the snapshot, anything else (an
\* error reply, a line that does not parse) leaves it as it is.
Handle(line) ==
  IF line = None THEN UNCHANGED <<snapshot, from>>
  ELSE /\ snapshot' = [state |-> "ready", stale |-> FALSE, limit |-> line, error |-> FALSE]
       /\ from' = session

\* Mutant: every line is handled by a task of its own.
ReadLine_Unordered ==
  /\ pc = "select"
  /\ \E i \in DOMAIN lines :
       /\ Handle(lines[i])
       /\ lines' = [j \in 1..(Len(lines) - 1) |-> lines[IF j < i THEN j ELSE j + 1]]
  /\ UNCHANGED <<pc, delay, session, running, piped, requests, late, failures, world>>

\* select!: a line.
ReadLine ==
  /\ pc = "select"
  /\ lines # <<>>
  /\ Handle(Head(lines))
  /\ lines' = Tail(lines)
  /\ UNCHANGED <<pc, delay, session, running, piped, requests, late, failures, world>>

\* select!: the end of stdout, or a line that cannot be read (not UTF-8)
\* from an app server that is alive.
ReadFails ==
  /\ pc = "select"
  /\ \/ session \notin running /\ lines = <<>> /\ UNCHANGED failures
     \/ session \in running /\ Fail
  /\ LoseSession

\* Mutant: select! has no arm for the token.
Stop_Missing == FALSE /\ UNCHANGED vars

\* select!: the token.  The app server is killed and the worker returns.
Stop ==
  /\ pc = "select"
  /\ cancelled
  /\ running' = running \ {session}
  /\ piped' = piped \ {session}
  /\ pc' = "gone"
  /\ UNCHANGED <<snapshot, delay, session, from, requests, lines, late, failures, world>>

\* Mutant: only the flag is set.
MarkStale_FlagOnly ==
  /\ pc = "failed"
  /\ snapshot' = [snapshot EXCEPT !.stale = snapshot.limit # None, !.error = TRUE]
  /\ pc' = "sleeping"
  /\ UNCHANGED <<delay, session, from, running, pipes, late, failures, world>>

MarkStale ==
  /\ pc = "failed"
  /\ snapshot' = [snapshot EXCEPT
       !.state = IF snapshot.limit # None THEN "stale" ELSE "unavailable",
       !.stale = snapshot.limit # None,
       !.error = TRUE]
  /\ pc' = "sleeping"
  /\ UNCHANGED <<delay, session, from, running, pipes, late, failures, world>>

\* The sleep ends by its time or by the token.  The delay is never reset.
Wake ==
  /\ pc = "sleeping"
  /\ \/ /\ pc' = "checking"
        /\ delay' = IF 2 * delay < MaxDelay THEN 2 * delay ELSE MaxDelay
     \/ cancelled /\ pc' = "gone" /\ UNCHANGED delay
  /\ UNCHANGED <<snapshot, session, from, running, pipes, late, failures, world>>

-----------------------------------------------------------------------------
(* The app server and the account.                                         *)

worker == <<snapshot, pc, delay, session, from, late>>

\* The current app server takes the next request.  A read is answered with
\* the rate limits or with an error; `initialized` has no answer.
Answer(reply) ==
  /\ session \in running \cap piped
  /\ requests # <<>>
  /\ requests' = Tail(requests)
  /\ \/ /\ Head(requests) = "read"
        /\ reply \in {usage, None}
        /\ lines' = Append(lines, reply)
     \/ /\ Head(requests) = "initialize"
        /\ reply = None
        /\ lines' = Append(lines, reply)
     \/ /\ Head(requests) = "initialized"
        /\ reply = None
        /\ UNCHANGED lines
  /\ UNCHANGED <<worker, running, piped, failures, world>>

\* The account changes.  The current app server may say so, in a shape that
\* parses or not.
Consume ==
  /\ usage < MaxUsage
  /\ usage' = usage + 1
  /\ \/ UNCHANGED lines
     \/ /\ session \in running \cap piped
        /\ \E line \in {usage', None} : lines' = Append(lines, line)
  /\ UNCHANGED <<worker, running, piped, requests, cancelled, failures>>

\* The app server in use dies.
Die ==
  /\ session \in running \cap piped
  /\ Fail
  /\ running' = running \ {session}
  /\ UNCHANGED <<worker, pipes, world>>

\* An app server that sees the end of its stdin exits.
Leave(s) ==
  /\ s \in running \ piped
  /\ running' = running \ {s}
  /\ UNCHANGED <<worker, pipes, failures, world>>

\* run() of cli.rs after serve(): shutdown().
Cancel ==
  /\ ~cancelled
  /\ cancelled' = TRUE
  /\ UNCHANGED <<worker, running, pipes, usage, failures>>

\* The process ends with main, whatever the worker is doing; the kernel closes
\* its pipes.
Exit ==
  /\ cancelled
  /\ pc # "gone"
  /\ pc' = "gone"
  /\ piped' = {}
  /\ UNCHANGED <<snapshot, delay, session, from, running, requests, lines, late,
                 failures, world>>

-----------------------------------------------------------------------------
Worker == Check \/ Spawn \/ SpawnFails \/ Greet \/ MarkStale \/ Wake
Select == Tick \/ ReadLine \/ ReadFails \/ Stop

Next ==
  \/ Worker \/ Select
  \/ \E reply \in Limits \cup {None} : Answer(reply)
  \/ \E s \in running : Leave(s)
  \/ Consume \/ Die \/ Cancel \/ Exit

Spec == Init /\ [][Next]_vars

\* tokio runs the worker, and select! starts at a random arm, so no arm that
\* is ready again and again is passed over for ever.  What is assumed of
\* codex: the app server serves its requests, is not in error for ever, and
\* exits at the end of its stdin.  The process need not end by itself.
Fairness ==
  /\ WF_vars(Worker)
  /\ SF_vars(Tick) /\ SF_vars(ReadLine) /\ SF_vars(Stop) /\ WF_vars(ReadFails)
  /\ WF_vars(\E reply \in Limits \cup {None} : Answer(reply))
  /\ SF_vars(\E reply \in Limits : Answer(reply))
  /\ \A s \in Sessions : WF_vars(Leave(s))

FairSpec == Spec /\ Fairness

-----------------------------------------------------------------------------
(* Properties.                                                             *)

\* The snapshot never contradicts itself, and it says "ready" only of a limit
\* that came from the app server the worker is still listening to: a lost
\* session, a failed spawn and a new session that has not answered yet all
\* show as stale or unavailable (quota.rs:88-109, 178-198).
SnapshotIsHonest ==
  /\ snapshot.stale <=> snapshot.state = "stale"
  /\ snapshot.error <=> snapshot.state \in {"stale", "unavailable"}
  /\ snapshot.limit = None <=> snapshot.state \in {"initializing", "unavailable"}
  /\ snapshot.state = "ready" => from = session /\ pc \in {"select", "failed", "gone"}

\* Replies are not matched to their requests and notifications come between
\* them, yet the published limit never goes back to an older one, not even
\* across sessions (quota.rs:142-176).
LimitNeverGoesBack == [][snapshot'.limit >= snapshot.limit]_vars

\* Only the app server whose spawn was already past the check may start after
\* the shutdown (quota.rs:91, 95, 104, 144).
OneLateSession == late <= 1

\* While the service is up, a snapshot that is not ready becomes ready again
\* once codex can be started: no error ends the retries (quota.rs:88-109).
ReadyAgain == (snapshot.state # "ready") ~> (snapshot.state = "ready" \/ cancelled)

\* The shutdown ends the worker from wherever it is, without the help of the
\* process exit, and no app server outlives it for ever: the one in use is
\* killed, and those dropped alive see their stdin closed (quota.rs:144-147).
StopsEverything == cancelled ~> (pc = "gone" /\ running = {})

=============================================================================
