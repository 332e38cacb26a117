---------------------------- MODULE ScriptBroker ----------------------------
(***************************************************************************)
(* One environment that runs policy scripts: RestrictedScriptBroker, the     *)
(* child it starts (CHILD_RUNNER) and the two pipes between them, from        *)
(* rowhammer_env/script_sandbox.py.                                          *)
(*                                                                         *)
(* The script is any program over the rh methods; it may go on after a        *)
(* failed call, although the validator rejects try, and it may set the        *)
(* child's count, which the validator lets it.  Lines are records with a      *)
(* size; a child killed by a resource limit may leave part of a line.         *)
(***************************************************************************)
EXTENDS Integers, Sequences

CONSTANTS
  max_calls,        \* calls a script may make
  protocol_bytes,   \* what a child may send before it is stopped
  Sizes,            \* sizes of a line
  Surfaces,         \* what the attestation probes, and its positive control
  MaxTries          \* bound: how far the child's count moves from 0

ASSUME LimitsAssumption ==
  max_calls \in Nat /\ protocol_bytes \in Nat /\ Sizes \subseteq Nat /\ MaxTries \in Nat

VARIABLES
  _RUNTIME,   \* the attested runtime is cached
  pc,         \* "idle"; "config" and "reply" before a line is written, "flush"
              \* while the write waits for the child; "top" and "select" in
              \* _serve; "tool" with a tool line at hand; "closing"
  args,       \* whether _normalize_args accepts that line's arguments
  outcome,    \* how the last run ended
  calls,      \* the broker's count of tool lines
  steps,      \* calls of env.step
  bytes,      \* protocol bytes received
  late,       \* the deadline has passed
  down, up,   \* the pipes to and from the child
  buffer,     \* lines readline has taken from the pipe and not returned
  child,      \* "none", "starting", "running", "waiting" in _call, "ended",
              \* "dead"
  rhCalls,    \* the child's count, rh.calls, when rh.max_calls is max_calls
  answered    \* (history) the calls whose answer the child has read

broker == <<_RUNTIME, pc, args, outcome, calls, steps, bytes, buffer>>
vars   == <<broker, late, down, up, child, rhCalls, answered>>

Line(kind, size) == [kind |-> kind, args |-> TRUE, size |-> size]
Lines   == [kind : {"tool", "result", "violation", "partial"}, args : BOOLEAN, size : Sizes]
Replies == {"config", "ok", "error"}

Init ==
  /\ _RUNTIME = FALSE /\ pc = "idle" /\ args = TRUE /\ outcome = "none"
  /\ calls = 0 /\ steps = 0 /\ bytes = 0 /\ late = FALSE
  /\ down = <<>> /\ up = <<>> /\ buffer = <<>>
  /\ child = "none" /\ rhCalls = 0 /\ answered = 0

-----------------------------------------------------------------------------
(* Starting a run: _runtime attests once per process, then run starts the     *)
(* child.                                                                    *)

Attested(probe) == \A s \in Surfaces : probe[s]

(* (A bug: one broker is used for several scripts.)                          *)
Reused(result) ==
  /\ outcome' = result
  /\ steps' = 0 /\ bytes' = 0 /\ late' = FALSE
  /\ rhCalls' = 0 /\ answered' = 0
  /\ UNCHANGED <<calls, args, down, up, buffer>>

(* A new broker and a new child.                                             *)
Fresh(result) ==
  /\ outcome' = result
  /\ calls' = 0 /\ steps' = 0 /\ bytes' = 0 /\ late' = FALSE
  /\ rhCalls' = 0 /\ answered' = 0
  /\ UNCHANGED <<args, down, up, buffer>>

(* detect fails, the probe times out, or the script is too long.              *)
Refused ==
  /\ pc = "idle"
  /\ \/ /\ ~_RUNTIME
        /\ \/ \E probe \in [Surfaces -> BOOLEAN] : ~Attested(probe) /\ Fresh("unavailable")
           \/ Fresh("raised")
        /\ UNCHANGED _RUNTIME
     \/ Fresh("violation") /\ _RUNTIME' = TRUE
  /\ UNCHANGED <<pc, child>>

Start ==
  /\ pc = "idle"
  /\ _RUNTIME \/ \E probe \in [Surfaces -> BOOLEAN] : Attested(probe)
  /\ _RUNTIME' = TRUE
  /\ pc' = "config" /\ child' = "starting"
  /\ Fresh("none")

-----------------------------------------------------------------------------
(* The broker.                                                               *)

Close(result) ==
  /\ pc' = "closing" /\ outcome' = result

(* _write: a line that does not fit the pipe blocks until the child reads it; *)
(* a child that is gone breaks the pipe.                                     *)
Write(reply) ==
  \/ child = "dead" /\ Close("violation") /\ UNCHANGED down
  \/ child # "dead" /\ down' = Append(down, reply) /\ pc' \in {"top", "flush"} /\ UNCHANGED outcome

WriteConfig ==
  /\ pc = "config"
  /\ Write("config")
  /\ UNCHANGED <<_RUNTIME, args, calls, steps, bytes, buffer, late, up, child, rhCalls, answered>>

Flushed ==
  /\ pc = "flush"
  /\ \/ child = "dead" /\ Close("violation")
     \/ down = <<>> /\ pc' = "top" /\ UNCHANGED outcome
  /\ UNCHANGED <<_RUNTIME, args, calls, steps, bytes, buffer, late, down, up, child, rhCalls, answered>>

(* The head of _serve's loop looks at the clock, select at the pipe.          *)
Top ==
  /\ pc = "top"
  /\ \/ late /\ Close("timeout")
     \/ ~late /\ pc' = "select" /\ UNCHANGED outcome
  /\ UNCHANGED <<_RUNTIME, args, calls, steps, bytes, buffer, late, down, up, child, rhCalls, answered>>

Readable == up # <<>> \/ child = "dead"
(* (A bug: select is given no timeout.)                                      *)
NeverTimes == FALSE

TimesOut == late /\ ~Readable

SelectExpires ==
  /\ pc = "select" /\ TimesOut
  /\ Close("timeout")
  /\ UNCHANGED <<_RUNTIME, args, calls, steps, bytes, buffer, late, down, up, child, rhCalls, answered>>

(* readline takes everything the pipe holds and returns the first line.       *)
Pulled == buffer \o up
TooLong(line) == bytes + line.size > protocol_bytes

(* End of file: the exit status tells a resource limit from a violation, if   *)
(* the process has been reaped by then.                                      *)
EndOfFile ==
  /\ pc = "select" /\ Readable /\ Pulled = <<>>
  /\ \E result \in {"timeout", "violation"} : Close(result)
  /\ UNCHANGED <<_RUNTIME, args, calls, steps, bytes, buffer, late, down, up, child, rhCalls, answered>>

Received(line) ==
  \/ /\ TooLong(line) \/ line.kind \in {"violation", "partial"}
     /\ Close("violation") /\ UNCHANGED args
  \/ ~TooLong(line) /\ line.kind = "result" /\ Close("result") /\ UNCHANGED args
  \/ ~TooLong(line) /\ line.kind = "tool" /\ pc' = "tool" /\ args' = line.args /\ UNCHANGED outcome

Receive ==
  /\ pc = "select" /\ Readable /\ Pulled # <<>>
  /\ buffer' = Tail(Pulled) /\ up' = <<>>
  /\ bytes' = bytes + Head(Pulled).size
  /\ Received(Head(Pulled))
  /\ UNCHANGED <<_RUNTIME, calls, steps, late, down, child, rhCalls, answered>>

(* (A bug: the broker relies on the child to stop at the limit.)             *)
TrustsChild == TRUE

WithinLimit == calls < max_calls

(* _handle_tool counts the line, whatever the child has counted; arguments it *)
(* cannot normalise and a call the environment raises a KeyError, TypeError   *)
(* or ValueError on are answered with an error; any other exception leaves    *)
(* run.                                                                      *)
HandleTool ==
  /\ pc = "tool"
  /\ calls' = calls + 1
  /\ \/ ~WithinLimit /\ Close("violation") /\ UNCHANGED <<steps, args>>
     \/ /\ WithinLimit /\ ~args
        /\ pc' = "reply" /\ UNCHANGED <<steps, args, outcome>>
     \/ /\ WithinLimit /\ args
        /\ steps' = steps + 1
        /\ \/ pc' = "reply" /\ args' \in BOOLEAN /\ UNCHANGED outcome
           \/ Close("raised") /\ UNCHANGED args
  /\ UNCHANGED <<_RUNTIME, bytes, buffer, late, down, up, child, rhCalls, answered>>

Reply ==
  /\ pc = "reply"
  /\ Write(IF args THEN "ok" ELSE "error")
  /\ UNCHANGED <<_RUNTIME, args, calls, steps, bytes, buffer, late, up, child, rhCalls, answered>>

(* run's finally: _terminate kills what is left, _close_pipes.                *)
Cleanup ==
  /\ pc = "closing"
  /\ pc' = "idle" /\ child' = "none"
  /\ down' = <<>> /\ up' = <<>> /\ buffer' = <<>>
  /\ args' = TRUE /\ late' = FALSE
  /\ UNCHANGED <<_RUNTIME, outcome, calls, steps, bytes, rhCalls, answered>>

-----------------------------------------------------------------------------
(* The child.                                                                *)

Send(lines) == up' = up \o lines

(* The child reads its configuration.                                        *)
ChildStarts ==
  /\ child = "starting" /\ down # <<>>
  /\ child' = "running" /\ down' = Tail(down)
  /\ UNCHANGED <<broker, late, up, rhCalls, answered>>

(* (A bug: the script goes on before it has its answer.)                     *)
GoesOn == "running"

Asking == "waiting"

(* _call: counts first, raises beyond the limit, and waits for the answer.    *)
ChildCalls ==
  /\ child = "running" /\ rhCalls < MaxTries
  /\ rhCalls' = rhCalls + 1
  /\ \/ /\ rhCalls' <= max_calls
        /\ \E size \in Sizes, ok \in BOOLEAN : Send(<<[Line("tool", size) EXCEPT !.args = ok]>>)
        /\ child' = Asking
     \/ rhCalls' > max_calls /\ UNCHANGED <<up, child>>
  /\ UNCHANGED <<broker, late, down, answered>>

(* The script assigns rh.calls, or rh.max_calls, which moves the comparison   *)
(* of _call as well: _validate_policy rejects neither.                       *)
ChildAssigns ==
  /\ child = "running"
  /\ rhCalls' \in -MaxTries .. MaxTries
  /\ UNCHANGED <<broker, late, down, up, child, answered>>

ChildReads ==
  /\ child = "waiting" /\ down # <<>>
  /\ child' = "running" /\ down' = Tail(down)
  /\ answered' = steps
  /\ UNCHANGED <<broker, late, up, rhCalls>>

(* The script ends, or raises: also when the validator rejects it.            *)
ChildEnds ==
  /\ child = "running"
  /\ \E kind \in {"result", "violation"}, size \in Sizes : Send(<<Line(kind, size)>>)
  /\ child' = "ended"
  /\ UNCHANGED <<broker, late, down, rhCalls, answered>>

(* The process exits, or is killed by a resource limit, perhaps inside a line. *)
ChildDies ==
  /\ child \in {"starting", "running", "waiting", "ended"}
  /\ child' = "dead"
  /\ \/ UNCHANGED up
     \/ child = "running" /\ \E size \in Sizes : Send(<<Line("partial", size)>>)
  /\ UNCHANGED <<broker, late, down, rhCalls, answered>>

Deadline ==
  /\ pc \in {"top", "select", "tool", "reply"} \/ (pc = "flush" /\ calls > 0)
  /\ ~late
  /\ late' = TRUE
  /\ UNCHANGED <<broker, down, up, child, rhCalls, answered>>

Broker ==
  \/ WriteConfig \/ Flushed \/ Top \/ SelectExpires \/ EndOfFile \/ Receive \/ HandleTool
  \/ Reply \/ Cleanup
Child == ChildStarts \/ ChildCalls \/ ChildAssigns \/ ChildReads \/ ChildEnds \/ ChildDies
Next == Refused \/ Start \/ Broker \/ Child \/ Deadline

(* The broker runs on, its clock advances, and a child that has a line to    *)
(* read is scheduled; the script itself may loop for ever.                   *)
Spec ==
  /\ Init /\ [][Next]_vars
  /\ WF_vars(Broker) /\ WF_vars(Deadline) /\ WF_vars(ChildStarts) /\ WF_vars(ChildReads)

-----------------------------------------------------------------------------
(* Properties.                                                               *)

(* Types; the broker's count never passes max_calls by more than the line    *)
(* that ends the run, whatever the script makes of the child's count.        *)
TypeOK ==
  /\ _RUNTIME \in BOOLEAN /\ args \in BOOLEAN /\ late \in BOOLEAN
  /\ pc \in {"idle", "config", "reply", "flush", "top", "select", "tool", "closing"}
  /\ outcome \in {"none", "result", "violation", "timeout", "unavailable", "raised"}
  /\ calls \in 0 .. max_calls + 1 /\ steps \in 0 .. max_calls /\ bytes \in Nat
  /\ down \in Seq(Replies) /\ up \in Seq(Lines) /\ buffer \in Seq(Lines)
  /\ child \in {"none", "starting", "running", "waiting", "ended", "dead"}
  /\ rhCalls \in Int /\ answered \in Nat

(* Broker and child never wait for each other.  The broker does not sleep in  *)
(* select while a line of the child lies in readline's buffer, where select   *)
(* does not see it; a write that blocks (the configuration, a reply) has a    *)
(* child that will read it, or is gone; and the child runs, and a tool line   *)
(* is at hand, only when its last call was answered (_serve, _write, _call).  *)
TakeTurns ==
  /\ pc = "select" => buffer = <<>>
  /\ pc = "flush" /\ down # <<>> => child \in {"starting", "waiting", "dead"}
  /\ child = "running" \/ pc = "tool" => answered = steps

running == pc # "idle"
Contract == INSTANCE ScriptCall WITH outcome <- IF running THEN "none" ELSE outcome

(* One call of the environment at a time, at most max_calls, none after run   *)
(* has returned: what script.run promises (ScriptCall).                      *)
KeepsCall == Contract!Spec

(* Every run returns, also if the child hangs, dies, or never reads.         *)
Returns == pc # "idle" ~> pc = "idle"
=============================================================================
