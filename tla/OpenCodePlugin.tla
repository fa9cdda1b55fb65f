--------------------------- MODULE OpenCodePlugin ---------------------------
(***************************************************************************)
(* The OpenCode plugin (minireplay/assets/opencode_native_replay_plugin.js) *)
(* as a client of the boundary.                                            *)
(*                                                                         *)
(* OpenCode tells of one tool call in several ways: hooks it waits for     *)
(* (tool.execute.before, tool.execute.after), and events it does not wait  *)
(* for (the call is running, the call failed, a child session was created).*)
(* Their handlers are coroutines of one JavaScript event loop, and join    *)
(* each other through promise tables.  For each call the plugin posts the  *)
(* start of a dispatch, the start of a tool, the end of the tool and the   *)
(* end of the dispatch; each post is an await.                             *)
(*                                                                         *)
(* A handler that awaits a promise goes on in a microtask of the answer    *)
(* that resolves it, so the answer and what it wakes are one action.       *)
(* OpenCode itself is external: its calls, native ends and child sessions. *)
(***************************************************************************)
EXTENDS Integers, Sequences, FiniteSets, SequencesExt

CONSTANTS
    Calls,       \* tool calls (callID)
    TaskCalls,   \* those of the built-in task tool
    SessionOf,   \* [Calls -> sessions]
    Children,    \* child sessions
    TaskOf,      \* [Children -> TaskCalls]: the call that creates the session
    After,       \* [Calls -> SUBSET Calls]: calls that end before this one
    Bypass,      \* task calls that OpenCode runs without tool.execute.before
    Childless,   \* task calls that may fail before they create their session
    MaxFaults    \* bound of refused posts

VARIABLES
    gateOpen,     \* the start gate has been released
    call,         \* [Calls -> state of the call in OpenCode]
    errorHandler, \* [Calls -> state of the handler of the error event]
    start,        \* [Calls -> startPromises: what the start awaits, or "none"]
    dispatched,   \* dispatchReservations
    reserved,     \* reservations
    ending,       \* [Calls -> completionPromises: what the end awaits, or "none"]
    completed,    \* completed
    activeTasks,  \* [sessions -> Seq(Calls)]
    binding,      \* [Children -> state of the session.created handler]
    parentOf,     \* sessionParents: [Children -> Calls or NoCall]
    headers,      \* [Children -> parent named by the first LLM request]
    posts,        \* [Calls -> Seq of posts made for the call]
    faults

vars == <<gateOpen, call, errorHandler, start, dispatched, reserved, ending, completed,
          activeTasks, binding, parentOf, headers, posts, faults>>

NoCall == "no call"
Sessions == Range(SessionOf)
ParentSession(s) == SessionOf[TaskOf[s]]

ASSUME PluginAssumption ==
    /\ TaskCalls \subseteq Calls /\ Bypass \subseteq TaskCalls /\ Childless \subseteq TaskCalls
    /\ DOMAIN SessionOf = Calls
    /\ TaskOf \in [Children -> TaskCalls]
    /\ \A k, s \in Children : TaskOf[k] = TaskOf[s] => k = s
    /\ After \in [Calls -> SUBSET Calls]
    /\ Calls \cap {NoCall, "none", "asking", "handled", "unsent"} = {}
    /\ MaxFaults \in Nat

Init ==
    /\ gateOpen = FALSE
    /\ call = [c \in Calls |-> "issued"]
    /\ errorHandler = [c \in Calls |-> "none"]
    /\ start = [c \in Calls |-> "none"]
    /\ dispatched = {}
    /\ reserved = {}
    /\ ending = [c \in Calls |-> "none"]
    /\ completed = {}
    /\ activeTasks = [s \in Sessions |-> <<>>]
    /\ binding = [s \in Children |-> "none"]
    /\ parentOf = [s \in Children |-> NoCall]
    /\ headers = [s \in Children |-> "unsent"]
    /\ posts = [c \in Calls |-> <<>>]
    /\ faults = 0

Ended(c) == call[c] \in {"done", "failed"}
Live(c) == \A d \in After[c] : Ended(d)

Post(c, what) == posts' = [posts EXCEPT ![c] = Append(@, what)]

-----------------------------------------------------------------------------
(* startTool: a call with a reservation is left alone, one that is being   *)
(* started is joined, any other waits for the gate and posts its dispatch. *)

StartTool_NoJoin(c) ==
    IF c \in reserved
    THEN UNCHANGED <<start, posts>>
    ELSE IF gateOpen
    THEN start' = [start EXCEPT ![c] = "dispatch"] /\ Post(c, "start dispatch")
    ELSE start' = [start EXCEPT ![c] = "gate"] /\ UNCHANGED posts

StartTool(c) ==
    IF c \in reserved \/ start[c] # "none"
    THEN UNCHANGED <<start, posts>>
    ELSE IF gateOpen
    THEN start' = [start EXCEPT ![c] = "dispatch"] /\ Post(c, "start dispatch")
    ELSE start' = [start EXCEPT ![c] = "gate"] /\ UNCHANGED posts

(* finish, up to its first await; it throws when the call has no start.    *)
Finish(c) ==
    IF c \in completed \/ ending[c] # "none"
    THEN UNCHANGED <<ending, posts>>
    ELSE ending' = [ending EXCEPT ![c] = "tool"] /\ Post(c, "end tool")

(* The gate file appears: every start that awaits it posts its dispatch.   *)
OpenGate ==
    /\ ~gateOpen
    /\ gateOpen' = TRUE
    /\ start' = [c \in Calls |-> IF start[c] = "gate" THEN "dispatch" ELSE start[c]]
    /\ posts' = [c \in Calls |-> IF start[c] = "gate" THEN Append(posts[c], "start dispatch")
                                 ELSE posts[c]]
    /\ UNCHANGED <<call, errorHandler, dispatched, reserved, ending, completed, activeTasks,
                   binding, parentOf, headers, faults>>

(* The dispatch is granted: the tool's start is posted.                    *)
DispatchGranted(c) ==
    /\ start[c] = "dispatch"
    /\ dispatched' = dispatched \cup {c}
    /\ start' = [start EXCEPT ![c] = "tool"]
    /\ Post(c, "start tool")
    /\ UNCHANGED <<gateOpen, call, errorHandler, reserved, ending, completed, activeTasks,
                   binding, parentOf, headers, faults>>

(* The tool is granted: the reservation is entered, a task is queued for   *)
(* its child, and whoever awaited the start goes on: the hook lets the     *)
(* tool run, the error handler ends the call, a child session that joined  *)
(* takes it out again and is bound to it.                                  *)
ToolGranted(c) ==
    LET s == SessionOf[c]
        joined == {k \in Children : binding[k] = c}
    IN  /\ start[c] = "tool"
        /\ reserved' = reserved \cup {c}
        /\ start' = [start EXCEPT ![c] = "none"]
        /\ activeTasks' = IF c \in TaskCalls /\ joined = {}
                          THEN [activeTasks EXCEPT ![s] = Append(@, c)] ELSE activeTasks
        /\ binding' = [k \in Children |-> IF k \in joined THEN "handled" ELSE binding[k]]
        /\ parentOf' = [k \in Children |-> IF k \in joined THEN c ELSE parentOf[k]]
        /\ call' = [call EXCEPT ![c] = IF @ = "before" THEN "running" ELSE @]
        /\ IF errorHandler[c] = "starting"
           THEN /\ errorHandler' = [errorHandler EXCEPT ![c] = "ending"]
                /\ ending' = [ending EXCEPT ![c] = "tool"]
                /\ Post(c, "end tool")
           ELSE UNCHANGED <<errorHandler, ending, posts>>
        /\ UNCHANGED <<gateOpen, dispatched, completed, headers, faults>>

(* A start is refused or lost: the promise is rejected and forgotten, but  *)
(* a dispatch that was granted stays.  The hook throws, so OpenCode fails  *)
(* the call; handlers that joined throw.                                   *)
StartRejected(c) ==
    /\ start[c] \in {"dispatch", "tool"}
    /\ faults < MaxFaults /\ faults' = faults + 1
    /\ start' = [start EXCEPT ![c] = "none"]
    /\ call' = [call EXCEPT ![c] = IF @ = "before" THEN "erring" ELSE @]
    /\ errorHandler' = [errorHandler EXCEPT ![c] = IF @ = "starting" THEN "thrown" ELSE @]
    /\ binding' = [k \in Children |-> IF binding[k] = c THEN "handled" ELSE binding[k]]
    /\ UNCHANGED <<gateOpen, dispatched, reserved, ending, completed, activeTasks, parentOf,
                   headers, posts>>

-----------------------------------------------------------------------------
(* finish after its awaits: the end of the tool, then of the dispatch,     *)
(* then the tables forget the call and who awaited it goes on.             *)

ToolEndTaken(c) ==
    /\ ending[c] = "tool"
    /\ ending' = [ending EXCEPT ![c] = "dispatch"]
    /\ Post(c, "end dispatch")
    /\ UNCHANGED <<gateOpen, call, errorHandler, start, dispatched, reserved, completed,
                   activeTasks, binding, parentOf, headers, faults>>

DispatchEndTaken_KeepsDispatch(c) ==
    /\ ending[c] = "dispatch"
    /\ ending' = [ending EXCEPT ![c] = "none"]
    /\ completed' = completed \cup {c}
    /\ reserved' = reserved \ {c}
    /\ call' = [call EXCEPT ![c] = IF @ = "after" THEN "done" ELSE @]
    /\ errorHandler' = [errorHandler EXCEPT ![c] = IF @ = "ending" THEN "handled" ELSE @]
    /\ UNCHANGED <<gateOpen, dispatched, start, activeTasks, binding, parentOf, headers, posts, faults>>
DispatchEndTaken_KeepsReservation(c) ==
    /\ ending[c] = "dispatch"
    /\ ending' = [ending EXCEPT ![c] = "none"]
    /\ completed' = completed \cup {c}
    /\ dispatched' = dispatched \ {c}
    /\ call' = [call EXCEPT ![c] = IF @ = "after" THEN "done" ELSE @]
    /\ errorHandler' = [errorHandler EXCEPT ![c] = IF @ = "ending" THEN "handled" ELSE @]
    /\ UNCHANGED <<gateOpen, reserved, start, activeTasks, binding, parentOf, headers, posts, faults>>
DispatchEndTaken(c) ==
    /\ ending[c] = "dispatch"
    /\ ending' = [ending EXCEPT ![c] = "none"]
    /\ completed' = completed \cup {c}
    /\ reserved' = reserved \ {c}
    /\ dispatched' = dispatched \ {c}
    /\ call' = [call EXCEPT ![c] = IF @ = "after" THEN "done" ELSE @]
    /\ errorHandler' = [errorHandler EXCEPT ![c] = IF @ = "ending" THEN "handled" ELSE @]
    /\ UNCHANGED <<gateOpen, start, activeTasks, binding, parentOf, headers, posts, faults>>

EndRejected(c) ==
    /\ ending[c] # "none"
    /\ faults < MaxFaults /\ faults' = faults + 1
    /\ ending' = [ending EXCEPT ![c] = "none"]
    /\ call' = [call EXCEPT ![c] = IF @ = "after" THEN "erring" ELSE @]
    /\ errorHandler' = [errorHandler EXCEPT ![c] = IF @ = "ending" THEN "thrown" ELSE @]
    /\ UNCHANGED <<gateOpen, start, dispatched, reserved, completed, activeTasks, binding,
                   parentOf, headers, posts>>

-----------------------------------------------------------------------------
(* Hooks and events *)

(* tool.execute.before                                                     *)
Before(c) ==
    /\ call[c] = "issued" /\ Live(c) /\ c \notin Bypass
    /\ call' = [call EXCEPT ![c] = IF c \in reserved THEN "running" ELSE "before"]
    /\ StartTool(c)
    /\ UNCHANGED <<gateOpen, errorHandler, dispatched, reserved, ending, completed,
                   activeTasks, binding, parentOf, headers, faults>>

(* Some versions run the task tool without that hook.                      *)
RunsUnhooked(c) ==
    /\ call[c] = "issued" /\ Live(c) /\ c \in Bypass
    /\ call' = [call EXCEPT ![c] = "running"]
    /\ UNCHANGED <<gateOpen, errorHandler, start, dispatched, reserved, ending, completed,
                   activeTasks, binding, parentOf, headers, posts, faults>>

(* message.part.updated of a call that is not over: a task's pending part  *)
(* with its whole arguments, or a running part.                            *)
RunningEvent(c) ==
    /\ call[c] \in {"issued", "before", "running"} /\ Live(c)
    /\ c \notin reserved
    /\ StartTool(c)
    /\ UNCHANGED <<gateOpen, call, errorHandler, dispatched, reserved, ending, completed,
                   activeTasks, binding, parentOf, headers, faults>>

(* tool.execute.after: the native call has ended.                          *)
NativeEnds(c) ==
    /\ call[c] = "running"
    /\ \A s \in Children : TaskOf[s] = c => binding[s] # "none" /\ headers[s] # "unsent"
    /\ IF c \in reserved
       THEN call' = [call EXCEPT ![c] = "after"] /\ Finish(c)
       ELSE call' = [call EXCEPT ![c] = "erring"] /\ UNCHANGED <<ending, posts>>
    /\ UNCHANGED <<gateOpen, errorHandler, start, dispatched, reserved, completed,
                   activeTasks, binding, parentOf, headers, faults>>

NativeFails(c) ==
    /\ call[c] = "running"
    /\ \A s \in Children : TaskOf[s] = c => binding[s] # "none" \/ c \in Childless
    /\ call' = [call EXCEPT ![c] = "erring"]
    /\ UNCHANGED <<gateOpen, errorHandler, start, dispatched, reserved, ending, completed,
                   activeTasks, binding, parentOf, headers, posts, faults>>

(* message.part.updated of a failed call: it is started if it was not, and *)
(* ended.                                                                  *)
ErrorEvent(c) ==
    /\ call[c] = "erring"
    /\ call' = [call EXCEPT ![c] = "failed"]
    /\ IF c \in reserved
       THEN /\ errorHandler' = [errorHandler EXCEPT ![c] = "ending"]
            /\ Finish(c) /\ UNCHANGED start
       ELSE /\ errorHandler' = [errorHandler EXCEPT ![c] = "starting"]
            /\ StartTool(c) /\ UNCHANGED ending
    /\ UNCHANGED <<gateOpen, dispatched, reserved, completed, activeTasks, binding,
                   parentOf, headers, faults>>

(* session.created: the oldest queued task of the parent session becomes   *)
(* the parent; with none queued the handler asks OpenCode's message store. *)
SessionCreated_AsksAlways(s) ==
    /\ call[TaskOf[s]] = "running" /\ binding[s] = "none"
    /\ binding' = [binding EXCEPT ![s] = "asking"]
    /\ UNCHANGED <<gateOpen, call, errorHandler, start, dispatched, reserved, ending,
                   completed, activeTasks, parentOf, headers, posts, faults>>
SessionCreated(s) ==
    LET p == ParentSession(s)
    IN  /\ call[TaskOf[s]] = "running" /\ binding[s] = "none"
        /\ IF activeTasks[p] # <<>>
           THEN /\ activeTasks' = [activeTasks EXCEPT ![p] = Tail(@)]
                /\ parentOf' = [parentOf EXCEPT ![s] = Head(activeTasks[p])]
                /\ binding' = [binding EXCEPT ![s] = "handled"]
           ELSE /\ binding' = [binding EXCEPT ![s] = "asking"]
                /\ UNCHANGED <<activeTasks, parentOf>>
        /\ UNCHANGED <<gateOpen, call, errorHandler, start, dispatched, reserved, ending,
                       completed, headers, posts, faults>>

(* runningTaskForChild answers: the task whose metadata names the child,   *)
(* or the only open one.  startTool joins its start or makes it; for a     *)
(* task that is reserved by now it answers null, and nothing is bound.     *)
TaskFound(s) ==
    LET open == {c \in TaskCalls : SessionOf[c] = ParentSession(s) /\ Live(c)
                                   /\ call[c] \in {"issued", "before", "running"}}
    IN  \E c \in open :
        /\ binding[s] = "asking"
        /\ c = TaskOf[s] \/ open = {c}
        /\ binding' = [binding EXCEPT ![s] = IF c \in reserved THEN "handled" ELSE c]
        /\ StartTool(c)
        /\ UNCHANGED <<gateOpen, call, errorHandler, dispatched, reserved, ending, completed,
                       activeTasks, parentOf, headers, faults>>

(* After 50 polls the handler throws.                                      *)
TaskNotFound(s) ==
    /\ binding[s] = "asking"
    /\ binding' = [binding EXCEPT ![s] = "handled"]
    /\ UNCHANGED <<gateOpen, call, errorHandler, start, dispatched, reserved, ending,
                   completed, activeTasks, parentOf, headers, posts, faults>>

(* chat.headers for the first LLM request of the child session, which does *)
(* not wait for the event handler.                                         *)
ChildRequest(s) ==
    /\ gateOpen
    /\ binding[s] # "none" /\ headers[s] = "unsent"
    /\ call[TaskOf[s]] = "running"
    /\ headers' = [headers EXCEPT ![s] = parentOf[s]]
    /\ UNCHANGED <<gateOpen, call, errorHandler, start, dispatched, reserved, ending,
                   completed, activeTasks, binding, parentOf, posts, faults>>

Next ==
    \/ OpenGate
    \/ \E c \in Calls :
          \/ DispatchGranted(c) \/ ToolGranted(c) \/ StartRejected(c)
          \/ ToolEndTaken(c) \/ DispatchEndTaken(c) \/ EndRejected(c)
          \/ Before(c) \/ RunsUnhooked(c) \/ RunningEvent(c)
          \/ NativeEnds(c) \/ NativeFails(c) \/ ErrorEvent(c)
    \/ \E s \in Children :
          SessionCreated(s) \/ TaskFound(s) \/ TaskNotFound(s) \/ ChildRequest(s)

(* The boundary answers every post (a call it holds for ever is a faultless *)
(* end of the framework's work, not of this program), OpenCode publishes    *)
(* the error of a call that failed, and the supervisor opens the gate.      *)
Fairness ==
    /\ WF_vars(OpenGate)
    /\ \A c \in Calls :
          /\ WF_vars(DispatchGranted(c)) /\ WF_vars(ToolGranted(c))
          /\ WF_vars(ToolEndTaken(c)) /\ WF_vars(DispatchEndTaken(c))
          /\ WF_vars(ErrorEvent(c))

Spec == Init /\ [][Next]_vars /\ Fairness

-----------------------------------------------------------------------------
(* Types.                                                                  *)
TypeOK ==
    /\ gateOpen \in BOOLEAN
    /\ call \in [Calls -> {"issued", "before", "running", "after", "erring", "done", "failed"}]
    /\ errorHandler \in [Calls -> {"none", "starting", "ending", "handled", "thrown"}]
    /\ start \in [Calls -> {"none", "gate", "dispatch", "tool"}]
    /\ ending \in [Calls -> {"none", "tool", "dispatch"}]
    /\ dispatched \subseteq Calls /\ completed \subseteq Calls
    /\ reserved \subseteq dispatched
    /\ \A s \in Sessions : /\ Range(activeTasks[s]) \subseteq TaskCalls
                            /\ IsInjective(activeTasks[s])
    /\ binding \in [Children -> {"none", "asking", "handled"} \cup TaskCalls]
    /\ parentOf \in [Children -> Calls \cup {NoCall}]
    /\ headers \in [Children -> Calls \cup {NoCall, "unsent"}]
    /\ faults \in 0..MaxFaults

(* Hooks and repeated events of a call, in any order, tell the boundary of *)
(* one dispatch and one tool inside it, each begun and ended once, and in  *)
(* this order.  When a post was refused, some are made again, but a tool   *)
(* still starts only after its dispatch, and a dispatch ends only after    *)
(* its tool (startTool, finish and their promise tables).                  *)
BoundaryOrder ==
    LET proper == <<"start dispatch", "start tool", "end tool", "end dispatch">>
        again == {<<"start dispatch", "start dispatch">>, <<"start tool", "start dispatch">>,
                  <<"end tool", "end tool">>, <<"end dispatch", "end tool">>}
    IN  \A c \in Calls :
          /\ faults = 0 => IsPrefix(posts[c], proper)
          /\ call[c] = "done" => Last(posts[c]) = "end dispatch"
          /\ \A i \in 1..Len(posts[c]) - 1 :
                \/ <<posts[c][i], posts[c][i + 1]>> \in again
                \/ \E j \in 1..3 : posts[c][i] = proper[j] /\ posts[c][i + 1] = proper[j + 1]

(* The first LLM request of a child session names the task that created    *)
(* the session, where the parent session makes its tasks one after the     *)
(* other, and this task and those before it went through                   *)
(* tool.execute.before, were granted and each got its child                *)
(* (session.created: the queue of active tasks says which one a child is   *)
(* of only by its order, and nothing takes a task out of it but a child).  *)
Tasks(p) == {c \in TaskCalls : SessionOf[c] = p}
InTurn(p) == \A c, d \in Tasks(p) : c = d \/ c \in After[d] \/ d \in After[c]
UpTo(c) == {d \in Tasks(SessionOf[c]) : d = c \/ d \in After[c]}
Regular(c) == c \notin Bypass \cup Childless /\ \E s \in Children : TaskOf[s] = c

HookedChildrenAreBound ==
    faults = 0 =>
    \A s \in Children :
        InTurn(ParentSession(s)) /\ (\A c \in UpTo(TaskOf[s]) : Regular(c)) =>
            headers[s] \in {"unsent", TaskOf[s]}

(* A call that ended, well or not, is told to the boundary, and then no    *)
(* table holds it any more, so that dispose has nothing to complain of.    *)
EndedIsReported ==
    \A c \in Calls :
        call[c] \in {"after", "erring"} ~>
            \/ c \in completed \ (reserved \cup dispatched)
            \/ faults > 0

=============================================================================
