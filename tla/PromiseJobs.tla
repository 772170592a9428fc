---------------------------- MODULE PromiseJobs ----------------------------
(***************************************************************************)
(* Promises, the microtask queue and the unhandled-rejection list of one   *)
(* boomkat heap: src/builtins/promise.c3 and the queue section of heap.c3, *)
(* driven by Vm.execute, embed::eval_source and embed::drain_microtasks.   *)
(*                                                                         *)
(* The engine is single threaded, so the interleavings here are those of   *)
(* re-entry: script, a queue drain, a job's handler, the report of         *)
(* unhandled rejections, the host's rejection tracker and the script it    *)
(* may evaluate all stand on one native stack, and each sees what the      *)
(* frames above it did to the shared queue, list and promises.  Script is  *)
(* nondeterministic: while a script frame is on top it may perform any of  *)
(* the operations below, up to MaxOps of them.                             *)
(***************************************************************************)
EXTENDS Naturals, Sequences, FiniteSets

CONSTANTS
    MaxPromises,    \* promises a behaviour may allocate
    MaxCells,       \* resolve/reject pairs a behaviour may allocate
    MaxOps,         \* operations script performs in a behaviour
    MaxEntries,     \* calls of bk_eval / bk_drain from the host's top level
    Plain,          \* values that are no objects: fulfil directly
    Thenable,       \* script objects with a callable `then`
    Poison,         \* script objects whose `then` getter throws
    Error,          \* what script throws and what the engine rejects with
    Interrupted,    \* the "interrupted" Error of vm_poll_interrupt
    InterruptSites, \* where the host's interrupt handler may abort
    InlineDrains,   \* does script call what drains the queue mid-script?
    TrackerEvals    \* does the rejection tracker evaluate script?

Promise == 1..MaxPromises
Cell == 1..MaxCells
None == 0
Sites == {"script", "handler", "thenable", "executor"}

ASSUME BoundsAssumption ==
    /\ MaxPromises \in Nat \ {0} /\ MaxCells \in Nat
    /\ MaxOps \in Nat /\ MaxEntries \in Nat
ASSUME FlagsAssumption ==
    /\ InterruptSites \subseteq Sites
    /\ InlineDrains \in BOOLEAN
    /\ TrackerEvals \in BOOLEAN
    /\ InlineDrains => InterruptSites = {}
ASSUME ValuesAssumption ==
    /\ Error \notin Promise \cup Thenable \cup Poison
    /\ Interrupted \notin Promise \cup Thenable \cup Poison \cup Plain \cup {Error, None}
    /\ None \notin Thenable \cup Poison
    /\ Promise \cap (Thenable \cup Poison) = {}
    /\ Plain \cap (Promise \cup Thenable \cup Poison) = {}

(* undefined, as a job's argument or result, is the plain value None.      *)
Value == Promise \cup Plain \cup Thenable \cup Poison
            \cup {Error, Interrupted, None}

(* The handlers a job may carry.  "resolve" and "reject" are the two       *)
(* functions of a capability, which share the cell of [[AlreadyCalled]];   *)
(* "thenable" is the PromiseResolveThenableJob of a resolution.            *)
Closure == [kind : {"user", "identity", "thrower"}, cell : {None},
            resolution : {None}]
Resolving == [kind : {"resolve", "reject"}, cell : Cell, resolution : {None}]
Adopting == [kind : {"thenable"}, cell : Cell, resolution : Promise \cup Thenable]
Callable == Closure \cup Resolving \cup Adopting

Plainly(kind) == [kind |-> kind, cell |-> None, resolution |-> None]
ResolveFn(c)  == [kind |-> "resolve", cell |-> c, resolution |-> None]
RejectFn(c)   == [kind |-> "reject", cell |-> c, resolution |-> None]
ThenableJob(c, v) == [kind |-> "thenable", cell |-> c, resolution |-> v]

(* What a reaction or job settles when its handler is done: nothing, a     *)
(* promise directly, or, through a species constructor, a capability.      *)
NoDownstream == [promise |-> None, cell |-> None]
Downstream == [promise : Promise, cell : {None}]
                \cup [promise : {None}, cell : Cell] \cup {NoDownstream}

(* A reaction may lack handlers; a queued job's handler is callable.       *)
Handler == Callable \cup {Plainly("undefined")}
Reaction == [onFulfilled : Handler, onRejected : Handler, downstream : Downstream]
Job == [handler : Callable, arg : Value, downstream : Downstream]
NoJob == [handler |-> Plainly("undefined"), arg |-> None, downstream |-> NoDownstream]

Settled == {"fulfilled", "rejected"}

PromiseRec == [state : {"unborn", "pending"} \cup Settled,
               result : Value, reactions : Seq(Reaction),
               isHandled : BOOLEAN, inRejectList : BOOLEAN]

(* Native stack frames.  i and n are a frame's locals: the loop index and  *)
(* bound of the report; in "evaluated", i is 1 if Vm.run failed and n is   *)
(* the latched had_error; in "drain", i is 1 once the queue was reset.     *)
Frame == [kind : {"script",     \* script of an eval is running
                  "evaluated",  \* Vm.execute after Vm.run: drains, returns
                  "hostdrain",  \* embed::drain_microtasks
                  "enter",      \* Heap.drain_microtasks, at its guard
                  "drain",      \* its loop, between two jobs
                  "job",        \* a job taken, its handler not yet called
                  "handler",    \* a script handler is running
                  "thenable",   \* a script `then` is running
                  "after",      \* the handler returned
                  "report",     \* report_unhandled_rejections, at entry i
                  "tracker"},   \* the host's tracker is running
          i : Nat, n : Nat]
Top(kind) == [kind |-> kind, i |-> 0, n |-> 0]

VARIABLES
    prom,       \* [Promise -> PromiseRec]: HObjectExtra.promise
    np,         \* promises allocated so far
    cell,       \* [Cell -> [target, called]]: capabilities
    nc,         \* cells allocated so far
    exposed,    \* cells whose functions script holds
    queue,      \* microtask_queue[0 .. microtask_count)
    cursor,     \* the drain's local i; entries before it are done
    draining,   \* microtask_draining
    cur,        \* the job being run
    ret,        \* what its handler returned, or heap.error_value
    slots,      \* unhandled_rejections[], index 1 is slot 0
    ucount,     \* unhandled_count
    stack,      \* native frames, innermost first
    uncatchable,\* heap.uncatchable_throw
    hasError,   \* heap.has_error
    status,     \* what the last host call returned
    ops, entries,   \* operations and host calls used up
    reported,   \* history: times each promise was given to the tracker
    attached,   \* history: promises with a reaction attached by someone
    follows,    \* history: the native promise each promise was resolved with
    raised,     \* history: an interrupt was raised in the current host call
    aborted     \* history: an interrupt aborted a drain

heapVars  == <<prom, np, cell, nc, queue, slots, ucount, follows>>
drainVars == <<cursor, draining, cur, ret>>
histVars  == <<reported, raised, aborted>>
vars == <<prom, np, cell, nc, exposed, queue, cursor, draining, cur, ret,
          slots, ucount, stack, uncatchable, hasError, status, ops, entries,
          reported, attached, follows, raised, aborted>>

TypeOK ==
    /\ prom \in [Promise -> PromiseRec]
    /\ np \in 0..MaxPromises
    /\ cell \in [Cell -> [target : Promise, called : BOOLEAN]]
    /\ nc \in 0..MaxCells
    /\ exposed \subseteq Cell
    /\ queue \in Seq(Job)
    /\ cursor \in 0..Len(queue)
    /\ draining \in BOOLEAN
    /\ cur \in Job \cup {NoJob}
    /\ ret \in Value
    /\ slots \in [Promise -> Promise \cup {None}]
    /\ ucount \in Nat
    /\ stack \in Seq(Frame)
    /\ uncatchable \in BOOLEAN
    /\ hasError \in BOOLEAN
    /\ status \in {"none", "ok", "throw", "interrupt", "internal"}
    /\ ops \in 0..MaxOps
    /\ entries \in 0..MaxEntries
    /\ reported \in [Promise -> Nat]
    /\ attached \subseteq Promise
    /\ follows \in [Promise -> Promise \cup {None}]
    /\ raised \in BOOLEAN
    /\ aborted \in BOOLEAN

Unborn == [state |-> "unborn", result |-> None, reactions |-> <<>>,
           isHandled |-> FALSE, inRejectList |-> FALSE]

(* Above nc: no function refers to it, and its content is immaterial.      *)
Unallocated == [target |-> 1, called |-> TRUE]

Init ==
    /\ prom = [p \in Promise |-> Unborn]
    /\ np = 0
    /\ cell = [c \in Cell |-> Unallocated]
    /\ nc = 0
    /\ exposed = {}
    /\ queue = <<>>
    /\ cursor = 0
    /\ draining = FALSE
    /\ cur = NoJob
    /\ ret = None
    /\ slots = [p \in Promise |-> None]
    /\ ucount = 0
    /\ stack = <<>>
    /\ uncatchable = FALSE
    /\ hasError = FALSE
    /\ status = "none"
    /\ ops = 0
    /\ entries = 0
    /\ reported = [p \in Promise |-> 0]
    /\ attached = {}
    /\ follows = [p \in Promise |-> None]
    /\ raised = FALSE
    /\ aborted = FALSE

-----------------------------------------------------------------------------
(* Helpers on the heap's promises.                                         *)

IsPending(p) == prom[p].state = "pending"

(* promise_init: a freshly allocated pending promise.                      *)
Fresh == [Unborn EXCEPT !.state = "pending"]

(* Mutant: the missing handler is queued as it is.                         *)
ReactionJobNoDefault(r, state, v) ==
    [handler |-> IF state = "fulfilled" THEN r.onFulfilled ELSE r.onRejected,
     arg |-> v, downstream |-> r.downstream]

(* A missing handler is replaced by the Identity or Thrower closure;       *)
(* either way a reaction becomes a queued job, never an inline call.       *)
ReactionJob(r, state, v) ==
    LET h == IF state = "fulfilled" THEN r.onFulfilled ELSE r.onRejected
        default == IF state = "fulfilled" THEN "identity" ELSE "thrower"
    IN [handler |-> IF h.kind = "undefined" THEN Plainly(default) ELSE h,
        arg |-> v, downstream |-> r.downstream]

TriggerReactions(rs, state, v) ==
    [k \in 1..Len(rs) |-> ReactionJob(rs[k], state, v)]

(* track_rejection appends to the live array at unhandled_count.           *)
Tracks(p, state) ==
    /\ state = "rejected"
    /\ ~prom[p].isHandled
    /\ ~prom[p].inRejectList

(* promise_settle followed by promise_trigger_reactions, as every caller   *)
(* pairs them.                                                             *)
PromiseSettle(p, state, v) ==
    IF ~IsPending(p) THEN UNCHANGED <<prom, queue, slots, ucount>>
    ELSE
    /\ prom' = [prom EXCEPT ![p] =
                  [prom[p] EXCEPT !.state = state, !.result = v, !.reactions = <<>>,
                      !.inRejectList = prom[p].inRejectList \/ Tracks(p, state)]]
    /\ queue' = queue \o TriggerReactions(prom[p].reactions, state, v)
    /\ slots' = IF Tracks(p, state)
                  THEN [slots EXCEPT ![ucount + 1] = p] ELSE slots
    /\ ucount' = IF Tracks(p, state) THEN ucount + 1 ELSE ucount

(* promise_resolve_with_value: the promise resolution procedure.  A native *)
(* promise is a thenable like any other: its `then` is called by a job,    *)
(* with the functions of a fresh capability on the promise being resolved. *)
(* cells is the capability table the step starts from.                     *)
ResolveWithValue(p, v, cells) ==
    IF IsPending(p) /\ v # p /\ v \in Promise \cup Thenable
      THEN /\ nc < MaxCells
           /\ nc' = nc + 1
           /\ cell' = [cells EXCEPT ![nc + 1] = [target |-> p, called |-> FALSE]]
           /\ queue' = Append(queue, [handler |-> ThenableJob(nc + 1, v),
                                      arg |-> None, downstream |-> NoDownstream])
           /\ follows' = [follows EXCEPT ![p] = IF v \in Promise THEN v ELSE None]
           /\ UNCHANGED <<prom, np, slots, ucount>>
      ELSE /\ cell' = cells
           /\ IF v = p \/ v \in Poison
                THEN PromiseSettle(p, "rejected", Error)
                ELSE PromiseSettle(p, "fulfilled", v)
           /\ UNCHANGED <<np, nc, follows>>

AlreadyCalled(c) == cell[c].called

(* Mutant: the shared flag is never set.                                   *)
MarkNothing(c) == cell

MarkAlreadyCalled(c) == [cell EXCEPT ![c].called = TRUE]

CallResolveFn(c, v) ==
    IF AlreadyCalled(c) THEN UNCHANGED heapVars
    ELSE ResolveWithValue(cell[c].target, v, MarkAlreadyCalled(c))

(* Mutant: reject trusts its caller and settles without any check.         *)
CallRejectUnchecked(c, v) ==
    /\ prom' = [prom EXCEPT ![cell[c].target].state = "rejected",
                            ![cell[c].target].result = v]
    /\ cell' = MarkAlreadyCalled(c)
    /\ UNCHANGED <<np, nc, queue, slots, ucount, follows>>

CallRejectFn(c, v) ==
    IF AlreadyCalled(c) THEN UNCHANGED heapVars
    ELSE /\ cell' = MarkAlreadyCalled(c)
         /\ PromiseSettle(cell[c].target, "rejected", v)
         /\ UNCHANGED <<np, nc, follows>>

(* Mutant: a reaction added to a settled promise waits on its list.        *)
AddReactionOnly(p, r) ==
    /\ prom' = [prom EXCEPT ![np + 1] = Fresh,
                            ![p] = [prom[p] EXCEPT !.isHandled = TRUE,
                                      !.reactions = Append(prom[p].reactions, r)]]
    /\ UNCHANGED queue

(* promise_add_reaction, and the trigger that follows when p is settled.   *)
AddReaction(p, r) ==
    LET rs == Append(prom[p].reactions, r)
    IN /\ prom' = [prom EXCEPT ![np + 1] = Fresh,
                               ![p] = [prom[p] EXCEPT !.isHandled = TRUE,
                                         !.reactions = IF IsPending(p) THEN rs ELSE <<>>]]
       /\ queue' = IF IsPending(p) THEN queue
                   ELSE queue \o TriggerReactions(rs, prom[p].state, prom[p].result)

(* builtin_promise_proto_then.  The derived promise is np + 1; a species   *)
(* constructor other than %Promise% also allocates its capability.         *)
Then(p, onF, onR, species) ==
    /\ np < MaxPromises
    /\ species => nc < MaxCells
    /\ np' = np + 1
    /\ nc' = IF species THEN nc + 1 ELSE nc
    /\ cell' = IF species
                 THEN [cell EXCEPT ![nc + 1] = [target |-> np + 1, called |-> FALSE]]
                 ELSE cell
    /\ AddReaction(p, [onFulfilled |-> onF, onRejected |-> onR,
                       downstream |-> IF species
                                        THEN [promise |-> None, cell |-> nc + 1]
                                        ELSE [promise |-> np + 1, cell |-> None]])
    /\ attached' = attached \cup {p}
    /\ follows' = IF onF.kind = "undefined" /\ onR.kind = "undefined"
                    THEN [follows EXCEPT ![np + 1] = p] ELSE follows
    /\ UNCHANGED <<slots, ucount>>

-----------------------------------------------------------------------------
(* What script can do, in any frame that runs script.                      *)

Running(kind) == stack # <<>> /\ Head(stack).kind = kind
InScript == Running("script") \/ Running("handler") \/ Running("thenable")
Replace(f) == <<f>> \o Tail(stack)
Push(f) == <<f>> \o stack
Born == 1..np
ScriptValue == Born \cup Plain \cup Thenable \cup Poison

ScriptOp ==
    /\ InScript
    /\ ops < MaxOps
    /\ ops' = ops + 1
    /\ UNCHANGED <<cursor, draining, cur, ret, entries, status, reported, aborted>>

(* new Promise(executor): promise and capability, handed to script.        *)
NewPromise ==
    /\ ScriptOp
    /\ np < MaxPromises /\ nc < MaxCells
    /\ np' = np + 1
    /\ nc' = nc + 1
    /\ prom' = [prom EXCEPT ![np + 1] = Fresh]
    /\ cell' = [cell EXCEPT ![nc + 1] = [target |-> np + 1, called |-> FALSE]]
    /\ exposed' = exposed \cup {nc + 1}
    /\ UNCHANGED <<queue, slots, ucount, stack, uncatchable, hasError,
                   attached, follows, raised>>

(* new Promise(executor) whose executor is interrupted: builtin_promise    *)
(* clears has_error, calls reject with the error and returns the promise.  *)
NewPromiseInterrupted ==
    /\ ScriptOp
    /\ "executor" \in InterruptSites
    /\ np < MaxPromises /\ nc < MaxCells
    /\ np' = np + 1
    /\ nc' = nc + 1
    /\ prom' = [prom EXCEPT ![np + 1] =
                  [Fresh EXCEPT !.state = "rejected", !.result = Interrupted,
                                !.inRejectList = TRUE]]
    /\ slots' = [slots EXCEPT ![ucount + 1] = np + 1]
    /\ ucount' = ucount + 1
    /\ cell' = [cell EXCEPT ![nc + 1] = [target |-> np + 1, called |-> TRUE]]
    /\ exposed' = exposed \cup {nc + 1}
    /\ uncatchable' = TRUE
    /\ raised' = TRUE
    /\ hasError' = FALSE
    /\ UNCHANGED <<queue, stack, attached, follows>>

ScriptResolve ==
    /\ ScriptOp
    /\ \E c \in exposed, v \in ScriptValue : CallResolveFn(c, v)
    /\ UNCHANGED <<exposed, stack, uncatchable, hasError, attached, raised>>

ScriptReject ==
    /\ ScriptOp
    /\ \E c \in exposed : CallRejectFn(c, Error)
    /\ UNCHANGED <<exposed, stack, uncatchable, hasError, attached, raised>>

ScriptThen ==
    /\ ScriptOp
    /\ \E p \in Born, onF, onR \in {Plainly("user"), Plainly("undefined")},
          species \in BOOLEAN : Then(p, onF, onR, species)
    /\ UNCHANGED <<exposed, stack, uncatchable, hasError, raised>>

(* A combinator that settles its result before returning (Promise.all of   *)
(* nothing, a throwing iterator): it calls drain_microtasks itself.        *)
SettlingCombinator ==
    /\ ScriptOp
    /\ InlineDrains
    /\ np < MaxPromises
    /\ np' = np + 1
    /\ \E v \in Plain : prom' = [prom EXCEPT ![np + 1] =
            [Fresh EXCEPT !.state = "fulfilled", !.result = v]]
    /\ stack' = Push(Top("enter"))
    /\ UNCHANGED <<cell, nc, exposed, queue, slots, ucount, uncatchable,
                   hasError, attached, follows, raised>>

-----------------------------------------------------------------------------
(* The host's entry points.                                                *)

HostCall ==
    /\ entries < MaxEntries
    /\ entries' = entries + 1
    /\ uncatchable' = FALSE
    /\ raised' = FALSE
    /\ UNCHANGED <<heapVars, drainVars, exposed, ops, status, reported, aborted, attached>>

(* embed::eval_source up to Vm.run, from the top level or from a tracker.  *)
Eval ==
    /\ stack = <<>> \/ (TrackerEvals /\ Running("tracker"))
    /\ HostCall
    /\ hasError' = FALSE
    /\ stack' = Push(Top("script"))

(* embed::drain_microtasks from the top level.                             *)
HostDrain ==
    /\ stack = <<>>
    /\ HostCall
    /\ stack' = <<Top("enter"), Top("hostdrain")>>
    /\ UNCHANGED hasError

(* bk_call of a resolving function the host holds: no drain follows.       *)
HostSettle ==
    /\ stack = <<>>
    /\ ops < MaxOps
    /\ ops' = ops + 1
    /\ \E c \in exposed : \/ \E v \in ScriptValue : CallResolveFn(c, v)
                          \/ CallRejectFn(c, Error)
    /\ hasError' = FALSE
    /\ UNCHANGED <<drainVars, exposed, stack, uncatchable, entries, status,
                   histVars, attached>>

Quiet == UNCHANGED <<heapVars, exposed, ops, entries, attached>>

(* The script of an eval ends: normally, by an uncaught throw, or by an    *)
(* interrupt.  Vm.execute latches had_error and drains the queue.          *)
ScriptEnd ==
    /\ Running("script")
    /\ \E failed \in {0, 1} :
          /\ \/ failed = 0 /\ UNCHANGED <<hasError, uncatchable, raised>>
             \/ failed = 1 /\ hasError' = TRUE /\ UNCHANGED <<uncatchable, raised>>
             \/ /\ failed = 1
                /\ "script" \in InterruptSites
                /\ hasError' = TRUE
                /\ uncatchable' = TRUE
                /\ raised' = TRUE
          /\ stack' = <<Top("enter"),
                         [kind |-> "evaluated", i |-> failed,
                          n |-> IF hasError' THEN 1 ELSE 0]>> \o Tail(stack)
    /\ Quiet /\ UNCHANGED <<drainVars, status, reported, aborted>>

(* Mutant: Vm.execute does not restore the latched has_error.              *)
EvalReturnNoLatch ==
    /\ Running("evaluated")
    /\ status' = IF uncatchable
                   THEN IF hasError THEN "interrupt" ELSE "internal"
                   ELSE IF Head(stack).i = 0 THEN "ok" ELSE "throw"
    /\ uncatchable' = (uncatchable /\ ~hasError)
    /\ stack' = Tail(stack)
    /\ Quiet /\ UNCHANGED <<drainVars, histVars, hasError>>

(* The rest of Vm.execute and eval_source.                                 *)
EvalReturn ==
    /\ Running("evaluated")
    /\ LET had == Head(stack).n = 1
       IN /\ hasError' = (hasError \/ had)
          /\ status' = IF uncatchable
                         THEN IF hasError' THEN "interrupt" ELSE "internal"
                         ELSE IF Head(stack).i = 0 THEN "ok"
                         ELSE IF hasError' THEN "throw" ELSE "internal"
          /\ uncatchable' = (uncatchable /\ ~hasError')
    /\ stack' = Tail(stack)
    /\ Quiet /\ UNCHANGED <<drainVars, histVars>>

HostDrainReturn ==
    /\ Running("hostdrain")
    /\ status' = IF uncatchable THEN "interrupt" ELSE "ok"
    /\ uncatchable' = FALSE
    /\ stack' = Tail(stack)
    /\ Quiet /\ UNCHANGED <<drainVars, histVars, hasError>>

-----------------------------------------------------------------------------
(* Heap.drain_microtasks.                                                  *)

(* Mutant: the last entry of the list is not visited.                      *)
CallReportShort(rest) ==
    IF ucount = 0
      THEN stack' = rest /\ UNCHANGED ucount
      ELSE stack' = <<[Top("report") EXCEPT !.n = ucount - 1]>> \o rest /\ ucount' = 0

(* Calling report_unhandled_rejections: with an empty list it returns at   *)
(* once, else it takes the count and resets it.                            *)
CallReport(rest) ==
    IF ucount = 0
      THEN stack' = rest /\ UNCHANGED ucount
      ELSE stack' = <<[Top("report") EXCEPT !.n = ucount]>> \o rest /\ ucount' = 0

(* Mutant: an empty queue returns before the report.                       *)
DrainEnterNoReport ==
    /\ Running("enter")
    /\ IF draining \/ queue = <<>>
         THEN stack' = Tail(stack) /\ UNCHANGED <<draining, cursor>>
         ELSE draining' = TRUE /\ cursor' = 0 /\ stack' = Replace(Top("drain"))
    /\ Quiet /\ UNCHANGED <<cur, ret, uncatchable, hasError, status, histVars>>

(* Mutant: no re-entrancy guard.                                           *)
DrainEnterUnguarded ==
    /\ Running("enter")
    /\ draining' = TRUE
    /\ cursor' = 0
    /\ stack' = Replace(Top("drain"))
    /\ Quiet /\ UNCHANGED <<cur, ret, uncatchable, hasError, status, histVars>>

DrainEnter ==
    /\ Running("enter")
    /\ IF draining
         THEN stack' = Tail(stack) /\ UNCHANGED <<ucount, draining, cursor>>
       ELSE IF queue = <<>>
         THEN CallReport(Tail(stack)) /\ UNCHANGED <<draining, cursor>>
       ELSE /\ draining' = TRUE
            /\ cursor' = 0
            /\ stack' = Replace(Top("drain"))
            /\ UNCHANGED ucount
    /\ UNCHANGED <<prom, np, cell, nc, exposed, queue, cur, ret, slots,
                   uncatchable, hasError, status, ops, entries, histVars,
                   attached, follows>>

(* Mutant: the error channels keep what an earlier job or script left.     *)
DrainTakeStaleError ==
    /\ Running("drain")
    /\ Head(stack).i = 0
    /\ cursor < Len(queue)
    /\ cur' = queue[cursor + 1]
    /\ cursor' = cursor + 1
    /\ stack' = Push(Top("job"))
    /\ Quiet /\ UNCHANGED <<draining, ret, uncatchable, hasError, status, histVars>>

(* Mutant: the cursor does not advance.                                    *)
DrainTakeAgain ==
    /\ Running("drain")
    /\ Head(stack).i = 0
    /\ cursor < Len(queue)
    /\ cur' = queue[cursor + 1]
    /\ hasError' = FALSE
    /\ stack' = Push(Top("job"))
    /\ Quiet /\ UNCHANGED <<cursor, draining, ret, uncatchable, status, histVars>>

(* The loop takes the next entry; vm_call_handler_fn_impl then clears the  *)
(* error channels before the handler runs.                                 *)
DrainTake ==
    /\ Running("drain")
    /\ Head(stack).i = 0
    /\ cursor < Len(queue)
    /\ cur' = queue[cursor + 1]
    /\ cursor' = cursor + 1
    /\ hasError' = FALSE
    /\ stack' = Push(Top("job"))
    /\ Quiet /\ UNCHANGED <<draining, ret, uncatchable, status, histVars>>

(* Mutant: the loop stops one entry short.                                 *)
DrainEndShort ==
    /\ Running("drain")
    /\ Head(stack).i = 0
    /\ cursor + 1 >= Len(queue)
    /\ queue' = <<>>
    /\ cursor' = 0
    /\ CallReport(Replace([Top("drain") EXCEPT !.i = 1]))
    /\ UNCHANGED <<prom, np, cell, nc, exposed, draining, cur, ret, slots,
                   uncatchable, hasError, status, ops, entries, histVars,
                   attached, follows>>

(* The loop is over: the queue is reset and the rejections are reported,   *)
(* both before the deferred reset of microtask_draining.                   *)
DrainEnd ==
    /\ Running("drain")
    /\ Head(stack).i = 0
    /\ cursor = Len(queue)
    /\ queue' = <<>>
    /\ cursor' = 0
    /\ CallReport(Replace([Top("drain") EXCEPT !.i = 1]))
    /\ UNCHANGED <<prom, np, cell, nc, exposed, draining, cur, ret, slots,
                   uncatchable, hasError, status, ops, entries, histVars,
                   attached, follows>>

DrainReturn ==
    /\ Running("drain")
    /\ Head(stack).i = 1
    /\ draining' = FALSE
    /\ stack' = Tail(stack)
    /\ Quiet /\ UNCHANGED <<cursor, cur, ret, uncatchable, hasError, status, histVars>>

(* Dispatch of the handler.                                                *)
JobStarts(kind) == Running("job") /\ cur.handler.kind = kind
JobQuiet == UNCHANGED <<cursor, draining, cur, uncatchable, status, ops, entries, histVars>>

RunScriptHandler ==
    /\ JobStarts("user")
    /\ stack' = Replace(Top("handler"))
    /\ Quiet /\ JobQuiet /\ UNCHANGED <<ret, hasError>>

RunIdentity ==
    /\ JobStarts("identity")
    /\ ret' = cur.arg
    /\ stack' = Replace(Top("after"))
    /\ Quiet /\ JobQuiet /\ UNCHANGED hasError

RunThrower ==
    /\ JobStarts("thrower")
    /\ ret' = cur.arg
    /\ hasError' = TRUE
    /\ stack' = Replace(Top("after"))
    /\ Quiet /\ JobQuiet

RunResolvingFn ==
    /\ \/ JobStarts("resolve") /\ CallResolveFn(cur.handler.cell, cur.arg)
       \/ JobStarts("reject") /\ CallRejectFn(cur.handler.cell, cur.arg)
    /\ ret' = None
    /\ stack' = Replace(Top("after"))
    /\ JobQuiet /\ UNCHANGED <<exposed, hasError, attached>>

(* PromiseResolveThenableJob of a native promise: its `then` attaches the  *)
(* capability's functions.                                                 *)
RunNativeThenable ==
    /\ JobStarts("thenable")
    /\ cur.handler.resolution \in Promise
    /\ Then(cur.handler.resolution, ResolveFn(cur.handler.cell),
            RejectFn(cur.handler.cell), FALSE)
    /\ ret' = None
    /\ stack' = Replace(Top("after"))
    /\ JobQuiet /\ UNCHANGED <<exposed, hasError>>

(* PromiseResolveThenableJob of a script object: script's `then` runs, and *)
(* now holds the capability's functions.                                   *)
RunScriptThenable ==
    /\ JobStarts("thenable")
    /\ cur.handler.resolution \in Thenable
    /\ exposed' = exposed \cup {cur.handler.cell}
    /\ stack' = Replace(Top("thenable"))
    /\ JobQuiet /\ UNCHANGED <<heapVars, ret, hasError, attached>>

(* A script handler returns, throws, or is interrupted.                    *)
HandlerEnd ==
    /\ Running("handler")
    /\ \/ /\ ret' \in Plain
          /\ UNCHANGED <<hasError, uncatchable, raised, ops>>
       \/ /\ ops < MaxOps
          /\ ops' = ops + 1
          /\ ret' \in ScriptValue \ Plain
          /\ UNCHANGED <<hasError, uncatchable, raised>>
       \/ /\ ret' = Error
          /\ hasError' = TRUE
          /\ UNCHANGED <<uncatchable, raised, ops>>
       \/ /\ "handler" \in InterruptSites
          /\ ret' = Interrupted
          /\ hasError' = TRUE
          /\ uncatchable' = TRUE
          /\ raised' = TRUE
          /\ UNCHANGED ops
    /\ stack' = Replace(Top("after"))
    /\ UNCHANGED <<heapVars, exposed, entries, attached, cursor, draining, cur,
                   status, reported, aborted>>

(* A script `then` returns, throws, or is interrupted; the job turns any   *)
(* has_error into a call of reject and clears it.                          *)
ThenableEnd ==
    /\ Running("thenable")
    /\ \/ UNCHANGED <<heapVars, uncatchable, raised>>
       \/ CallRejectFn(cur.handler.cell, Error) /\ UNCHANGED <<uncatchable, raised>>
       \/ /\ "thenable" \in InterruptSites
          /\ CallRejectFn(cur.handler.cell, Interrupted)
          /\ uncatchable' = TRUE
          /\ raised' = TRUE
    /\ ret' = None
    /\ hasError' = FALSE
    /\ stack' = Replace(Top("after"))
    /\ UNCHANGED <<exposed, cursor, draining, cur, status, ops, entries,
                   reported, aborted, attached>>

(* promise_microtask_after: settle the downstream with what the handler    *)
(* left, has_error telling a throw from a return.                          *)
MicrotaskAfter(ds) ==
    IF ds.cell # None
      THEN /\ hasError' = FALSE
           /\ IF hasError THEN CallRejectFn(ds.cell, ret)
                          ELSE CallResolveFn(ds.cell, ret)
    ELSE IF ds.promise # None /\ IsPending(ds.promise)
      THEN /\ hasError' = FALSE
           /\ IF hasError
                THEN PromiseSettle(ds.promise, "rejected", ret)
                     /\ UNCHANGED <<np, cell, nc, follows>>
                ELSE ResolveWithValue(ds.promise, ret, cell)
    ELSE UNCHANGED <<heapVars, hasError>>

(* Mutant: the downstream is settled whatever ended the job.               *)
JobAfterAlways ==
    /\ Running("after")
    /\ MicrotaskAfter(cur.downstream)
    /\ cur' = NoJob
    /\ ret' = None
    /\ stack' = Tail(stack)
    /\ UNCHANGED <<exposed, cursor, draining, uncatchable, status, ops,
                   entries, histVars, attached>>

JobAfter ==
    /\ Running("after")
    /\ ~uncatchable
    /\ MicrotaskAfter(cur.downstream)
    /\ cur' = NoJob
    /\ ret' = None
    /\ stack' = Tail(stack)
    /\ UNCHANGED <<exposed, cursor, draining, uncatchable, status, ops,
                   entries, histVars, attached>>

(* uncatchable_throw is set after the job: settle nothing, drop the rest.  *)
JobAborts ==
    /\ Running("after")
    /\ uncatchable
    /\ cursor' = Len(queue)
    /\ cur' = NoJob
    /\ ret' = None
    /\ aborted' = TRUE
    /\ stack' = Tail(stack)
    /\ Quiet /\ UNCHANGED <<draining, uncatchable, hasError, status, reported, raised>>

-----------------------------------------------------------------------------
(* Heap.report_unhandled_rejections, one entry a step.                     *)

(* Mutant: a handler attached since the rejection is not looked at.        *)
StillRejected(p) == prom[p].state = "rejected"

StillUnhandled(p) == ~prom[p].isHandled /\ prom[p].state = "rejected"

ReportQuiet == UNCHANGED <<np, cell, nc, queue, ucount, follows, exposed,
                           drainVars, uncatchable, hasError, status, ops,
                           entries, raised, aborted, attached>>
NextEntry == Replace([Head(stack) EXCEPT !.i = @ + 1])

ReportSkip ==
    /\ Running("report")
    /\ LET i == Head(stack).i
           p == slots[i + 1]
       IN /\ i < Head(stack).n
          /\ p # None => ~StillUnhandled(p)
          /\ prom' = IF p = None THEN prom ELSE [prom EXCEPT ![p].inRejectList = FALSE]
          /\ slots' = [slots EXCEPT ![i + 1] = None]
    /\ stack' = NextEntry
    /\ ReportQuiet /\ UNCHANGED reported

(* The promise is marked handled before the tracker is called.             *)
ReportCall ==
    /\ Running("report")
    /\ LET i == Head(stack).i
           p == slots[i + 1]
       IN /\ i < Head(stack).n
          /\ p # None
          /\ StillUnhandled(p)
          /\ prom' = [prom EXCEPT ![p].inRejectList = FALSE, ![p].isHandled = TRUE]
          /\ reported' = [reported EXCEPT ![p] = @ + 1]
    /\ stack' = Push(Top("tracker"))
    /\ ReportQuiet /\ UNCHANGED slots

TrackerReturn ==
    /\ Running("tracker")
    /\ LET report == stack[2]
       IN /\ slots' = [slots EXCEPT ![report.i + 1] = None]
          /\ stack' = <<[report EXCEPT !.i = @ + 1]>> \o Tail(Tail(stack))
    /\ ReportQuiet /\ UNCHANGED <<prom, reported>>

ReportReturn ==
    /\ Running("report")
    /\ Head(stack).i = Head(stack).n
    /\ stack' = Tail(stack)
    /\ ReportQuiet /\ UNCHANGED <<prom, slots, reported>>

-----------------------------------------------------------------------------
ScriptStep ==
    \/ NewPromise \/ NewPromiseInterrupted
    \/ ScriptResolve \/ ScriptReject \/ ScriptThen
    \/ SettlingCombinator

HostStep == Eval \/ HostDrain \/ HostSettle

EngineStep ==
    \/ ScriptEnd \/ EvalReturn \/ HostDrainReturn
    \/ DrainEnter \/ DrainTake \/ DrainEnd \/ DrainReturn
    \/ RunScriptHandler \/ RunIdentity \/ RunThrower \/ RunResolvingFn
    \/ RunNativeThenable \/ RunScriptThenable
    \/ HandlerEnd \/ ThenableEnd \/ JobAfter \/ JobAborts
    \/ ReportSkip \/ ReportCall \/ TrackerReturn \/ ReportReturn

Next == ScriptStep \/ HostStep \/ EngineStep

Spec == Init /\ [][Next]_vars

(* The engine runs on one thread and never waits, and every script body    *)
(* performs finitely many operations and ends: some step is taken until    *)
(* the outermost host call has returned.  Nothing obliges the host to call *)
(* in again.                                                               *)
FairSpec == Spec /\ WF_vars(ScriptStep \/ EngineStep)

-----------------------------------------------------------------------------
(* Properties.                                                             *)

Pending == SubSeq(queue, cursor + 1, Len(queue))

Jobs == INSTANCE JobQueue WITH pending <- Pending, running <- (cur # NoJob)

JobFrames == {"job", "handler", "thenable", "after"}

(* The shape of a native stack s while microtask_draining is d and the     *)
(* current job is c.                                                       *)
Disciplined(s, d, c) ==
    /\ \A k \in 1..Len(s) :
         /\ s[k].kind = "drain" => d
         /\ s[k].kind = "tracker" =>
              k < Len(s) /\ s[k + 1].kind = "report"
         /\ s[k].kind \in JobFrames =>
              /\ k < Len(s)
              /\ s[k + 1].kind = "drain" /\ s[k + 1].i = 0
              /\ c # NoJob
         /\ s[k].kind = "thenable" => c.handler.kind = "thenable"
    /\ \A j, k \in 1..Len(s) :
         s[j].kind = "drain" /\ s[k].kind = "drain" => j = k
    /\ c # NoJob => \E k \in 1..Len(s) : s[k].kind \in JobFrames

(* However script, drains, reports and trackers nest, the native stack     *)
(* holds at most one running drain and at most one job, the job stands     *)
(* directly on its drain's loop, and a tracker directly on its report:     *)
(* the re-entrancy guard of drain_microtasks is what makes one cursor and  *)
(* one current job enough.                                                 *)
StackDiscipline == Disciplined(stack, draining, cur)

(* The queue with its read cursor is a first-in first-out queue of jobs    *)
(* run one at a time: no job is lost, duplicated, reordered or overwritten *)
(* by the jobs its predecessors enqueue, and nested drains never start a   *)
(* second job (enqueue_microtask, drain_microtasks).                       *)
JobsAreFifo == Jobs!Spec

(* Everything that could still settle p: the functions of a capability not *)
(* called yet, a reaction on another promise, or a job not finished.       *)
Settlers(p) ==
    {<<"cell", c, 0>> : c \in {c \in 1..nc : cell[c].target = p /\ ~cell[c].called}}
    \cup (UNION {{<<"reaction", q, k>> :
                    k \in {k \in DOMAIN prom[q].reactions :
                             prom[q].reactions[k].downstream.promise = p}} : q \in Born})
    \cup {<<"job", k, 0>> :
            k \in {k \in cursor + 1..Len(queue) : queue[k].downstream.promise = p}}
    \cup {t \in {<<"running", 0, 0>>} : cur.downstream.promise = p}

(* Through resolution with thenables, nested capabilities, reactions and   *)
(* jobs, exactly one party can settle a pending promise at any moment, and *)
(* none can settle a settled one; only an aborted drain leaves a pending   *)
(* promise without a settler.                                              *)
ExactlyOneSettler ==
    \A p \in Born :
        LET n == Cardinality(Settlers(p))
        IN IF IsPending(p) THEN n = 1 \/ (aborted /\ n = 0) ELSE n = 0

(* A promise resolved with a native promise, or derived from one by a      *)
(* then without handlers, settles only after it and exactly as it did:     *)
(* no second call of a resolving function and no stale error of another    *)
(* job gets in between.                                                    *)
FollowersAgree ==
    \A p \in Born :
        follows[p] # None /\ ~IsPending(p) =>
            /\ prom[follows[p]].state = prom[p].state
            /\ prom[follows[p]].result = prom[p].result

(* A settled promise holds no reactions: each was turned into a job, so a  *)
(* handler attached before, while or after the promise settles is never    *)
(* left waiting (promise_trigger_reactions, builtin_promise_proto_then).   *)
NoStrandedReactions ==
    \A p \in Born : ~IsPending(p) => prom[p].reactions = <<>>

(* A settled promise never changes state or result again, whatever jobs    *)
(* and resolving functions are still around.                               *)
SettledForGood ==
    [][\A p \in Promise : prom[p].state \in Settled =>
          prom'[p].state = prom[p].state /\ prom'[p].result = prom[p].result]_vars

(* When eval or drain is about to return to the host no job is left behind *)
(* and no rejection waits to be reported: "bk_eval already drains"         *)
(* (include/boomkat.h), and an empty queue "still has to fall through to   *)
(* the report" (drain_microtasks).                                         *)
ReturnsDrained ==
    Running("evaluated") \/ Running("hostdrain") => queue = <<>> /\ ucount = 0

(* With the list empty and the engine idle, a rejection nobody handled was *)
(* reported once, and no rejection was ever reported twice.                *)
UnhandledReported ==
    /\ \A p \in Born : reported[p] <= 1
    /\ stack = <<>> /\ ucount = 0 =>
         \A p \in Born :
            prom[p].state = "rejected" /\ p \notin attached => reported[p] = 1

(* A rejection is reported only if no handler was attached to it, only     *)
(* with the queue empty, and only once the script of the tick is over, so  *)
(* that "a handler attached later in the same tick" still counts.          *)
ReportsAfterTick ==
    [][\A p \in Promise : reported'[p] # reported[p] =>
          /\ p \notin attached
          /\ queue = <<>>
          /\ \A k \in DOMAIN stack : stack[k].kind # "script"]_vars

(* An interrupt never becomes a promise's result: it is the host's, not    *)
(* script's ("settle no promise with it", drain_microtasks).               *)
InterruptSettlesNothing ==
    \A p \in Born : prom[p].result # Interrupted

(* An interrupt raised anywhere below a host call is what that call        *)
(* returns, and the flag does not outlive the call.                        *)
InterruptSurfaces ==
    stack = <<>> /\ raised => status = "interrupt" /\ ~uncatchable

(* Every call into the engine returns, every job it found or caused having *)
(* been started or dropped.                                                *)
HostCallsReturn == (stack # <<>>) ~> (stack = <<>> /\ Pending = <<>>)

=============================================================================
