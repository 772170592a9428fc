----------------------- MODULE PromiseReports_proofs ------------------------
(***************************************************************************)
(* What a host call does with interrupts and unhandled rejections: proofs  *)
(* about PromiseJobs, some under the conditions on the environment that    *)
(* the violated runs show to be necessary.                                 *)
(***************************************************************************)
EXTENDS PromiseSettlers_proofs

-----------------------------------------------------------------------------
(* The error of an interrupt is nowhere a value but in a job it ended.     *)

PromClean(ps) == \A p \in Promise : ps[p].result # Interrupted
QueueClean(q) == \A k \in 1..Len(q) : q[k].arg # Interrupted
HeapClean == PromClean(prom) /\ QueueClean(queue)

Clean ==
    /\ HeapClean
    /\ cur.arg # Interrupted
    /\ ret = Interrupted => uncatchable /\ Running("after")

LEMMA ConcatClean ==
    ASSUME NEW q \in Seq(Job), NEW r \in Seq(Job), QueueClean(q), QueueClean(r)
    PROVE  QueueClean(q \o r)
<1>1. /\ Len(q \o r) = Len(q) + Len(r) /\ Len(q) \in Nat /\ Len(r) \in Nat
      /\ \A k \in 1..Len(q \o r) : (q \o r)[k] = IF k <= Len(q) THEN q[k] ELSE r[k - Len(q)]
  BY ConcatProperties
<1> DEFINE t == q \o r
<1> HIDE DEF t
<1>2. /\ Len(t) = Len(q) + Len(r)
      /\ \A k \in 1..Len(t) : t[k] = IF k <= Len(q) THEN q[k] ELSE r[k - Len(q)]
  BY <1>1 DEF t
<1>3. QueueClean(t)
  BY <1>1, <1>2 DEF QueueClean
<1>4. QED
  BY <1>3 DEF t

LEMMA TriggerClean ==
    ASSUME NEW rs \in Seq(Reaction), NEW state, NEW v \in Value, v # Interrupted
    PROVE  /\ TriggerReactions(rs, state, v) \in Seq(Job)
           /\ QueueClean(TriggerReactions(rs, state, v))
<1> DEFINE js == TriggerReactions(rs, state, v)
<1>1. js \in Seq(Job)
  BY TriggerReactionsType
<1>2. \A k \in DOMAIN js : js[k].arg = v
  BY DEF TriggerReactions, ReactionJob
<1>3. DOMAIN js = 1..Len(js)
  BY <1>1, LenProperties
<1> HIDE DEF js
<1>4. QED
  BY <1>1, <1>2, <1>3 DEF QueueClean, js

LEMMA SettleClean ==
    ASSUME HeapInv, HeapClean, NEW p \in Promise, NEW state \in Settled, NEW v \in Value,
           v # Interrupted, PromiseSettle(p, state, v)
    PROVE  HeapClean'
<1>1. CASE ~IsPending(p)
  BY <1>1 DEF PromiseSettle, HeapClean
<1>2. CASE IsPending(p)
  <2>1. /\ prom'[p].result = v
        /\ \A q \in Promise : q # p => prom'[q] = prom[q]
        /\ queue' = queue \o TriggerReactions(prom[p].reactions, state, v)
        /\ prom[p].reactions \in Seq(Reaction) /\ queue \in Seq(Job)
    BY <1>2, SettleFacts DEF HeapInv, HeapType
  <2>2. PromClean(prom')
    BY <2>1 DEF HeapClean, PromClean
  <2>3. QueueClean(queue')
    BY <2>1, TriggerClean, ConcatClean DEF HeapClean
  <2>4. QED
    BY <2>2, <2>3 DEF HeapClean
<1>3. QED
  BY <1>1, <1>2

LEMMA ResolveClean ==
    ASSUME HeapInv, HeapClean, NEW p \in Promise, NEW v \in Value, v # Interrupted,
           NEW cells, ResolveWithValue(p, v, cells)
    PROVE  HeapClean'
<1>1. CASE IsPending(p) /\ v # p /\ v \in Promise \cup Thenable
  <2> DEFINE j == [handler |-> ThenableJob(nc + 1, v), arg |-> None,
                   downstream |-> NoDownstream]
  <2>1. queue' = Append(queue, j) /\ prom' = prom /\ queue \in Seq(Job)
    BY <1>1 DEF ResolveWithValue, HeapInv, HeapType
  <2>2. j.arg # Interrupted
    BY ValuesAssumption
  <2> HIDE DEF j
  <2>3. QueueClean(queue')
    BY <2>1, <2>2 DEF HeapClean, QueueClean
  <2>4. QED
    BY <2>1, <2>3 DEF HeapClean
<1>2. CASE ~(IsPending(p) /\ v # p /\ v \in Promise \cup Thenable)
  <2>1. \/ PromiseSettle(p, "rejected", Error)
        \/ PromiseSettle(p, "fulfilled", v)
    BY <1>2 DEF ResolveWithValue
  <2>2. Error \in Value /\ Error # Interrupted
        /\ "rejected" \in Settled /\ "fulfilled" \in Settled
    BY ValuesAssumption DEF Value, Settled
  <2>3. QED
    BY <2>1, <2>2, SettleClean
<1>3. QED
  BY <1>1, <1>2

LEMMA CallClean ==
    ASSUME HeapInv, HeapClean, NEW c \in Cell, NEW v \in Value, v # Interrupted,
           CallResolveFn(c, v) \/ CallRejectFn(c, v)
    PROVE  HeapClean'
<1>1. cell[c].target \in Promise /\ "rejected" \in Settled
  BY DEF HeapInv, HeapType, Settled
<1>2. CASE AlreadyCalled(c)
  BY <1>2 DEF CallResolveFn, CallRejectFn, HeapClean, heapVars
<1>3. CASE ~AlreadyCalled(c)
  <2>1. \/ ResolveWithValue(cell[c].target, v, MarkAlreadyCalled(c))
        \/ PromiseSettle(cell[c].target, "rejected", v)
    BY <1>3 DEF CallResolveFn, CallRejectFn
  <2>2. QED
    BY <1>1, <2>1, SettleClean, ResolveClean
<1>4. QED
  BY <1>2, <1>3

LEMMA ThenClean ==
    ASSUME HeapInv, HeapScoped, HeapClean, NEW p \in Promise, p <= np,
           NEW onF \in Handler, NEW onR \in Handler, NEW species \in BOOLEAN,
           Then(p, onF, onR, species)
    PROVE  HeapClean'
<1> DEFINE ds == IF species THEN [promise |-> None, cell |-> nc + 1]
                            ELSE [promise |-> np + 1, cell |-> None]
           r == [onFulfilled |-> onF, onRejected |-> onR, downstream |-> ds]
<1>1. np < MaxPromises /\ (species => nc < MaxCells) /\ AddReaction(p, r)
  BY DEF Then
<1>2. np \in Nat /\ nc \in Nat /\ queue \in Seq(Job) /\ prom \in [Promise -> PromiseRec]
  BY DEF HeapInv, HeapType
<1>3. ds \in Downstream
  BY <1>1, <1>2, BoundsAssumption DEF Downstream, Promise, Cell
<1>4. r \in Reaction
  BY <1>3 DEF Reaction
<1> HIDE DEF ds, r
<1>5. /\ prom'[np + 1] = Fresh /\ prom'[p].result = prom[p].result
      /\ \A q \in Promise : q # p /\ q # np + 1 => prom'[q] = prom[q]
      /\ IsPending(p) => queue' = queue
      /\ ~IsPending(p) => queue' = queue \o
                     TriggerReactions(<<r>>, prom[p].state, prom[p].result)
  BY <1>1, <1>4, AddReactionFacts
<1>6. PromClean(prom')
  <2>1. Fresh.result # Interrupted
    BY ValuesAssumption DEF Fresh, Unborn
  <2>2. QED
    BY <1>5, <2>1 DEF HeapClean, PromClean
<1>7. QueueClean(queue')
  <2>1. CASE IsPending(p)
    BY <1>5, <2>1 DEF HeapClean
  <2>2. CASE ~IsPending(p)
    <3>1. <<r>> \in Seq(Reaction) /\ prom[p].result \in Value /\ prom[p].result # Interrupted
      BY <1>2, <1>4 DEF PromiseRec, HeapClean, PromClean
    <3>2. QED
      BY <1>2, <1>5, <2>2, <3>1, TriggerClean, ConcatClean DEF HeapClean
  <2>3. QED
    BY <2>1, <2>2
<1>8. QED
  BY <1>6, <1>7 DEF HeapClean

LEMMA AfterClean ==
    ASSUME HeapInv, HeapClean, NEW ds \in Downstream, ret \in Value, ret # Interrupted,
           MicrotaskAfter(ds)
    PROVE  HeapClean'
<1>1. CASE ds.cell # None
  <2>1. ds.cell \in Cell
    BY <1>1 DEF Downstream, NoDownstream
  <2>2. CallRejectFn(ds.cell, ret) \/ CallResolveFn(ds.cell, ret)
    BY <1>1 DEF MicrotaskAfter
  <2>3. QED
    BY <2>1, <2>2, CallClean
<1>2. CASE ds.cell = None /\ ds.promise # None /\ IsPending(ds.promise)
  <2>1. ds.promise \in Promise /\ "rejected" \in Settled
    BY <1>2 DEF Downstream, NoDownstream, Settled
  <2>2. PromiseSettle(ds.promise, "rejected", ret) \/ ResolveWithValue(ds.promise, ret, cell)
    BY <1>2 DEF MicrotaskAfter
  <2>3. QED
    BY <2>1, <2>2, SettleClean, ResolveClean
<1>3. CASE ds.cell = None /\ ~(ds.promise # None /\ IsPending(ds.promise))
  BY <1>3 DEF MicrotaskAfter, HeapClean, heapVars
<1>4. QED
  BY <1>1, <1>2, <1>3

(* The sites where an interrupt reaches the boundary unharmed: the script  *)
(* of an eval and a handler, not a thenable's `then` or an executor.       *)
SafeSites == InterruptSites \subseteq {"script", "handler"}

LEMMA KeepClean ==
    ASSUME Clean, HeapClean', cur' \in {cur, NoJob}, ret' # Interrupted
    PROVE  Clean'
<1>1. NoJob.arg # Interrupted
  BY ValuesAssumption DEF NoJob
<1>2. QED
  BY <1>1 DEF Clean

LEMMA ScriptClean ==
    ASSUME IInv, Scoped, Clean, SafeSites, ScriptStep \/ HostStep
    PROVE  Clean'
<1>0. /\ HeapInv /\ HeapScoped /\ HeapClean /\ np \in Nat /\ exposed \subseteq Cell
      /\ queue \in Seq(Job) /\ prom \in [Promise -> PromiseRec]
  BY DEF IInv, HeapInv, HeapType, ControlType, Scoped, Clean
<1>1. \A v \in ScriptValue \cup {Error} : v \in Value /\ v # Interrupted
  <2>1. Born \subseteq Promise
    BY BoundsAssumption DEF Born, Promise, IInv, HeapInv, HeapType
  <2>2. QED
    BY <2>1, ValuesAssumption DEF ScriptValue, Value
<1>2. ~Running("after") /\ cur' = cur /\ ret' = ret
  <2>1. CASE ScriptStep
    BY <2>1 DEF ScriptStep, NewPromise, NewPromiseInterrupted, ScriptResolve,
       ScriptReject, ScriptThen, SettlingCombinator, ScriptOp, InScript, Running
  <2>2. CASE HostStep
    BY <2>2 DEF HostStep, Eval, HostDrain, HostSettle, HostCall, Running, drainVars
  <2>3. QED
    BY <2>1, <2>2
<1>3. ret' # Interrupted
  BY <1>2 DEF Clean
<1>4. HeapClean'
  <2>1. CASE NewPromise \/ SettlingCombinator
    <3>1. PICK r : prom' = [prom EXCEPT ![np + 1] = r] /\ r.result # Interrupted /\ queue' = queue
      <4>1. CASE NewPromise
        <5>1. Fresh.result # Interrupted
          BY ValuesAssumption DEF Fresh, Unborn
        <5>2. QED
          BY <4>1, <5>1 DEF NewPromise
      <4>2. CASE SettlingCombinator
        <5>1. PICK v \in Plain : prom' = [prom EXCEPT ![np + 1] =
                                   [Fresh EXCEPT !.state = "fulfilled", !.result = v]]
          BY <4>2 DEF SettlingCombinator
        <5> DEFINE r == [Fresh EXCEPT !.state = "fulfilled", !.result = v]
        <5>2. r.result # Interrupted
          BY ValuesAssumption DEF Fresh, Unborn
        <5> HIDE DEF r
        <5>3. prom' = [prom EXCEPT ![np + 1] = r] /\ queue' = queue
          BY <4>2, <5>1 DEF SettlingCombinator, r
        <5>4. QED
          BY <5>2, <5>3
      <4>3. QED
        BY <2>1, <4>1, <4>2
    <3>2. PromClean(prom')
      BY <1>0, <3>1 DEF HeapClean, PromClean
    <3>3. QED
      BY <1>0, <3>1, <3>2 DEF HeapClean
  <2>2. CASE NewPromiseInterrupted
    BY <2>2 DEF NewPromiseInterrupted, SafeSites
  <2>3. CASE ScriptResolve \/ ScriptReject
    BY <1>0, <1>1, <2>3, CallClean DEF ScriptResolve, ScriptReject
  <2>4. CASE ScriptThen
    <3>1. PICK p \in Born, onF \in {Plainly("user"), Plainly("undefined")},
               onR \in {Plainly("user"), Plainly("undefined")},
               species \in BOOLEAN : Then(p, onF, onR, species)
      BY <2>4 DEF ScriptThen
    <3>2. onF \in Handler /\ onR \in Handler
      BY DEF Handler, Callable, Closure, Plainly
    <3>3. p \in Promise /\ p <= np
      BY BoundsAssumption DEF Born, Promise, IInv, HeapInv, HeapType
    <3>4. QED
      BY <1>0, <3>1, <3>2, <3>3, ThenClean
  <2>5. CASE Eval \/ HostDrain
    BY <1>0, <2>5 DEF Eval, HostDrain, HostCall, heapVars, HeapClean
  <2>6. CASE HostSettle
    BY <1>0, <1>1, <2>6, CallClean DEF HostSettle
  <2>7. QED
    BY <2>1, <2>2, <2>3, <2>4, <2>5, <2>6 DEF ScriptStep, HostStep
<1>5. QED
  BY <1>2, <1>3, <1>4, KeepClean

LEMMA EngineClean ==
    ASSUME IInv, Scoped, Clean, SafeSites, EngineStep
    PROVE  Clean'
<1>0. /\ HeapInv /\ HeapScoped /\ HeapClean /\ np \in Nat
      /\ queue \in Seq(Job) /\ prom \in [Promise -> PromiseRec]
      /\ cur.arg # Interrupted /\ cursor \in 0..Len(queue)
      /\ JobBorn(cur, np)
  BY DEF IInv, HeapInv, HeapType, Scoped, Clean
<1>1. ~Running("after") => ret # Interrupted
  BY DEF Clean
<1>2. \A kind : Running(kind) /\ kind # "after" => ~Running("after")
  BY DEF Running
<1>3. None # Interrupted /\ Error # Interrupted /\ Error \in Value
      /\ \A v \in Plain \cup ScriptValue : v # Interrupted
  <2>1. Born \subseteq Promise
    BY BoundsAssumption DEF Born, Promise, IInv, HeapInv, HeapType
  <2>2. QED
    BY <2>1, ValuesAssumption DEF ScriptValue, Value
<1>4. CASE \/ ScriptEnd \/ EvalReturn \/ HostDrainReturn \/ DrainEnter \/ DrainReturn
           \/ RunScriptHandler
  <2>1. /\ UNCHANGED <<prom, queue, cur, ret>>
        /\ \E kind \in {"script", "evaluated", "hostdrain", "enter", "drain", "job"} :
              Running(kind)
    BY <1>4 DEF ScriptEnd, EvalReturn, HostDrainReturn, DrainEnter, DrainReturn,
       RunScriptHandler, JobStarts, JobQuiet, Quiet, heapVars, drainVars
  <2>2. ret' # Interrupted
    BY <1>1, <1>2, <2>1
  <2>3. QED
    BY <1>0, <2>1, <2>2, KeepClean DEF HeapClean
<1>5. CASE DrainEnd
  <2>1. UNCHANGED <<prom, cur, ret>> /\ queue' = <<>> /\ Running("drain")
    BY <1>5 DEF DrainEnd
  <2>2. QueueClean(queue')
    <3>1. Len(queue') = 0
      BY <2>1
    <3>2. QED
      BY <3>1 DEF QueueClean
  <2>3. HeapClean' /\ ret' # Interrupted
    BY <1>0, <1>1, <1>2, <2>1, <2>2 DEF HeapClean
  <2>4. QED
    BY <2>1, <2>3, KeepClean
<1>6. CASE DrainTake
  <2>1. /\ cursor < Len(queue) /\ cur' = queue[cursor + 1] /\ Running("drain")
        /\ UNCHANGED <<prom, queue, ret>>
    BY <1>6 DEF DrainTake, Quiet, heapVars
  <2>2. cur'.arg # Interrupted
    BY <1>0, <2>1 DEF HeapClean, QueueClean
  <2>3. HeapClean' /\ ret' # Interrupted
    BY <1>0, <1>1, <1>2, <2>1 DEF HeapClean
  <2>4. QED
    BY <2>2, <2>3 DEF Clean
<1>7. CASE RunIdentity \/ RunThrower
  <2>1. UNCHANGED <<prom, queue, cur>> /\ ret' = cur.arg
    BY <1>7 DEF RunIdentity, RunThrower, JobQuiet, Quiet, heapVars
  <2>2. QED
    BY <1>0, <2>1, KeepClean DEF HeapClean
<1>8. CASE RunResolvingFn
  <2>1. cur.handler.cell \in Cell /\ cur.arg \in Value /\ cur' = cur /\ ret' = None
    BY <1>8, JobFacts DEF RunResolvingFn, JobStarts, JobQuiet
  <2>2. HeapClean'
    BY <1>0, <1>8, <2>1, CallClean DEF RunResolvingFn
  <2>3. QED
    BY <1>3, <2>1, <2>2, KeepClean
<1>9. CASE RunNativeThenable
  <2>1. /\ cur.handler.cell \in Cell /\ cur.handler.resolution \in Promise
        /\ cur.handler.resolution <= np /\ cur' = cur /\ ret' = None
    BY <1>0, <1>9, JobFacts DEF RunNativeThenable, JobStarts, JobBorn, BornVal, JobQuiet
  <2>2. ResolveFn(cur.handler.cell) \in Handler /\ RejectFn(cur.handler.cell) \in Handler
    BY <2>1 DEF ResolveFn, RejectFn, Handler, Callable, Resolving
  <2>3. Then(cur.handler.resolution, ResolveFn(cur.handler.cell),
             RejectFn(cur.handler.cell), FALSE)
    BY <1>9 DEF RunNativeThenable
  <2>4. HeapClean'
    BY <1>0, <2>1, <2>2, <2>3, ThenClean
  <2>5. QED
    BY <1>3, <2>1, <2>4, KeepClean
<1>10. CASE RunScriptThenable
  <2>1. UNCHANGED <<prom, queue, cur, ret>> /\ Running("job")
    BY <1>10 DEF RunScriptThenable, JobStarts, JobQuiet, heapVars
  <2>2. QED
    BY <1>0, <1>1, <1>2, <2>1, KeepClean DEF HeapClean
<1>11. CASE HandlerEnd
  <2>1. UNCHANGED <<prom, queue, cur>> /\ stack' = Replace(Top("after"))
    BY <1>11 DEF HandlerEnd, heapVars
  <2>2. Running("after")'
    <3>1. Running("handler")
      BY <1>11 DEF HandlerEnd
    <3>2. stack \in Seq(Frame) /\ stack # <<>> /\ Tail(stack) \in Seq(Frame)
      BY <3>1, StackFacts
    <3>3. Top("after") \in Frame /\ Top("after").kind = "after"
      BY FrameTypes
    <3>4. stack' # <<>> /\ Head(stack') = Top("after")
      BY <2>1, <3>2, <3>3, PushProperties DEF Replace
    <3>5. QED
      BY <3>3, <3>4 DEF Running
  <2>3. ret' # Interrupted \/ uncatchable'
    BY <1>3, <1>11 DEF HandlerEnd
  <2>4. QED
    BY <1>0, <2>1, <2>2, <2>3 DEF Clean, HeapClean
<1>12. CASE ThenableEnd
  <2>1. cur.handler.cell \in Cell
    <3>1. Running("thenable")
      BY <1>12 DEF ThenableEnd
    <3>2. stack # <<>> /\ stack[1].kind = "thenable" /\ stack \in Seq(Frame)
      BY <3>1, StackFacts
    <3>3. 1 \in 1..Len(stack)
      BY <3>2, PopProperties
    <3>4. QED
      BY <3>2, <3>3, JobFacts DEF IInv, StackDiscipline, Disciplined
  <2>2. UNCHANGED heapVars \/ CallRejectFn(cur.handler.cell, Error)
    BY <1>12 DEF ThenableEnd, SafeSites
  <2>3. HeapClean'
    BY <1>0, <1>3, <2>1, <2>2, CallClean DEF HeapClean, heapVars
  <2>4. QED
    BY <1>3, <1>12, <2>3, KeepClean DEF ThenableEnd
<1>13. CASE JobAfter
  <2>1. /\ MicrotaskAfter(cur.downstream) /\ cur' = NoJob /\ ret' = None /\ ~uncatchable
    BY <1>13 DEF JobAfter
  <2>2. ret # Interrupted
    BY <2>1 DEF Clean
  <2>3. HeapClean'
    BY <1>0, <2>1, <2>2, JobFacts, AfterClean
  <2>4. QED
    BY <1>3, <2>1, <2>3, KeepClean
<1>14. CASE JobAborts
  <2>1. UNCHANGED <<prom, queue>> /\ cur' = NoJob /\ ret' = None
    BY <1>14 DEF JobAborts, Quiet, heapVars
  <2>2. QED
    BY <1>0, <1>3, <2>1, KeepClean DEF HeapClean
<1>15. CASE ReportSkip \/ ReportCall \/ TrackerReturn \/ ReportReturn
  <2>1. /\ UNCHANGED <<queue, cur, ret>>
        /\ \E kind \in {"report", "tracker"} : Running(kind)
    BY <1>15 DEF ReportSkip, ReportCall, TrackerReturn, ReportReturn, ReportQuiet, drainVars
  <2>2. ret' # Interrupted
    BY <1>1, <1>2, <2>1
  <2>3. PromClean(prom')
    <3>1. \A p \in Promise : prom'[p].result = prom[p].result
      <4>1. CASE ReportSkip
        <5>1. \/ prom' = prom
              \/ \E p : prom' = [prom EXCEPT ![p].inRejectList = FALSE]
          BY <4>1 DEF ReportSkip
        <5>2. QED
          BY <1>0, <5>1 DEF PromiseRec
      <4>2. CASE ReportCall
        <5>1. \E p : prom' = [prom EXCEPT ![p].inRejectList = FALSE, ![p].isHandled = TRUE]
          BY <4>2 DEF ReportCall
        <5>2. QED
          BY <1>0, <5>1 DEF PromiseRec
      <4>3. CASE TrackerReturn \/ ReportReturn
        BY <4>3 DEF TrackerReturn, ReportReturn
      <4>4. QED
        BY <1>15, <4>1, <4>2, <4>3
    <3>2. QED
      BY <1>0, <3>1 DEF HeapClean, PromClean
  <2>4. QED
    BY <1>0, <2>1, <2>2, <2>3, KeepClean DEF HeapClean
<1>16. QED
  BY <1>4, <1>5, <1>6, <1>7, <1>8, <1>9, <1>10, <1>11, <1>12, <1>13, <1>14, <1>15
  DEF EngineStep

LEMMA InitClean ==
    ASSUME Init
    PROVE  Clean
<1>1. Len(<<>>) = 0 /\ None # Interrupted
  BY ValuesAssumption
<1>2. QED
  BY <1>1 DEF Init, Clean, HeapClean, PromClean, QueueClean, Unborn, NoJob

(* The error of an interrupt never becomes a promise's result, unless a    *)
(* thenable's `then` or an executor is what is interrupted: JobAborts      *)
(* drops it and promise_microtask_after never sees it.                     *)
THEOREM InterruptsSettleNothing ==
    ASSUME SafeSites
    PROVE  Spec => []InterruptSettlesNothing
<1>1. Init => Clean
  BY InitClean
<1>2. IInv /\ Scoped /\ Clean /\ [Next]_vars => Clean'
  <2> SUFFICES ASSUME IInv, Scoped, Clean, [Next]_vars PROVE Clean'
    OBVIOUS
  <2>1. CASE UNCHANGED vars
    BY <2>1 DEF Clean, HeapClean, Running, vars
  <2>2. QED
    BY <2>1, ScriptClean, EngineClean DEF Next
<1>3. IInv /\ Clean => InterruptSettlesNothing
  <2> SUFFICES ASSUME IInv, Clean, NEW p \in Born
               PROVE  prom[p].result # Interrupted
    BY DEF InterruptSettlesNothing
  <2>1. p \in Promise
    BY BoundsAssumption DEF Born, Promise, IInv, HeapInv, HeapType
  <2>2. QED
    BY <2>1 DEF Clean, HeapClean, PromClean
<1>4. QED
  BY <1>1, <1>2, <1>3, Settling, PTL DEF Spec

-----------------------------------------------------------------------------
(* What an operation of the heap does to the flags and to the list of      *)
(* rejections: nothing, or one promise more is on the list.                *)

Untouched(q) ==
    /\ prom'[q].isHandled = prom[q].isHandled
    /\ prom'[q].inRejectList = prom[q].inRejectList
    /\ prom'[q].state = "rejected" =>
         prom[q].state = "rejected" \/ prom[q].isHandled \/ prom[q].inRejectList

NoNews == (\A q \in Promise : Untouched(q)) /\ UNCHANGED <<slots, ucount>>

News(p) ==
    /\ ~prom[p].inRejectList /\ prom'[p].inRejectList
    /\ prom'[p].isHandled = prom[p].isHandled
    /\ \A q \in Promise : q # p => Untouched(q)
    /\ slots' = [slots EXCEPT ![ucount + 1] = p]
    /\ ucount' = ucount + 1

Told == NoNews \/ \E p \in Promise : News(p)

LEMMA SettleTold ==
    ASSUME HeapInv, NEW p \in Promise, NEW state \in Settled, NEW v \in Value,
           PromiseSettle(p, state, v)
    PROVE  Told
<1>1. CASE ~IsPending(p)
  BY <1>1 DEF PromiseSettle, Told, NoNews, Untouched
<1>2. CASE IsPending(p)
  <2> DEFINE tracks == Tracks(p, state)
             listed == prom[p].inRejectList \/ tracks
  <2>1. /\ prom'[p] = SettledRecord(prom[p], state, v, listed)
        /\ \A q \in Promise : q # p => prom'[q] = prom[q]
        /\ prom[p] \in PromiseRec
    BY <1>2, SettleFacts
  <2>2. /\ slots' = IF tracks THEN [slots EXCEPT ![ucount + 1] = p] ELSE slots
        /\ ucount' = IF tracks THEN ucount + 1 ELSE ucount
    BY <1>2 DEF PromiseSettle
  <2>3. tracks <=> state = "rejected" /\ ~prom[p].isHandled /\ ~prom[p].inRejectList
    BY DEF Tracks
  <2>4. listed \in BOOLEAN /\ (listed <=> prom[p].inRejectList \/ tracks)
        /\ prom[p].inRejectList \in BOOLEAN
    BY <2>1 DEF PromiseRec
  <2> HIDE DEF tracks, listed
  <2>5. /\ prom'[p].isHandled = prom[p].isHandled /\ prom'[p].inRejectList = listed
        /\ prom'[p].state = state
    BY <2>1, <2>4, SettledRecordFacts
  <2>6. \A q \in Promise : q # p => Untouched(q)
    BY <2>1 DEF Untouched
  <2>7. CASE tracks
    BY <2>2, <2>3, <2>4, <2>5, <2>6, <2>7 DEF Told, News
  <2>8. CASE ~tracks
    <3>1. listed = prom[p].inRejectList
      BY <2>4, <2>8
    <3>2. Untouched(p)
      BY <2>3, <2>5, <2>8, <3>1 DEF Untouched
    <3>3. QED
      BY <2>2, <2>6, <2>8, <3>2 DEF Told, NoNews
  <2>9. QED
    BY <2>7, <2>8
<1>3. QED
  BY <1>1, <1>2

LEMMA ResolveTold ==
    ASSUME HeapInv, NEW p \in Promise, NEW v \in Value, NEW cells,
           ResolveWithValue(p, v, cells)
    PROVE  Told
<1>1. CASE IsPending(p) /\ v # p /\ v \in Promise \cup Thenable
  BY <1>1 DEF ResolveWithValue, Told, NoNews, Untouched
<1>2. CASE ~(IsPending(p) /\ v # p /\ v \in Promise \cup Thenable)
  <2>1. \/ PromiseSettle(p, "rejected", Error)
        \/ PromiseSettle(p, "fulfilled", v)
    BY <1>2 DEF ResolveWithValue
  <2>2. Error \in Value /\ "rejected" \in Settled /\ "fulfilled" \in Settled
    BY DEF Value, Settled
  <2>3. QED
    BY <2>1, <2>2, SettleTold
<1>3. QED
  BY <1>1, <1>2

LEMMA SameTold ==
    ASSUME UNCHANGED <<prom, slots, ucount>>
    PROVE  Told
BY DEF Told, NoNews, Untouched

LEMMA CallTold ==
    ASSUME HeapInv, NEW c \in Cell, NEW v \in Value,
           CallResolveFn(c, v) \/ CallRejectFn(c, v)
    PROVE  Told
<1>1. cell[c].target \in Promise /\ "rejected" \in Settled
  BY DEF HeapInv, HeapType, Settled
<1>2. CASE AlreadyCalled(c)
  BY <1>2, SameTold DEF CallResolveFn, CallRejectFn, heapVars
<1>3. CASE ~AlreadyCalled(c)
  <2>1. \/ ResolveWithValue(cell[c].target, v, MarkAlreadyCalled(c))
        \/ PromiseSettle(cell[c].target, "rejected", v)
    BY <1>3 DEF CallResolveFn, CallRejectFn
  <2>2. QED
    BY <1>1, <2>1, SettleTold, ResolveTold
<1>4. QED
  BY <1>2, <1>3

LEMMA AfterTold ==
    ASSUME HeapInv, NEW ds \in Downstream, ret \in Value, MicrotaskAfter(ds)
    PROVE  Told
<1>1. CASE ds.cell # None
  <2>1. ds.cell \in Cell
    BY <1>1 DEF Downstream, NoDownstream
  <2>2. CallRejectFn(ds.cell, ret) \/ CallResolveFn(ds.cell, ret)
    BY <1>1 DEF MicrotaskAfter
  <2>3. QED
    BY <2>1, <2>2, CallTold
<1>2. CASE ds.cell = None /\ ds.promise # None /\ IsPending(ds.promise)
  <2>1. ds.promise \in Promise /\ "rejected" \in Settled
    BY <1>2 DEF Downstream, NoDownstream, Settled
  <2>2. PromiseSettle(ds.promise, "rejected", ret) \/ ResolveWithValue(ds.promise, ret, cell)
    BY <1>2 DEF MicrotaskAfter
  <2>3. QED
    BY <2>1, <2>2, SettleTold, ResolveTold
<1>3. CASE ds.cell = None /\ ~(ds.promise # None /\ IsPending(ds.promise))
  BY <1>3, SameTold DEF MicrotaskAfter, heapVars
<1>4. QED
  BY <1>1, <1>2, <1>3

(* A reaction marks its promise handled.                                   *)
Attaches(p) ==
    /\ prom'[p].isHandled
    /\ prom'[p].inRejectList = prom[p].inRejectList
    /\ \A q \in Promise : q # p => Untouched(q)
    /\ attached' = attached \cup {p}
    /\ UNCHANGED <<slots, ucount>>

LEMMA ThenAttaches ==
    ASSUME HeapInv, HeapScoped, NEW p \in Promise, p <= np,
           NEW onF \in Handler, NEW onR \in Handler, NEW species \in BOOLEAN,
           Then(p, onF, onR, species)
    PROVE  Attaches(p)
<1> DEFINE ds == IF species THEN [promise |-> None, cell |-> nc + 1]
                            ELSE [promise |-> np + 1, cell |-> None]
           r == [onFulfilled |-> onF, onRejected |-> onR, downstream |-> ds]
<1>1. /\ np < MaxPromises /\ (species => nc < MaxCells) /\ AddReaction(p, r)
      /\ attached' = attached \cup {p} /\ UNCHANGED <<slots, ucount>>
  BY DEF Then
<1>2. np \in Nat /\ nc \in Nat
  BY DEF HeapInv, HeapType
<1>3. ds \in Downstream
  BY <1>1, <1>2, BoundsAssumption DEF Downstream, Promise, Cell
<1>4. r \in Reaction
  BY <1>3 DEF Reaction
<1> HIDE DEF ds, r
<1>5. /\ np + 1 \in Promise /\ prom'[np + 1] = Fresh
      /\ \A q \in Promise : q # p /\ q # np + 1 => prom'[q] = prom[q]
      /\ prom'[p].isHandled /\ prom'[p].inRejectList = prom[p].inRejectList
  BY <1>1, <1>4, AddReactionFacts
<1>6. prom[np + 1] = Unborn
  BY <1>2, <1>5 DEF HeapScoped, PromScoped
<1>7. Untouched(np + 1)
  BY <1>5, <1>6 DEF Untouched, Fresh, Unborn
<1>8. QED
  BY <1>1, <1>5, <1>7 DEF Attaches, Untouched

(* A new promise that is not rejected.                                     *)
LEMMA BirthTold ==
    ASSUME HeapInv, HeapScoped, np < MaxPromises, NEW r,
           prom' = [prom EXCEPT ![np + 1] = r], ~r.isHandled /\ ~r.inRejectList,
           r.isHandled \in BOOLEAN, r.inRejectList \in BOOLEAN,
           r.state # "rejected", UNCHANGED <<slots, ucount>>
    PROVE  Told
<1>1. np + 1 \in Promise /\ np \in Nat /\ prom \in [Promise -> PromiseRec]
  BY BoundsAssumption DEF Promise, HeapInv, HeapType
<1>2. prom[np + 1] = Unborn
  BY <1>1 DEF HeapScoped, PromScoped
<1>3. /\ prom'[np + 1] = r
      /\ \A q \in Promise : q # np + 1 => prom'[q] = prom[q]
  BY <1>1
<1>4. Untouched(np + 1)
  <2>1. r.isHandled = FALSE /\ r.inRejectList = FALSE
    OBVIOUS
  <2>2. Unborn.isHandled = FALSE /\ Unborn.inRejectList = FALSE
    BY DEF Unborn
  <2>3. QED
    BY <1>2, <1>3, <2>1, <2>2 DEF Untouched
<1>5. QED
  BY <1>3, <1>4 DEF Told, NoNews, Untouched

ReportStep == ReportSkip \/ ReportCall \/ TrackerReturn \/ ReportReturn

(* What each step does to the flags and the list.                          *)
LEMMA Telling ==
    ASSUME IInv, Scoped, [Next]_vars
    PROVE  \/ Told /\ UNCHANGED <<attached, reported>>
           \/ (\E p \in Promise : Attaches(p)) /\ UNCHANGED reported
           \/ (DrainEnter \/ DrainEnd) /\ UNCHANGED <<prom, slots, attached, reported>>
           \/ ReportStep /\ UNCHANGED <<attached, ucount>>
<1>0. /\ HeapInv /\ HeapScoped /\ np \in Nat /\ exposed \subseteq Cell
      /\ JobBorn(cur, np)
  BY DEF IInv, HeapInv, HeapType, ControlType, Scoped
<1>1. ScriptValue \subseteq Value /\ Error \in Value /\ Interrupted \in Value
  <2>1. Born \subseteq Promise
    BY BoundsAssumption DEF Born, Promise, IInv, HeapInv, HeapType
  <2>2. QED
    BY <2>1 DEF ScriptValue, Value
<1>2. CASE NewPromise \/ SettlingCombinator
  <2>1. UNCHANGED <<slots, ucount, attached, reported>> /\ np < MaxPromises
    BY <1>2 DEF NewPromise, SettlingCombinator, ScriptOp
  <2>2. CASE NewPromise
    <3>1. Fresh.isHandled = FALSE /\ Fresh.inRejectList = FALSE /\ Fresh.state # "rejected"
      BY DEF Fresh, Unborn
    <3>2. prom' = [prom EXCEPT ![np + 1] = Fresh]
      BY <2>2 DEF NewPromise
    <3>3. QED
      BY <1>0, <2>1, <3>1, <3>2, BirthTold
  <2>3. CASE SettlingCombinator
    <3>1. PICK v \in Plain : prom' = [prom EXCEPT ![np + 1] =
                               [Fresh EXCEPT !.state = "fulfilled", !.result = v]]
      BY <2>3 DEF SettlingCombinator
    <3> DEFINE r == [Fresh EXCEPT !.state = "fulfilled", !.result = v]
    <3>2. r.isHandled = FALSE /\ r.inRejectList = FALSE /\ r.state # "rejected"
      BY DEF Fresh, Unborn
    <3> HIDE DEF r
    <3>3. prom' = [prom EXCEPT ![np + 1] = r]
      BY <3>1 DEF r
    <3>4. QED
      BY <1>0, <2>1, <3>2, <3>3, BirthTold
  <2>4. QED
    BY <1>2, <2>2, <2>3
<1>3. CASE NewPromiseInterrupted
  <2> DEFINE r == [Fresh EXCEPT !.state = "rejected", !.result = Interrupted,
                                !.inRejectList = TRUE]
  <2>1. /\ np < MaxPromises /\ prom' = [prom EXCEPT ![np + 1] = r]
        /\ slots' = [slots EXCEPT ![ucount + 1] = np + 1] /\ ucount' = ucount + 1
        /\ UNCHANGED <<attached, reported>>
    BY <1>3 DEF NewPromiseInterrupted, ScriptOp
  <2>2. r.isHandled = FALSE /\ r.inRejectList = TRUE
    BY DEF Fresh, Unborn
  <2> HIDE DEF r
  <2>3. np + 1 \in Promise /\ prom \in [Promise -> PromiseRec]
    BY <1>0, <2>1, BoundsAssumption DEF Promise, HeapInv, HeapType
  <2>4. /\ prom[np + 1] = Unborn /\ prom'[np + 1] = r
        /\ \A q \in Promise : q # np + 1 => prom'[q] = prom[q]
    BY <1>0, <2>1, <2>3 DEF HeapScoped, PromScoped
  <2>5. News(np + 1)
    <3>1. Unborn.isHandled = FALSE /\ Unborn.inRejectList = FALSE
      BY DEF Unborn
    <3>2. /\ ~prom[np + 1].inRejectList /\ prom'[np + 1].inRejectList
          /\ prom'[np + 1].isHandled = prom[np + 1].isHandled
      BY <2>2, <2>4, <3>1
    <3>3. \A q \in Promise : q # np + 1 => Untouched(q)
      BY <2>4 DEF Untouched
    <3>4. QED
      BY <2>1, <3>2, <3>3 DEF News
  <2>6. QED
    BY <2>1, <2>3, <2>5 DEF Told
<1>4. CASE ScriptResolve \/ ScriptReject \/ HostSettle
  <2>1. \E c \in exposed : \/ CallRejectFn(c, Error)
                           \/ \E v \in ScriptValue : CallResolveFn(c, v)
    BY <1>4 DEF ScriptResolve, ScriptReject, HostSettle
  <2>2. Told
    BY <1>0, <1>1, <2>1, CallTold
  <2>3. UNCHANGED <<attached, reported>>
    BY <1>4 DEF ScriptResolve, ScriptReject, HostSettle, ScriptOp, histVars
  <2>4. QED
    BY <2>2, <2>3
<1>5. CASE ScriptThen
  <2>1. PICK p \in Born, onF \in {Plainly("user"), Plainly("undefined")},
             onR \in {Plainly("user"), Plainly("undefined")},
             species \in BOOLEAN : Then(p, onF, onR, species)
    BY <1>5 DEF ScriptThen
  <2>2. onF \in Handler /\ onR \in Handler
    BY DEF Handler, Callable, Closure, Plainly
  <2>3. p \in Promise /\ p <= np
    BY BoundsAssumption DEF Born, Promise, IInv, HeapInv, HeapType
  <2>4. Attaches(p)
    BY <1>0, <2>1, <2>2, <2>3, ThenAttaches
  <2>5. QED
    BY <1>5, <2>3, <2>4 DEF ScriptThen, ScriptOp
<1>6. CASE \/ Eval \/ HostDrain \/ ScriptEnd \/ EvalReturn \/ HostDrainReturn \/ DrainTake
           \/ DrainReturn \/ RunScriptHandler \/ RunIdentity \/ RunThrower
           \/ RunScriptThenable \/ HandlerEnd \/ JobAborts \/ UNCHANGED vars
  <2>1. UNCHANGED <<prom, slots, ucount, attached, reported>>
    BY <1>6 DEF Eval, HostDrain, HostCall, ScriptEnd, EvalReturn, HostDrainReturn, DrainTake,
       DrainReturn, RunScriptHandler, RunIdentity, RunThrower, RunScriptThenable,
       HandlerEnd, JobAborts, Quiet, JobQuiet, heapVars, histVars, vars
  <2>2. QED
    BY <2>1, SameTold
<1>7. CASE DrainEnter \/ DrainEnd
  BY <1>7 DEF DrainEnter, DrainEnd, histVars
<1>8. CASE RunResolvingFn
  <2>1. cur.handler.cell \in Cell /\ cur.arg \in Value
    BY <1>0, <1>8, JobFacts DEF RunResolvingFn, JobStarts
  <2>2. Told
    BY <1>0, <1>8, <2>1, CallTold DEF RunResolvingFn
  <2>3. QED
    BY <1>8, <2>2 DEF RunResolvingFn, JobQuiet, histVars
<1>9. CASE RunNativeThenable
  <2>1. /\ cur.handler.cell \in Cell /\ cur.handler.resolution \in Promise
        /\ cur.handler.resolution <= np
    BY <1>0, <1>9, JobFacts DEF RunNativeThenable, JobStarts, JobBorn, BornVal
  <2>2. ResolveFn(cur.handler.cell) \in Handler /\ RejectFn(cur.handler.cell) \in Handler
    BY <2>1 DEF ResolveFn, RejectFn, Handler, Callable, Resolving
  <2>3. Then(cur.handler.resolution, ResolveFn(cur.handler.cell),
             RejectFn(cur.handler.cell), FALSE)
    BY <1>9 DEF RunNativeThenable
  <2>4. Attaches(cur.handler.resolution)
    BY <1>0, <2>1, <2>2, <2>3, ThenAttaches
  <2>5. QED
    BY <1>9, <2>1, <2>4 DEF RunNativeThenable, JobQuiet, histVars
<1>10. CASE ThenableEnd
  <2>1. cur.handler.cell \in Cell
    <3>1. Running("thenable")
      BY <1>10 DEF ThenableEnd
    <3>2. stack # <<>> /\ stack[1].kind = "thenable" /\ stack \in Seq(Frame)
      BY <3>1, StackFacts
    <3>3. 1 \in 1..Len(stack)
      BY <3>2, PopProperties
    <3>4. QED
      BY <3>2, <3>3, JobFacts DEF IInv, StackDiscipline, Disciplined
  <2>2. \/ UNCHANGED heapVars
        \/ CallRejectFn(cur.handler.cell, Error)
        \/ CallRejectFn(cur.handler.cell, Interrupted)
    BY <1>10 DEF ThenableEnd
  <2>3. Told
    BY <1>0, <1>1, <2>1, <2>2, CallTold, SameTold DEF heapVars
  <2>4. QED
    BY <1>10, <2>3 DEF ThenableEnd
<1>11. CASE JobAfter
  <2>1. MicrotaskAfter(cur.downstream) /\ UNCHANGED <<attached, reported>>
    BY <1>11 DEF JobAfter, histVars
  <2>2. QED
    BY <1>0, <2>1, JobFacts, AfterTold
<1>12. CASE ReportStep
  BY <1>12 DEF ReportStep, ReportSkip, ReportCall, TrackerReturn, ReportReturn, ReportQuiet
<1>13. QED
  BY <1>2, <1>3, <1>4, <1>5, <1>6, <1>7, <1>8, <1>9, <1>10, <1>11, <1>12
  DEF Next, ScriptStep, HostStep, EngineStep, ReportStep

-----------------------------------------------------------------------------
(* A promise is handled once a reaction or a report took it, and only then. *)
HandledInv ==
    \A p \in Promise : /\ reported[p] <= 1
                       /\ prom[p].isHandled <=> p \in attached \/ reported[p] = 1

LEMMA HandledStep ==
    ASSUME IInv, Scoped, HandledInv, [Next]_vars
    PROVE  HandledInv'
<1>0. /\ prom \in [Promise -> PromiseRec] /\ reported \in [Promise -> Nat]
      /\ stack \in Seq(Frame) /\ slots \in [Promise -> Promise \cup {None}]
  BY DEF IInv, HeapInv, HeapType, ControlType
<1>1. CASE Told /\ UNCHANGED <<attached, reported>>
  BY <1>1 DEF HandledInv, Told, NoNews, News, Untouched
<1>2. CASE (\E p \in Promise : Attaches(p)) /\ UNCHANGED reported
  BY <1>2 DEF HandledInv, Attaches, Untouched
<1>3. CASE UNCHANGED <<prom, attached, reported>>
  BY <1>3 DEF HandledInv
<1>4. CASE ReportStep /\ UNCHANGED attached
  <2>1. CASE ReportSkip
    <3>1. reported' = reported /\ \A p \in Promise : prom'[p].isHandled = prom[p].isHandled
      <4>1. \/ prom' = prom
            \/ \E p : prom' = [prom EXCEPT ![p].inRejectList = FALSE]
        BY <2>1 DEF ReportSkip
      <4>2. QED
        BY <1>0, <2>1, <4>1 DEF ReportSkip, PromiseRec
    <3>2. QED
      BY <1>4, <3>1 DEF HandledInv
  <2>2. CASE ReportCall
    <3>1. PICK p : /\ ~prom[p].isHandled
                   /\ prom' = [prom EXCEPT ![p].inRejectList = FALSE, ![p].isHandled = TRUE]
                   /\ reported' = [reported EXCEPT ![p] = @ + 1]
      BY <2>2 DEF ReportCall, StillUnhandled
    <3>2. \A q \in Promise : /\ q # p => /\ prom'[q].isHandled = prom[q].isHandled
                                         /\ reported'[q] = reported[q]
                             /\ q = p => prom'[q].isHandled /\ reported'[q] = reported[q] + 1
      BY <1>0, <3>1 DEF PromiseRec
    <3>3. \A q \in Promise : q = p => reported[q] = 0
      BY <1>0, <3>1 DEF HandledInv
    <3>4. QED
      BY <1>0, <1>4, <3>2, <3>3 DEF HandledInv
  <2>3. CASE TrackerReturn \/ ReportReturn
    BY <1>4, <2>3 DEF HandledInv, TrackerReturn, ReportReturn
  <2>4. QED
    BY <1>4, <2>1, <2>2, <2>3 DEF ReportStep
<1>5. QED
  BY <1>1, <1>2, <1>3, <1>4, Telling

-----------------------------------------------------------------------------
(* The native stack when trackers do not evaluate script: one host call at *)
(* its bottom, script and drains above it, and the report on top.          *)

Bottoms == {"script", "evaluated", "hostdrain"}

(* Which frame f can stand on which frame g.                               *)
Above(f, g) ==
    \/ /\ f.kind \in {"enter", "drain", "report"}
       /\ \/ g.kind \in {"evaluated", "hostdrain"}
          \/ InlineDrains /\ g.kind \in {"script", "handler", "thenable"}
    \/ f.kind = "report" /\ g.kind = "drain" /\ g.i # 0
    \/ f.kind = "tracker" /\ g.kind = "report"
    \/ f.kind \in JobFrames /\ g.kind = "drain" /\ g.i = 0

Orderly(s) ==
    \A k \in 1..Len(s) : IF k = Len(s) THEN s[k].kind \in Bottoms
                                       ELSE Above(s[k], s[k + 1])

Reports(s) == s # <<>> /\ s[1].kind \in {"report", "tracker"}
DrainOver(s) == s # <<>> /\ s[1].kind = "drain" /\ s[1].i # 0
Returns(s) == s # <<>> /\ s[1].kind \in {"evaluated", "hostdrain"}
HasDrain(s) == \E k \in 1..Len(s) : s[k].kind = "drain"

(* From the reset of the queue to the return of the host call nothing is   *)
(* queued or listed.                                                       *)
Shape ==
    /\ Orderly(stack)
    /\ draining => HasDrain(stack)
    /\ Reports(stack) \/ DrainOver(stack) \/ Returns(stack) => queue = <<>> /\ ucount = 0

LEMMA OrderlyPush ==
    ASSUME NEW s \in Seq(Frame), NEW f \in Frame, Orderly(s),
           IF s = <<>> THEN f.kind \in Bottoms ELSE Above(f, s[1])
    PROVE  Orderly(<<f>> \o s)
<1> DEFINE t == <<f>> \o s
<1>1. /\ Len(t) = Len(s) + 1 /\ t[1] = f /\ Len(s) \in Nat
      /\ \A k \in 1..Len(s) : t[k + 1] = s[k]
      /\ s = <<>> <=> Len(s) = 0
  BY PushProperties
<1> HIDE DEF t
<1>2. SUFFICES ASSUME NEW k \in 1..Len(t)
               PROVE  IF k = Len(t) THEN t[k].kind \in Bottoms ELSE Above(t[k], t[k + 1])
  BY DEF Orderly, t
<1>3. CASE k = 1
  <2>1. CASE s = <<>>
    BY <1>1, <1>3, <2>1
  <2>2. CASE s # <<>>
    <3>1. 1 \in 1..Len(s) /\ t[2] = s[1] /\ k # Len(t)
      BY <1>1, <1>3, <2>2
    <3>2. QED
      BY <1>1, <1>3, <2>2, <3>1
  <2>3. QED
    BY <2>1, <2>2
<1>4. CASE k # 1
  <2>1. PICK m \in 1..Len(s) : k = m + 1
    <3>1. k - 1 \in 1..Len(s) /\ k = (k - 1) + 1
      BY <1>1, <1>4
    <3>2. QED
      BY <3>1
  <2>2. t[k] = s[m] /\ (k = Len(t) <=> m = Len(s))
    BY <1>1, <2>1
  <2>3. m # Len(s) => t[k + 1] = s[m + 1]
    <3>1. m # Len(s) => m + 1 \in 1..Len(s)
      BY <1>1
    <3>2. QED
      BY <1>1, <2>1, <3>1
  <2>4. IF m = Len(s) THEN s[m].kind \in Bottoms ELSE Above(s[m], s[m + 1])
    BY DEF Orderly
  <2>5. QED
    BY <2>2, <2>3, <2>4
<1>5. QED
  BY <1>3, <1>4

LEMMA OrderlyPop ==
    ASSUME NEW s \in Seq(Frame), s # <<>>, Orderly(s)
    PROVE  /\ Tail(s) \in Seq(Frame)
           /\ Orderly(Tail(s))
           /\ IF Tail(s) = <<>> THEN s[1].kind \in Bottoms
              ELSE Above(s[1], Tail(s)[1]) /\ Tail(s)[1] = s[2] /\ Tail(s)[1] \in Frame
<1> DEFINE t == Tail(s)
<1>1. /\ t \in Seq(Frame) /\ Len(t) = Len(s) - 1 /\ Len(s) \in Nat /\ Len(s) >= 1
      /\ \A k \in 1..Len(t) : t[k] = s[k + 1]
      /\ (t = <<>> <=> Len(t) = 0)
  BY PopProperties, EmptySeq
<1> HIDE DEF t
<1>2. Orderly(t)
  <2> SUFFICES ASSUME NEW k \in 1..Len(t)
               PROVE  IF k = Len(t) THEN t[k].kind \in Bottoms ELSE Above(t[k], t[k + 1])
    BY DEF Orderly
  <2>1. PICK m \in 1..Len(s) : m = k + 1
    BY <1>1
  <2>2. IF m = Len(s) THEN s[m].kind \in Bottoms ELSE Above(s[m], s[m + 1])
    BY DEF Orderly
  <2>3. t[k] = s[m] /\ (k = Len(t) <=> m = Len(s))
    BY <1>1, <2>1
  <2>4. k # Len(t) => t[k + 1] = s[m + 1]
    <3>1. k # Len(t) => k + 1 \in 1..Len(t)
      BY <1>1
    <3>2. QED
      BY <1>1, <2>1, <3>1
  <2>5. QED
    BY <2>2, <2>3, <2>4
<1>3. CASE t = <<>>
  <2>1. Len(s) = 1 /\ 1 \in 1..Len(s)
    BY <1>1, <1>3
  <2>2. s[1].kind \in Bottoms
    BY <2>1 DEF Orderly
  <2>3. QED
    BY <1>1, <1>2, <1>3, <2>2 DEF t
<1>4. CASE t # <<>>
  <2>1. Len(s) # 1 /\ 1 \in 1..Len(s) /\ 1 \in 1..Len(t) /\ t[1] = s[2]
    BY <1>1, <1>4
  <2>2. Above(s[1], s[2])
    <3>1. Above(s[1], s[1 + 1])
      BY <2>1 DEF Orderly
    <3>2. QED
      BY <3>1
  <2>3. t[1] \in Frame
    BY <1>1, <2>1
  <2>4. QED
    BY <1>1, <1>2, <1>4, <2>1, <2>2, <2>3 DEF t
<1>5. QED
  BY <1>3, <1>4

LEMMA DrainPush ==
    ASSUME NEW s \in Seq(Frame), NEW f \in Frame
    PROVE  f.kind = "drain" \/ HasDrain(s) => HasDrain(<<f>> \o s)
<1> DEFINE t == <<f>> \o s
<1>1. /\ Len(t) = Len(s) + 1 /\ t[1] = f /\ Len(s) \in Nat
      /\ \A k \in 1..Len(s) : t[k + 1] = s[k]
  BY PushProperties
<1> HIDE DEF t
<1>2. f.kind = "drain" => HasDrain(t)
  BY <1>1 DEF HasDrain
<1>3. HasDrain(s) => HasDrain(t)
  <2> SUFFICES ASSUME HasDrain(s) PROVE HasDrain(t)
    OBVIOUS
  <2>1. PICK k \in 1..Len(s) : s[k].kind = "drain"
    BY DEF HasDrain
  <2>2. k + 1 \in 1..Len(t) /\ t[k + 1] = s[k]
    BY <1>1
  <2>3. QED
    BY <2>1, <2>2 DEF HasDrain
<1>4. QED
  BY <1>2, <1>3 DEF t

LEMMA DrainPop ==
    ASSUME NEW s \in Seq(Frame), s # <<>>, HasDrain(s)
    PROVE  s[1].kind = "drain" \/ HasDrain(Tail(s))
<1> DEFINE t == Tail(s)
<1>1. /\ Len(t) = Len(s) - 1 /\ Len(s) \in Nat
      /\ \A k \in 1..Len(t) : t[k] = s[k + 1]
  BY PopProperties
<1> HIDE DEF t
<1>2. PICK k \in 1..Len(s) : s[k].kind = "drain"
  BY DEF HasDrain
<1>3. CASE k = 1
  BY <1>2, <1>3
<1>4. CASE k # 1
  <2>1. k - 1 \in 1..Len(t) /\ t[k - 1] = s[k]
    BY <1>1, <1>4
  <2>2. HasDrain(t)
    BY <1>2, <2>1 DEF HasDrain
  <2>3. QED
    BY <2>2 DEF t
<1>5. QED
  BY <1>3, <1>4

(* A host call is the bottom of the stack.                                 *)
LEMMA BottomAlone ==
    ASSUME NEW s \in Seq(Frame), s # <<>>, Orderly(s), s[1].kind \in Bottoms
    PROVE  Tail(s) = <<>> /\ ~HasDrain(s)
<1>1. Len(s) \in Nat /\ Len(s) >= 1 /\ 1 \in 1..Len(s)
      /\ Tail(s) \in Seq(Frame) /\ Len(Tail(s)) = Len(s) - 1
  BY PopProperties
<1>2. \A g : ~Above(s[1], g)
  BY DEF Above, Bottoms, JobFrames
<1>3. Len(s) = 1
  <2>1. Len(s) # 1 => Above(s[1], s[1 + 1])
    BY <1>1 DEF Orderly
  <2>2. QED
    BY <1>2, <2>1
<1>4. Len(Tail(s)) = 0
  BY <1>1, <1>3
<1>5. ~HasDrain(s)
  BY <1>3 DEF HasDrain, Bottoms
<1>6. QED
  BY <1>1, <1>4, <1>5, EmptySeq

(* What is left to show when the top frame is popped, replaced or covered. *)
LEMMA ShapePop ==
    ASSUME IInv, Shape, stack # <<>>, stack' = Tail(stack),
           draining' => draining /\ stack[1].kind # "drain",
           Reports(stack') \/ DrainOver(stack') \/ Returns(stack') =>
                queue' = <<>> /\ ucount' = 0
    PROVE  Shape'
<1>1. stack \in Seq(Frame)
  BY StackFacts
<1>2. Orderly(stack')
  BY <1>1, OrderlyPop DEF Shape
<1>3. draining' => HasDrain(stack')
  BY <1>1, DrainPop DEF Shape
<1>4. QED
  BY <1>2, <1>3 DEF Shape, Reports, DrainOver, Returns, HasDrain, Orderly

LEMMA ShapeReplace ==
    ASSUME IInv, Shape, stack # <<>>, NEW f \in Frame, stack' = <<f>> \o Tail(stack),
           stack[1].kind \notin Bottoms,
           \A g \in Frame : Above(stack[1], g) => Above(f, g),
           \/ f.kind = "drain"
           \/ draining' => draining /\ stack[1].kind # "drain",
           f.kind \in {"report", "tracker"} \/ (f.kind = "drain" /\ f.i # 0) =>
                queue' = <<>> /\ ucount' = 0,
           f.kind \notin {"evaluated", "hostdrain"}
    PROVE  Shape'
<1>1. stack \in Seq(Frame)
  BY StackFacts
<1>2. /\ Tail(stack) \in Seq(Frame) /\ Orderly(Tail(stack))
      /\ Tail(stack) # <<>> /\ Above(stack[1], Tail(stack)[1]) /\ Tail(stack)[1] \in Frame
  BY <1>1, OrderlyPop DEF Shape
<1>3. Orderly(stack')
  BY <1>2, OrderlyPush
<1>4. draining' => HasDrain(stack')
  BY <1>1, <1>2, DrainPop, DrainPush DEF Shape
<1>5. stack' # <<>> /\ stack'[1] = f
  BY <1>2, PushProperties
<1>6. Reports(stack') \/ DrainOver(stack') \/ Returns(stack') => queue' = <<>> /\ ucount' = 0
  BY <1>5 DEF Reports, DrainOver, Returns
<1>7. QED
  BY <1>3, <1>4, <1>6 DEF Shape, Reports, DrainOver, Returns, HasDrain, Orderly

LEMMA ShapePush ==
    ASSUME IInv, Shape, NEW f \in Frame, stack' = <<f>> \o stack, draining' => draining,
           IF stack = <<>> THEN f.kind \in Bottoms ELSE Above(f, stack[1]),
           f.kind \in {"report", "tracker"} => queue' = <<>> /\ ucount' = 0,
           f.kind \notin {"drain", "evaluated", "hostdrain"}
    PROVE  Shape'
<1>1. stack \in Seq(Frame)
  BY StackFacts
<1>2. Orderly(stack')
  BY <1>1, OrderlyPush DEF Shape
<1>3. draining' => HasDrain(stack')
  BY <1>1, DrainPush DEF Shape
<1>4. stack' # <<>> /\ stack'[1] = f
  BY <1>1, PushProperties
<1>5. Reports(stack') \/ DrainOver(stack') \/ Returns(stack') => queue' = <<>> /\ ucount' = 0
  BY <1>4 DEF Reports, DrainOver, Returns
<1>6. QED
  BY <1>2, <1>3, <1>5 DEF Shape, Reports, DrainOver, Returns, HasDrain, Orderly

LEMMA ShapeSame ==
    ASSUME Shape, UNCHANGED <<stack, draining>>,
           ~(Reports(stack) \/ DrainOver(stack) \/ Returns(stack))
    PROVE  Shape'
BY DEF Shape, Reports, DrainOver, Returns, HasDrain, Orderly

LEMMA ShapeStep ==
    ASSUME ~TrackerEvals, IInv, Shape, [Next]_vars
    PROVE  Shape'
<1>0. /\ stack \in Seq(Frame) /\ draining \in BOOLEAN /\ ucount \in Nat
      /\ \A kind : Running(kind) => stack # <<>> /\ Head(stack) = stack[1]
                                    /\ stack[1].kind = kind /\ stack[1] \in Frame
  BY StackFacts DEF IInv, HeapInv, HeapType
<1>1. \A kind \in {"script", "evaluated", "hostdrain", "enter", "job", "handler",
                   "thenable", "after", "report", "tracker", "drain"} :
         Top(kind) \in Frame /\ Top(kind).kind = kind /\ Top(kind).i = 0
  BY FrameTypes
<1>2. CASE \/ NewPromise \/ NewPromiseInterrupted \/ ScriptResolve \/ ScriptReject
           \/ ScriptThen \/ HostSettle
  <2>1. UNCHANGED <<draining, stack>> /\ (InScript \/ stack = <<>>)
    BY <1>2 DEF NewPromise, NewPromiseInterrupted, ScriptResolve, ScriptReject,
       ScriptThen, HostSettle, ScriptOp, drainVars
  <2>2. ~(Reports(stack) \/ DrainOver(stack) \/ Returns(stack))
    BY <1>0, <2>1 DEF InScript, Reports, DrainOver, Returns
  <2>3. QED
    BY <2>1, <2>2, ShapeSame
<1>3. CASE SettlingCombinator
  <2>1. InScript /\ InlineDrains /\ draining' = draining /\ stack' = <<Top("enter")>> \o stack
    BY <1>3 DEF SettlingCombinator, ScriptOp, Push
  <2>2. stack # <<>> /\ Above(Top("enter"), stack[1])
    BY <1>0, <1>1, <2>1 DEF InScript, Above
  <2>3. QED
    BY <1>1, <2>1, <2>2, ShapePush
<1>4. CASE Eval
  <2>1. stack = <<>> /\ draining' = draining /\ stack' = <<Top("script")>> \o stack
    BY <1>4 DEF Eval, HostCall, Push, drainVars
  <2>2. QED
    BY <1>1, <2>1, ShapePush DEF Bottoms
<1>5. CASE HostDrain
  <2> DEFINE f == Top("enter")  g == Top("hostdrain")
  <2>1. /\ stack = <<>> /\ draining' = draining /\ stack' = <<f, g>>
        /\ f \in Frame /\ g \in Frame /\ f.kind = "enter" /\ g.kind = "hostdrain"
    BY <1>1, <1>5 DEF HostDrain, HostCall, drainVars
  <2> HIDE DEF f, g
  <2>2. ~draining
    BY <2>1 DEF Shape, HasDrain
  <2>3. /\ Len(stack') = 2 /\ stack'[1] = f /\ stack'[2] = g /\ stack' # <<>>
    BY <2>1
  <2>4. Orderly(stack')
    BY <2>1, <2>3 DEF Orderly, Above, Bottoms
  <2>5. ~(Reports(stack') \/ DrainOver(stack') \/ Returns(stack'))
    BY <2>1, <2>3 DEF Reports, DrainOver, Returns
  <2>6. QED
    BY <2>1, <2>2, <2>4, <2>5 DEF Shape, Reports, DrainOver, Returns, HasDrain, Orderly
<1>6. CASE ScriptEnd
  <2>1. Running("script") /\ UNCHANGED <<draining, queue, ucount>>
    BY <1>6 DEF ScriptEnd, drainVars, Quiet, heapVars
  <2>2. Tail(stack) = <<>> /\ ~HasDrain(stack)
    BY <1>0, <2>1, BottomAlone DEF Shape, Bottoms
  <2>3. PICK failed \in {0, 1} :
          stack' = <<Top("enter"), [kind |-> "evaluated", i |-> failed,
                                    n |-> IF hasError' THEN 1 ELSE 0]>> \o Tail(stack)
    BY <1>6 DEF ScriptEnd
  <2> DEFINE f == Top("enter")
             g == [kind |-> "evaluated", i |-> failed, n |-> IF hasError' THEN 1 ELSE 0]
  <2>4. g \in Frame /\ g.kind = "evaluated" /\ f \in Frame /\ f.kind = "enter"
    BY <1>1 DEF Frame
  <2> HIDE DEF f, g
  <2>5. stack' = <<f, g>>
    <3>1. stack' = <<f, g>> \o <<>>
      BY <2>2, <2>3 DEF f, g
    <3>2. QED
      BY <3>1, <2>4
  <2>6. /\ Len(stack') = 2 /\ stack'[1] = f /\ stack'[2] = g /\ stack' # <<>>
    BY <2>5
  <2>7. Orderly(stack')
    BY <2>4, <2>6 DEF Orderly, Above, Bottoms
  <2>8. ~(Reports(stack') \/ DrainOver(stack') \/ Returns(stack'))
    BY <2>4, <2>6 DEF Reports, DrainOver, Returns
  <2>9. ~draining'
    BY <2>1, <2>2 DEF Shape
  <2>10. QED
    BY <2>7, <2>8, <2>9 DEF Shape, Reports, DrainOver, Returns, HasDrain, Orderly
<1>7. CASE EvalReturn \/ HostDrainReturn
  <2>1. /\ Running("evaluated") \/ Running("hostdrain")
        /\ draining' = draining /\ stack' = Tail(stack)
    BY <1>7 DEF EvalReturn, HostDrainReturn, drainVars
  <2>2. stack # <<>> /\ stack[1].kind \in Bottoms /\ stack[1].kind # "drain"
    BY <1>0, <2>1 DEF Bottoms
  <2>3. stack' = <<>>
    BY <1>0, <2>1, <2>2, BottomAlone DEF Shape
  <2>4. ~(Reports(stack') \/ DrainOver(stack') \/ Returns(stack'))
    BY <2>3 DEF Reports, DrainOver, Returns
  <2>5. QED
    BY <2>1, <2>2, <2>4, ShapePop
<1>8. CASE DrainEnter
  <2>1. Running("enter") /\ stack # <<>> /\ stack[1].kind = "enter" /\ queue' = queue
    BY <1>0, <1>8 DEF DrainEnter
  <2>2. /\ Tail(stack) \in Seq(Frame) /\ Orderly(Tail(stack))
        /\ Tail(stack) # <<>> /\ Above(stack[1], Tail(stack)[1]) /\ Tail(stack)[1] \in Frame
    BY <1>0, <2>1, OrderlyPop DEF Shape, Bottoms
  <2>3. CASE draining
    <3>1. stack' = Tail(stack) /\ UNCHANGED <<ucount, draining>>
      BY <1>8, <2>3 DEF DrainEnter
    <3>2. HasDrain(Tail(stack))
      BY <1>0, <2>1, <2>3, DrainPop DEF Shape
    <3>3. ~Returns(stack')
      BY <2>2, <3>1, <3>2, BottomAlone DEF Returns, Bottoms
    <3>4. ~Reports(stack') /\ ~DrainOver(stack')
      BY <2>1, <2>2, <3>1 DEF Reports, DrainOver, Above, JobFrames
    <3>5. QED
      BY <2>1, <3>1, <3>3, <3>4, ShapePop
  <2>4. CASE ~draining /\ queue = <<>>
    <3>1. CallReport(Tail(stack)) /\ draining' = draining
      BY <1>8, <2>4 DEF DrainEnter
    <3>2. CASE ucount = 0
      <4>1. stack' = Tail(stack) /\ ucount' = 0
        BY <3>1, <3>2 DEF CallReport
      <4>2. QED
        BY <2>1, <2>4, <3>1, <4>1, ShapePop
    <3>3. CASE ucount # 0
      <4> DEFINE f == [Top("report") EXCEPT !.n = ucount]
      <4>1. /\ stack' = <<f>> \o Tail(stack) /\ ucount' = 0
            /\ f \in Frame /\ f.kind = "report"
        BY <1>0, <3>1, <3>3, FrameTypes DEF CallReport
      <4> HIDE DEF f
      <4>2. \A g \in Frame : Above(stack[1], g) => Above(f, g)
        BY <2>1, <4>1 DEF Above, JobFrames
      <4>3. QED
        BY <2>1, <2>4, <3>1, <4>1, <4>2, ShapeReplace DEF Bottoms
    <3>4. QED
      BY <3>2, <3>3
  <2>5. CASE ~draining /\ queue # <<>>
    <3> DEFINE f == Top("drain")
    <3>1. /\ stack' = <<f>> \o Tail(stack) /\ ucount' = ucount
          /\ f \in Frame /\ f.kind = "drain" /\ f.i = 0
      BY <1>1, <1>8, <2>5 DEF DrainEnter, Replace
    <3> HIDE DEF f
    <3>2. \A g \in Frame : Above(stack[1], g) => Above(f, g)
      BY <2>1, <3>1 DEF Above, JobFrames
    <3>3. QED
      BY <2>1, <3>1, <3>2, ShapeReplace DEF Bottoms
  <2>6. QED
    BY <2>3, <2>4, <2>5
<1>9. CASE DrainTake
  <2>1. /\ Running("drain") /\ Head(stack).i = 0 /\ draining' = draining
        /\ stack' = <<Top("job")>> \o stack
    BY <1>9 DEF DrainTake, Push
  <2>2. stack # <<>> /\ Above(Top("job"), stack[1])
    BY <1>0, <1>1, <2>1 DEF Above, JobFrames
  <2>3. QED
    BY <1>1, <2>1, <2>2, ShapePush
<1>10. CASE DrainEnd
  <2>1. /\ Running("drain") /\ queue' = <<>> /\ draining' = draining
        /\ CallReport(Replace([Top("drain") EXCEPT !.i = 1]))
    BY <1>10 DEF DrainEnd
  <2> DEFINE f == [Top("drain") EXCEPT !.i = 1]
             g == [Top("report") EXCEPT !.n = ucount]
             rest == <<f>> \o Tail(stack)
  <2>2. stack # <<>> /\ stack[1].kind = "drain"
    BY <1>0, <2>1
  <2>3. /\ f \in Frame /\ f.kind = "drain" /\ f.i # 0
        /\ g \in Frame /\ g.kind = "report"
    <3>1. f.i = 1
      BY DEF Top
    <3>2. QED
      BY <1>0, <3>1, FrameTypes
  <2>4. /\ ucount' = 0
        /\ stack' = rest \/ stack' = <<g>> \o rest
    BY <2>1 DEF CallReport, Replace
  <2> HIDE DEF f, g
  <2>5. /\ Tail(stack) \in Seq(Frame) /\ Orderly(Tail(stack))
        /\ Tail(stack) # <<>> /\ Above(stack[1], Tail(stack)[1]) /\ Tail(stack)[1] \in Frame
    BY <1>0, <2>2, OrderlyPop DEF Shape, Bottoms
  <2>6. Above(f, Tail(stack)[1])
    BY <2>2, <2>3, <2>5 DEF Above, JobFrames
  <2>7. rest \in Seq(Frame) /\ rest # <<>> /\ rest[1] = f /\ Orderly(rest) /\ HasDrain(rest)
    <3>1. rest \in Seq(Frame) /\ rest # <<>> /\ rest[1] = f
      BY <2>3, <2>5, PushProperties
    <3>2. Orderly(rest)
      BY <2>3, <2>5, <2>6, OrderlyPush
    <3>3. HasDrain(rest)
      BY <2>3, <2>5, DrainPush
    <3>4. QED
      BY <3>1, <3>2, <3>3
  <2> HIDE DEF rest
  <2>8. Orderly(<<g>> \o rest) /\ HasDrain(<<g>> \o rest)
    BY <2>3, <2>7, OrderlyPush, DrainPush DEF Above
  <2>9. Orderly(stack') /\ HasDrain(stack')
    BY <2>4, <2>7, <2>8
  <2>10. QED
    BY <2>1, <2>4, <2>9 DEF Shape, Reports, DrainOver, Returns, HasDrain, Orderly
<1>11. CASE DrainReturn
  <2>1. /\ Running("drain") /\ Head(stack).i = 1 /\ ~draining' /\ stack' = Tail(stack)
        /\ UNCHANGED <<queue, ucount>>
    BY <1>11 DEF DrainReturn, Quiet, heapVars
  <2>2. DrainOver(stack)
    BY <1>0, <2>1 DEF DrainOver
  <2>3. QED
    BY <1>0, <2>1, <2>2, ShapePop DEF Shape
<1>12. CASE \/ RunScriptHandler \/ RunIdentity \/ RunThrower \/ RunResolvingFn
            \/ RunNativeThenable \/ RunScriptThenable \/ HandlerEnd \/ ThenableEnd
  <2>1. /\ draining' = draining
        /\ Running("job") \/ Running("handler") \/ Running("thenable")
        /\ \E kind \in {"handler", "after", "thenable"} : stack' = <<Top(kind)>> \o Tail(stack)
    BY <1>12 DEF RunScriptHandler, RunIdentity, RunThrower, RunResolvingFn,
       RunNativeThenable, RunScriptThenable, HandlerEnd, ThenableEnd, JobStarts,
       JobQuiet, Replace
  <2>2. PICK f \in Frame : /\ stack' = <<f>> \o Tail(stack)
                           /\ f.kind \in {"handler", "after", "thenable"}
    BY <1>1, <2>1
  <2>3. stack # <<>> /\ stack[1].kind \in {"job", "handler", "thenable"}
    BY <1>0, <2>1
  <2>4. \A g \in Frame : Above(stack[1], g) => Above(f, g)
    BY <2>2, <2>3 DEF Above, JobFrames
  <2>5. QED
    BY <2>1, <2>2, <2>3, <2>4, ShapeReplace DEF Bottoms
<1>13. CASE JobAfter \/ JobAborts
  <2>1. Running("after") /\ draining' = draining /\ stack' = Tail(stack)
    BY <1>13 DEF JobAfter, JobAborts
  <2>2. stack # <<>> /\ stack[1].kind = "after"
    BY <1>0, <2>1
  <2>3. Tail(stack) # <<>> /\ Above(stack[1], Tail(stack)[1])
    BY <1>0, <2>2, OrderlyPop DEF Shape, Bottoms
  <2>4. ~(Reports(stack') \/ DrainOver(stack') \/ Returns(stack'))
    BY <2>1, <2>2, <2>3 DEF Above, Reports, DrainOver, Returns
  <2>5. QED
    BY <2>1, <2>2, <2>4, ShapePop
<1>14. CASE ReportStep
  <2>1. /\ Running("report") \/ Running("tracker")
        /\ UNCHANGED <<queue, ucount, draining>>
    BY <1>14 DEF ReportStep, ReportSkip, ReportCall, TrackerReturn, ReportReturn,
       ReportQuiet, drainVars
  <2>2. stack # <<>> /\ queue' = <<>> /\ ucount' = 0
    BY <1>0, <2>1 DEF Shape, Reports
  <2>3. CASE ReportSkip
    <3> DEFINE f == [Head(stack) EXCEPT !.i = Head(stack).i + 1]
    <3>1. /\ Running("report") /\ stack' = <<f>> \o Tail(stack)
      BY <2>3 DEF ReportSkip, NextEntry, Replace
    <3>2. /\ stack[1].kind = "report" /\ f \in Frame /\ f.kind = "report"
      BY <1>0, <3>1 DEF Frame
    <3> HIDE DEF f
    <3>3. \A g \in Frame : Above(stack[1], g) => Above(f, g)
      BY <3>2 DEF Above, JobFrames
    <3>4. QED
      BY <2>1, <2>2, <3>1, <3>2, <3>3, ShapeReplace DEF Bottoms
  <2>4. CASE ReportCall
    <3>1. Running("report") /\ stack' = <<Top("tracker")>> \o stack
      BY <2>4 DEF ReportCall, Push
    <3>2. Above(Top("tracker"), stack[1])
      BY <1>0, <1>1, <3>1 DEF Above
    <3>3. QED
      BY <1>1, <2>1, <2>2, <3>1, <3>2, ShapePush
  <2>5. CASE TrackerReturn
    <3> DEFINE f == [stack[2] EXCEPT !.i = stack[2].i + 1]
               rest == Tail(stack)
    <3>1. /\ Running("tracker") /\ stack' = <<f>> \o Tail(rest)
      BY <2>5 DEF TrackerReturn
    <3>2. /\ rest \in Seq(Frame) /\ Orderly(rest) /\ rest # <<>>
          /\ rest[1] = stack[2] /\ rest[1] \in Frame /\ Above(stack[1], rest[1])
          /\ stack[1].kind = "tracker"
      BY <1>0, <3>1, OrderlyPop DEF Shape, Bottoms
    <3>3. stack[2].kind = "report" /\ stack[2] \in Frame
      BY <3>2 DEF Above, JobFrames
    <3>4. f \in Frame /\ f.kind = "report"
      BY <3>3 DEF Frame
    <3> HIDE DEF f, rest
    <3>5. /\ Tail(rest) \in Seq(Frame) /\ Orderly(Tail(rest)) /\ Tail(rest) # <<>>
          /\ Above(rest[1], Tail(rest)[1])
      BY <3>2, <3>3, OrderlyPop DEF Bottoms
    <3>6. Above(f, Tail(rest)[1])
      BY <3>2, <3>3, <3>4, <3>5 DEF Above, JobFrames
    <3>7. Orderly(stack')
      BY <3>1, <3>4, <3>5, <3>6, OrderlyPush
    <3>8. draining' => HasDrain(stack')
      <4>1. draining => HasDrain(rest)
        BY <1>0, <2>2, <3>2, DrainPop DEF Shape, rest
      <4>2. draining => HasDrain(Tail(rest))
        BY <3>2, <3>3, <4>1, DrainPop
      <4>3. QED
        BY <2>1, <3>1, <3>4, <3>5, <4>2, DrainPush
    <3>9. QED
      BY <2>2, <3>7, <3>8 DEF Shape, Reports, DrainOver, Returns, HasDrain, Orderly
  <2>6. CASE ReportReturn
    <3>1. Running("report") /\ stack' = Tail(stack)
      BY <2>6 DEF ReportReturn
    <3>2. QED
      BY <1>0, <2>1, <2>2, <3>1, ShapePop
  <2>7. QED
    BY <1>14, <2>3, <2>4, <2>5, <2>6 DEF ReportStep
<1>15. CASE UNCHANGED vars
  BY <1>15 DEF Shape, Reports, DrainOver, Returns, HasDrain, Orderly, vars
<1>16. QED
  BY <1>2, <1>3, <1>4, <1>5, <1>6, <1>7, <1>8, <1>9, <1>10, <1>11, <1>12, <1>13, <1>14, <1>15
  DEF Next, ScriptStep, HostStep, EngineStep, ReportStep

LEMMA InitShape ==
    ASSUME Init
    PROVE  Shape
<1>1. Len(<<>>) = 0
  OBVIOUS
<1>2. QED
  BY <1>1 DEF Init, Shape, Orderly, Reports, DrainOver, Returns

LEMMA Shaping ==
    ASSUME ~TrackerEvals
    PROVE  Spec => [](IInv /\ Scoped /\ Shape)
<1>1. Init => Shape
  BY InitShape
<1>2. IInv /\ Shape /\ [Next]_vars => Shape'
  BY ShapeStep
<1>3. QED
  BY <1>1, <1>2, Settling, PTL DEF Spec

(* Unless a tracker evaluates script, no host call returns with a job      *)
(* queued or a rejection listed: every way out of drain_microtasks leads   *)
(* through a report of an empty queue, or back into the running drain.     *)
THEOREM CallsReturnDrained ==
    ASSUME ~TrackerEvals
    PROVE  Spec => []ReturnsDrained
<1>1. IInv /\ Shape => ReturnsDrained
  <2> SUFFICES ASSUME IInv, Shape, Running("evaluated") \/ Running("hostdrain")
               PROVE  queue = <<>> /\ ucount = 0
    BY DEF ReturnsDrained
  <2>1. Returns(stack)
    BY StackFacts DEF Returns
  <2>2. QED
    BY <2>1 DEF Shape
<1>2. QED
  BY <1>1, Shaping, PTL

LEMMA InitHandled ==
    ASSUME Init
    PROVE  HandledInv
BY DEF Init, HandledInv, Unborn

LEMMA Handling == Spec => []HandledInv
<1>1. Init => HandledInv
  BY InitHandled
<1>2. IInv /\ Scoped /\ HandledInv /\ [Next]_vars => HandledInv'
  BY HandledStep
<1>3. QED
  BY <1>1, <1>2, Settling, PTL DEF Spec

LEMMA NoScript ==
    ASSUME ~InlineDrains, NEW s \in Seq(Frame), s # <<>>, Orderly(s),
           s[1].kind \notin Bottoms
    PROVE  \A k \in DOMAIN s : s[k].kind # "script"
<1>1. Len(s) \in Nat /\ Len(s) >= 1 /\ DOMAIN s = 1..Len(s)
  BY PopProperties
<1>2. SUFFICES ASSUME NEW k \in 1..Len(s), s[k].kind = "script"
               PROVE  FALSE
  BY <1>1
<1>3. \A g : ~Above(s[k], g) /\ ~Above(g, s[k])
  BY <1>2 DEF Above, JobFrames
<1>4. k = Len(s)
  BY <1>3 DEF Orderly
<1>5. k # 1
  BY <1>2 DEF Bottoms
<1>6. PICK m \in 1..Len(s) : m # Len(s) /\ m + 1 = k
  <2> DEFINE L == Len(s)
  <2>1. L \in Nat /\ k \in 1..L /\ k = L /\ k # 1
    BY <1>1, <1>4, <1>5
  <2> HIDE DEF L
  <2>2. k - 1 \in 1..L /\ k - 1 # L /\ (k - 1) + 1 = k
    BY <2>1
  <2>3. QED
    BY <2>2 DEF L
<1>7. Above(s[m], s[k])
  BY <1>6 DEF Orderly
<1>8. QED
  BY <1>3, <1>7

(* Unless a combinator drains in the middle of a script or a tracker       *)
(* evaluates one, a rejection is reported when its tick is over: a handler *)
(* attached later in the same script, or by any job it queued, is in time  *)
(* (track_rejection, report_unhandled_rejections).                         *)
THEOREM ReportsWait ==
    ASSUME ~TrackerEvals, ~InlineDrains
    PROVE  Spec => ReportsAfterTick
<1> DEFINE Waits == \A p \in Promise : reported'[p] # reported[p] =>
                       /\ p \notin attached
                       /\ queue = <<>>
                       /\ \A k \in DOMAIN stack : stack[k].kind # "script"
<1>1. IInv /\ Scoped /\ Shape /\ HandledInv /\ [Next]_vars => Waits
  <2> SUFFICES ASSUME IInv, Scoped, Shape, HandledInv, [Next]_vars,
                      NEW p \in Promise, reported'[p] # reported[p]
               PROVE  /\ p \notin attached
                      /\ queue = <<>>
                      /\ \A k \in DOMAIN stack : stack[k].kind # "script"
    OBVIOUS
  <2>1. ReportCall
    <3>1. ReportStep
      BY Telling
    <3>2. QED
      BY <3>1 DEF ReportStep, ReportSkip, TrackerReturn, ReportReturn
  <2>2. PICK q : /\ ~prom[q].isHandled
                 /\ reported' = [reported EXCEPT ![q] = @ + 1]
    BY <2>1 DEF ReportCall, StillUnhandled
  <2>3. p = q
    BY <2>2 DEF IInv, ControlType
  <2>4. p \notin attached
    BY <2>2, <2>3 DEF HandledInv
  <2>5. stack \in Seq(Frame) /\ stack # <<>> /\ stack[1].kind = "report"
    BY <2>1, StackFacts DEF ReportCall
  <2>6. queue = <<>>
    BY <2>5 DEF Shape, Reports
  <2>7. \A k \in DOMAIN stack : stack[k].kind # "script"
    BY <2>5, NoScript DEF Shape, Bottoms
  <2>8. QED
    BY <2>4, <2>6, <2>7
<1>2. IInv /\ Scoped /\ Shape /\ HandledInv /\ [Next]_vars => [Waits]_vars
  BY <1>1
<1>3. QED
  BY <1>2, Shaping, Handling, PTL DEF Spec, ReportsAfterTick

-----------------------------------------------------------------------------
(* The list of rejections.  Its entries lo + 1 .. hi are still to report:  *)
(* they are the promises flagged as listed, each once, and every rejection *)
(* nobody handled is among them.                                           *)

Books(ps, sl, lo, hi) ==
    /\ hi <= MaxPromises
    /\ \A p \in Promise : ps[p].state = "rejected" /\ ~ps[p].isHandled => ps[p].inRejectList
    /\ \A p \in Promise : ps[p].inRejectList =>
          \E k \in Promise : lo < k /\ k <= hi /\ sl[k] = p
    /\ \A k \in Promise : lo < k /\ k <= hi => sl[k] \in Promise /\ ps[sl[k]].inRejectList
    /\ \A j, k \in Promise :
          lo < j /\ j <= hi /\ lo < k /\ k <= hi /\ sl[j] = sl[k] => j = k

Lo == IF Running("report") THEN stack[1].i
      ELSE IF Running("tracker") THEN stack[2].i + 1 ELSE 0
Hi == IF Running("report") THEN stack[1].n
      ELSE IF Running("tracker") THEN stack[2].n ELSE ucount

ListInv == Books(prom, slots, Lo, Hi)

LEMMA BooksSame ==
    ASSUME NEW ps, NEW qs, NEW sl, NEW lo, NEW hi, Books(ps, sl, lo, hi),
           \A q \in Promise : /\ qs[q].inRejectList = ps[q].inRejectList
                              /\ qs[q].state = "rejected" /\ ~qs[q].isHandled =>
                                   \/ ps[q].state = "rejected" /\ ~ps[q].isHandled
                                   \/ ps[q].inRejectList
    PROVE  Books(qs, sl, lo, hi)
BY DEF Books

LEMMA BooksEmpty ==
    ASSUME NEW ps, NEW sl, NEW hi \in Nat, Books(ps, sl, hi, hi)
    PROVE  Books(ps, sl, 0, 0)
BY BoundsAssumption DEF Books, Promise

LEMMA BooksClear ==
    ASSUME NEW ps, NEW sl, NEW tl, NEW lo \in Nat, NEW hi, Books(ps, sl, lo, hi),
           \A k \in Promise : lo < k => tl[k] = sl[k]
    PROVE  Books(ps, tl, lo, hi)
BY DEF Books, Promise

(* A listed rejection joins the end: there is room, since the entries are  *)
(* different promises and this one is not among them.                      *)
LEMMA BooksAdd ==
    ASSUME NEW ps, NEW qs, NEW sl \in [Promise -> Promise \cup {None}], NEW hi \in Nat,
           NEW p \in Promise, Books(ps, sl, 0, hi),
           ~ps[p].inRejectList, qs[p].inRejectList,
           \A q \in Promise : q # p =>
                /\ qs[q].inRejectList = ps[q].inRejectList
                /\ qs[q].state = "rejected" /\ ~qs[q].isHandled =>
                     \/ ps[q].state = "rejected" /\ ~ps[q].isHandled
                     \/ ps[q].inRejectList
    PROVE  Books(qs, [sl EXCEPT ![hi + 1] = p], 0, hi + 1)
<1>1. hi + 1 <= MaxPromises
  <2> DEFINE f == [k \in 1..hi |-> sl[k]]
  <2>1. hi <= MaxPromises /\ 1..hi \subseteq Promise /\ MaxPromises \in Nat
    BY BoundsAssumption DEF Books, Promise
  <2>2. \A k \in 1..hi : sl[k] \in Promise \ {p}
    BY <2>1 DEF Books
  <2>3. \A j, k \in 1..hi : sl[j] = sl[k] => j = k
    BY <2>1 DEF Books
  <2>4. f \in Injection(1..hi, Promise \ {p})
    <3>1. f \in [1..hi -> Promise \ {p}]
      BY <2>2
    <3>2. \A j, k \in 1..hi : f[j] = f[k] => j = k
      BY <2>3
    <3>3. QED
      BY <3>1, <3>2 DEF Injection, IsInjective
  <2>5. IsFiniteSet(Promise) /\ Cardinality(Promise) = MaxPromises
    BY <2>1, FS_Interval DEF Promise
  <2>6. IsFiniteSet(Promise \ {p}) /\ Cardinality(Promise \ {p}) = MaxPromises - 1
    BY <2>5, FS_RemoveElement
  <2>7. Cardinality(1..hi) = hi
    BY FS_Interval
  <2>8. Cardinality(1..hi) <= Cardinality(Promise \ {p})
    <3> HIDE DEF f
    <3>1. QED
      BY <2>4, <2>6, FS_Injection
  <2>9. QED
    BY <2>1, <2>6, <2>7, <2>8
<1> DEFINE tl == [sl EXCEPT ![hi + 1] = p]
<1>2. PICK n \in Promise : n = hi + 1
  BY <1>1 DEF Promise
<1>3. tl[n] = p /\ \A k \in Promise : k # n => tl[k] = sl[k]
  BY <1>2
<1> HIDE DEF tl
<1>4. \A k \in Promise : 0 < k /\ k <= n <=> k = n \/ (0 < k /\ k <= hi)
  BY <1>2 DEF Promise
<1>5. \A k \in Promise : k <= hi => k # n /\ tl[k] = sl[k] /\ sl[k] \in Promise /\ sl[k] # p
                                    /\ ps[sl[k]].inRejectList
  BY <1>2, <1>3 DEF Books, Promise
<1>6. Books(qs, tl, 0, n)
  <2>1. n <= MaxPromises
    BY <1>1, <1>2
  <2>2. \A q \in Promise : qs[q].state = "rejected" /\ ~qs[q].isHandled => qs[q].inRejectList
    BY DEF Books
  <2>3. ASSUME NEW q \in Promise, qs[q].inRejectList
        PROVE  \E k \in Promise : 0 < k /\ k <= n /\ tl[k] = q
    <3>1. CASE q = p
      BY <1>3, <1>4, <3>1
    <3>2. CASE q # p
      <4>1. PICK k \in Promise : 0 < k /\ k <= hi /\ sl[k] = q
        BY <2>3, <3>2 DEF Books
      <4>2. QED
        BY <1>4, <1>5, <4>1
    <3>3. QED
      BY <3>1, <3>2
  <2>4. \A k \in Promise : 0 < k /\ k <= n => tl[k] \in Promise /\ qs[tl[k]].inRejectList
    BY <1>3, <1>4, <1>5
  <2>5. \A j, k \in Promise :
          0 < j /\ j <= n /\ 0 < k /\ k <= n /\ tl[j] = tl[k] => j = k
    BY <1>3, <1>4, <1>5 DEF Books
  <2>6. QED
    BY <2>1, <2>2, <2>3, <2>4, <2>5 DEF Books
<1>7. QED
  BY <1>2, <1>6 DEF tl

(* The report passes an entry, and leaves its promise unlisted.            *)
LEMMA BooksPass ==
    ASSUME NEW ps, NEW qs, NEW sl, NEW lo \in Nat, NEW hi \in Nat, lo < hi,
           Books(ps, sl, lo, hi), NEW p, p = sl[lo + 1],
           ~qs[p].inRejectList, qs[p].state = "rejected" => qs[p].isHandled,
           \A q \in Promise : q # p => qs[q] = ps[q]
    PROVE  p \in Promise /\ Books(qs, sl, lo + 1, hi)
<1>1. PICK n \in Promise : n = lo + 1
  BY BoundsAssumption DEF Books, Promise
<1>2. \A k \in Promise : lo < k /\ k <= hi <=> k = n \/ (n < k /\ k <= hi)
  BY <1>1 DEF Promise
<1>3. ~(n < n) /\ p = sl[n]
  BY <1>1 DEF Promise
<1>4. p \in Promise
  BY <1>2, <1>3 DEF Books
<1>5. \A k \in Promise : n < k /\ k <= hi => sl[k] \in Promise /\ sl[k] # p
                                             /\ ps[sl[k]].inRejectList
  BY <1>2, <1>3 DEF Books
<1>6. Books(qs, sl, n, hi)
  <2>1. hi <= MaxPromises
    BY DEF Books
  <2>2. \A q \in Promise : qs[q].state = "rejected" /\ ~qs[q].isHandled => qs[q].inRejectList
    BY DEF Books
  <2>3. ASSUME NEW q \in Promise, qs[q].inRejectList
        PROVE  \E k \in Promise : n < k /\ k <= hi /\ sl[k] = q
    <3>1. q # p /\ ps[q].inRejectList
      BY <2>3
    <3>2. PICK k \in Promise : lo < k /\ k <= hi /\ sl[k] = q
      BY <3>1 DEF Books
    <3>3. QED
      BY <1>2, <1>3, <3>1, <3>2
  <2>4. \A k \in Promise : n < k /\ k <= hi => sl[k] \in Promise /\ qs[sl[k]].inRejectList
    BY <1>5
  <2>5. \A j, k \in Promise :
          n < j /\ j <= hi /\ n < k /\ k <= hi /\ sl[j] = sl[k] => j = k
    BY <1>2 DEF Books
  <2>6. QED
    BY <2>1, <2>2, <2>3, <2>4, <2>5 DEF Books
<1>7. QED
  BY <1>1, <1>4, <1>6

(* Outside a report the whole list is still to report.                     *)
LEMMA NotReporting ==
    ASSUME ~Reports(stack)
    PROVE  Lo = 0 /\ Hi = ucount
<1>1. ~Running("report") /\ ~Running("tracker")
  <2>1. stack # <<>> => Head(stack) = stack[1]
    OBVIOUS
  <2>2. QED
    BY <2>1 DEF Running, Reports
<1>2. QED
  BY <1>1 DEF Lo, Hi

(* Only drain_microtasks enters the report, and only the report leaves it. *)
LEMMA Outside ==
    ASSUME ~TrackerEvals, IInv, Shape, Next, ~DrainEnter, ~DrainEnd, ~ReportStep
    PROVE  ~Reports(stack) /\ ~Reports(stack')
<1>0. /\ stack \in Seq(Frame)
      /\ \A kind : Running(kind) => stack # <<>> /\ Head(stack) = stack[1]
                                    /\ stack[1].kind = kind /\ stack[1] \in Frame
                                    /\ Tail(stack) \in Seq(Frame)
  BY StackFacts
<1>1. \A kind \in {"script", "evaluated", "hostdrain", "enter", "job", "handler",
                   "thenable", "after", "report", "tracker", "drain"} :
         Top(kind) \in Frame /\ Top(kind).kind = kind /\ Top(kind).i = 0
  BY FrameTypes
<1>2. \A f \in Frame, s \in Seq(Frame) :
         f.kind \notin {"report", "tracker"} => ~Reports(<<f>> \o s)
  BY PushProperties DEF Reports
<1>3. CASE \/ NewPromise \/ NewPromiseInterrupted \/ ScriptResolve \/ ScriptReject
           \/ ScriptThen \/ HostSettle
  <2>1. UNCHANGED stack /\ (InScript \/ stack = <<>>)
    BY <1>3 DEF NewPromise, NewPromiseInterrupted, ScriptResolve, ScriptReject,
       ScriptThen, HostSettle, ScriptOp
  <2>2. QED
    BY <1>0, <2>1 DEF InScript, Reports
<1>4. CASE SettlingCombinator \/ Eval \/ DrainTake
  <2>1. /\ \E kind \in {"enter", "script", "job"} : stack' = <<Top(kind)>> \o stack
        /\ InScript \/ Running("drain") \/ stack = <<>>
    BY <1>4 DEF SettlingCombinator, Eval, DrainTake, ScriptOp, Push
  <2>2. ~Reports(stack')
    BY <1>0, <1>1, <1>2, <2>1
  <2>3. QED
    BY <1>0, <2>1, <2>2 DEF InScript, Reports
<1>5. CASE HostDrain
  <2>1. stack = <<>> /\ stack' = <<Top("enter"), Top("hostdrain")>>
    BY <1>5 DEF HostDrain
  <2>2. stack'[1] = Top("enter")
    BY <2>1
  <2>3. QED
    BY <1>1, <2>1, <2>2 DEF Reports
<1>6. CASE ScriptEnd
  <2>1. Running("script") /\ \E g : stack' = <<Top("enter"), g>> \o Tail(stack)
                                    /\ g \in Frame
    <3>1. PICK failed \in {0, 1} :
            stack' = <<Top("enter"), [kind |-> "evaluated", i |-> failed,
                                      n |-> IF hasError' THEN 1 ELSE 0]>> \o Tail(stack)
      BY <1>6 DEF ScriptEnd
    <3> DEFINE g == [kind |-> "evaluated", i |-> failed, n |-> IF hasError' THEN 1 ELSE 0]
    <3>2. g \in Frame
      BY DEF Frame
    <3> HIDE DEF g
    <3>3. stack' = <<Top("enter"), g>> \o Tail(stack)
      BY <3>1 DEF g
    <3>4. Running("script")
      BY <1>6 DEF ScriptEnd
    <3>5. QED
      BY <3>2, <3>3, <3>4
  <2>2. stack' # <<>> /\ stack'[1] = Top("enter")
    <3>1. PICK g \in Frame : stack' = <<Top("enter"), g>> \o Tail(stack)
      BY <2>1
    <3>2. stack' = <<Top("enter")>> \o (<<g>> \o Tail(stack))
      <4>1. Top("enter") \in Frame /\ Tail(stack) \in Seq(Frame)
        BY <1>0, <1>1, <2>1
      <4>2. <<Top("enter"), g>> \o Tail(stack) = <<Top("enter")>> \o (<<g>> \o Tail(stack))
        BY <4>1, PushTwo
      <4>3. QED
        BY <3>1, <4>2
    <3>3. <<g>> \o Tail(stack) \in Seq(Frame)
      BY <1>0, <2>1, PushProperties
    <3>4. QED
      BY <1>1, <3>2, <3>3, PushProperties
  <2>3. QED
    BY <1>0, <1>1, <2>1, <2>2 DEF Reports
<1>7. CASE EvalReturn \/ HostDrainReturn
  <2>1. (Running("evaluated") \/ Running("hostdrain")) /\ stack' = Tail(stack)
    BY <1>7 DEF EvalReturn, HostDrainReturn
  <2>2. stack' = <<>>
    BY <1>0, <2>1, BottomAlone DEF Shape, Bottoms
  <2>3. QED
    BY <1>0, <2>1, <2>2 DEF Reports
<1>8. CASE DrainReturn \/ JobAfter \/ JobAborts
  <2>1. (Running("drain") \/ Running("after")) /\ stack' = Tail(stack)
    BY <1>8 DEF DrainReturn, JobAfter, JobAborts
  <2>2. stack # <<>> /\ stack[1].kind \in {"drain", "after"}
    BY <1>0, <2>1
  <2>3. Tail(stack) # <<>> /\ Above(stack[1], Tail(stack)[1])
    BY <1>0, <2>2, OrderlyPop DEF Shape, Bottoms
  <2>4. QED
    BY <2>1, <2>2, <2>3 DEF Above, Reports
<1>9. CASE \/ RunScriptHandler \/ RunIdentity \/ RunThrower \/ RunResolvingFn
           \/ RunNativeThenable \/ RunScriptThenable \/ HandlerEnd \/ ThenableEnd
  <2>1. /\ Running("job") \/ Running("handler") \/ Running("thenable")
        /\ \E kind \in {"handler", "after", "thenable"} : stack' = <<Top(kind)>> \o Tail(stack)
    BY <1>9 DEF RunScriptHandler, RunIdentity, RunThrower, RunResolvingFn,
       RunNativeThenable, RunScriptThenable, HandlerEnd, ThenableEnd, JobStarts, Replace
  <2>2. ~Reports(stack')
    BY <1>0, <1>1, <1>2, <2>1
  <2>3. QED
    BY <1>0, <2>1, <2>2 DEF Reports
<1>10. QED
  BY <1>3, <1>4, <1>5, <1>6, <1>7, <1>8, <1>9
  DEF Next, ScriptStep, HostStep, EngineStep, ReportStep

(* A report begins with the whole list.                                    *)
LEMMA ReportBegins ==
    ASSUME IInv, Shape, DrainEnter \/ DrainEnd
    PROVE  ~Reports(stack) /\ Lo' = 0 /\ Hi' = ucount
<1>0. /\ stack \in Seq(Frame) /\ ucount \in Nat
      /\ \A kind : Running(kind) => stack # <<>> /\ Head(stack) = stack[1]
                                    /\ stack[1].kind = kind /\ stack[1] \in Frame
                                    /\ Tail(stack) \in Seq(Frame)
  BY StackFacts DEF IInv, HeapInv, HeapType
<1>1. Running("enter") \/ Running("drain")
  BY DEF DrainEnter, DrainEnd
<1>2. ~Reports(stack) /\ stack # <<>> /\ Tail(stack) \in Seq(Frame)
      /\ stack[1].kind \in {"enter", "drain"}
  BY <1>0, <1>1 DEF Reports
<1>3. ~Reports(Tail(stack))
  <2>1. Tail(stack) # <<>> /\ Above(stack[1], Tail(stack)[1])
    BY <1>0, <1>2, OrderlyPop DEF Shape, Bottoms
  <2>2. QED
    BY <1>2, <2>1 DEF Above, Reports, JobFrames
<1>4. \A f \in Frame : f.kind = "drain" =>
         <<f>> \o Tail(stack) \in Seq(Frame) /\ ~Reports(<<f>> \o Tail(stack))
  BY <1>2, PushProperties DEF Reports
<1>5. /\ Top("drain") \in Frame /\ Top("drain").kind = "drain"
      /\ [Top("drain") EXCEPT !.i = 1] \in Frame
      /\ [Top("drain") EXCEPT !.i = 1].kind = "drain"
  BY FrameTypes
<1>6. \/ ucount' = ucount /\ ~Reports(stack')
      \/ \E rest \in Seq(Frame) : stack' = <<[Top("report") EXCEPT !.n = ucount]>> \o rest
  <2>1. CASE DrainEnter
    <3>1. \/ stack' = Tail(stack) /\ ucount' = ucount
          \/ CallReport(Tail(stack))
          \/ stack' = <<Top("drain")>> \o Tail(stack) /\ ucount' = ucount
      BY <2>1 DEF DrainEnter, Replace
    <3>2. QED
      BY <1>2, <1>3, <1>4, <1>5, <3>1 DEF CallReport
  <2>2. CASE DrainEnd
    <3>1. CallReport(<<[Top("drain") EXCEPT !.i = 1]>> \o Tail(stack))
      BY <2>2 DEF DrainEnd, Replace
    <3>2. QED
      BY <1>4, <1>5, <3>1 DEF CallReport
  <2>3. QED
    BY <2>1, <2>2
<1>7. CASE ucount' = ucount /\ ~Reports(stack')
  <2>1. ~Running("report")' /\ ~Running("tracker")'
    <3>1. stack' # <<>> => Head(stack') = stack'[1]
      OBVIOUS
    <3>2. QED
      BY <1>7, <3>1 DEF Running, Reports
  <2>2. QED
    BY <1>2, <1>7, <2>1 DEF Lo, Hi
<1>8. CASE \E rest \in Seq(Frame) : stack' = <<[Top("report") EXCEPT !.n = ucount]>> \o rest
  <2> DEFINE f == [Top("report") EXCEPT !.n = ucount]
  <2>1. f \in Frame /\ f.kind = "report" /\ f.i = 0 /\ f.n = ucount
    BY <1>0, FrameTypes DEF Top
  <2> HIDE DEF f
  <2>2. PICK rest \in Seq(Frame) : stack' = <<f>> \o rest
    BY <1>8 DEF f
  <2>3. stack' # <<>> /\ Head(stack') = f /\ stack'[1] = f
    BY <2>1, <2>2, PushProperties
  <2>4. QED
    BY <1>2, <2>1, <2>3 DEF Lo, Hi, Running
<1>9. QED
  BY <1>6, <1>7, <1>8

LEMMA ListStep ==
    ASSUME ~TrackerEvals, IInv, Scoped, Shape, ListInv, [Next]_vars
    PROVE  ListInv'
<1>0. /\ prom \in [Promise -> PromiseRec] /\ slots \in [Promise -> Promise \cup {None}]
      /\ ucount \in Nat /\ stack \in Seq(Frame)
      /\ \A kind : Running(kind) => stack # <<>> /\ Head(stack) = stack[1]
                                    /\ stack[1].kind = kind /\ stack[1] \in Frame
                                    /\ Tail(stack) \in Seq(Frame)
  BY StackFacts DEF IInv, HeapInv, HeapType
<1>1. CASE UNCHANGED vars
  <2>1. Lo' = Lo /\ Hi' = Hi
    BY <1>1 DEF Lo, Hi, Running, vars
  <2>2. QED
    BY <1>1, <2>1 DEF ListInv, vars
<1>2. CASE DrainEnter \/ DrainEnd
  <2>1. UNCHANGED <<prom, slots>>
    BY <1>2 DEF DrainEnter, DrainEnd
  <2>2. Lo = 0 /\ Hi = ucount /\ Lo' = 0 /\ Hi' = ucount
    BY <1>2, ReportBegins, NotReporting
  <2>3. QED
    BY <2>1, <2>2 DEF ListInv
<1>3. CASE Next /\ ~DrainEnter /\ ~DrainEnd /\ ~ReportStep
  <2>1. ~Reports(stack) /\ ~Reports(stack')
    BY <1>3, Outside
  <2>2. Books(prom, slots, 0, ucount)
    BY <2>1, NotReporting DEF ListInv
  <2>3. Lo' = 0 /\ Hi' = ucount'
    <3>1. ~Running("report")' /\ ~Running("tracker")'
      <4>1. stack' # <<>> => Head(stack') = stack'[1]
        OBVIOUS
      <4>2. QED
        BY <2>1, <4>1 DEF Running, Reports
    <3>2. QED
      BY <3>1 DEF Lo, Hi
  <2>4. Told \/ \E p \in Promise : Attaches(p)
    BY <1>3, Telling
  <2>5. Books(prom', slots', 0, ucount')
    <3>1. CASE NoNews
      <4>1. Books(prom', slots, 0, ucount)
        BY <2>2, <3>1, BooksSame DEF NoNews, Untouched
      <4>2. QED
        BY <3>1, <4>1 DEF NoNews
    <3>2. CASE \E p \in Promise : Attaches(p)
      <4>1. PICK p \in Promise : Attaches(p)
        BY <3>2
      <4>2. Books(prom', slots, 0, ucount)
        BY <2>2, <4>1, BooksSame DEF Attaches, Untouched
      <4>3. QED
        BY <4>1, <4>2 DEF Attaches
    <3>3. CASE \E p \in Promise : News(p)
      <4>1. PICK p \in Promise : News(p)
        BY <3>3
      <4>2. /\ ~prom[p].inRejectList /\ prom'[p].inRejectList
            /\ \A q \in Promise : q # p =>
                  /\ prom'[q].inRejectList = prom[q].inRejectList
                  /\ prom'[q].state = "rejected" /\ ~prom'[q].isHandled =>
                       \/ prom[q].state = "rejected" /\ ~prom[q].isHandled
                       \/ prom[q].inRejectList
            /\ slots' = [slots EXCEPT ![ucount + 1] = p] /\ ucount' = ucount + 1
        BY <4>1 DEF News, Untouched
      <4>3. Books(prom', [slots EXCEPT ![ucount + 1] = p], 0, ucount + 1)
        BY <1>0, <2>2, <4>2, BooksAdd
      <4>4. QED
        BY <4>2, <4>3
    <3>4. QED
      BY <2>4, <3>1, <3>2, <3>3 DEF Told
  <2>6. QED
    BY <2>3, <2>5 DEF ListInv
<1>4. CASE ReportSkip
  <2> DEFINE f == [Head(stack) EXCEPT !.i = Head(stack).i + 1]
             p == slots[stack[1].i + 1]
  <2>1. Running("report") /\ stack' = <<f>> \o Tail(stack)
    BY <1>4 DEF ReportSkip, NextEntry, Replace
  <2>2. stack[1] \in Frame /\ stack[1].i \in Nat /\ stack[1].n \in Nat
        /\ Head(stack) = stack[1] /\ stack[1].kind = "report" /\ Tail(stack) \in Seq(Frame)
    BY <1>0, <2>1 DEF Frame
  <2>3. /\ stack[1].i < stack[1].n
        /\ p # None => ~StillUnhandled(p)
        /\ p # None => prom' = [prom EXCEPT ![p].inRejectList = FALSE]
        /\ slots' = [slots EXCEPT ![stack[1].i + 1] = None]
    BY <1>4, <2>2 DEF ReportSkip
  <2>4. f \in Frame /\ f.kind = "report" /\ f.i = stack[1].i + 1 /\ f.n = stack[1].n
    BY <2>2 DEF Frame
  <2> HIDE DEF f, p
  <2>5. Running("report")' /\ stack'[1] = f
    BY <2>1, <2>2, <2>4, PushProperties DEF Running
  <2>6. Lo = stack[1].i /\ Hi = stack[1].n /\ Lo' = stack[1].i + 1 /\ Hi' = stack[1].n
    BY <2>1, <2>4, <2>5 DEF Lo, Hi
  <2>7. PICK lo \in Nat, hi \in Nat : lo = stack[1].i /\ hi = stack[1].n
    BY <2>2
  <2>8. Books(prom, slots, lo, hi) /\ lo < hi /\ p = slots[lo + 1]
    BY <2>3, <2>6, <2>7 DEF ListInv, p
  <2>9. p \in Promise
    BY <2>7, <2>8, BoundsAssumption DEF Books, Promise
  <2>10. p # None
    BY <2>9 DEF Promise, None
  <2>11. /\ prom'[p].inRejectList = FALSE /\ prom'[p].state = prom[p].state
         /\ prom'[p].isHandled = prom[p].isHandled
         /\ \A q \in Promise : q # p => prom'[q] = prom[q]
    BY <1>0, <2>3, <2>9, <2>10 DEF PromiseRec
  <2>12. prom'[p].state = "rejected" => prom'[p].isHandled
    BY <2>3, <2>10, <2>11 DEF StillUnhandled
  <2>13. Books(prom', slots, lo + 1, hi)
    BY <2>8, <2>11, <2>12, BooksPass
  <2>14. \A k \in Promise : lo + 1 < k => slots'[k] = slots[k]
    BY <1>0, <2>3, <2>7
  <2>15. Books(prom', slots', lo + 1, hi)
    BY <2>13, <2>14, BooksClear
  <2>16. QED
    BY <2>6, <2>7, <2>15 DEF ListInv
<1>5. CASE ReportCall
  <2> DEFINE f == Top("tracker")
             p == slots[stack[1].i + 1]
  <2>1. Running("report") /\ stack' = <<f>> \o stack /\ slots' = slots
    BY <1>5 DEF ReportCall, Push
  <2>2. stack[1] \in Frame /\ stack[1].i \in Nat /\ stack[1].n \in Nat
        /\ Head(stack) = stack[1] /\ stack # <<>> /\ 1 \in 1..Len(stack)
    BY <1>0, <2>1, PopProperties DEF Frame
  <2>3. /\ stack[1].i < stack[1].n
        /\ p # None
        /\ prom' = [prom EXCEPT ![p].inRejectList = FALSE, ![p].isHandled = TRUE]
    BY <1>5, <2>2 DEF ReportCall
  <2>4. f \in Frame /\ f.kind = "tracker"
    BY FrameTypes
  <2> HIDE DEF f, p
  <2>5. Running("tracker")' /\ ~Running("report")' /\ stack'[2] = stack[1]
    <3>1. /\ stack' # <<>> /\ Head(stack') = f
          /\ \A k \in 1..Len(stack) : stack'[k + 1] = stack[k]
      BY <1>0, <2>1, <2>4, PushProperties
    <3>2. stack'[1 + 1] = stack[1]
      BY <2>2, <3>1
    <3>3. QED
      BY <2>4, <3>1, <3>2 DEF Running
  <2>6. Lo = stack[1].i /\ Hi = stack[1].n /\ Lo' = stack[1].i + 1 /\ Hi' = stack[1].n
    BY <2>1, <2>5 DEF Lo, Hi
  <2>7. PICK lo \in Nat, hi \in Nat : lo = stack[1].i /\ hi = stack[1].n
    BY <2>2
  <2>8. Books(prom, slots, lo, hi) /\ lo < hi /\ p = slots[lo + 1]
    BY <2>3, <2>6, <2>7 DEF ListInv, p
  <2>9. p \in Promise
    BY <2>7, <2>8, BoundsAssumption DEF Books, Promise
  <2>10. /\ prom'[p].inRejectList = FALSE /\ prom'[p].isHandled = TRUE
         /\ \A q \in Promise : q # p => prom'[q] = prom[q]
    BY <1>0, <2>3, <2>9 DEF PromiseRec
  <2>11. Books(prom', slots, lo + 1, hi)
    BY <2>8, <2>10, BooksPass
  <2>12. QED
    BY <2>1, <2>6, <2>7, <2>11 DEF ListInv
<1>6. CASE TrackerReturn
  <2> DEFINE f == [stack[2] EXCEPT !.i = stack[2].i + 1]
             rest == Tail(stack)
  <2>1. /\ Running("tracker") /\ stack' = <<f>> \o Tail(rest)
        /\ slots' = [slots EXCEPT ![stack[2].i + 1] = None] /\ prom' = prom
    BY <1>6 DEF TrackerReturn
  <2>2. /\ rest \in Seq(Frame) /\ rest # <<>>
        /\ rest[1] = stack[2] /\ rest[1] \in Frame /\ Above(stack[1], rest[1])
        /\ stack[1].kind = "tracker"
    BY <1>0, <2>1, OrderlyPop DEF Shape, Bottoms
  <2>3. /\ stack[2].kind = "report" /\ stack[2] \in Frame
        /\ stack[2].i \in Nat /\ stack[2].n \in Nat
    BY <2>2 DEF Above, JobFrames, Frame
  <2>4. f \in Frame /\ f.kind = "report" /\ f.i = stack[2].i + 1 /\ f.n = stack[2].n
    BY <2>3 DEF Frame
  <2>5. Tail(rest) \in Seq(Frame)
    BY <2>2, PopProperties
  <2> HIDE DEF f, rest
  <2>6. Running("report")' /\ stack'[1] = f
    BY <2>1, <2>4, <2>5, PushProperties DEF Running
  <2>7. ~Running("report") /\ Lo = stack[2].i + 1 /\ Hi = stack[2].n
        /\ Lo' = stack[2].i + 1 /\ Hi' = stack[2].n
    <3>1. ~Running("report")
      BY <2>1 DEF Running
    <3>2. QED
      BY <2>1, <2>4, <2>6, <3>1 DEF Lo, Hi
  <2>8. PICK lo \in Nat, hi \in Nat : lo = stack[2].i + 1 /\ hi = stack[2].n
    BY <2>3
  <2>9. Books(prom, slots, lo, hi)
    BY <2>7, <2>8 DEF ListInv
  <2>10. \A k \in Promise : lo < k => slots'[k] = slots[k]
    BY <1>0, <2>1, <2>8
  <2>11. Books(prom, slots', lo, hi)
    BY <2>9, <2>10, BooksClear
  <2>12. QED
    BY <2>1, <2>7, <2>8, <2>11 DEF ListInv
<1>7. CASE ReportReturn
  <2>1. /\ Running("report") /\ stack' = Tail(stack) /\ Head(stack).i = Head(stack).n
        /\ UNCHANGED <<prom, slots, ucount>>
    BY <1>7 DEF ReportReturn, ReportQuiet
  <2>2. /\ stack # <<>> /\ Head(stack) = stack[1] /\ stack[1].n \in Nat
        /\ stack[1].kind = "report"
    BY <1>0, <2>1 DEF Frame
  <2>3. Lo = stack[1].n /\ Hi = stack[1].n
    BY <2>1, <2>2 DEF Lo, Hi
  <2>4. PICK hi \in Nat : hi = stack[1].n
    BY <2>2
  <2>5. Books(prom, slots, 0, 0)
    BY <2>3, <2>4, BooksEmpty DEF ListInv
  <2>6. ~Running("report")' /\ ~Running("tracker")'
    <3>1. Tail(stack) # <<>> /\ Above(stack[1], Tail(stack)[1]) /\ Tail(stack) \in Seq(Frame)
      BY <1>0, <2>1, <2>2, OrderlyPop DEF Shape, Bottoms
    <3>2. Head(stack') = Tail(stack)[1]
      BY <2>1, <3>1
    <3>3. QED
      BY <2>2, <3>1, <3>2 DEF Above, JobFrames, Running
  <2>7. ucount' = 0
    BY <2>1, <2>2 DEF Shape, Reports
  <2>8. QED
    BY <2>1, <2>5, <2>6, <2>7 DEF ListInv, Lo, Hi
<1>8. QED
  BY <1>1, <1>2, <1>3, <1>4, <1>5, <1>6, <1>7 DEF ReportStep

LEMMA InitList ==
    ASSUME Init
    PROVE  ListInv
<1>1. Lo = 0 /\ Hi = 0
  BY DEF Init, Lo, Hi, Running
<1>2. QED
  BY <1>1, BoundsAssumption DEF Init, ListInv, Books, Unborn, Promise

(* Unless a tracker evaluates script, no rejection escapes the report:     *)
(* when the list is empty and no call runs, each one nobody handled was    *)
(* reported exactly once, and none was ever reported twice                 *)
(* (track_rejection, report_unhandled_rejections).                         *)
THEOREM EveryRejectionReported ==
    ASSUME ~TrackerEvals
    PROVE  Spec => []UnhandledReported
<1>1. Init => ListInv
  BY InitList
<1>2. IInv /\ Scoped /\ Shape /\ ListInv /\ [Next]_vars => ListInv'
  BY ListStep
<1>3. IInv /\ HandledInv /\ ListInv => UnhandledReported
  <2> SUFFICES ASSUME IInv, HandledInv, ListInv, NEW p \in Born
               PROVE  /\ reported[p] <= 1
                      /\ stack = <<>> /\ ucount = 0 /\ prom[p].state = "rejected"
                         /\ p \notin attached => reported[p] = 1
    BY DEF UnhandledReported
  <2>1. p \in Promise
    BY BoundsAssumption DEF Born, Promise, IInv, HeapInv, HeapType
  <2>2. reported[p] <= 1
    BY <2>1 DEF HandledInv
  <2>3. ASSUME stack = <<>>, ucount = 0, prom[p].state = "rejected", p \notin attached
        PROVE  reported[p] = 1
    <3>1. Books(prom, slots, 0, 0)
      BY <2>3, NotReporting DEF ListInv, Reports
    <3>2. ~prom[p].inRejectList
      BY <2>1, <3>1 DEF Books, Promise
    <3>3. prom[p].isHandled
      BY <2>1, <2>3, <3>1, <3>2 DEF Books
    <3>4. QED
      BY <2>1, <2>3, <3>3 DEF HandledInv
  <2>4. QED
    BY <2>2, <2>3
<1>4. QED
  BY <1>1, <1>2, <1>3, Shaping, Handling, PTL DEF Spec

-----------------------------------------------------------------------------
(* Why an interrupt is not lost on its way out.  While uncatchable_throw   *)
(* is set, the host call at the bottom of the stack will return            *)
(* "interrupt": a drain does so for the flag alone, an eval because its    *)
(* script had failed already, or because has_error is still set: no job    *)
(* that could clear it starts between JobAborts and the return.            *)

Destined(s) ==
    LET bottom == s[Len(s)]
    IN \/ bottom.kind = "hostdrain"
       \/ bottom.kind = "evaluated" /\ bottom.n = 1

Unwinds ==
    /\ hasError
    /\ \/ stack[1].kind = "after"
       \/ /\ stack[1].kind \in {"drain", "report", "tracker", "evaluated"}
          /\ cursor = Len(queue)

SurfaceInv ==
    /\ raised => IF stack = <<>> THEN status = "interrupt" ELSE uncatchable
    /\ uncatchable => stack # <<>> /\ (Destined(stack) \/ Unwinds)
    /\ InlineDrains => ~uncatchable

LEMMA OneFrame ==
    ASSUME NEW s \in Seq(Frame), s # <<>>, Tail(s) = <<>>
    PROVE  Len(s) = 1
<1> DEFINE t == Tail(s)
<1>1. t \in Seq(Frame) /\ Len(t) = Len(s) - 1 /\ Len(s) \in Nat /\ t = <<>>
  BY PopProperties
<1> HIDE DEF t
<1>2. Len(t) = 0
  BY <1>1, EmptySeq
<1>3. QED
  BY <1>1, <1>2

LEMMA DestinedOver ==
    ASSUME NEW s \in Seq(Frame), s # <<>>, NEW f \in Frame
    PROVE  Destined(<<f>> \o s) <=> Destined(s)
<1> DEFINE t == <<f>> \o s
<1>1. /\ Len(t) = Len(s) + 1
      /\ \A k \in 1..Len(s) : t[k + 1] = s[k]
      /\ Len(s) \in Nat /\ Len(s) >= 1
  BY PushProperties, PopProperties
<1> HIDE DEF t
<1>2. t[Len(t)] = s[Len(s)]
  <2>1. Len(s) \in 1..Len(s)
    BY <1>1
  <2>2. QED
    BY <1>1, <2>1
<1>3. Destined(t) <=> Destined(s)
  BY <1>2 DEF Destined
<1>4. QED
  BY <1>3 DEF t

LEMMA DestinedUnder ==
    ASSUME NEW s \in Seq(Frame), s # <<>>, Tail(s) # <<>>
    PROVE  Destined(Tail(s)) <=> Destined(s)
<1> DEFINE t == Tail(s)
<1>1. /\ t \in Seq(Frame) /\ Len(t) = Len(s) - 1 /\ Len(s) \in Nat
      /\ \A k \in 1..Len(t) : t[k] = s[k + 1]
      /\ Len(t) \in Nat /\ Len(t) >= 1
  BY PopProperties
<1> HIDE DEF t
<1>2. t[Len(t)] = s[Len(s)]
  <2>1. Len(t) \in 1..Len(t) /\ Len(t) + 1 = Len(s)
    BY <1>1
  <2>2. QED
    BY <1>1, <2>1
<1>3. Destined(t) <=> Destined(s)
  BY <1>2 DEF Destined
<1>4. QED
  BY <1>3 DEF t

(* A step above the bottom of the stack that neither raises nor clears.    *)
LEMMA SurfaceKeep ==
    ASSUME SurfaceInv, UNCHANGED <<uncatchable, raised>>, stack # <<>>, stack' # <<>>,
           Destined(stack) => Destined(stack'),
           uncatchable /\ Unwinds => Destined(stack') \/ Unwinds'
    PROVE  SurfaceInv'
<1>1. raised' => uncatchable'
  BY DEF SurfaceInv
<1>2. uncatchable' => Destined(stack') \/ Unwinds'
  BY DEF SurfaceInv
<1>3. QED
  BY <1>1, <1>2 DEF SurfaceInv, Destined

LEMMA SurfacePop ==
    ASSUME IInv, Shape, SurfaceInv, UNCHANGED <<uncatchable, raised>>, stack # <<>>,
           stack[1].kind \notin Bottoms, stack' = Tail(stack),
           uncatchable /\ Unwinds => Destined(stack') \/ Unwinds'
    PROVE  SurfaceInv'
<1>1. stack \in Seq(Frame)
  BY StackFacts
<1>2. stack' # <<>>
  BY <1>1, OrderlyPop DEF Shape
<1>3. Destined(stack) => Destined(stack')
  BY <1>1, <1>2, DestinedUnder
<1>4. QED
  BY <1>2, <1>3, SurfaceKeep

LEMMA SurfaceReplace ==
    ASSUME IInv, Shape, SurfaceInv, UNCHANGED <<uncatchable, raised>>, stack # <<>>,
           stack[1].kind \notin Bottoms, NEW f \in Frame, stack' = <<f>> \o Tail(stack),
           uncatchable /\ Unwinds => Unwinds'
    PROVE  SurfaceInv'
<1>1. stack \in Seq(Frame)
  BY StackFacts
<1>2. Tail(stack) \in Seq(Frame) /\ Tail(stack) # <<>>
  BY <1>1, OrderlyPop DEF Shape
<1>3. stack' # <<>>
  BY <1>2, PushProperties
<1>4. Destined(stack) => Destined(stack')
  BY <1>1, <1>2, DestinedUnder, DestinedOver
<1>5. QED
  BY <1>3, <1>4, SurfaceKeep

LEMMA SurfacePush ==
    ASSUME IInv, SurfaceInv, UNCHANGED <<uncatchable, raised>>, stack # <<>>,
           NEW f \in Frame, stack' = <<f>> \o stack,
           uncatchable /\ Unwinds => Unwinds'
    PROVE  SurfaceInv'
<1>1. stack \in Seq(Frame)
  BY StackFacts
<1>2. stack' # <<>>
  BY <1>1, PushProperties
<1>3. Destined(stack) => Destined(stack')
  BY <1>1, DestinedOver
<1>4. QED
  BY <1>2, <1>3, SurfaceKeep

LEMMA SurfaceStep ==
    ASSUME ~TrackerEvals, SafeSites, IInv, Shape, SurfaceInv, [Next]_vars
    PROVE  SurfaceInv'
<1>0. /\ stack \in Seq(Frame)
      /\ \A kind : Running(kind) => stack # <<>> /\ Head(stack) = stack[1]
                                    /\ stack[1].kind = kind /\ stack[1] \in Frame
  BY StackFacts
<1>1. \A kind \in {"script", "evaluated", "hostdrain", "enter", "job", "handler",
                   "thenable", "after", "report", "tracker", "drain"} :
         Top(kind) \in Frame /\ Top(kind).kind = kind /\ Top(kind).i = 0
  BY FrameTypes
<1>2. CASE NewPromise \/ ScriptResolve \/ ScriptReject \/ ScriptThen
  <2>1. UNCHANGED <<stack, uncatchable, raised>> /\ InScript
    BY <1>2 DEF NewPromise, ScriptResolve, ScriptReject, ScriptThen, ScriptOp
  <2>2. stack # <<>> /\ ~Unwinds
    BY <1>0, <2>1 DEF InScript, Unwinds
  <2>3. QED
    BY <2>1, <2>2, SurfaceKeep
<1>3. CASE NewPromiseInterrupted
  BY <1>3 DEF NewPromiseInterrupted, SafeSites
<1>4. CASE HostSettle
  <2>1. stack = <<>> /\ UNCHANGED <<stack, uncatchable, raised, status>>
    BY <1>4 DEF HostSettle, histVars
  <2>2. QED
    BY <2>1 DEF SurfaceInv
<1>5. CASE SettlingCombinator
  <2>1. /\ InlineDrains /\ UNCHANGED <<uncatchable, raised>>
        /\ InScript /\ stack' = <<Top("enter")>> \o stack
    BY <1>5 DEF SettlingCombinator, ScriptOp, Push
  <2>2. stack # <<>> /\ ~uncatchable
    BY <1>0, <2>1 DEF InScript, SurfaceInv
  <2>3. QED
    BY <1>1, <2>1, <2>2, SurfacePush
<1>6. CASE Eval \/ HostDrain
  <2>1. raised' = FALSE /\ uncatchable' = FALSE
    BY <1>6 DEF Eval, HostDrain, HostCall
  <2>2. QED
    BY <2>1 DEF SurfaceInv
<1>7. CASE ScriptEnd
  <2>1. Running("script")
    BY <1>7 DEF ScriptEnd
  <2>2. Tail(stack) = <<>> /\ Len(stack) = 1 /\ stack # <<>> /\ stack[1].kind = "script"
    <3>1. stack # <<>> /\ stack[1].kind = "script" /\ Tail(stack) = <<>>
      BY <1>0, <2>1, BottomAlone DEF Shape, Bottoms
    <3>2. QED
      BY <1>0, <3>1, OneFrame
  <2>3. ~uncatchable /\ ~raised
    BY <2>2 DEF SurfaceInv, Destined, Unwinds
  <2> DEFINE f == Top("enter")
             g(failed) == [kind |-> "evaluated", i |-> failed,
                           n |-> IF hasError' THEN 1 ELSE 0]
  <2>4. PICK failed \in {0, 1} :
          /\ \/ UNCHANGED <<uncatchable, raised>>
             \/ "script" \in InterruptSites /\ hasError' = TRUE /\ uncatchable' = TRUE
          /\ stack' = <<f, g(failed)>> \o Tail(stack)
    BY <1>7 DEF ScriptEnd
  <2>5. g(failed).kind = "evaluated" /\ (hasError' = TRUE => g(failed).n = 1)
    OBVIOUS
  <2> HIDE DEF f, g
  <2>6. /\ stack' # <<>> /\ Len(stack') = 2 /\ stack'[2] = g(failed)
    <3>1. stack' = <<f, g(failed)>> \o <<>>
      BY <2>2, <2>4
    <3>2. stack' = <<f, g(failed)>>
      BY <3>1
    <3>3. QED
      BY <3>2
  <2>7. CASE UNCHANGED <<uncatchable, raised>>
    BY <2>3, <2>7 DEF SurfaceInv
  <2>8. CASE "script" \in InterruptSites /\ hasError' = TRUE /\ uncatchable' = TRUE
    <3>1. Destined(stack')
      BY <2>5, <2>6, <2>8 DEF Destined
    <3>2. ~InlineDrains
      BY <2>8, FlagsAssumption
    <3>3. QED
      BY <2>6, <2>8, <3>1, <3>2 DEF SurfaceInv, Destined
  <2>9. QED
    BY <2>4, <2>7, <2>8
<1>8. CASE EvalReturn \/ HostDrainReturn
  <2>1. /\ Running("evaluated") \/ Running("hostdrain")
        /\ stack' = Tail(stack) /\ raised' = raised
    BY <1>8 DEF EvalReturn, HostDrainReturn, histVars
  <2>2. stack # <<>> /\ stack[1].kind \in {"evaluated", "hostdrain"}
    BY <1>0, <2>1
  <2>3. Tail(stack) = <<>>
    BY <1>0, <2>2, BottomAlone DEF Shape, Bottoms
  <2>4. Len(stack) = 1
    BY <1>0, <2>2, <2>3, OneFrame
  <2>5. raised => uncatchable
    BY <2>2 DEF SurfaceInv
  <2>6. CASE EvalReturn
    <3>1. /\ hasError' = (hasError \/ stack[1].n = 1)
          /\ uncatchable /\ hasError' => status' = "interrupt"
          /\ uncatchable' = (uncatchable /\ ~hasError')
          /\ stack[1].kind = "evaluated"
      BY <1>0, <2>6 DEF EvalReturn
    <3>2. uncatchable => hasError'
      BY <2>4, <3>1 DEF SurfaceInv, Destined, Unwinds
    <3>3. QED
      BY <2>1, <2>3, <2>5, <3>1, <3>2 DEF SurfaceInv
  <2>7. CASE HostDrainReturn
    <3>1. (uncatchable => status' = "interrupt") /\ uncatchable' = FALSE
      BY <2>7 DEF HostDrainReturn
    <3>2. QED
      BY <2>1, <2>3, <2>5, <3>1 DEF SurfaceInv
  <2>8. QED
    BY <1>8, <2>6, <2>7
<1>9. CASE DrainEnter
  <2>1. /\ Running("enter") /\ UNCHANGED <<uncatchable, raised>>
    BY <1>9 DEF DrainEnter, histVars
  <2>2. stack # <<>> /\ stack[1].kind = "enter" /\ stack[1].kind \notin Bottoms /\ ~Unwinds
    BY <1>0, <2>1 DEF Unwinds, Bottoms
  <2>3. CASE stack' = Tail(stack)
    BY <2>1, <2>2, <2>3, SurfacePop
  <2>4. CASE \E f \in Frame : stack' = <<f>> \o Tail(stack)
    BY <2>1, <2>2, <2>4, SurfaceReplace
  <2>5. stack' = Tail(stack) \/ \E f \in Frame : stack' = <<f>> \o Tail(stack)
    <3>1. [Top("report") EXCEPT !.n = ucount] \in Frame
      BY FrameTypes DEF IInv, HeapInv, HeapType
    <3>2. QED
      BY <1>1, <1>9, <3>1 DEF DrainEnter, CallReport, Replace
  <2>6. QED
    BY <2>3, <2>4, <2>5
<1>10. CASE DrainTake
  <2>1. /\ Running("drain") /\ stack' = <<Top("job")>> \o stack
        /\ UNCHANGED <<uncatchable, raised>> /\ cursor < Len(queue)
    BY <1>10 DEF DrainTake, Push, histVars
  <2>2. stack # <<>> /\ ~Unwinds
    <3>1. cursor # Len(queue)
      BY <2>1 DEF IInv, HeapInv, HeapType
    <3>2. QED
      BY <1>0, <2>1, <3>1 DEF Unwinds
  <2>3. QED
    BY <1>1, <2>1, <2>2, SurfacePush
<1>11. CASE DrainEnd
  <2> DEFINE f == [Top("drain") EXCEPT !.i = 1]
             g == [Top("report") EXCEPT !.n = ucount]
             rest == <<f>> \o Tail(stack)
  <2>1. /\ Running("drain") /\ queue' = <<>> /\ cursor' = 0
        /\ UNCHANGED <<uncatchable, raised, hasError>>
        /\ stack' = rest \/ stack' = <<g>> \o rest
    BY <1>11 DEF DrainEnd, CallReport, Replace, histVars
  <2>2. stack # <<>> /\ stack[1].kind = "drain" /\ stack[1].kind \notin Bottoms
    BY <1>0, <2>1 DEF Bottoms
  <2>3. /\ f \in Frame /\ f.kind = "drain" /\ g \in Frame /\ g.kind = "report"
    BY FrameTypes DEF IInv, HeapInv, HeapType
  <2> HIDE DEF f, g
  <2>4. Tail(stack) \in Seq(Frame) /\ Tail(stack) # <<>>
    BY <1>0, <2>2, OrderlyPop DEF Shape
  <2>5. rest \in Seq(Frame) /\ rest # <<>> /\ rest[1] = f
    BY <2>3, <2>4, PushProperties
  <2>6. Destined(stack) => Destined(rest)
    BY <1>0, <2>2, <2>3, <2>4, DestinedUnder, DestinedOver
  <2> HIDE DEF rest
  <2>7. <<g>> \o rest # <<>> /\ (<<g>> \o rest)[1] = g /\ (Destined(rest) <=> Destined(<<g>> \o rest))
    BY <2>3, <2>5, PushProperties, DestinedOver
  <2>8. /\ stack' # <<>> /\ stack'[1].kind \in {"drain", "report"}
        /\ Destined(stack) => Destined(stack')
    BY <2>1, <2>3, <2>5, <2>6, <2>7
  <2>9. cursor' = Len(queue')
    BY <2>1
  <2>10. Unwinds => Unwinds'
    BY <2>1, <2>8, <2>9 DEF Unwinds
  <2>11. QED
    BY <2>1, <2>2, <2>8, <2>10, SurfaceKeep
<1>12. CASE DrainReturn \/ ReportReturn
  <2>1. /\ Running("drain") \/ Running("report")
        /\ stack' = Tail(stack)
        /\ UNCHANGED <<uncatchable, raised, hasError, cursor, queue>>
    BY <1>12 DEF DrainReturn, ReportReturn, ReportQuiet, drainVars, histVars, Quiet, heapVars
  <2>2. /\ stack # <<>> /\ stack[1].kind \in {"drain", "report"}
        /\ stack[1].kind \notin Bottoms
    BY <1>0, <2>1 DEF Bottoms
  <2>3. Tail(stack) \in Seq(Frame) /\ Tail(stack) # <<>> /\ Above(stack[1], Tail(stack)[1])
        /\ Orderly(Tail(stack))
    BY <1>0, <2>2, OrderlyPop DEF Shape
  <2>4. uncatchable => Tail(stack)[1].kind \in {"drain", "evaluated", "hostdrain"}
    BY <2>2, <2>3 DEF Above, SurfaceInv, JobFrames
  <2>5. Tail(stack)[1].kind = "hostdrain" => Destined(Tail(stack))
    <3>1. SUFFICES ASSUME Tail(stack)[1].kind = "hostdrain"
                   PROVE  Destined(Tail(stack))
      OBVIOUS
    <3> DEFINE t == Tail(stack)
    <3>2. Tail(t) = <<>>
      BY <2>3, <3>1, BottomAlone DEF Bottoms
    <3>3. Len(t) = 1
      BY <2>3, <3>2, OneFrame
    <3> HIDE DEF t
    <3>4. QED
      BY <3>1, <3>3 DEF Destined, t
  <2>6. uncatchable /\ Unwinds => Destined(stack') \/ Unwinds'
    BY <2>1, <2>2, <2>4, <2>5 DEF Unwinds
  <2>7. QED
    BY <2>1, <2>2, <2>6, SurfacePop
<1>13. CASE \/ RunScriptHandler \/ RunIdentity \/ RunThrower \/ RunResolvingFn
            \/ RunNativeThenable \/ RunScriptThenable \/ ThenableEnd
  <2>1. /\ UNCHANGED <<uncatchable, raised>>
        /\ Running("job") \/ Running("thenable")
        /\ \E kind \in {"handler", "after", "thenable"} : stack' = <<Top(kind)>> \o Tail(stack)
    BY <1>13 DEF RunScriptHandler, RunIdentity, RunThrower, RunResolvingFn,
       RunNativeThenable, RunScriptThenable, ThenableEnd, JobStarts,
       JobQuiet, Replace, histVars, SafeSites
  <2>2. PICK f \in Frame : stack' = <<f>> \o Tail(stack)
    BY <1>1, <2>1
  <2>3. stack # <<>> /\ stack[1].kind \notin Bottoms /\ ~Unwinds
    BY <1>0, <2>1 DEF Bottoms, Unwinds
  <2>4. QED
    BY <2>1, <2>2, <2>3, SurfaceReplace
<1>14. CASE HandlerEnd
  <2> DEFINE f == Top("after")
  <2>1. /\ Running("handler") /\ stack' = <<f>> \o Tail(stack)
        /\ \/ UNCHANGED <<uncatchable, raised>>
           \/ "handler" \in InterruptSites /\ hasError' = TRUE /\ uncatchable' = TRUE
        /\ f \in Frame /\ f.kind = "after"
    BY <1>1, <1>14 DEF HandlerEnd, Replace
  <2> HIDE DEF f
  <2>2. stack # <<>> /\ stack[1].kind \notin Bottoms /\ ~Unwinds
    BY <1>0, <2>1 DEF Bottoms, Unwinds
  <2>3. CASE UNCHANGED <<uncatchable, raised>>
    BY <2>1, <2>2, <2>3, SurfaceReplace
  <2>4. CASE "handler" \in InterruptSites /\ hasError' = TRUE /\ uncatchable' = TRUE
    <3>1. Tail(stack) \in Seq(Frame)
      BY <1>0, <2>2, PopProperties
    <3>2. stack' # <<>> /\ stack'[1] = f
      BY <2>1, <3>1, PushProperties
    <3>3. Unwinds'
      BY <2>1, <2>4, <3>2 DEF Unwinds
    <3>4. ~InlineDrains
      BY <2>4, FlagsAssumption
    <3>5. QED
      BY <2>4, <3>2, <3>3, <3>4 DEF SurfaceInv, Destined
  <2>5. QED
    BY <2>1, <2>3, <2>4
<1>15. CASE JobAfter
  <2>1. Running("after") /\ stack' = Tail(stack) /\ ~uncatchable
        /\ UNCHANGED <<uncatchable, raised>>
    BY <1>15 DEF JobAfter, histVars
  <2>2. stack # <<>> /\ stack[1].kind \notin Bottoms
    BY <1>0, <2>1 DEF Bottoms
  <2>3. QED
    BY <2>1, <2>2, SurfacePop
<1>16. CASE JobAborts
  <2>1. /\ Running("after") /\ stack' = Tail(stack) /\ cursor' = Len(queue)
        /\ UNCHANGED <<uncatchable, raised, queue, hasError>>
    BY <1>16 DEF JobAborts, Quiet, heapVars
  <2>2. stack # <<>> /\ stack[1].kind = "after" /\ stack[1].kind \notin Bottoms
    BY <1>0, <2>1 DEF Bottoms
  <2>3. Tail(stack)[1].kind = "drain"
    BY <1>0, <2>2, OrderlyPop DEF Shape, Above, JobFrames
  <2>4. Unwinds => Unwinds'
    BY <2>1, <2>3 DEF Unwinds
  <2>5. QED
    BY <2>1, <2>2, <2>4, SurfacePop
<1>17. CASE ReportSkip \/ ReportCall \/ TrackerReturn
  <2>1. /\ Running("report") \/ Running("tracker")
        /\ UNCHANGED <<uncatchable, raised, hasError, cursor, queue>>
    BY <1>17 DEF ReportSkip, ReportCall, TrackerReturn, ReportQuiet, drainVars
  <2>2. /\ stack # <<>> /\ stack[1].kind \in {"report", "tracker"}
        /\ stack[1].kind \notin Bottoms
    BY <1>0, <2>1 DEF Bottoms
  <2>3. Tail(stack) \in Seq(Frame) /\ Tail(stack) # <<>> /\ Above(stack[1], Tail(stack)[1])
        /\ Tail(stack)[1] = stack[2] /\ Orderly(Tail(stack)) /\ Tail(stack)[1] \in Frame
    BY <1>0, <2>2, OrderlyPop DEF Shape
  <2>4. ASSUME NEW t \in Seq(Frame), NEW f \in Frame, stack' = <<f>> \o t,
               f.kind \in {"report", "tracker"}
        PROVE  Unwinds => Unwinds'
    <3>1. stack'[1] = f
      BY <2>4, PushProperties
    <3>2. QED
      BY <2>1, <2>2, <2>4, <3>1 DEF Unwinds
  <2>5. CASE ReportSkip
    <3> DEFINE f == [Head(stack) EXCEPT !.i = Head(stack).i + 1]
    <3>1. stack' = <<f>> \o Tail(stack) /\ Running("report")
      BY <2>5 DEF ReportSkip, NextEntry, Replace
    <3>2. Head(stack) \in Frame /\ Head(stack).kind = "report"
      BY <1>0, <3>1
    <3>3. f \in Frame /\ f.kind = "report"
      BY <3>2 DEF Frame
    <3> HIDE DEF f
    <3>4. QED
      BY <2>1, <2>2, <2>3, <2>4, <3>1, <3>3, SurfaceReplace
  <2>6. CASE ReportCall
    <3>1. stack' = <<Top("tracker")>> \o stack
      BY <2>6 DEF ReportCall, Push
    <3>2. QED
      BY <1>0, <1>1, <2>1, <2>2, <2>4, <3>1, SurfacePush
  <2>7. CASE TrackerReturn
    <3> DEFINE f == [stack[2] EXCEPT !.i = stack[2].i + 1]
               rest == Tail(stack)
    <3>1. /\ Running("tracker") /\ stack' = <<f>> \o Tail(rest)
      BY <2>7 DEF TrackerReturn
    <3>2. stack[1].kind = "tracker"
      BY <1>0, <3>1
    <3>3. stack[2].kind = "report" /\ stack[2] \in Frame
      BY <2>3, <3>2 DEF Above, JobFrames
    <3>4. f \in Frame /\ f.kind = "report"
      BY <3>3 DEF Frame
    <3>5. rest \in Seq(Frame) /\ rest # <<>> /\ rest[1].kind = "report" /\ Orderly(rest)
      BY <2>3, <3>3
    <3>6. Destined(rest) <=> Destined(stack)
      BY <1>0, <2>2, <2>3, DestinedUnder
    <3> HIDE DEF f, rest
    <3>7. Tail(rest) \in Seq(Frame) /\ Tail(rest) # <<>>
      BY <3>5, OrderlyPop DEF Bottoms
    <3>8. Destined(Tail(rest)) <=> Destined(rest)
      BY <3>5, <3>7, DestinedUnder
    <3>9. stack' # <<>> /\ (Destined(stack') <=> Destined(Tail(rest)))
      BY <3>1, <3>4, <3>7, PushProperties, DestinedOver
    <3>10. Unwinds => Unwinds'
      BY <2>4, <3>1, <3>4, <3>7
    <3>11. QED
      BY <2>1, <2>2, <3>6, <3>8, <3>9, <3>10, SurfaceKeep
  <2>8. QED
    BY <1>17, <2>5, <2>6, <2>7
<1>18. CASE UNCHANGED vars
  BY <1>18 DEF SurfaceInv, Destined, Unwinds, vars
<1>19. QED
  BY <1>2, <1>3, <1>4, <1>5, <1>6, <1>7, <1>8, <1>9, <1>10, <1>11, <1>12, <1>13,
     <1>14, <1>15, <1>16, <1>17, <1>18
  DEF Next, ScriptStep, HostStep, EngineStep

LEMMA InitSurface ==
    ASSUME Init
    PROVE  SurfaceInv
BY DEF Init, SurfaceInv

(* Unless a tracker evaluates script, or a thenable's `then` or an         *)
(* executor is what is interrupted, an interrupt raised anywhere in script *)
(* or in a job's handler is what the host call returns, and the flag does  *)
(* not outlive it (Vm.execute, eval_source, drain_microtasks).             *)
THEOREM InterruptsSurface ==
    ASSUME ~TrackerEvals, SafeSites
    PROVE  Spec => []InterruptSurfaces
<1>1. Init => SurfaceInv
  BY InitSurface
<1>2. IInv /\ Shape /\ SurfaceInv /\ [Next]_vars => SurfaceInv'
  BY SurfaceStep
<1>3. SurfaceInv => InterruptSurfaces
  BY DEF SurfaceInv, InterruptSurfaces
<1>4. QED
  BY <1>1, <1>2, <1>3, Shaping, PTL DEF Spec

=============================================================================
