------------------------- MODULE PromiseJobs_proofs -------------------------
(***************************************************************************)
(* Proofs about PromiseJobs, for every number of promises, capabilities,   *)
(* operations and host calls, and every choice of the environment flags.   *)
(***************************************************************************)
EXTENDS PromiseJobs, SequenceTheorems, TLAPS

(* Sequences as stacks and as queues.                                      *)

LEMMA PushProperties ==
    ASSUME NEW S, NEW s \in Seq(S), NEW f \in S
    PROVE  /\ <<f>> \o s \in Seq(S)
           /\ <<f>> \o s # <<>>
           /\ Len(<<f>> \o s) = Len(s) + 1
           /\ (<<f>> \o s)[1] = f
           /\ Head(<<f>> \o s) = f
           /\ Tail(<<f>> \o s) = s
           /\ \A k \in 1..Len(s) : (<<f>> \o s)[k + 1] = s[k]
<1>1. <<f>> \in Seq(S) /\ Len(<<f>>) = 1 /\ <<f>>[1] = f
  OBVIOUS
<1>2. QED
  BY <1>1

LEMMA PushTwo ==
    ASSUME NEW S, NEW s \in Seq(S), NEW f \in S, NEW g \in S
    PROVE  <<f, g>> \o s = <<f>> \o (<<g>> \o s)
<1>1. <<f>> \in Seq(S) /\ <<g>> \in Seq(S) /\ <<f, g>> \in Seq(S)
  OBVIOUS
<1>2. <<f, g>> = Append(<<f>>, g)
  OBVIOUS
<1>3. <<f, g>> = <<f>> \o <<g>>
  BY <1>1, <1>2, AppendIsConcat
<1>4. QED
  BY <1>1, <1>3, ConcatAssociative

LEMMA PopProperties ==
    ASSUME NEW S, NEW s \in Seq(S), s # <<>>
    PROVE  /\ Tail(s) \in Seq(S)
           /\ Len(s) \in Nat
           /\ Len(s) >= 1
           /\ Len(Tail(s)) = Len(s) - 1
           /\ Head(s) = s[1]
           /\ s[1] \in S
           /\ \A k \in 1..Len(Tail(s)) : Tail(s)[k] = s[k + 1]
OBVIOUS

(* An update outside the domain changes nothing, one inside keeps the type. *)
LEMMA UpdateType ==
    ASSUME NEW S, NEW T, NEW f \in [S -> T], NEW x, NEW y \in T
    PROVE  [f EXCEPT ![x] = y] \in [S -> T]
OBVIOUS

-----------------------------------------------------------------------------
(* The heap's part of the invariant, and what one heap operation may do.   *)

HeapType ==
    /\ prom \in [Promise -> PromiseRec]
    /\ np \in 0..MaxPromises
    /\ cell \in [Cell -> [target : Promise, called : BOOLEAN]]
    /\ nc \in 0..MaxCells
    /\ queue \in Seq(Job)
    /\ slots \in [Promise -> Promise \cup {None}]
    /\ ucount \in Nat
    /\ follows \in [Promise -> Promise \cup {None}]

(* Promises are allocated in order, and only pending ones hold reactions.  *)
PromiseInv ==
    \A p \in Promise :
        /\ p > np => prom[p].state = "unborn"
        /\ prom[p].state # "pending" => prom[p].reactions = <<>>

HeapInv == HeapType /\ PromiseInv

QueueGrows ==
    /\ Len(queue') >= Len(queue)
    /\ \A k \in 1..Len(queue) : queue'[k] = queue[k]

SettledStay ==
    \A p \in Promise : prom[p].state \in Settled =>
        prom'[p].state = prom[p].state /\ prom'[p].result = prom[p].result

HeapStep == HeapInv' /\ QueueGrows /\ SettledStay

LEMMA NoHeapStep ==
    ASSUME HeapInv, UNCHANGED heapVars
    PROVE  HeapStep
BY DEF HeapInv, HeapType, PromiseInv, HeapStep, QueueGrows, SettledStay, heapVars

LEMMA ReactionJobType ==
    ASSUME NEW r \in Reaction, NEW state, NEW v \in Value
    PROVE  ReactionJob(r, state, v) \in Job
BY DEF Reaction, ReactionJob, Job, Handler, Callable, Closure, Plainly

LEMMA TriggerReactionsType ==
    ASSUME NEW rs \in Seq(Reaction), NEW state, NEW v \in Value
    PROVE  TriggerReactions(rs, state, v) \in Seq(Job)
<1>1. \A k \in 1..Len(rs) : ReactionJob(rs[k], state, v) \in Job
  BY ReactionJobType
<1>2. QED
  BY <1>1, IsASeq DEF TriggerReactions

LEMMA FreshType ==
    /\ Fresh \in PromiseRec
    /\ Fresh.state = "pending"
    /\ Fresh.reactions = <<>>
<1>1. <<>> \in Seq(Reaction)
  OBVIOUS
<1>2. QED
  BY <1>1 DEF Fresh, Unborn, PromiseRec, Settled, Value

LEMMA SettleStep ==
    ASSUME HeapInv, NEW p \in Promise, NEW state \in Settled, NEW v \in Value,
           PromiseSettle(p, state, v)
    PROVE  /\ prom' \in [Promise -> PromiseRec]
           /\ queue' \in Seq(Job)
           /\ slots' \in [Promise -> Promise \cup {None}]
           /\ ucount' \in Nat
           /\ np' = np => PromiseInv'
           /\ QueueGrows
           /\ SettledStay
<1> USE DEF HeapInv
<1>1. CASE ~IsPending(p)
  BY <1>1 DEF PromiseSettle, HeapType, PromiseInv, QueueGrows, SettledStay
<1>2. CASE IsPending(p)
  <2> DEFINE js == TriggerReactions(prom[p].reactions, state, v)
  <2>0. prom[p] \in PromiseRec /\ prom[p].state = "pending"
    BY <1>2 DEF HeapType, IsPending
  <2>1. js \in Seq(Job)
    BY <2>0, TriggerReactionsType DEF PromiseRec
  <2>2. queue' = queue \o js
    BY <1>2 DEF PromiseSettle
  <2>3. queue' \in Seq(Job) /\ QueueGrows
    BY <2>1, <2>2, ConcatProperties DEF HeapType, QueueGrows
  <2>4. prom' = [prom EXCEPT ![p] =
                  [prom[p] EXCEPT !.state = state, !.result = v, !.reactions = <<>>,
                      !.inRejectList = prom[p].inRejectList \/ Tracks(p, state)]]
    BY <1>2 DEF PromiseSettle
  <2> DEFINE b == prom[p].inRejectList \/ Tracks(p, state)
  <2>5. b \in BOOLEAN
    OBVIOUS
  <2>6. <<>> \in Seq(Reaction)
    OBVIOUS
  <2>7. /\ prom'[p] \in PromiseRec
        /\ prom'[p].state = state
        /\ prom'[p].reactions = <<>>
    <3>1. prom'[p] = [prom[p] EXCEPT !.state = state, !.result = v,
                        !.reactions = <<>>, !.inRejectList = b]
      BY <2>4 DEF HeapType
    <3> HIDE DEF b
    <3>2. QED
      BY <2>0, <2>5, <2>6, <3>1 DEF PromiseRec
  <2>8. \A q \in Promise : q # p => prom'[q] = prom[q]
    BY <2>4 DEF HeapType
  <2>9. prom' \in [Promise -> PromiseRec]
    BY <2>4, <2>7, <2>8 DEF HeapType
  <2>10. np' = np => PromiseInv'
    BY <2>0, <2>7, <2>8 DEF PromiseInv, Settled
  <2>11. SettledStay
    BY <2>0, <2>8 DEF SettledStay, Settled
  <2>12. slots' \in [Promise -> Promise \cup {None}] /\ ucount' \in Nat
    <3>1. /\ slots' = IF Tracks(p, state) THEN [slots EXCEPT ![ucount + 1] = p] ELSE slots
          /\ ucount' = IF Tracks(p, state) THEN ucount + 1 ELSE ucount
      BY <1>2 DEF PromiseSettle
    <3>2. [slots EXCEPT ![ucount + 1] = p] \in [Promise -> Promise \cup {None}]
      BY UpdateType DEF HeapType
    <3>3. QED
      BY <3>1, <3>2 DEF HeapType
  <2>13. QED
    BY <2>3, <2>9, <2>10, <2>11, <2>12
<1>3. QED
  BY <1>1, <1>2

LEMMA ResolveStep ==
    ASSUME HeapInv, NEW p \in Promise, NEW v \in Value,
           NEW cells \in [Cell -> [target : Promise, called : BOOLEAN]],
           ResolveWithValue(p, v, cells)
    PROVE  HeapStep
<1>1. CASE IsPending(p) /\ v # p /\ v \in Promise \cup Thenable
  <2> DEFINE j == [handler |-> ThenableJob(nc + 1, v), arg |-> None,
                   downstream |-> NoDownstream]
  <2>1. /\ nc < MaxCells /\ nc' = nc + 1
        /\ cell' = [cells EXCEPT ![nc + 1] = [target |-> p, called |-> FALSE]]
        /\ queue' = Append(queue, j)
        /\ follows' = [follows EXCEPT ![p] = IF v \in Promise THEN v ELSE None]
        /\ UNCHANGED <<prom, np, slots, ucount>>
    BY <1>1 DEF ResolveWithValue
  <2>2. nc + 1 \in Cell /\ nc' \in 0..MaxCells
    BY <2>1, BoundsAssumption DEF HeapInv, HeapType, Cell
  <2>3. j \in Job
    BY <1>1, <2>2 DEF Job, ThenableJob, Callable, Adopting, Value, Downstream, NoDownstream
  <2>4. queue' \in Seq(Job) /\ QueueGrows
    BY <2>1, <2>3, AppendProperties DEF HeapInv, HeapType, QueueGrows
  <2>5. cell' \in [Cell -> [target : Promise, called : BOOLEAN]]
    BY <2>1, UpdateType
  <2>6. follows' \in [Promise -> Promise \cup {None}]
    BY <2>1, UpdateType DEF HeapInv, HeapType
  <2>7. QED
    BY <2>1, <2>2, <2>4, <2>5, <2>6 DEF HeapStep, HeapInv, HeapType, PromiseInv, SettledStay
<1>2. CASE ~(IsPending(p) /\ v # p /\ v \in Promise \cup Thenable)
  <2>1. /\ cell' = cells
        /\ \/ PromiseSettle(p, "rejected", Error)
           \/ PromiseSettle(p, "fulfilled", v)
        /\ UNCHANGED <<np, nc, follows>>
    BY <1>2 DEF ResolveWithValue
  <2>2. Error \in Value
    BY DEF Value
  <2>3. QED
    BY <2>1, <2>2, SettleStep DEF HeapStep, HeapInv, HeapType, Settled
<1>3. QED
  BY <1>1, <1>2

LEMMA MarkType ==
    ASSUME HeapInv, NEW c \in Cell
    PROVE  MarkAlreadyCalled(c) \in [Cell -> [target : Promise, called : BOOLEAN]]
BY DEF MarkAlreadyCalled, HeapInv, HeapType

LEMMA CallResolveStep ==
    ASSUME HeapInv, NEW c \in Cell, NEW v \in Value, CallResolveFn(c, v)
    PROVE  HeapStep
BY MarkType, ResolveStep, NoHeapStep DEF CallResolveFn, HeapInv, HeapType

LEMMA CallRejectStep ==
    ASSUME HeapInv, NEW c \in Cell, NEW v \in Value, CallRejectFn(c, v)
    PROVE  HeapStep
<1>1. CASE AlreadyCalled(c)
  BY <1>1, NoHeapStep DEF CallRejectFn
<1>2. CASE ~AlreadyCalled(c)
  <2>1. /\ cell' = MarkAlreadyCalled(c)
        /\ PromiseSettle(cell[c].target, "rejected", v)
        /\ UNCHANGED <<np, nc, follows>>
    BY <1>2 DEF CallRejectFn
  <2>2. cell[c].target \in Promise
    BY DEF HeapInv, HeapType
  <2>3. QED
    BY <2>1, <2>2, MarkType, SettleStep DEF HeapStep, HeapInv, HeapType, Settled
<1>3. QED
  BY <1>1, <1>2

LEMMA AddReactionStep ==
    ASSUME HeapInv, NEW p \in Promise, NEW r \in Reaction, np < MaxPromises,
           AddReaction(p, r)
    PROVE  /\ prom' \in [Promise -> PromiseRec]
           /\ queue' \in Seq(Job)
           /\ np' = np + 1 => PromiseInv'
           /\ QueueGrows
           /\ SettledStay
<1> DEFINE rs == Append(prom[p].reactions, r)
           kept == IF IsPending(p) THEN rs ELSE <<>>
           upd == [prom[p] EXCEPT !.isHandled = TRUE, !.reactions = kept]
           js == TriggerReactions(rs, prom[p].state, prom[p].result)
<1>1. /\ prom' = [prom EXCEPT ![np + 1] = Fresh, ![p] = upd]
      /\ queue' = IF IsPending(p) THEN queue ELSE queue \o js
  BY DEF AddReaction
<1>2. prom \in [Promise -> PromiseRec] /\ prom[p] \in PromiseRec /\ np \in Nat
  BY DEF HeapInv, HeapType
<1>3. rs \in Seq(Reaction) /\ <<>> \in Seq(Reaction) /\ prom[p].result \in Value
  BY <1>2, AppendProperties DEF PromiseRec
<1>4. kept \in Seq(Reaction)
  BY <1>3
<1>5. js \in Seq(Job)
  BY <1>3, TriggerReactionsType
<1>6. queue' \in Seq(Job) /\ QueueGrows
  BY <1>1, <1>5, ConcatProperties DEF HeapInv, HeapType, QueueGrows
<1>7. /\ upd \in PromiseRec
      /\ upd.state = prom[p].state
      /\ upd.result = prom[p].result
      /\ upd.reactions = kept
  <2> HIDE DEF kept
  <2>1. QED
    BY <1>2, <1>4 DEF PromiseRec
<1>8. prom'[p] = upd /\ \A q \in Promise \ {p} : prom'[q] = IF q = np + 1 THEN Fresh ELSE prom[q]
  <2> HIDE DEF upd
  <2>1. QED
    BY <1>1, <1>2
<1>9. prom' \in [Promise -> PromiseRec]
  <2> HIDE DEF upd
  <2>1. QED
    BY <1>1, <1>2, <1>7, FreshType, UpdateType
<1>10. np' = np + 1 => PromiseInv'
  <2> SUFFICES ASSUME np' = np + 1, NEW q \in Promise
               PROVE  /\ q > np + 1 => prom'[q].state = "unborn"
                      /\ prom'[q].state # "pending" => prom'[q].reactions = <<>>
    BY DEF PromiseInv
  <2>1. CASE q = p
    <3> HIDE DEF upd
    <3>1. QED
      BY <1>2, <1>7, <1>8, <2>1 DEF PromiseInv, HeapInv, IsPending, Promise
  <2>2. CASE q # p
    BY <1>2, <1>8, <2>2, FreshType DEF PromiseInv, HeapInv, Promise
  <2>3. QED
    BY <2>1, <2>2
<1>11. SettledStay
  <2> SUFFICES ASSUME NEW q \in Promise, prom[q].state \in Settled
               PROVE  prom'[q].state = prom[q].state /\ prom'[q].result = prom[q].result
    BY DEF SettledStay
  <2>1. q # np + 1
    BY <1>2 DEF PromiseInv, HeapInv, Promise, Settled
  <2>2. QED
    BY <1>7, <1>8, <2>1
<1>12. QED
  BY <1>6, <1>9, <1>10, <1>11

LEMMA ThenStep ==
    ASSUME HeapInv, NEW p \in Promise, NEW onF \in Handler, NEW onR \in Handler,
           NEW species \in BOOLEAN, Then(p, onF, onR, species)
    PROVE  HeapStep
<1> DEFINE ds == IF species THEN [promise |-> None, cell |-> nc + 1]
                            ELSE [promise |-> np + 1, cell |-> None]
           r == [onFulfilled |-> onF, onRejected |-> onR, downstream |-> ds]
<1>1. /\ np < MaxPromises /\ np' = np + 1 /\ (species => nc < MaxCells)
      /\ nc' = IF species THEN nc + 1 ELSE nc
      /\ cell' = IF species
                   THEN [cell EXCEPT ![nc + 1] = [target |-> np + 1, called |-> FALSE]]
                   ELSE cell
      /\ AddReaction(p, r)
      /\ UNCHANGED <<slots, ucount>>
  BY DEF Then
<1>2. follows' = [follows EXCEPT ![np + 1] = p] \/ follows' = follows
  BY DEF Then
<1>3. np' \in 0..MaxPromises /\ np + 1 \in Promise /\ nc' \in 0..MaxCells
      /\ (species => nc + 1 \in Cell)
  BY <1>1, BoundsAssumption DEF HeapInv, HeapType, Promise, Cell
<1>4. ds \in Downstream
  BY <1>3 DEF Downstream, NoDownstream
<1>5. r \in Reaction
  BY <1>4 DEF Reaction
<1>6. cell' \in [Cell -> [target : Promise, called : BOOLEAN]]
  BY <1>1, <1>3, UpdateType DEF HeapInv, HeapType
<1>7. follows' \in [Promise -> Promise \cup {None}]
  BY <1>2, UpdateType DEF HeapInv, HeapType
<1> HIDE DEF r
<1>8. QED
  BY <1>1, <1>3, <1>5, <1>6, <1>7, AddReactionStep DEF HeapStep, HeapInv, HeapType

-----------------------------------------------------------------------------
(* The native stack.  Every action pops and pushes a few frames; these     *)
(* lemmas say which pops and pushes keep the discipline.                   *)

PlainFrames == {"script", "evaluated", "hostdrain", "enter", "report"}

LEMMA PushPlain ==
    ASSUME NEW s \in Seq(Frame), NEW d, NEW c, Disciplined(s, d, c),
           NEW f \in Frame,
           \/ f.kind \in PlainFrames
           \/ f.kind = "tracker" /\ s # <<>> /\ Head(s).kind = "report"
    PROVE  Disciplined(<<f>> \o s, d, c)
<1> DEFINE t == <<f>> \o s
<1>1. /\ t \in Seq(Frame) /\ Len(t) = Len(s) + 1 /\ t[1] = f
      /\ \A k \in 1..Len(s) : t[k + 1] = s[k]
      /\ Len(s) \in Nat
  BY PushProperties
<1>2. \A k \in 1..Len(t) : k = 1 \/ (k - 1 \in 1..Len(s) /\ t[k] = s[k - 1])
  BY <1>1
<1>3. f.kind \notin JobFrames \cup {"drain"}
  BY DEF PlainFrames, JobFrames
<1>4. f.kind = "tracker" => 1 < Len(t) /\ t[2].kind = "report"
  BY <1>1, PopProperties DEF PlainFrames
<1> HIDE DEF t
<1>5. ASSUME NEW k \in 1..Len(t)
      PROVE  /\ t[k].kind = "drain" => d
             /\ t[k].kind = "tracker" => k < Len(t) /\ t[k + 1].kind = "report"
             /\ t[k].kind \in JobFrames =>
                  /\ k < Len(t)
                  /\ t[k + 1].kind = "drain" /\ t[k + 1].i = 0
                  /\ c # NoJob
             /\ t[k].kind = "thenable" => c.handler.kind = "thenable"
  <2>1. CASE k = 1
    BY <1>1, <1>3, <1>4, <2>1 DEF JobFrames
  <2>2. CASE k - 1 \in 1..Len(s) /\ t[k] = s[k - 1]
    BY <1>1, <2>2 DEF Disciplined
  <2>3. QED
    BY <1>2, <2>1, <2>2
<1>6. \A j, k \in 1..Len(t) : t[j].kind = "drain" /\ t[k].kind = "drain" => j = k
  <2> SUFFICES ASSUME NEW j \in 1..Len(t), NEW k \in 1..Len(t),
                      t[j].kind = "drain", t[k].kind = "drain"
               PROVE  j = k
    OBVIOUS
  <2>1. j # 1 /\ k # 1
    BY <1>1, <1>3
  <2>2. \A x, y \in 1..Len(s) : s[x].kind = "drain" /\ s[y].kind = "drain" => x = y
    BY DEF Disciplined
  <2>3. j - 1 = k - 1
    BY <1>2, <2>1, <2>2
  <2>4. QED
    BY <2>3
<1>7. c # NoJob => \E k \in 1..Len(t) : t[k].kind \in JobFrames
  <2> SUFFICES ASSUME c # NoJob PROVE \E k \in 1..Len(t) : t[k].kind \in JobFrames
    OBVIOUS
  <2>1. PICK k \in 1..Len(s) : s[k].kind \in JobFrames
    BY DEF Disciplined
  <2>2. k + 1 \in 1..Len(t) /\ t[k + 1].kind \in JobFrames
    BY <1>1, <2>1
  <2>3. QED
    BY <2>2
<1>8. Disciplined(t, d, c)
  BY <1>5, <1>6, <1>7 DEF Disciplined
<1>9. QED
  BY <1>8 DEF t

(* The drain of a stack is its only one.                                   *)
LEMMA OneDrain ==
    ASSUME NEW s \in Seq(Frame), NEW d, NEW c, Disciplined(s, d, c), s # <<>>,
           \/ s[1].kind = "drain"
           \/ s[1].kind \in JobFrames
    PROVE  \A k \in 2..Len(s) : s[k].kind \notin JobFrames /\ (k > 2 => s[k].kind # "drain")
<1>1. Len(s) \in Nat /\ 1 \in 1..Len(s)
  BY PopProperties
<1>2. PICK j \in {1, 2} : j \in 1..Len(s) /\ s[j].kind = "drain"
  BY <1>1 DEF Disciplined
<1>3. \A k \in 2..Len(s) : k # j => s[k].kind # "drain"
  BY <1>1, <1>2 DEF Disciplined
<1>4. \A k \in 2..Len(s) : s[k].kind \notin JobFrames
  BY <1>1, <1>2, <1>3 DEF Disciplined, JobFrames
<1>5. QED
  BY <1>1, <1>2, <1>3, <1>4

(* A frame is popped: the drain with its flag, a job's with its job.       *)
LEMMA PopFrame ==
    ASSUME NEW s \in Seq(Frame), NEW d \in BOOLEAN, NEW c, Disciplined(s, d, c), s # <<>>,
           NEW d2 \in BOOLEAN, NEW c2,
           IF s[1].kind = "drain" THEN c2 = c
           ELSE IF s[1].kind \in JobFrames THEN d2 = d /\ c2 = NoJob
           ELSE d2 = d /\ c2 = c
    PROVE  /\ Disciplined(Tail(s), d2, c2)
           /\ s[1].kind = "drain" => \A k \in 1..Len(Tail(s)) : Tail(s)[k].kind # "drain"
<1> DEFINE t == Tail(s)
<1>1. /\ t \in Seq(Frame) /\ Len(s) \in Nat /\ Len(s) >= 1 /\ Len(t) = Len(s) - 1
      /\ \A k \in 1..Len(t) : t[k] = s[k + 1]
  BY PopProperties
<1> HIDE DEF t
<1>2. \A k \in 1..Len(t) : k + 1 \in 1..Len(s) /\ t[k] = s[k + 1]
  BY <1>1
<1>3. s[1].kind = "drain" => \A k \in 1..Len(t) : t[k].kind # "drain"
  BY <1>1, <1>2 DEF Disciplined
<1>4. s[1].kind = "drain" \/ s[1].kind \in JobFrames =>
        \A k \in 1..Len(t) : t[k].kind \notin JobFrames
  <2> SUFFICES ASSUME s[1].kind = "drain" \/ s[1].kind \in JobFrames
               PROVE  \A k \in 1..Len(t) : t[k].kind \notin JobFrames
    OBVIOUS
  <2>1. \A k \in 2..Len(s) : s[k].kind \notin JobFrames
    BY OneDrain, Zenon
  <2>2. QED
    BY <1>1, <1>2, <2>1
<1>5. ASSUME NEW k \in 1..Len(t)
      PROVE  /\ t[k].kind = "drain" => d2
             /\ t[k].kind = "tracker" => k < Len(t) /\ t[k + 1].kind = "report"
             /\ t[k].kind \in JobFrames =>
                  /\ k < Len(t)
                  /\ t[k + 1].kind = "drain" /\ t[k + 1].i = 0
                  /\ c2 # NoJob
             /\ t[k].kind = "thenable" => c2.handler.kind = "thenable"
  <2>1. k + 1 < Len(s) <=> k < Len(t)
    BY <1>1
  <2>2. k < Len(t) => t[k + 1] = s[k + 2]
    BY <1>1
  <2>3. t[k].kind = "drain" => d2
    BY <1>2, <1>3 DEF Disciplined, JobFrames
  <2>4. t[k].kind = "tracker" => k < Len(t) /\ t[k + 1].kind = "report"
    BY <1>1, <1>2, <2>1, <2>2 DEF Disciplined
  <2>5. t[k].kind \in JobFrames =>
                  /\ k < Len(t)
                  /\ t[k + 1].kind = "drain" /\ t[k + 1].i = 0
                  /\ c2 # NoJob
    BY <1>1, <1>2, <1>4, <2>1, <2>2 DEF Disciplined
  <2>6. t[k].kind = "thenable" => c2.handler.kind = "thenable"
    BY <1>2, <1>4 DEF Disciplined, JobFrames
  <2>7. QED
    BY <2>3, <2>4, <2>5, <2>6
<1>6. \A j, k \in 1..Len(t) : t[j].kind = "drain" /\ t[k].kind = "drain" => j = k
  <2> SUFFICES ASSUME NEW j \in 1..Len(t), NEW k \in 1..Len(t),
                      t[j].kind = "drain", t[k].kind = "drain"
               PROVE  j = k
    OBVIOUS
  <2>1. \A x, y \in 1..Len(s) : s[x].kind = "drain" /\ s[y].kind = "drain" => x = y
    BY DEF Disciplined
  <2>2. j + 1 = k + 1
    BY <1>2, <2>1
  <2>3. QED
    BY <2>2
<1>7. c2 # NoJob => \E k \in 1..Len(t) : t[k].kind \in JobFrames
  <2> SUFFICES ASSUME c2 # NoJob PROVE \E k \in 1..Len(t) : t[k].kind \in JobFrames
    OBVIOUS
  <2>1. c2 = c /\ s[1].kind \notin JobFrames
    BY DEF JobFrames
  <2>2. PICK k \in 1..Len(s) : s[k].kind \in JobFrames
    BY <2>1 DEF Disciplined
  <2>3. k - 1 \in 1..Len(t) /\ t[k - 1].kind \in JobFrames
    BY <1>1, <2>1, <2>2
  <2>4. QED
    BY <2>3
<1>8. Disciplined(t, d2, c2)
  BY <1>5, <1>6, <1>7 DEF Disciplined
<1>9. QED
  BY <1>3, <1>8 DEF t

(* A drain starts on a stack that has none.                                *)
LEMMA PushDrain ==
    ASSUME NEW s \in Seq(Frame), NEW d \in BOOLEAN, NEW c, Disciplined(s, d, c),
           \A k \in 1..Len(s) : s[k].kind # "drain",
           NEW f \in Frame, f.kind = "drain"
    PROVE  Disciplined(<<f>> \o s, TRUE, c)
<1> DEFINE t == <<f>> \o s
<1>1. /\ t \in Seq(Frame) /\ Len(t) = Len(s) + 1 /\ t[1] = f
      /\ \A k \in 1..Len(s) : t[k + 1] = s[k]
      /\ Len(s) \in Nat
  BY PushProperties
<1> HIDE DEF t
<1>2. \A k \in 1..Len(t) : k = 1 \/ (k - 1 \in 1..Len(s) /\ t[k] = s[k - 1])
  BY <1>1
<1>3. \A k \in 1..Len(s) : s[k].kind \notin JobFrames
  BY DEF Disciplined
<1>4. c = NoJob
  BY <1>3 DEF Disciplined
<1>5. \A k \in 1..Len(t) : t[k].kind = "drain" => k = 1
  BY <1>1, <1>2
<1>6. \A k \in 1..Len(t) : t[k].kind \notin JobFrames
  BY <1>1, <1>2, <1>3 DEF JobFrames
<1>7. ASSUME NEW k \in 1..Len(t), t[k].kind = "tracker"
      PROVE  k < Len(t) /\ t[k + 1].kind = "report"
  <2>1. k # 1
    BY <1>1, <1>7
  <2>2. k - 1 \in 1..Len(s) /\ s[k - 1].kind = "tracker"
    BY <1>2, <1>7, <2>1
  <2>3. QED
    BY <1>1, <2>2 DEF Disciplined
<1>8. Disciplined(t, TRUE, c)
  BY <1>4, <1>5, <1>6, <1>7 DEF Disciplined, JobFrames
<1>9. QED
  BY <1>8 DEF t

(* The drain's loop takes job c2.                                          *)
LEMMA PushJob ==
    ASSUME NEW s \in Seq(Frame), NEW d \in BOOLEAN, NEW c, Disciplined(s, d, c), s # <<>>,
           s[1].kind = "drain", s[1].i = 0, NEW c2, c2 # NoJob,
           NEW f \in Frame, f.kind = "job"
    PROVE  /\ c = NoJob
           /\ Disciplined(<<f>> \o s, d, c2)
<1> DEFINE t == <<f>> \o s
<1>1. /\ t \in Seq(Frame) /\ Len(t) = Len(s) + 1 /\ t[1] = f
      /\ \A k \in 1..Len(s) : t[k + 1] = s[k]
      /\ Len(s) \in Nat /\ Len(s) >= 1
  BY PushProperties, PopProperties
<1> HIDE DEF t
<1>2. \A k \in 1..Len(t) : k = 1 \/ (k - 1 \in 1..Len(s) /\ t[k] = s[k - 1])
  BY <1>1
<1>3. \A k \in 1..Len(s) : s[k].kind \notin JobFrames
  <2>1. \A k \in 2..Len(s) : s[k].kind \notin JobFrames
    BY OneDrain, Zenon
  <2>2. QED
    BY <1>1, <2>1 DEF JobFrames
<1>4. c = NoJob
  BY <1>3 DEF Disciplined
<1>5. ASSUME NEW k \in 1..Len(t)
      PROVE  /\ t[k].kind = "drain" => d
             /\ t[k].kind = "tracker" => k < Len(t) /\ t[k + 1].kind = "report"
             /\ t[k].kind \in JobFrames =>
                  /\ k < Len(t)
                  /\ t[k + 1].kind = "drain" /\ t[k + 1].i = 0
                  /\ c2 # NoJob
             /\ t[k].kind = "thenable" => c2.handler.kind = "thenable"
  <2>1. CASE k = 1
    <3>1. t[1] = f /\ 1 < Len(t) /\ t[2] = s[1]
      BY <1>1
    <3>2. QED
      BY <2>1, <3>1
  <2>2. CASE k - 1 \in 1..Len(s) /\ t[k] = s[k - 1]
    <3>1. k < Len(t) <=> k - 1 < Len(s)
      BY <1>1
    <3>2. k < Len(t) => t[k + 1] = s[k]
      BY <1>1
    <3>3. QED
      BY <1>3, <2>2, <3>1, <3>2 DEF Disciplined, JobFrames
  <2>3. QED
    BY <1>2, <2>1, <2>2
<1>6. \A j, k \in 1..Len(t) : t[j].kind = "drain" /\ t[k].kind = "drain" => j = k
  <2> SUFFICES ASSUME NEW j \in 1..Len(t), NEW k \in 1..Len(t),
                      t[j].kind = "drain", t[k].kind = "drain"
               PROVE  j = k
    OBVIOUS
  <2>1. j # 1 /\ k # 1
    BY <1>1
  <2>2. \A x, y \in 1..Len(s) : s[x].kind = "drain" /\ s[y].kind = "drain" => x = y
    BY DEF Disciplined
  <2>3. j - 1 = k - 1
    BY <1>2, <2>1, <2>2
  <2>4. QED
    BY <2>3
<1>7. \E k \in 1..Len(t) : t[k].kind \in JobFrames
  <2>1. 1 \in 1..Len(t) /\ t[1].kind \in JobFrames
    BY <1>1 DEF JobFrames
  <2>2. QED
    BY <2>1
<1>8. Disciplined(t, d, c2)
  BY <1>5, <1>6, <1>7 DEF Disciplined
<1>9. QED
  BY <1>4, <1>8 DEF t

(* The job on top moves on.                                                *)
LEMMA ReplaceJob ==
    ASSUME NEW s \in Seq(Frame), NEW d \in BOOLEAN, NEW c, Disciplined(s, d, c), s # <<>>,
           s[1].kind \in JobFrames,
           NEW f \in Frame, f.kind \in JobFrames,
           f.kind = "thenable" => c.handler.kind = "thenable"
    PROVE  Disciplined(<<f>> \o Tail(s), d, c)
<1> DEFINE t == <<f>> \o Tail(s)
<1>1. /\ Tail(s) \in Seq(Frame) /\ Len(s) \in Nat /\ Len(s) >= 1
      /\ Len(Tail(s)) = Len(s) - 1
      /\ \A k \in 1..Len(Tail(s)) : Tail(s)[k] = s[k + 1]
  BY PopProperties
<1>2. /\ t \in Seq(Frame) /\ Len(t) = Len(Tail(s)) + 1 /\ t[1] = f
      /\ \A k \in 1..Len(Tail(s)) : t[k + 1] = Tail(s)[k]
  BY <1>1, PushProperties
<1> HIDE DEF t
<1>3. Len(t) = Len(s) /\ t[1] = f /\ \A k \in 2..Len(s) : t[k] = s[k]
  <2>1. Len(t) = Len(s) /\ t[1] = f
    BY <1>1, <1>2
  <2>2. ASSUME NEW k \in 2..Len(s)
        PROVE  t[k] = s[k]
    <3>1. k - 1 \in 1..Len(Tail(s)) /\ (k - 1) + 1 = k
      BY <1>1
    <3>2. t[(k - 1) + 1] = Tail(s)[k - 1] /\ Tail(s)[k - 1] = s[(k - 1) + 1]
      BY <1>1, <1>2, <3>1, Zenon
    <3>3. QED
      BY <3>1, <3>2, Zenon
  <2>3. QED
    BY <2>1, <2>2
<1>4. \A k \in 1..Len(t) : k # 1 => k \in 2..Len(s)
  BY <1>1, <1>3
<1>5. \A k \in 1..Len(t) : t[k].kind = "drain" => s[k].kind = "drain" /\ k \in 1..Len(s)
  BY <1>3, <1>4 DEF JobFrames
<1>6. ASSUME NEW k \in 1..Len(t)
      PROVE  /\ t[k].kind = "drain" => d
             /\ t[k].kind = "tracker" => k < Len(t) /\ t[k + 1].kind = "report"
             /\ t[k].kind \in JobFrames =>
                  /\ k < Len(t)
                  /\ t[k + 1].kind = "drain" /\ t[k + 1].i = 0
                  /\ c # NoJob
             /\ t[k].kind = "thenable" => c.handler.kind = "thenable"
  <2>1. k < Len(t) => k + 1 \in 2..Len(s) /\ t[k + 1] = s[k + 1]
    BY <1>1, <1>3
  <2>2. CASE k = 1
    <3>1. 1 \in 1..Len(s)
      BY <1>1
    <3>2. QED
      BY <1>3, <2>1, <2>2, <3>1 DEF Disciplined, JobFrames
  <2>3. CASE k \in 2..Len(s)
    BY <1>1, <1>3, <2>1, <2>3 DEF Disciplined
  <2>4. QED
    BY <1>4, <2>2, <2>3
<1>7. \A j, k \in 1..Len(t) : t[j].kind = "drain" /\ t[k].kind = "drain" => j = k
  BY <1>5 DEF Disciplined
<1>8. \E k \in 1..Len(t) : t[k].kind \in JobFrames
  <2>1. 1 \in 1..Len(t) /\ t[1].kind \in JobFrames
    BY <1>1, <1>3
  <2>2. QED
    BY <2>1
<1>9. Disciplined(t, d, c)
  BY <1>6, <1>7, <1>8 DEF Disciplined
<1>10. QED
  BY <1>9 DEF t

-----------------------------------------------------------------------------
(* The inductive invariant.                                                *)

ControlType ==
    /\ exposed \subseteq Cell
    /\ draining \in BOOLEAN
    /\ cur \in Job \cup {NoJob}
    /\ ret \in Value
    /\ stack \in Seq(Frame)
    /\ uncatchable \in BOOLEAN
    /\ hasError \in BOOLEAN
    /\ status \in {"none", "ok", "throw", "interrupt", "internal"}
    /\ ops \in 0..MaxOps
    /\ entries \in 0..MaxEntries
    /\ reported \in [Promise -> Nat]
    /\ attached \subseteq Promise
    /\ raised \in BOOLEAN
    /\ aborted \in BOOLEAN

(* TypeOK is not inductive by itself: that a new promise is not an old one *)
(* needs PromiseInv, and that a returning frame finds the frame and the    *)
(* job it belongs to needs StackDiscipline.                                *)
IInv == HeapInv /\ ControlType /\ cursor \in 0..Len(queue) /\ StackDiscipline

LEMMA TypeFromInv ==
    ASSUME IInv
    PROVE  TypeOK
BY DEF IInv, HeapInv, HeapType, ControlType, TypeOK

LEMMA InitInv ==
    ASSUME Init
    PROVE  IInv
<1>1. /\ <<>> \in Seq(Reaction) /\ <<>> \in Seq(Job) /\ <<>> \in Seq(Frame)
      /\ Len(<<>>) = 0
  OBVIOUS
<1>2. HeapInv
  <2>1. Unborn \in PromiseRec
    BY <1>1 DEF Unborn, PromiseRec, Value
  <2>2. Unallocated \in [target : Promise, called : BOOLEAN]
    BY BoundsAssumption DEF Unallocated, Promise
  <2>3. HeapType
    BY <1>1, <2>1, <2>2, BoundsAssumption DEF Init, HeapType, None, Promise
  <2>4. PromiseInv
    BY DEF Init, PromiseInv, Unborn
  <2>5. QED
    BY <2>3, <2>4 DEF HeapInv
<1>3. ControlType
  <2>1. /\ draining \in BOOLEAN /\ uncatchable \in BOOLEAN /\ hasError \in BOOLEAN
        /\ raised \in BOOLEAN /\ aborted \in BOOLEAN
    BY Zenon DEF Init
  <2>2. ret \in Value /\ cur \in Job \cup {NoJob}
    BY DEF Init, Value
  <2>3. ops \in 0..MaxOps /\ entries \in 0..MaxEntries /\ reported \in [Promise -> Nat]
    BY BoundsAssumption DEF Init
  <2>4. QED
    BY <1>1, <2>1, <2>2, <2>3 DEF Init, ControlType
<1>4. StackDiscipline
  BY <1>1 DEF Init, StackDiscipline, Disciplined
<1>5. QED
  BY <1>1, <1>2, <1>3, <1>4 DEF IInv, Init

(* Settled promises stay, and jobs join the queue at its end, except where *)
(* a finished drain resets it.                                             *)
Moves == SettledStay /\ (QueueGrows \/ DrainEnd)

(* What is left to show of a step whose heap operation is known.           *)
LEMMA Keep ==
    ASSUME IInv, HeapStep, ControlType', StackDiscipline', cursor' = cursor
    PROVE  IInv' /\ Moves
<1>1. Len(queue) \in Nat /\ Len(queue') \in Nat
  BY DEF IInv, HeapInv, HeapType, HeapStep
<1>2. QED
  BY <1>1 DEF IInv, HeapStep, Moves, QueueGrows

LEMMA FrameTypes ==
    /\ \A kind \in {"script", "evaluated", "hostdrain", "enter", "drain", "job",
                    "handler", "thenable", "after", "report", "tracker"} :
          /\ Top(kind) \in Frame /\ Top(kind).kind = kind
          /\ Top(kind).i = 0
    /\ \A n \in Nat : /\ [Top("report") EXCEPT !.n = n] \in Frame
                      /\ [Top("report") EXCEPT !.n = n].kind = "report"
    /\ [Top("drain") EXCEPT !.i = 1] \in Frame
    /\ [Top("drain") EXCEPT !.i = 1].kind = "drain"
BY DEF Top, Frame

(* The actions of script, in a frame that stays where it is.               *)
LEMMA ScriptInv ==
    ASSUME IInv, ScriptStep
    PROVE  IInv' /\ Moves
<1> USE DEF IInv
<1>0. ops \in 0..MaxOps /\ np \in Nat /\ nc \in Nat
  BY DEF HeapInv, HeapType, ControlType
<1>1. CASE NewPromise
  <2>1. /\ np < MaxPromises /\ nc < MaxCells /\ np' = np + 1 /\ nc' = nc + 1
        /\ prom' = [prom EXCEPT ![np + 1] = Fresh]
        /\ cell' = [cell EXCEPT ![nc + 1] = [target |-> np + 1, called |-> FALSE]]
        /\ exposed' = exposed \cup {nc + 1}
        /\ UNCHANGED <<queue, slots, ucount, follows>>
    BY <1>1 DEF NewPromise
  <2>2. np + 1 \in Promise /\ nc + 1 \in Cell /\ np' \in 0..MaxPromises /\ nc' \in 0..MaxCells
    BY <1>0, <2>1, BoundsAssumption DEF Promise, Cell, HeapInv, HeapType
  <2>3. prom' \in [Promise -> PromiseRec] /\ cell' \in [Cell -> [target : Promise, called : BOOLEAN]]
    BY <2>1, <2>2, FreshType, UpdateType DEF HeapInv, HeapType
  <2>4. \A q \in Promise : prom'[q] = IF q = np + 1 THEN Fresh ELSE prom[q]
    BY <2>1 DEF HeapInv, HeapType
  <2>5. PromiseInv'
    BY <1>0, <2>1, <2>4, FreshType DEF PromiseInv, HeapInv, Promise
  <2>6. SettledStay
    BY <1>0, <2>4 DEF SettledStay, PromiseInv, HeapInv, Promise, Settled
  <2>7. HeapStep
    BY <2>1, <2>2, <2>3, <2>5, <2>6 DEF HeapStep, HeapInv, HeapType, QueueGrows
  <2>8. ControlType' /\ StackDiscipline' /\ cursor' = cursor
    BY <1>0, <1>1, <2>2, BoundsAssumption DEF NewPromise, ScriptOp, ControlType, StackDiscipline
  <2>9. QED
    BY <2>7, <2>8, Keep
<1>2. CASE NewPromiseInterrupted
  <2> DEFINE r == [Fresh EXCEPT !.state = "rejected", !.result = Interrupted,
                                !.inRejectList = TRUE]
  <2>1. /\ np < MaxPromises /\ nc < MaxCells /\ np' = np + 1 /\ nc' = nc + 1
        /\ prom' = [prom EXCEPT ![np + 1] = r]
        /\ cell' = [cell EXCEPT ![nc + 1] = [target |-> np + 1, called |-> TRUE]]
        /\ exposed' = exposed \cup {nc + 1}
        /\ slots' = [slots EXCEPT ![ucount + 1] = np + 1]
        /\ ucount' = ucount + 1
        /\ UNCHANGED <<queue, follows>>
    BY <1>2 DEF NewPromiseInterrupted
  <2>2. np + 1 \in Promise /\ nc + 1 \in Cell /\ np' \in 0..MaxPromises /\ nc' \in 0..MaxCells
    BY <1>0, <2>1, BoundsAssumption DEF Promise, Cell, HeapInv, HeapType
  <2>0. r \in PromiseRec /\ r.reactions = <<>>
    BY FreshType DEF PromiseRec, Settled, Value
  <2> HIDE DEF r
  <2>3. /\ prom' \in [Promise -> PromiseRec] /\ cell' \in [Cell -> [target : Promise, called : BOOLEAN]]
        /\ slots' \in [Promise -> Promise \cup {None}] /\ ucount' \in Nat
    BY <2>0, <2>1, <2>2, UpdateType DEF HeapInv, HeapType
  <2>4. \A q \in Promise : prom'[q] = IF q = np + 1 THEN r ELSE prom[q]
    BY <2>1 DEF HeapInv, HeapType
  <2>5. PromiseInv'
    BY <1>0, <2>0, <2>1, <2>4 DEF PromiseInv, HeapInv, Promise
  <2>6. SettledStay
    BY <1>0, <2>4 DEF SettledStay, PromiseInv, HeapInv, Promise, Settled
  <2>7. HeapStep
    BY <2>1, <2>2, <2>3, <2>5, <2>6 DEF HeapStep, HeapInv, HeapType, QueueGrows
  <2>10. uncatchable' \in BOOLEAN /\ raised' \in BOOLEAN /\ hasError' \in BOOLEAN
    BY <1>2, Zenon DEF NewPromiseInterrupted
  <2>11. /\ ScriptOp /\ UNCHANGED <<stack, attached>>
         /\ exposed' \subseteq Cell
    BY <1>2, <2>1, <2>2 DEF NewPromiseInterrupted, ControlType
  <2>8. ControlType' /\ StackDiscipline' /\ cursor' = cursor
    BY <1>0, <2>10, <2>11, BoundsAssumption DEF ScriptOp, ControlType, StackDiscipline
  <2>9. QED
    BY <2>7, <2>8, Keep
<1>3. ScriptValue \subseteq Value /\ Born \subseteq Promise
  BY <1>0, BoundsAssumption DEF ScriptValue, Born, Value, Promise, HeapInv, HeapType
<1>4. CASE ScriptResolve
  <2>1. HeapStep
    BY <1>3, <1>4, CallResolveStep DEF ScriptResolve, ControlType
  <2>2. ControlType' /\ StackDiscipline' /\ cursor' = cursor
    BY <1>0, <1>4, BoundsAssumption DEF ScriptResolve, ScriptOp, ControlType, StackDiscipline
  <2>3. QED
    BY <2>1, <2>2, Keep
<1>5. CASE ScriptReject
  <2>1. HeapStep
    BY <1>5, CallRejectStep DEF ScriptReject, ControlType, Value
  <2>2. ControlType' /\ StackDiscipline' /\ cursor' = cursor
    BY <1>0, <1>5, BoundsAssumption DEF ScriptReject, ScriptOp, ControlType, StackDiscipline
  <2>3. QED
    BY <2>1, <2>2, Keep
<1>6. CASE ScriptThen
  <2>1. PICK p \in Born, onF \in {Plainly("user"), Plainly("undefined")},
             onR \in {Plainly("user"), Plainly("undefined")},
             species \in BOOLEAN : Then(p, onF, onR, species)
    BY <1>6 DEF ScriptThen
  <2>2. onF \in Handler /\ onR \in Handler
    BY DEF Handler, Callable, Closure, Plainly
  <2>3. HeapStep
    BY <1>3, <2>1, <2>2, ThenStep
  <2>4. attached' \subseteq Promise
    BY <1>3, <2>1 DEF Then, ControlType
  <2>5. ControlType' /\ StackDiscipline' /\ cursor' = cursor
    BY <1>0, <1>6, <2>4, BoundsAssumption DEF ScriptThen, ScriptOp, ControlType, StackDiscipline
  <2>6. QED
    BY <2>3, <2>5, Keep
<1>7. CASE SettlingCombinator
  <2>1. /\ np < MaxPromises /\ np' = np + 1
        /\ UNCHANGED <<cell, nc, queue, slots, ucount, follows>>
    BY <1>7 DEF SettlingCombinator
  <2>2. PICK v \in Plain : prom' = [prom EXCEPT ![np + 1] =
                               [Fresh EXCEPT !.state = "fulfilled", !.result = v]]
    BY <1>7 DEF SettlingCombinator
  <2> DEFINE r == [Fresh EXCEPT !.state = "fulfilled", !.result = v]
  <2>3. r \in PromiseRec /\ r.reactions = <<>>
    BY FreshType DEF PromiseRec, Settled, Value
  <2>4. prom' = [prom EXCEPT ![np + 1] = r]
    BY <2>2
  <2> HIDE DEF r
  <2>5. np + 1 \in Promise /\ np' \in 0..MaxPromises
    BY <1>0, <2>1, BoundsAssumption DEF Promise, HeapInv, HeapType
  <2>6. prom' \in [Promise -> PromiseRec]
    BY <2>3, <2>4, UpdateType DEF HeapInv, HeapType
  <2>7. \A q \in Promise : prom'[q] = IF q = np + 1 THEN r ELSE prom[q]
    BY <2>4 DEF HeapInv, HeapType
  <2>8. PromiseInv'
    BY <1>0, <2>1, <2>3, <2>7 DEF PromiseInv, HeapInv, Promise
  <2>9. SettledStay
    BY <1>0, <2>7 DEF SettledStay, PromiseInv, HeapInv, Promise, Settled
  <2>10. HeapStep
    BY <2>1, <2>5, <2>6, <2>8, <2>9 DEF HeapStep, HeapInv, HeapType, QueueGrows
  <2>11. stack' = <<Top("enter")>> \o stack
    BY <1>7 DEF SettlingCombinator, Push
  <2>12. stack' \in Seq(Frame) /\ StackDiscipline'
    <3>1. /\ Top("enter") \in Frame /\ Top("enter").kind \in PlainFrames
          /\ stack \in Seq(Frame) /\ draining' = draining /\ cur' = cur
      BY <1>7, FrameTypes DEF SettlingCombinator, ScriptOp, ControlType, PlainFrames
    <3>2. Disciplined(<<Top("enter")>> \o stack, draining, cur)
      BY <3>1, PushPlain DEF StackDiscipline
    <3>3. QED
      BY <2>11, <3>1, <3>2, PushProperties DEF StackDiscipline
  <2>15. /\ ScriptOp
         /\ UNCHANGED <<exposed, uncatchable, hasError, attached, raised>>
    BY <1>7 DEF SettlingCombinator
  <2>13. ControlType' /\ cursor' = cursor
    BY <1>0, <2>12, <2>15, BoundsAssumption DEF ScriptOp, ControlType
  <2>14. QED
    BY <2>10, <2>12, <2>13, Keep
<1>8. QED
  BY <1>1, <1>2, <1>4, <1>5, <1>6, <1>7 DEF ScriptStep

LEMMA PushTop ==
    ASSUME NEW s \in Seq(Frame), NEW d, NEW c, Disciplined(s, d, c),
           NEW f \in Frame, f.kind \in PlainFrames
    PROVE  <<f>> \o s \in Seq(Frame) /\ Disciplined(<<f>> \o s, d, c)
BY PushPlain, PushProperties

(* The stack of an action that changes only the stack and plain control.   *)
LEMMA StackFacts ==
    ASSUME IInv
    PROVE  /\ stack \in Seq(Frame) /\ draining \in BOOLEAN
           /\ Disciplined(stack, draining, cur)
           /\ \A kind : Running(kind) =>
                 /\ stack # <<>> /\ Head(stack) = stack[1] /\ stack[1].kind = kind
                 /\ stack[1] \in Frame
                 /\ Tail(stack) \in Seq(Frame)
                 /\ kind \notin JobFrames \cup {"drain"} =>
                      Disciplined(Tail(stack), draining, cur)
<1>1. stack \in Seq(Frame) /\ draining \in BOOLEAN /\ Disciplined(stack, draining, cur)
  BY DEF IInv, ControlType, StackDiscipline
<1>2. ASSUME NEW kind, Running(kind)
      PROVE  /\ stack # <<>> /\ Head(stack) = stack[1] /\ stack[1].kind = kind
             /\ stack[1] \in Frame
             /\ Tail(stack) \in Seq(Frame)
             /\ kind \notin JobFrames \cup {"drain"} =>
                  Disciplined(Tail(stack), draining, cur)
  <2>1. stack # <<>> /\ Head(stack).kind = kind
    BY <1>2 DEF Running
  <2>2. Head(stack) = stack[1] /\ stack[1] \in Frame /\ Tail(stack) \in Seq(Frame)
    BY <1>1, <2>1, PopProperties
  <2>3. kind \notin JobFrames \cup {"drain"} => Disciplined(Tail(stack), draining, cur)
    BY <1>1, <2>1, <2>2, PopFrame
  <2>4. QED
    BY <2>1, <2>2, <2>3
<1>3. QED
  BY <1>1, <1>2

LEMMA HostInv ==
    ASSUME IInv, HostStep
    PROVE  IInv' /\ Moves
<1>0. /\ stack \in Seq(Frame) /\ Disciplined(stack, draining, cur)
      /\ ops \in 0..MaxOps /\ entries \in 0..MaxEntries
  BY StackFacts DEF IInv, ControlType
<1>1. CASE Eval
  <2>1. HeapStep
    BY <1>1, NoHeapStep DEF Eval, HostCall, IInv
  <2>2. Top("script") \in Frame /\ Top("script").kind \in PlainFrames
    BY FrameTypes DEF PlainFrames
  <2>3. stack' = <<Top("script")>> \o stack /\ draining' = draining /\ cur' = cur
    BY <1>1 DEF Eval, Push, HostCall, drainVars
  <2>4. stack' \in Seq(Frame) /\ StackDiscipline'
    BY <1>0, <2>2, <2>3, PushTop DEF StackDiscipline
  <2>5. uncatchable' \in BOOLEAN /\ raised' \in BOOLEAN /\ hasError' \in BOOLEAN
    BY <1>1, Zenon DEF Eval, HostCall
  <2>6. ControlType' /\ cursor' = cursor
    BY <1>0, <1>1, <2>4, <2>5, BoundsAssumption
    DEF Eval, HostCall, drainVars, IInv, ControlType
  <2>7. QED
    BY <2>1, <2>4, <2>6, Keep
<1>2. CASE HostDrain
  <2>1. HeapStep
    BY <1>2, NoHeapStep DEF HostDrain, HostCall, IInv
  <2>2. /\ Top("enter") \in Frame /\ Top("enter").kind \in PlainFrames
        /\ Top("hostdrain") \in Frame /\ Top("hostdrain").kind \in PlainFrames
    BY FrameTypes DEF PlainFrames
  <2>3. stack' = <<Top("enter")>> \o (<<Top("hostdrain")>> \o stack)
    BY <1>2, <2>2 DEF HostDrain
  <2>4. draining' = draining /\ cur' = cur
    BY <1>2 DEF HostDrain, HostCall, drainVars
  <2>5. stack' \in Seq(Frame) /\ StackDiscipline'
    BY <1>0, <2>2, <2>3, <2>4, PushTop DEF StackDiscipline
  <2>6. uncatchable' \in BOOLEAN /\ raised' \in BOOLEAN
    BY <1>2, Zenon DEF HostDrain, HostCall
  <2>7. ControlType' /\ cursor' = cursor
    BY <1>0, <1>2, <2>5, <2>6, BoundsAssumption
    DEF HostDrain, HostCall, drainVars, IInv, ControlType
  <2>8. QED
    BY <2>1, <2>5, <2>7, Keep
<1>3. CASE HostSettle
  <2>1. ScriptValue \subseteq Value /\ Error \in Value
    BY BoundsAssumption DEF ScriptValue, Born, Value, Promise, IInv, HeapInv, HeapType
  <2>2. HeapStep
    BY <1>3, <2>1, CallResolveStep, CallRejectStep DEF HostSettle, IInv, ControlType
  <2>3. hasError' \in BOOLEAN
    BY <1>3, Zenon DEF HostSettle
  <2>4. ControlType' /\ StackDiscipline' /\ cursor' = cursor
    BY <1>0, <1>3, <2>3, BoundsAssumption
    DEF HostSettle, drainVars, histVars, IInv, ControlType, StackDiscipline
  <2>5. QED
    BY <2>2, <2>4, Keep
<1>4. QED
  BY <1>1, <1>2, <1>3 DEF HostStep

(* Vm.execute and the host boundary.                                       *)
LEMMA EvalInv ==
    ASSUME IInv, ScriptEnd \/ EvalReturn \/ HostDrainReturn
    PROVE  IInv' /\ Moves
<1>0. hasError \in BOOLEAN /\ uncatchable \in BOOLEAN /\ raised \in BOOLEAN
  BY DEF IInv, ControlType
<1>1. CASE ScriptEnd
  <2>1. HeapStep
    BY <1>1, NoHeapStep DEF ScriptEnd, Quiet, IInv
  <2>2. PICK failed \in {0, 1} :
          stack' = <<Top("enter"), [kind |-> "evaluated", i |-> failed,
                                    n |-> IF hasError' THEN 1 ELSE 0]>> \o Tail(stack)
    BY <1>1 DEF ScriptEnd
  <2> DEFINE f == [kind |-> "evaluated", i |-> failed, n |-> IF hasError' THEN 1 ELSE 0]
  <2>3. f \in Frame /\ f.kind \in PlainFrames
    BY DEF Frame, PlainFrames
  <2>4. Top("enter") \in Frame /\ Top("enter").kind \in PlainFrames
    BY FrameTypes DEF PlainFrames
  <2>5. Tail(stack) \in Seq(Frame) /\ Disciplined(Tail(stack), draining, cur)
    <3>1. Running("script") /\ "script" \notin JobFrames \cup {"drain"}
      BY <1>1 DEF ScriptEnd, JobFrames
    <3>2. QED
      BY <3>1, StackFacts
  <2> HIDE DEF f
  <2>6. stack' = <<Top("enter")>> \o (<<f>> \o Tail(stack))
    BY <2>2, <2>3, <2>4, <2>5, PushTwo DEF f
  <2>7. draining' = draining /\ cur' = cur
    BY <1>1 DEF ScriptEnd, drainVars
  <2>8. stack' \in Seq(Frame) /\ StackDiscipline'
    BY <2>3, <2>4, <2>5, <2>6, <2>7, PushTop DEF StackDiscipline
  <2>9. hasError' \in BOOLEAN /\ uncatchable' \in BOOLEAN /\ raised' \in BOOLEAN
    BY <1>0, <1>1, Zenon DEF ScriptEnd
  <2>10. ControlType' /\ cursor' = cursor
    BY <1>1, <2>8, <2>9 DEF ScriptEnd, Quiet, drainVars, IInv, ControlType
  <2>11. QED
    BY <2>1, <2>8, <2>10, Keep
<1>2. CASE EvalReturn
  <2>1. HeapStep
    BY <1>2, NoHeapStep DEF EvalReturn, Quiet, IInv
  <2>2. draining' = draining /\ cur' = cur /\ stack' = Tail(stack)
    BY <1>2 DEF EvalReturn, drainVars
  <2>3. stack' \in Seq(Frame) /\ StackDiscipline'
    BY <1>2, <2>2, StackFacts DEF EvalReturn, StackDiscipline, JobFrames
  <2>4. hasError' \in BOOLEAN /\ uncatchable' \in BOOLEAN
    BY <1>2, Zenon DEF EvalReturn
  <2>5. status' \in {"none", "ok", "throw", "interrupt", "internal"}
    BY <1>2 DEF EvalReturn
  <2>6. ControlType' /\ cursor' = cursor
    BY <1>2, <2>3, <2>4, <2>5 DEF EvalReturn, Quiet, drainVars, histVars, IInv, ControlType
  <2>7. QED
    BY <2>1, <2>3, <2>6, Keep
<1>3. CASE HostDrainReturn
  <2>1. HeapStep
    BY <1>3, NoHeapStep DEF HostDrainReturn, Quiet, IInv
  <2>2. draining' = draining /\ cur' = cur /\ stack' = Tail(stack)
    BY <1>3 DEF HostDrainReturn, drainVars
  <2>3. stack' \in Seq(Frame) /\ StackDiscipline'
    BY <1>3, <2>2, StackFacts DEF HostDrainReturn, StackDiscipline, JobFrames
  <2>4. uncatchable' \in BOOLEAN
    BY <1>3, Zenon DEF HostDrainReturn
  <2>5. status' \in {"none", "ok", "throw", "interrupt", "internal"}
    BY <1>3 DEF HostDrainReturn
  <2>6. ControlType' /\ cursor' = cursor
    BY <1>3, <2>3, <2>4, <2>5 DEF HostDrainReturn, Quiet, drainVars, histVars, IInv, ControlType
  <2>7. QED
    BY <2>1, <2>3, <2>6, Keep
<1>4. QED
  BY <1>1, <1>2, <1>3

(* Heap.drain_microtasks: entering, looping, leaving.                      *)
LEMMA CallReportInv ==
    ASSUME NEW t \in Seq(Frame), NEW d \in BOOLEAN, NEW c, Disciplined(t, d, c),
           ucount \in Nat, CallReport(t)
    PROVE  stack' \in Seq(Frame) /\ Disciplined(stack', d, c) /\ ucount' \in Nat
<1> DEFINE f == [Top("report") EXCEPT !.n = ucount]
<1>1. f \in Frame /\ f.kind \in PlainFrames
  BY DEF Top, Frame, PlainFrames
<1>2. \/ stack' = t /\ ucount' = ucount
      \/ stack' = <<f>> \o t /\ ucount' = 0
  BY DEF CallReport
<1> HIDE DEF f
<1>3. <<f>> \o t \in Seq(Frame) /\ Disciplined(<<f>> \o t, d, c)
  BY <1>1, PushTop
<1>4. stack' \in Seq(Frame) /\ Disciplined(stack', d, c)
  BY <1>2, <1>3, Zenon
<1>5. ucount' \in Nat
  BY <1>2
<1>6. QED
  BY <1>4, <1>5

LEMMA DrainInv ==
    ASSUME IInv, DrainEnter \/ DrainTake \/ DrainEnd \/ DrainReturn
    PROVE  IInv' /\ Moves
<1>0. /\ stack \in Seq(Frame) /\ draining \in BOOLEAN /\ Disciplined(stack, draining, cur)
      /\ queue \in Seq(Job) /\ Len(queue) \in Nat /\ ucount \in Nat
      /\ cursor \in 0..Len(queue)
  BY StackFacts DEF IInv, HeapInv, HeapType
<1>1. CASE DrainEnter
  <2>1. UNCHANGED <<prom, np, cell, nc, exposed, queue, cur, ret, slots,
                    uncatchable, hasError, status, ops, entries, histVars,
                    attached, follows>>
    BY <1>1 DEF DrainEnter
  <2>2. Tail(stack) \in Seq(Frame) /\ Disciplined(Tail(stack), draining, cur)
    <3>1. Running("enter") /\ "enter" \notin JobFrames \cup {"drain"}
      BY <1>1 DEF DrainEnter, JobFrames
    <3>2. QED
      BY <3>1, StackFacts
  <2>3. /\ stack' \in Seq(Frame) /\ Disciplined(stack', draining', cur)
        /\ ucount' \in Nat /\ draining' \in BOOLEAN
        /\ cursor' \in 0..Len(queue)
    <3>1. CASE draining
      BY <1>0, <1>1, <2>2, <3>1 DEF DrainEnter
    <3>2. CASE ~draining /\ queue = <<>>
      <4>1. CallReport(Tail(stack)) /\ UNCHANGED <<draining, cursor>>
        BY <1>1, <3>2 DEF DrainEnter
      <4>2. QED
        BY <1>0, <2>2, <4>1, CallReportInv
    <3>3. CASE ~draining /\ queue # <<>>
      <4>1. /\ draining' = TRUE /\ cursor' = 0 /\ ucount' = ucount
            /\ stack' = <<Top("drain")>> \o Tail(stack)
        BY <1>1, <3>3 DEF DrainEnter, Replace
      <4>2. \A k \in 1..Len(Tail(stack)) : Tail(stack)[k].kind # "drain"
        BY <2>2, <3>3 DEF Disciplined
      <4>3. Top("drain") \in Frame /\ Top("drain").kind = "drain"
        BY FrameTypes
      <4>4. Disciplined(stack', TRUE, cur) /\ stack' \in Seq(Frame)
        BY <1>0, <2>2, <4>1, <4>2, <4>3, PushDrain, PushProperties
      <4>5. Disciplined(stack', draining', cur) /\ draining' \in BOOLEAN
        BY <4>1, <4>4, Zenon
      <4>6. ucount' \in Nat /\ cursor' \in 0..Len(queue)
        BY <1>0, <4>1
      <4>7. QED
        BY <4>4, <4>5, <4>6, Zenon
    <3>4. QED
      BY <3>1, <3>2, <3>3
  <2>4. HeapInv' /\ Moves
    BY <2>1, <2>3 DEF IInv, HeapInv, HeapType, PromiseInv, SettledStay, Moves, QueueGrows
  <2>5. ControlType'
    BY <2>1, <2>3 DEF IInv, ControlType, histVars
  <2>6. QED
    BY <1>0, <2>1, <2>3, <2>4, <2>5 DEF IInv, StackDiscipline
<1>2. CASE DrainTake
  <2>1. /\ Running("drain") /\ Head(stack).i = 0 /\ cursor < Len(queue)
        /\ cur' = queue[cursor + 1] /\ cursor' = cursor + 1
        /\ stack' = <<Top("job")>> \o stack /\ draining' = draining
    BY <1>2 DEF DrainTake, Push
  <2>2. stack # <<>> /\ stack[1].kind = "drain" /\ stack[1].i = 0
    BY <2>1, StackFacts
  <2>3. cur' \in Job /\ cursor' \in 0..Len(queue)
    BY <1>0, <2>1
  <2>4. cur' # NoJob
    BY <2>3 DEF Job, NoJob, Callable, Closure, Resolving, Adopting, Plainly
  <2>5. Top("job") \in Frame /\ Top("job").kind = "job"
    BY FrameTypes
  <2>6. stack' \in Seq(Frame) /\ StackDiscipline'
    BY <1>0, <2>1, <2>2, <2>4, <2>5, PushJob, PushProperties DEF StackDiscipline
  <2>7. HeapStep
    BY <1>2, NoHeapStep DEF DrainTake, Quiet, IInv
  <2>8. hasError' \in BOOLEAN
    BY <1>2, Zenon DEF DrainTake
  <2>9. ControlType'
    BY <1>2, <2>3, <2>6, <2>8 DEF DrainTake, Quiet, histVars, IInv, ControlType
  <2>10. queue' = queue
    BY <1>2 DEF DrainTake, Quiet, heapVars
  <2>11. QED
    BY <2>3, <2>6, <2>7, <2>9, <2>10 DEF IInv, HeapStep, Moves
<1>3. CASE DrainEnd
  <2> DEFINE f == [Top("drain") EXCEPT !.i = 1]
  <2>1. /\ Running("drain") /\ queue' = <<>> /\ cursor' = 0
        /\ CallReport(<<f>> \o Tail(stack))
        /\ UNCHANGED <<prom, np, cell, nc, exposed, draining, cur, ret, slots,
                       uncatchable, hasError, status, ops, entries, histVars,
                       attached, follows>>
    BY <1>3 DEF DrainEnd, Replace
  <2>2. stack # <<>> /\ stack[1].kind = "drain"
    BY <2>1, StackFacts
  <2>3. draining
    <3>1. 1 \in 1..Len(stack)
      BY <1>0, <2>2, PopProperties
    <3>2. QED
      BY <1>0, <2>2, <3>1 DEF Disciplined
  <2>4. /\ Tail(stack) \in Seq(Frame) /\ Disciplined(Tail(stack), draining, cur)
        /\ \A k \in 1..Len(Tail(stack)) : Tail(stack)[k].kind # "drain"
    BY <1>0, <2>2, PopFrame, PopProperties
  <2>5. f \in Frame /\ f.kind = "drain"
    BY FrameTypes
  <2> HIDE DEF f
  <2>6. <<f>> \o Tail(stack) \in Seq(Frame) /\ Disciplined(<<f>> \o Tail(stack), TRUE, cur)
    BY <1>0, <2>4, <2>5, PushDrain, PushProperties
  <2>7. stack' \in Seq(Frame) /\ Disciplined(stack', TRUE, cur) /\ ucount' \in Nat
    BY <1>0, <2>1, <2>6, CallReportInv
  <2>8. queue' \in Seq(Job) /\ cursor' \in 0..Len(queue')
    BY <2>1
  <2>9. HeapInv' /\ Moves
    BY <1>3, <2>1, <2>7, <2>8 DEF IInv, HeapInv, HeapType, PromiseInv, SettledStay, Moves
  <2>10. ControlType'
    BY <2>1, <2>7 DEF IInv, ControlType, histVars
  <2>11. StackDiscipline'
    BY <2>1, <2>3, <2>7 DEF StackDiscipline
  <2>12. QED
    BY <2>8, <2>9, <2>10, <2>11 DEF IInv
<1>4. CASE DrainReturn
  <2>1. Running("drain") /\ stack' = Tail(stack) /\ cur' = cur /\ cursor' = cursor
    BY <1>4 DEF DrainReturn
  <2>2. draining' \in BOOLEAN
    BY <1>4, Zenon DEF DrainReturn
  <2>3. stack # <<>> /\ stack[1].kind = "drain"
    BY <2>1, StackFacts
  <2>4. stack' \in Seq(Frame) /\ StackDiscipline'
    BY <1>0, <2>1, <2>2, <2>3, PopFrame, PopProperties DEF StackDiscipline
  <2>5. HeapStep
    BY <1>4, NoHeapStep DEF DrainReturn, Quiet, IInv
  <2>6. ControlType'
    BY <1>4, <2>2, <2>4 DEF DrainReturn, Quiet, histVars, IInv, ControlType
  <2>7. QED
    BY <2>1, <2>4, <2>5, <2>6, Keep
<1>5. QED
  BY <1>1, <1>2, <1>3, <1>4

(* A job's handler is dispatched, and returns.                             *)
LEMMA JobStepInv ==
    ASSUME IInv, HeapStep, NEW from \in JobFrames, NEW to \in JobFrames,
           Running(from), stack' = Replace(Top(to)),
           to = "thenable" => cur.handler.kind = "thenable",
           UNCHANGED <<cursor, draining, cur, status, entries, reported, aborted>>,
           exposed' \subseteq Cell, attached' \subseteq Promise, ret' \in Value,
           hasError' \in BOOLEAN, uncatchable' \in BOOLEAN, raised' \in BOOLEAN,
           ops' \in 0..MaxOps
    PROVE  IInv' /\ Moves
<1>1. /\ stack \in Seq(Frame) /\ draining \in BOOLEAN /\ Disciplined(stack, draining, cur)
      /\ stack # <<>> /\ stack[1].kind \in JobFrames /\ Tail(stack) \in Seq(Frame)
  BY StackFacts
<1>2. Top(to) \in Frame /\ Top(to).kind = to
  BY FrameTypes DEF JobFrames
<1>3. /\ <<Top(to)>> \o Tail(stack) \in Seq(Frame)
      /\ Disciplined(<<Top(to)>> \o Tail(stack), draining, cur)
  BY <1>1, <1>2, ReplaceJob, PushProperties
<1>4. stack' \in Seq(Frame) /\ StackDiscipline'
  BY <1>3 DEF StackDiscipline, Replace
<1>5. ControlType'
  BY <1>4 DEF IInv, ControlType
<1>6. QED
  BY <1>4, <1>5, Keep

LEMMA JobFacts ==
    ASSUME IInv
    PROVE  /\ ret \in Value /\ exposed \subseteq Cell /\ attached \subseteq Promise
           /\ hasError \in BOOLEAN /\ uncatchable \in BOOLEAN /\ raised \in BOOLEAN
           /\ ops \in 0..MaxOps
           /\ cur.arg \in Value /\ cur.downstream \in Downstream
           /\ cur.handler.kind \in {"resolve", "reject", "thenable"} =>
                cur.handler.cell \in Cell
<1>1. cur \in Job \cup {NoJob}
  BY DEF IInv, ControlType
<1>2. NoJob.arg \in Value /\ NoJob.downstream \in Downstream
      /\ NoJob.handler.kind = "undefined"
  BY DEF NoJob, Value, Downstream, NoDownstream, Plainly
<1>3. \A j \in Job :
        /\ j.arg \in Value /\ j.downstream \in Downstream
        /\ j.handler.kind \in {"resolve", "reject", "thenable"} => j.handler.cell \in Cell
  BY DEF Job, Callable, Closure, Resolving, Adopting
<1>4. /\ cur.arg \in Value /\ cur.downstream \in Downstream
      /\ cur.handler.kind \in {"resolve", "reject", "thenable"} => cur.handler.cell \in Cell
  BY <1>1, <1>2, <1>3
<1>5. QED
  BY <1>4 DEF IInv, ControlType

LEMMA DispatchInv ==
    ASSUME IInv,
           \/ RunScriptHandler \/ RunIdentity \/ RunThrower \/ RunResolvingFn
           \/ RunNativeThenable \/ RunScriptThenable
    PROVE  IInv' /\ Moves
<1>0. /\ "job" \in JobFrames /\ "handler" \in JobFrames /\ "after" \in JobFrames
      /\ "thenable" \in JobFrames
      /\ None \in Value
  BY DEF JobFrames, Value
<1>1. CASE RunScriptHandler
  <2>1. HeapStep
    BY <1>1, NoHeapStep DEF RunScriptHandler, Quiet, IInv
  <2>2. QED
    BY <1>0, <1>1, <2>1, JobFacts, JobStepInv
    DEF RunScriptHandler, JobStarts, Quiet, JobQuiet, histVars
<1>2. CASE RunIdentity
  <2>1. HeapStep
    BY <1>2, NoHeapStep DEF RunIdentity, Quiet, IInv
  <2>2. QED
    BY <1>0, <1>2, <2>1, JobFacts, JobStepInv
    DEF RunIdentity, JobStarts, Quiet, JobQuiet, histVars
<1>3. CASE RunThrower
  <2>1. HeapStep
    BY <1>3, NoHeapStep DEF RunThrower, Quiet, IInv
  <2>2. hasError' \in BOOLEAN
    BY <1>3, Zenon DEF RunThrower
  <2>3. QED
    BY <1>0, <1>3, <2>1, <2>2, JobFacts, JobStepInv
    DEF RunThrower, JobStarts, Quiet, JobQuiet, histVars
<1>4. CASE RunResolvingFn
  <2>1. Running("job") /\ HeapStep
    BY <1>4, JobFacts, CallResolveStep, CallRejectStep DEF RunResolvingFn, JobStarts, IInv
  <2>2. QED
    BY <1>0, <1>4, <2>1, JobFacts, JobStepInv DEF RunResolvingFn, JobQuiet, histVars
<1>5. CASE RunNativeThenable
  <2>1. cur.handler.cell \in Cell
    BY <1>5, JobFacts DEF RunNativeThenable, JobStarts
  <2>2. ResolveFn(cur.handler.cell) \in Handler /\ RejectFn(cur.handler.cell) \in Handler
    BY <2>1 DEF ResolveFn, RejectFn, Handler, Callable, Resolving
  <2>3. /\ cur.handler.resolution \in Promise
        /\ Then(cur.handler.resolution, ResolveFn(cur.handler.cell),
                RejectFn(cur.handler.cell), FALSE)
    BY <1>5 DEF RunNativeThenable
  <2>4. HeapStep
    BY <2>2, <2>3, ThenStep DEF IInv
  <2>5. attached' \subseteq Promise
    BY <2>3, JobFacts DEF Then
  <2>6. QED
    BY <1>0, <1>5, <2>4, <2>5, JobFacts, JobStepInv
    DEF RunNativeThenable, JobStarts, JobQuiet, histVars
<1>6. CASE RunScriptThenable
  <2>1. HeapStep
    BY <1>6, NoHeapStep DEF RunScriptThenable, IInv
  <2>2. exposed' \subseteq Cell
    BY <1>6, JobFacts DEF RunScriptThenable, JobStarts
  <2>3. QED
    BY <1>0, <1>6, <2>1, <2>2, JobFacts, JobStepInv
    DEF RunScriptThenable, JobStarts, JobQuiet, histVars
<1>7. QED
  BY <1>1, <1>2, <1>3, <1>4, <1>5, <1>6

LEMMA HandlerInv ==
    ASSUME IInv, HandlerEnd \/ ThenableEnd
    PROVE  IInv' /\ Moves
<1>0. /\ "handler" \in JobFrames /\ "after" \in JobFrames /\ "thenable" \in JobFrames
      /\ "after" # "thenable"
      /\ None \in Value /\ Error \in Value /\ Interrupted \in Value
      /\ Plain \subseteq Value /\ ScriptValue \subseteq Value
  BY BoundsAssumption DEF JobFrames, Value, ScriptValue, Born, Promise, IInv, HeapInv, HeapType
<1>1. CASE HandlerEnd
  <2>1. HeapStep
    BY <1>1, NoHeapStep DEF HandlerEnd, IInv
  <2>2. ret' \in Value
    BY <1>0, <1>1 DEF HandlerEnd
  <2>3. hasError' \in BOOLEAN /\ uncatchable' \in BOOLEAN /\ raised' \in BOOLEAN
    BY <1>1, JobFacts, Zenon DEF HandlerEnd
  <2>4. ops' \in 0..MaxOps
    BY <1>1, JobFacts, BoundsAssumption DEF HandlerEnd
  <2>5. QED
    BY <1>0, <1>1, <2>1, <2>2, <2>3, <2>4, JobFacts, JobStepInv DEF HandlerEnd
<1>2. CASE ThenableEnd
  <2>1. cur.handler.kind = "thenable"
    <3>1. Running("thenable")
      BY <1>2 DEF ThenableEnd
    <3>2. stack # <<>> /\ stack[1].kind = "thenable" /\ stack \in Seq(Frame)
      BY <3>1, StackFacts
    <3>3. 1 \in 1..Len(stack)
      BY <3>2, PopProperties
    <3>4. QED
      BY <3>2, <3>3 DEF IInv, StackDiscipline, Disciplined
  <2>2. cur.handler.cell \in Cell
    BY <2>1, JobFacts
  <2>3. HeapStep
    BY <1>0, <1>2, <2>2, NoHeapStep, CallRejectStep DEF ThenableEnd, IInv
  <2>4. hasError' \in BOOLEAN /\ uncatchable' \in BOOLEAN /\ raised' \in BOOLEAN
    BY <1>2, JobFacts, Zenon DEF ThenableEnd
  <2>5. QED
    BY <1>0, <1>2, <2>3, <2>4, JobFacts, JobStepInv DEF ThenableEnd
<1>3. QED
  BY <1>1, <1>2

LEMMA MicrotaskAfterStep ==
    ASSUME HeapInv, NEW ds \in Downstream, ret \in Value, hasError \in BOOLEAN,
           MicrotaskAfter(ds)
    PROVE  HeapStep /\ hasError' \in BOOLEAN
<1>1. CASE ds.cell # None
  <2>1. ds.cell \in Cell
    BY <1>1 DEF Downstream, NoDownstream
  <2>2. CallRejectFn(ds.cell, ret) \/ CallResolveFn(ds.cell, ret)
    BY <1>1 DEF MicrotaskAfter
  <2>3. hasError' \in BOOLEAN
    BY <1>1, Zenon DEF MicrotaskAfter
  <2>4. QED
    BY <2>1, <2>2, <2>3, CallRejectStep, CallResolveStep
<1>2. CASE ds.cell = None /\ ds.promise # None /\ IsPending(ds.promise)
  <2>1. ds.promise \in Promise
    BY <1>2 DEF Downstream, NoDownstream
  <2>2. \/ PromiseSettle(ds.promise, "rejected", ret) /\ UNCHANGED <<np, cell, nc, follows>>
        \/ ResolveWithValue(ds.promise, ret, cell)
    BY <1>2 DEF MicrotaskAfter
  <2>3. cell \in [Cell -> [target : Promise, called : BOOLEAN]]
    BY DEF HeapInv, HeapType
  <2>4. HeapStep
    <3>1. CASE PromiseSettle(ds.promise, "rejected", ret) /\ UNCHANGED <<np, cell, nc, follows>>
      BY <2>1, <3>1, SettleStep DEF HeapStep, HeapInv, HeapType, Settled
    <3>2. CASE ResolveWithValue(ds.promise, ret, cell)
      BY <2>1, <2>3, <3>2, ResolveStep
    <3>3. QED
      BY <2>2, <3>1, <3>2
  <2>5. hasError' \in BOOLEAN
    BY <1>2, Zenon DEF MicrotaskAfter
  <2>6. QED
    BY <2>4, <2>5
<1>3. CASE ds.cell = None /\ ~(ds.promise # None /\ IsPending(ds.promise))
  <2>1. UNCHANGED <<heapVars, hasError>>
    BY <1>3 DEF MicrotaskAfter
  <2>2. QED
    BY <2>1, NoHeapStep
<1>4. QED
  BY <1>1, <1>2, <1>3

(* A job is over.                                                          *)
LEMMA JobOverStack ==
    ASSUME IInv, Running("after")
    PROVE  Tail(stack) \in Seq(Frame) /\ Disciplined(Tail(stack), draining, NoJob)
<1>1. /\ stack \in Seq(Frame) /\ draining \in BOOLEAN /\ Disciplined(stack, draining, cur)
      /\ stack # <<>> /\ stack[1].kind = "after" /\ Tail(stack) \in Seq(Frame)
  BY StackFacts
<1>2. "after" \in JobFrames
  BY DEF JobFrames
<1>3. QED
  BY <1>1, <1>2, PopFrame

LEMMA JobOverInv ==
    ASSUME IInv, JobAfter \/ JobAborts
    PROVE  IInv' /\ Moves
<1>0. None \in Value
  BY DEF Value
<1>1. CASE JobAfter
  <2>1. HeapStep /\ hasError' \in BOOLEAN
    BY <1>1, JobFacts, MicrotaskAfterStep DEF JobAfter, IInv
  <2>2. Running("after") /\ stack' = Tail(stack) /\ cur' = NoJob /\ draining' = draining
    BY <1>1 DEF JobAfter
  <2>3. stack' \in Seq(Frame) /\ StackDiscipline'
    BY <2>2, JobOverStack DEF StackDiscipline
  <2>4. ControlType' /\ cursor' = cursor
    BY <1>0, <1>1, <2>1, <2>3 DEF JobAfter, histVars, IInv, ControlType
  <2>5. QED
    BY <2>1, <2>3, <2>4, Keep
<1>2. CASE JobAborts
  <2>1. HeapStep /\ queue' = queue
    BY <1>2, NoHeapStep DEF JobAborts, Quiet, IInv, heapVars
  <2>2. Running("after") /\ stack' = Tail(stack) /\ cur' = NoJob /\ draining' = draining
    BY <1>2 DEF JobAborts
  <2>3. stack' \in Seq(Frame) /\ StackDiscipline'
    BY <2>2, JobOverStack DEF StackDiscipline
  <2>4. aborted' \in BOOLEAN
    BY <1>2, Zenon DEF JobAborts
  <2>5. ControlType'
    BY <1>0, <1>2, <2>3, <2>4 DEF JobAborts, Quiet, IInv, ControlType
  <2>6. cursor' \in 0..Len(queue')
    BY <1>2, <2>1 DEF JobAborts, IInv, HeapInv, HeapType
  <2>7. QED
    BY <2>1, <2>3, <2>5, <2>6 DEF IInv, HeapStep, Moves
<1>3. QED
  BY <1>1, <1>2

(* Heap.report_unhandled_rejections.                                       *)
LEMMA FlagStep ==
    ASSUME HeapInv,
           prom' \in [Promise -> PromiseRec],
           \A q \in Promise : /\ prom'[q].state = prom[q].state
                              /\ prom'[q].result = prom[q].result
                              /\ prom'[q].reactions = prom[q].reactions,
           slots' \in [Promise -> Promise \cup {None}],
           UNCHANGED <<np, cell, nc, queue, ucount, follows>>
    PROVE  HeapStep
BY DEF HeapInv, HeapType, PromiseInv, HeapStep, QueueGrows, SettledStay

LEMMA FlagType ==
    ASSUME NEW q \in PromiseRec, NEW handled \in BOOLEAN
    PROVE  LET r == [q EXCEPT !.inRejectList = FALSE, !.isHandled = handled] IN
           /\ r \in PromiseRec /\ r.state = q.state /\ r.result = q.result
           /\ r.reactions = q.reactions
BY DEF PromiseRec

LEMMA ListType ==
    ASSUME NEW q \in PromiseRec
    PROVE  LET r == [q EXCEPT !.inRejectList = FALSE] IN
           /\ r \in PromiseRec /\ r.state = q.state /\ r.result = q.result
           /\ r.reactions = q.reactions
BY DEF PromiseRec

LEMMA ReportInv ==
    ASSUME IInv, ReportSkip \/ ReportCall \/ TrackerReturn \/ ReportReturn
    PROVE  IInv' /\ Moves
<1>0. /\ stack \in Seq(Frame) /\ draining \in BOOLEAN /\ Disciplined(stack, draining, cur)
      /\ prom \in [Promise -> PromiseRec] /\ slots \in [Promise -> Promise \cup {None}]
      /\ reported \in [Promise -> Nat] /\ HeapInv
      /\ None \in Promise \cup {None}
  BY StackFacts DEF IInv, HeapInv, HeapType, ControlType
<1>1. /\ ReportQuiet
      /\ UNCHANGED <<np, cell, nc, queue, ucount, follows, draining, cur, cursor>>
  BY DEF ReportSkip, ReportCall, TrackerReturn, ReportReturn, ReportQuiet, drainVars
<1>2. ASSUME HeapStep, stack' \in Seq(Frame), Disciplined(stack', draining, cur),
             reported' \in [Promise -> Nat]
      PROVE  IInv' /\ Moves
  <2>1. StackDiscipline'
    BY <1>1, <1>2 DEF StackDiscipline
  <2>2. ControlType'
    BY <1>1, <1>2 DEF ReportQuiet, drainVars, IInv, ControlType
  <2>3. QED
    BY <1>1, <1>2, <2>1, <2>2, Keep
<1>3. \A f \in Frame : f.kind = "report" =>
        /\ [f EXCEPT !.i = f.i + 1] \in Frame
        /\ [f EXCEPT !.i = f.i + 1].kind \in PlainFrames
  BY DEF Frame, PlainFrames
<1>4. Running("report") =>
        /\ stack # <<>> /\ Head(stack) = stack[1] /\ stack[1] \in Frame
        /\ stack[1].kind = "report"
        /\ Tail(stack) \in Seq(Frame) /\ Disciplined(Tail(stack), draining, cur)
  <2>1. "report" \notin JobFrames \cup {"drain"}
    BY DEF JobFrames
  <2>2. QED
    BY <2>1, StackFacts
<1>5. ASSUME NEW q \in Promise, NEW r \in PromiseRec,
             prom' = [prom EXCEPT ![q] = r],
             r.state = prom[q].state, r.result = prom[q].result,
             r.reactions = prom[q].reactions,
             slots' \in [Promise -> Promise \cup {None}]
      PROVE  HeapStep
  <2>1. \A p \in Promise : prom'[p] = IF p = q THEN r ELSE prom[p]
    BY <1>0, <1>5
  <2>2. prom' \in [Promise -> PromiseRec]
    BY <1>0, <1>5, UpdateType
  <2>3. QED
    BY <1>0, <1>1, <1>5, <2>1, <2>2, FlagStep
<1>6. CASE ReportSkip
  <2> DEFINE i == stack[1].i
             p == slots[i + 1]
             f == [stack[1] EXCEPT !.i = stack[1].i + 1]
  <2>1. /\ Running("report") /\ UNCHANGED reported
        /\ stack' = <<f>> \o Tail(stack)
        /\ slots' = [slots EXCEPT ![i + 1] = None]
        /\ prom' = IF p = None THEN prom ELSE [prom EXCEPT ![p].inRejectList = FALSE]
    BY <1>4, <1>6 DEF ReportSkip, NextEntry, Replace
  <2>2. slots' \in [Promise -> Promise \cup {None}]
    BY <1>0, <2>1, UpdateType
  <2>3. HeapStep
    <3>1. CASE prom' = prom
      BY <1>0, <1>1, <2>2, <3>1, FlagStep
    <3>2. CASE p \in Promise /\ prom' = [prom EXCEPT ![p].inRejectList = FALSE]
      <4> DEFINE r == [prom[p] EXCEPT !.inRejectList = FALSE]
      <4>1. /\ r \in PromiseRec /\ r.state = prom[p].state /\ r.result = prom[p].result
            /\ r.reactions = prom[p].reactions
        <5>1. prom[p] \in PromiseRec
          BY <1>0, <3>2
        <5>2. QED
          BY <5>1, ListType, Zenon
      <4>2. prom' = [prom EXCEPT ![p] = r]
        BY <3>2
      <4> HIDE DEF r, p
      <4>3. QED
        BY <1>5, <2>2, <3>2, <4>1, <4>2
    <3>3. CASE p \notin Promise /\ prom' = [prom EXCEPT ![p].inRejectList = FALSE]
      <4>1. prom' = prom
        BY <1>0, <3>3
      <4>2. QED
        BY <3>1, <4>1
    <3>4. QED
      BY <2>1, <3>1, <3>2, <3>3
  <2>4. f \in Frame /\ f.kind \in PlainFrames
    BY <1>3, <1>4, <2>1
  <2> HIDE DEF f
  <2>5. stack' \in Seq(Frame) /\ Disciplined(stack', draining, cur)
    BY <1>4, <2>1, <2>4, PushTop
  <2>6. QED
    BY <1>0, <1>2, <2>1, <2>3, <2>5
<1>7. CASE ReportCall
  <2> DEFINE p == slots[stack[1].i + 1]
  <2>1. /\ Running("report") /\ UNCHANGED slots
        /\ stack' = <<Top("tracker")>> \o stack
        /\ prom' = [prom EXCEPT ![p].inRejectList = FALSE, ![p].isHandled = TRUE]
        /\ reported' = [reported EXCEPT ![p] = reported[p] + 1]
    BY <1>4, <1>7 DEF ReportCall, Push
  <2>2. HeapStep
    <3>1. CASE p \in Promise
      <4> DEFINE r == [prom[p] EXCEPT !.inRejectList = FALSE, !.isHandled = TRUE]
      <4>1. /\ r \in PromiseRec /\ r.state = prom[p].state /\ r.result = prom[p].result
            /\ r.reactions = prom[p].reactions
        <5>1. prom[p] \in PromiseRec
          BY <1>0, <3>1
        <5>2. QED
          BY <5>1, FlagType, Zenon
      <4>2. prom' = [prom EXCEPT ![p] = r]
        BY <1>0, <2>1, <3>1
      <4> HIDE DEF r, p
      <4>3. QED
        BY <1>0, <1>5, <2>1, <3>1, <4>1, <4>2
    <3>2. CASE p \notin Promise
      <4>1. prom' = prom
        BY <1>0, <2>1, <3>2
      <4>2. QED
        BY <1>0, <1>1, <2>1, <4>1, FlagStep
    <3>3. QED
      BY <3>1, <3>2
  <2>3. Top("tracker") \in Frame /\ Top("tracker").kind = "tracker"
    BY FrameTypes
  <2>4. stack' \in Seq(Frame) /\ Disciplined(stack', draining, cur)
    <3>1. Disciplined(<<Top("tracker")>> \o stack, draining, cur)
      BY <1>0, <1>4, <2>1, <2>3, PushPlain
    <3>2. <<Top("tracker")>> \o stack \in Seq(Frame)
      BY <1>0, <2>3
    <3>3. QED
      BY <2>1, <3>1, <3>2
  <2>5. reported' \in [Promise -> Nat]
    <3> HIDE DEF p
    <3>1. CASE p \in Promise
      <4>1. reported[p] + 1 \in Nat
        BY <1>0, <3>1
      <4>2. QED
        BY <1>0, <2>1, <4>1, UpdateType
    <3>2. CASE p \notin Promise
      <4>1. reported' = reported
        BY <1>0, <2>1, <3>2
      <4>2. QED
        BY <1>0, <4>1
    <3>3. QED
      BY <3>1, <3>2
  <2>6. QED
    BY <1>2, <2>2, <2>4, <2>5
<1>8. CASE TrackerReturn
  <2>1. /\ stack # <<>> /\ stack[1].kind = "tracker" /\ Tail(stack) \in Seq(Frame)
        /\ Disciplined(Tail(stack), draining, cur)
    <3>1. Running("tracker") /\ "tracker" \notin JobFrames \cup {"drain"}
      BY <1>8 DEF TrackerReturn, JobFrames
    <3>2. QED
      BY <3>1, StackFacts
  <2>2. Len(stack) \in Nat /\ Len(stack) >= 2 /\ stack[2].kind = "report"
    <3>1. 1 \in 1..Len(stack) /\ Len(stack) \in Nat
      BY <1>0, <2>1, PopProperties
    <3>2. QED
      BY <1>0, <2>1, <3>1 DEF Disciplined
  <2>3. /\ Tail(stack) # <<>> /\ Tail(stack)[1] = stack[2] /\ stack[2] \in Frame
    <3>1. Len(Tail(stack)) = Len(stack) - 1 /\ Len(Tail(stack)) >= 1
      BY <1>0, <2>1, <2>2, PopProperties
    <3>2. 1 \in 1..Len(Tail(stack)) /\ 2 \in 1..Len(stack)
      BY <2>2, <3>1
    <3>3. \A k \in 1..Len(Tail(stack)) : Tail(stack)[k] = stack[k + 1]
      BY <1>0, <2>1, PopProperties
    <3>4. Tail(stack)[1] = stack[2] /\ stack[2] \in Frame
      BY <1>0, <3>2, <3>3
    <3>5. Tail(stack) # <<>>
      BY <3>1
    <3>6. QED
      BY <3>4, <3>5
  <2>4. Tail(Tail(stack)) \in Seq(Frame) /\ Disciplined(Tail(Tail(stack)), draining, cur)
    <3>1. Tail(stack)[1].kind \notin JobFrames \cup {"drain"}
      BY <2>2, <2>3 DEF JobFrames
    <3> DEFINE t == Tail(stack)
    <3>2. t \in Seq(Frame) /\ t # <<>> /\ Disciplined(t, draining, cur)
          /\ t[1].kind \notin JobFrames /\ t[1].kind # "drain"
      BY <2>1, <2>3, <3>1
    <3> HIDE DEF t
    <3>3. Tail(t) \in Seq(Frame) /\ Disciplined(Tail(t), draining, cur)
      BY <1>0, <3>2, PopFrame, PopProperties
    <3>4. QED
      BY <3>3 DEF t
  <2> DEFINE f == [stack[2] EXCEPT !.i = stack[2].i + 1]
  <2>5. /\ stack' = <<f>> \o Tail(Tail(stack))
        /\ slots' = [slots EXCEPT ![stack[2].i + 1] = None]
        /\ UNCHANGED <<prom, reported>>
    BY <1>8 DEF TrackerReturn
  <2>6. f \in Frame /\ f.kind \in PlainFrames
    BY <1>3, <2>2, <2>3
  <2> HIDE DEF f
  <2>7. stack' \in Seq(Frame) /\ Disciplined(stack', draining, cur)
    BY <2>4, <2>5, <2>6, PushTop
  <2>8. slots' \in [Promise -> Promise \cup {None}]
    BY <1>0, <2>5, UpdateType
  <2>9. HeapStep
    BY <1>0, <1>1, <2>5, <2>8, FlagStep
  <2>10. QED
    BY <1>0, <1>2, <2>5, <2>7, <2>9
<1>9. CASE ReportReturn
  <2>1. HeapStep
    BY <1>0, <1>1, <1>9, FlagStep DEF ReportReturn
  <2>2. stack' \in Seq(Frame) /\ Disciplined(stack', draining, cur)
    BY <1>4, <1>9 DEF ReportReturn
  <2>3. QED
    BY <1>0, <1>2, <1>9, <2>1, <2>2 DEF ReportReturn
<1>10. QED
  BY <1>6, <1>7, <1>8, <1>9

-----------------------------------------------------------------------------
(* The theorems.                                                           *)

LEMMA StutterInv ==
    ASSUME IInv, UNCHANGED vars
    PROVE  IInv' /\ Moves
<1>1. HeapStep
  BY NoHeapStep DEF IInv, vars, heapVars
<1>2. ControlType' /\ StackDiscipline' /\ cursor' = cursor
  BY DEF IInv, vars, ControlType, StackDiscipline
<1>3. QED
  BY <1>1, <1>2, Keep

(* Every step keeps the inductive invariant and every settled promise.     *)
LEMMA NextInv ==
    ASSUME IInv, [Next]_vars
    PROVE  IInv' /\ Moves
BY StutterInv, ScriptInv, HostInv, EvalInv, DrainInv, DispatchInv, HandlerInv,
   JobOverInv, ReportInv DEF Next, EngineStep

LEMMA Invariance == Spec => []IInv
<1>1. Init => IInv
  BY InitInv
<1>2. IInv /\ [Next]_vars => IInv'
  BY NextInv
<1>3. QED
  BY <1>1, <1>2, PTL DEF Spec

(* Every variable keeps its type, whatever the bounds and the environment: *)
(* in particular the cursor stays within the queue, every queued job has a *)
(* callable handler, and every capability on a job or reaction exists.     *)
THEOREM TypeCorrect == Spec => []TypeOK
<1>1. IInv => TypeOK
  BY TypeFromInv
<1>2. QED
  BY <1>1, Invariance, PTL

(* The re-entrancy guard of drain_microtasks admits one drain and one job, *)
(* however script, trackers and combinators nest.                          *)
THEOREM DrainsNeverNest == Spec => []StackDiscipline
<1>1. IInv => StackDiscipline
  BY DEF IInv
<1>2. QED
  BY <1>1, Invariance, PTL

(* No reaction is ever left on a settled promise.                          *)
THEOREM ReactionsNeverStrand == Spec => []NoStrandedReactions
<1>1. IInv => NoStrandedReactions
  BY BoundsAssumption
  DEF IInv, HeapInv, HeapType, PromiseInv, NoStrandedReactions, Born, Promise, IsPending
<1>2. QED
  BY <1>1, Invariance, PTL

(* A promise settles at most once, and for good.                           *)
THEOREM SettleOnce == Spec => SettledForGood
<1>1. IInv /\ [Next]_vars => [SettledStay]_vars
  BY NextInv DEF Moves
<1>2. [SettledStay]_vars =>
        [\A p \in Promise : prom[p].state \in Settled =>
            prom'[p].state = prom[p].state /\ prom'[p].result = prom[p].result]_vars
  BY DEF SettledStay
<1>3. QED
  BY <1>1, <1>2, Invariance, PTL DEF Spec, SettledForGood

-----------------------------------------------------------------------------
(* The queue implements JobQueue.                                          *)

(* A drain that has reset the queue is still on the stack.                 *)
Over(s) == \E k \in 1..Len(s) : s[k].kind = "drain" /\ s[k].i # 0

(* The cursor is set only while the loop it belongs to runs.               *)
CursorInv == ~draining \/ Over(stack) => cursor = 0

LEMMA OverPush ==
    ASSUME NEW s \in Seq(Frame), NEW f \in Frame
    PROVE  Over(<<f>> \o s) <=> (f.kind = "drain" /\ f.i # 0) \/ Over(s)
<1> DEFINE t == <<f>> \o s
<1>1. /\ Len(t) = Len(s) + 1 /\ t[1] = f /\ Len(s) \in Nat
      /\ \A k \in 1..Len(s) : t[k + 1] = s[k]
  BY PushProperties
<1> HIDE DEF t
<1>2. \A k \in 1..Len(t) : k = 1 \/ (k - 1 \in 1..Len(s) /\ t[k] = s[k - 1])
  BY <1>1
<1>3. Over(t) => (f.kind = "drain" /\ f.i # 0) \/ Over(s)
  BY <1>1, <1>2 DEF Over
<1>4. (f.kind = "drain" /\ f.i # 0) => Over(t)
  BY <1>1 DEF Over
<1>5. Over(s) => Over(t)
  <2> SUFFICES ASSUME Over(s) PROVE Over(t)
    OBVIOUS
  <2>1. PICK k \in 1..Len(s) : s[k].kind = "drain" /\ s[k].i # 0
    BY DEF Over
  <2>2. k + 1 \in 1..Len(t) /\ t[k + 1] = s[k]
    BY <1>1
  <2>3. QED
    BY <2>1, <2>2 DEF Over
<1>6. QED
  BY <1>3, <1>4, <1>5 DEF t

LEMMA OverPop ==
    ASSUME NEW s \in Seq(Frame), s # <<>>
    PROVE  /\ Tail(s) \in Seq(Frame)
           /\ Over(Tail(s)) => Over(s)
<1>1. /\ Tail(s) \in Seq(Frame)
      /\ \A k \in 1..Len(Tail(s)) : k + 1 \in 1..Len(s) /\ Tail(s)[k] = s[k + 1]
  BY PopProperties
<1>2. QED
  BY <1>1 DEF Over

(* Only the loop itself moves the cursor or changes the current job.       *)
Elsewhere == cursor' = cursor /\ cur' = cur

LEMMA SameStack ==
    ASSUME CursorInv, Elsewhere, UNCHANGED <<draining, stack>>
    PROVE  CursorInv'
BY DEF CursorInv, Elsewhere, Over

LEMMA NoNewDrain ==
    ASSUME CursorInv, Elsewhere, UNCHANGED draining, Over(stack') => Over(stack)
    PROVE  CursorInv'
<1>1. CASE ~draining
  BY <1>1 DEF CursorInv, Elsewhere
<1>2. CASE draining
  BY <1>2 DEF CursorInv, Elsewhere
<1>3. QED
  BY <1>1, <1>2

LEMMA LoopRuns ==
    ASSUME IInv, stack # <<>>,
           \/ stack[1].kind \in JobFrames
           \/ stack[1].kind = "drain" /\ stack[1].i = 0
    PROVE  draining /\ ~Over(stack)
<1>1. /\ stack \in Seq(Frame) /\ Disciplined(stack, draining, cur)
      /\ Len(stack) \in Nat /\ 1 \in 1..Len(stack)
  BY StackFacts, PopProperties
<1>2. PICK j \in 1..Len(stack) : stack[j].kind = "drain" /\ stack[j].i = 0
  <2>1. CASE stack[1].kind = "drain" /\ stack[1].i = 0
    BY <1>1, <2>1
  <2>2. CASE stack[1].kind \in JobFrames
    <3>1. 2 \in 1..Len(stack) /\ stack[2].kind = "drain" /\ stack[2].i = 0
      BY <1>1, <2>2 DEF Disciplined
    <3>2. QED
      BY <3>1
  <2>3. QED
    BY <2>1, <2>2
<1>3. QED
  BY <1>1, <1>2 DEF Disciplined, Over

LEMMA OverReplace ==
    ASSUME IInv, stack # <<>>, NEW f \in Frame, f.kind # "drain"
    PROVE  Over(<<f>> \o Tail(stack)) => Over(stack)
BY StackFacts, OverPop, OverPush

LEMMA ControlStep ==
    ASSUME IInv, CursorInv, [Next]_vars
    PROVE  /\ CursorInv'
           /\ DrainTake \/ DrainEnd \/ JobAfter \/ JobAborts \/ Elsewhere
<1>0. /\ stack \in Seq(Frame)
      /\ \A kind \in {"script", "evaluated", "hostdrain", "enter", "job",
                      "handler", "thenable", "after", "report", "tracker"} :
            Top(kind) \in Frame /\ Top(kind).kind # "drain"
      /\ \A kind : Running(kind) => stack # <<>> /\ Head(stack) = stack[1]
                                    /\ stack[1].kind = kind /\ stack[1] \in Frame
  BY StackFacts, FrameTypes
<1>1. CASE \/ NewPromise \/ NewPromiseInterrupted \/ ScriptResolve \/ ScriptReject
           \/ ScriptThen \/ HostSettle \/ UNCHANGED vars
  <2>1. Elsewhere /\ UNCHANGED <<draining, stack>>
    BY <1>1 DEF NewPromise, NewPromiseInterrupted, ScriptResolve, ScriptReject,
       ScriptThen, HostSettle, ScriptOp, drainVars, vars, Elsewhere
  <2>2. QED
    BY <2>1, SameStack
<1>2. CASE SettlingCombinator \/ Eval \/ ReportCall
  <2>1. Elsewhere /\ UNCHANGED draining
    BY <1>2 DEF SettlingCombinator, Eval, ReportCall, ScriptOp, HostCall, ReportQuiet,
       drainVars, Elsewhere
  <2>2. \E kind \in {"enter", "script", "tracker"} : stack' = <<Top(kind)>> \o stack
    BY <1>2 DEF SettlingCombinator, Eval, ReportCall, Push
  <2>3. Over(stack') => Over(stack)
    BY <1>0, <2>2, OverPush
  <2>4. QED
    BY <2>1, <2>3, NoNewDrain
<1>3. CASE HostDrain
  <2>1. Elsewhere /\ UNCHANGED draining
    BY <1>3 DEF HostDrain, HostCall, drainVars, Elsewhere
  <2>2. stack' = <<Top("enter"), Top("hostdrain")>>
    BY <1>3 DEF HostDrain
  <2>3. ~Over(stack')
    BY <2>2 DEF Over, Top
  <2>4. QED
    BY <2>1, <2>3, NoNewDrain
<1>4. CASE ScriptEnd
  <2>1. Elsewhere /\ UNCHANGED draining /\ Running("script")
    BY <1>4 DEF ScriptEnd, drainVars, Elsewhere
  <2>2. PICK failed \in {0, 1} :
          stack' = <<Top("enter"), [kind |-> "evaluated", i |-> failed,
                                    n |-> IF hasError' THEN 1 ELSE 0]>> \o Tail(stack)
    BY <1>4 DEF ScriptEnd
  <2> DEFINE f == [kind |-> "evaluated", i |-> failed, n |-> IF hasError' THEN 1 ELSE 0]
  <2>3. f \in Frame /\ f.kind # "drain"
    BY DEF Frame
  <2> HIDE DEF f
  <2>4. Tail(stack) \in Seq(Frame) /\ (Over(Tail(stack)) => Over(stack))
    BY <1>0, <2>1, OverPop
  <2>5. stack' = <<Top("enter")>> \o (<<f>> \o Tail(stack))
    <3>1. Top("enter") \in Frame
      BY FrameTypes
    <3>2. stack' = <<Top("enter"), f>> \o Tail(stack)
      BY <2>2 DEF f
    <3>3. QED
      BY <2>3, <2>4, <3>1, <3>2, PushTwo
  <2>6. <<f>> \o Tail(stack) \in Seq(Frame) /\ (Over(<<f>> \o Tail(stack)) => Over(stack))
    BY <2>3, <2>4, OverPush, PushProperties
  <2>7. Over(stack') => Over(stack)
    BY <1>0, <2>5, <2>6, OverPush
  <2>8. QED
    BY <2>1, <2>7, NoNewDrain
<1>5. CASE EvalReturn \/ HostDrainReturn \/ ReportReturn
  <2>1. Elsewhere /\ UNCHANGED draining /\ stack # <<>> /\ stack' = Tail(stack)
    BY <1>5 DEF EvalReturn, HostDrainReturn, ReportReturn, Running, ReportQuiet,
       drainVars, Elsewhere
  <2>2. Over(stack') => Over(stack)
    BY <1>0, <2>1, OverPop
  <2>3. QED
    BY <2>1, <2>2, NoNewDrain
<1>6. CASE DrainEnter
  <2>1. Running("enter") /\ stack # <<>> /\ cur' = cur
    BY <1>0, <1>6 DEF DrainEnter
  <2>2. Tail(stack) \in Seq(Frame) /\ (Over(Tail(stack)) => Over(stack))
    BY <1>0, <2>1, OverPop
  <2>3. CASE draining
    <3>1. stack' = Tail(stack) /\ UNCHANGED <<draining, cursor>>
      BY <1>6, <2>3 DEF DrainEnter
    <3>2. Over(stack') => Over(stack)
      BY <2>2, <3>1
    <3>3. QED
      BY <2>1, <3>1, <3>2, NoNewDrain DEF Elsewhere
  <2>4. CASE ~draining
    <3>1. cursor' = 0 /\ cursor = 0
      BY <1>6, <2>4 DEF DrainEnter, CursorInv
    <3>2. QED
      BY <2>1, <3>1 DEF CursorInv, Elsewhere
  <2>5. QED
    BY <2>3, <2>4
<1>7. CASE DrainTake
  <2>1. /\ Running("drain") /\ Head(stack).i = 0 /\ draining' = draining
        /\ stack' = <<Top("job")>> \o stack
    BY <1>7 DEF DrainTake, Push
  <2>2. draining /\ ~Over(stack)
    BY <1>0, <2>1, LoopRuns
  <2>3. ~Over(stack')
    BY <1>0, <2>1, <2>2, OverPush
  <2>4. QED
    BY <1>7, <2>1, <2>2, <2>3 DEF CursorInv
<1>8. CASE DrainEnd
  BY <1>8 DEF DrainEnd, CursorInv
<1>9. CASE DrainReturn
  <2>1. /\ Running("drain") /\ Head(stack).i = 1 /\ Elsewhere
    BY <1>9 DEF DrainReturn, Elsewhere
  <2>2. Over(stack)
    <3>1. 1 \in 1..Len(stack) /\ stack[1].kind = "drain" /\ stack[1].i # 0
      BY <1>0, <2>1, PopProperties
    <3>2. QED
      BY <3>1 DEF Over
  <2>3. QED
    BY <2>1, <2>2 DEF CursorInv, Elsewhere
<1>10. CASE \/ RunScriptHandler \/ RunIdentity \/ RunThrower \/ RunResolvingFn
            \/ RunNativeThenable \/ RunScriptThenable \/ HandlerEnd \/ ThenableEnd
  <2>1. /\ Elsewhere /\ UNCHANGED draining /\ stack # <<>>
        /\ \E kind \in {"handler", "after", "thenable"} : stack' = <<Top(kind)>> \o Tail(stack)
    BY <1>10 DEF RunScriptHandler, RunIdentity, RunThrower, RunResolvingFn,
       RunNativeThenable, RunScriptThenable, HandlerEnd, ThenableEnd, JobStarts,
       JobQuiet, Running, Replace, Elsewhere
  <2>2. Over(stack') => Over(stack)
    BY <1>0, <2>1, OverReplace
  <2>3. QED
    BY <2>1, <2>2, NoNewDrain
<1>11. CASE JobAfter \/ JobAborts
  <2>1. /\ Running("after") /\ draining' = draining /\ stack' = Tail(stack)
    BY <1>11 DEF JobAfter, JobAborts
  <2>2. draining /\ ~Over(stack)
    BY <1>0, <2>1, LoopRuns DEF JobFrames
  <2>3. ~Over(stack')
    BY <1>0, <2>1, <2>2, OverPop
  <2>4. QED
    BY <1>11, <2>1, <2>2, <2>3 DEF CursorInv
<1>12. CASE ReportSkip
  <2>1. /\ Running("report") /\ Elsewhere /\ UNCHANGED draining
        /\ stack' = <<[Head(stack) EXCEPT !.i = Head(stack).i + 1]>> \o Tail(stack)
    BY <1>12 DEF ReportSkip, ReportQuiet, NextEntry, Replace, drainVars, Elsewhere
  <2> DEFINE f == [Head(stack) EXCEPT !.i = Head(stack).i + 1]
  <2>2. f \in Frame /\ f.kind # "drain"
    <3>1. Head(stack) \in Frame /\ Head(stack).kind = "report"
      BY <1>0, <2>1
    <3>2. QED
      BY <3>1 DEF Frame
  <2> HIDE DEF f
  <2>3. Over(stack') => Over(stack)
    BY <1>0, <2>1, <2>2, OverReplace DEF f
  <2>4. QED
    BY <2>1, <2>3, NoNewDrain
<1>13. CASE TrackerReturn
  <2>1. /\ Running("tracker") /\ Elsewhere /\ UNCHANGED draining
        /\ stack' = <<[stack[2] EXCEPT !.i = stack[2].i + 1]>> \o Tail(Tail(stack))
    BY <1>13 DEF TrackerReturn, ReportQuiet, drainVars, Elsewhere
  <2> DEFINE f == [stack[2] EXCEPT !.i = stack[2].i + 1]
  <2>2. /\ Len(stack) \in Nat /\ 2 \in 1..Len(stack) /\ stack[2].kind = "report"
        /\ stack[2] \in Frame
    <3>1. 1 \in 1..Len(stack) /\ Len(stack) \in Nat /\ stack[1].kind = "tracker"
      BY <1>0, <2>1, PopProperties
    <3>2. QED
      BY <1>0, <3>1 DEF IInv, StackDiscipline, Disciplined
  <2>3. f \in Frame /\ f.kind # "drain"
    BY <2>2 DEF Frame
  <2> HIDE DEF f
  <2>4. Tail(stack) \in Seq(Frame) /\ (Over(Tail(stack)) => Over(stack)) /\ Tail(stack) # <<>>
    <3>1. stack # <<>> /\ Len(Tail(stack)) = Len(stack) - 1
      BY <1>0, <2>1, PopProperties
    <3>2. Len(Tail(stack)) # 0
      BY <2>2, <3>1
    <3>3. Len(<<>>) = 0
      OBVIOUS
    <3>4. Tail(stack) # <<>>
      BY <3>2, <3>3, Zenon
    <3>5. QED
      BY <1>0, <3>1, <3>4, OverPop
  <2>5. Tail(Tail(stack)) \in Seq(Frame) /\ (Over(Tail(Tail(stack))) => Over(Tail(stack)))
    BY <2>4, OverPop
  <2>6. Over(stack') => Over(stack)
    BY <2>1, <2>3, <2>4, <2>5, OverPush DEF f
  <2>7. QED
    BY <2>1, <2>6, NoNewDrain
<1>14. QED
  BY <1>1, <1>2, <1>3, <1>4, <1>5, <1>6, <1>7, <1>8, <1>9, <1>10, <1>11, <1>12, <1>13
  DEF Next, ScriptStep, HostStep, EngineStep

(* What is pending as the queue grows behind a fixed cursor.               *)
LEMMA PendingFacts ==
    ASSUME NEW q \in Seq(Job), NEW c \in 0..Len(q)
    PROVE  LET s == SubSeq(q, c + 1, Len(q))
           IN /\ s \in Seq(Job)
              /\ Len(s) = Len(q) - c
              /\ \A k \in 1..(Len(q) - c) : s[k] = q[c + k]
<1>1. Len(q) \in Nat /\ c + 1 \in Int /\ \A i \in (c + 1)..Len(q) : q[i] \in Job
  OBVIOUS
<1> DEFINE s == SubSeq(q, c + 1, Len(q))
<1>2. /\ s \in Seq(Job)
      /\ Len(s) = IF c + 1 <= Len(q) THEN Len(q) - (c + 1) + 1 ELSE 0
      /\ \A i \in 1..(Len(q) - (c + 1) + 1) : s[i] = q[(c + 1) + i - 1]
  BY <1>1, SubSeqProperties
<1> HIDE DEF s
<1>3. Len(s) = Len(q) - c
  BY <1>1, <1>2
<1>4. ASSUME NEW k \in 1..(Len(q) - c)
      PROVE  s[k] = q[c + k]
  <2>1. k \in 1..(Len(q) - (c + 1) + 1) /\ (c + 1) + k - 1 = c + k
    BY <1>1
  <2>2. s[k] = q[(c + 1) + k - 1]
    BY <1>2, <2>1
  <2>3. QED
    BY <2>1, <2>2
<1>5. QED
  BY <1>2, <1>3, <1>4 DEF s

LEMMA PendingGrows ==
    ASSUME NEW q \in Seq(Job), NEW r \in Seq(Job), NEW c \in 0..Len(q),
           Len(r) >= Len(q), \A k \in 1..Len(q) : r[k] = q[k]
    PROVE  LET s == SubSeq(q, c + 1, Len(q))
               t == SubSeq(r, c + 1, Len(r))
           IN Len(t) >= Len(s) /\ \A k \in 1..Len(s) : t[k] = s[k]
<1>1. Len(q) \in Nat /\ Len(r) \in Nat /\ c \in Nat /\ c \in 0..Len(r)
  OBVIOUS
<1> DEFINE s == SubSeq(q, c + 1, Len(q))
           t == SubSeq(r, c + 1, Len(r))
<1>2. Len(s) = Len(q) - c /\ \A k \in 1..(Len(q) - c) : s[k] = q[c + k]
  BY PendingFacts
<1>3. Len(t) = Len(r) - c /\ \A k \in 1..(Len(r) - c) : t[k] = r[c + k]
  BY <1>1, PendingFacts
<1> HIDE DEF s, t
<1>4. ASSUME NEW k \in 1..Len(s)
      PROVE  t[k] = s[k]
  <2>1. k \in 1..(Len(q) - c) /\ k \in 1..(Len(r) - c) /\ c + k \in 1..Len(q)
    BY <1>1, <1>2
  <2>2. QED
    BY <1>2, <1>3, <2>1
<1>5. QED
  BY <1>1, <1>2, <1>3, <1>4 DEF s, t

LEMMA FifoStep ==
    ASSUME IInv, IInv', CursorInv, Moves, [Next]_vars
    PROVE  [Jobs!Next]_(Jobs!vars)
<1>0. /\ queue \in Seq(Job) /\ queue' \in Seq(Job) /\ Len(queue) \in Nat
      /\ cursor \in 0..Len(queue) /\ cursor \in Nat
      /\ stack \in Seq(Frame)
  BY DEF IInv, HeapInv, HeapType, ControlType
<1>1. Pending \in Seq(Job) /\ Len(Pending) = Len(queue) - cursor
  BY <1>0, PendingFacts DEF Pending
<1>2. QueueGrows /\ cursor' = cursor => Jobs!Grows
  <2> SUFFICES ASSUME QueueGrows, cursor' = cursor PROVE Jobs!Grows
    OBVIOUS
  <2> DEFINE q == queue
             r == queue'
  <2>1. /\ q \in Seq(Job) /\ r \in Seq(Job) /\ cursor \in 0..Len(q)
        /\ Len(r) >= Len(q) /\ \A k \in 1..Len(q) : r[k] = q[k]
    BY <1>0 DEF QueueGrows
  <2>2. Pending = SubSeq(q, cursor + 1, Len(q)) /\ Pending' = SubSeq(r, cursor + 1, Len(r))
    BY DEF Pending
  <2> HIDE DEF q, r
  <2>3. Len(Pending') >= Len(Pending) /\ \A k \in 1..Len(Pending) : Pending'[k] = Pending[k]
    BY <2>1, <2>2, PendingGrows
  <2>4. QED
    BY <2>3 DEF Jobs!Grows
<1>3. CASE Elsewhere /\ QueueGrows
  BY <1>2, <1>3 DEF Elsewhere, Jobs!Next, Jobs!Submit
<1>4. CASE DrainEnd
  <2>1. cursor = Len(queue) /\ queue' = <<>> /\ cursor' = 0 /\ cur' = cur
    BY <1>4 DEF DrainEnd
  <2>2. Len(Pending) = 0 /\ Len(Pending') = 0
    <3>1. Len(Pending) = 0
      BY <1>0, <1>1, <2>1
    <3>2. Pending' = SubSeq(<<>>, 1, 0)
      BY <2>1 DEF Pending
    <3>3. Pending' = <<>>
      BY <3>2, SubSeqEmpty
    <3>4. QED
      BY <3>1, <3>3
  <2>3. Jobs!Grows
    BY <2>2 DEF Jobs!Grows
  <2>4. QED
    BY <2>1, <2>3 DEF Jobs!Next, Jobs!Submit
<1>5. CASE DrainTake
  <2>1. /\ Running("drain") /\ Head(stack).i = 0 /\ cursor < Len(queue)
        /\ cur' = queue[cursor + 1] /\ cursor' = cursor + 1 /\ queue' = queue
    BY <1>5 DEF DrainTake, Quiet, heapVars
  <2>2. cur' \in Job
    BY <1>0, <2>1
  <2>3. cur' # NoJob
    BY <2>2 DEF Job, NoJob, Callable, Closure, Resolving, Adopting, Plainly
  <2>4. cur = NoJob
    <3>1. /\ stack # <<>> /\ stack[1].kind = "drain" /\ stack[1].i = 0
          /\ draining \in BOOLEAN /\ Disciplined(stack, draining, cur)
      BY <2>1, StackFacts
    <3>2. \A k \in 2..Len(stack) : stack[k].kind \notin JobFrames
      BY <1>0, <3>1, OneDrain, Zenon
    <3>3. \A k \in 1..Len(stack) : stack[k].kind \notin JobFrames
      BY <1>0, <3>1, <3>2 DEF JobFrames
    <3>4. QED
      BY <3>1, <3>3 DEF Disciplined
  <2>5. Pending # <<>>
    BY <1>0, <1>1, <2>1
  <2>6. Pending' = Tail(Pending)
    <3>1. cursor + 1 \in 1..Len(queue) /\ Len(queue) \in (cursor + 1)..Len(queue)
      BY <1>0, <2>1
    <3>2. Tail(SubSeq(queue, cursor + 1, Len(queue))) = SubSeq(queue, (cursor + 1) + 1, Len(queue))
      BY <1>0, <3>1, HeadTailOfSubSeq
    <3>3. QED
      BY <2>1, <3>2 DEF Pending
  <2>7. Jobs!Start
    BY <2>3, <2>4, <2>5, <2>6 DEF Jobs!Start
  <2>8. QED
    BY <2>7 DEF Jobs!Next
<1>6. CASE JobAfter \/ JobAborts
  <2>1. Running("after") /\ cur' = NoJob
    BY <1>6 DEF JobAfter, JobAborts
  <2>2. cur # NoJob
    <3>1. /\ stack # <<>> /\ stack[1].kind = "after" /\ Disciplined(stack, draining, cur)
      BY <2>1, StackFacts
    <3>2. 1 \in 1..Len(stack)
      BY <1>0, <3>1, PopProperties
    <3>3. QED
      BY <3>1, <3>2 DEF Disciplined, JobFrames
  <2>3. CASE JobAfter
    <3>1. cursor' = cursor
      BY <2>3 DEF JobAfter
    <3>2. ~DrainEnd
      BY <2>1 DEF DrainEnd, Running
    <3>3. Jobs!Finish
      BY <1>2, <2>1, <2>2, <3>1, <3>2 DEF Jobs!Finish, Moves
    <3>4. QED
      BY <3>3 DEF Jobs!Next
  <2>4. CASE JobAborts
    <3>1. cursor' = Len(queue) /\ queue' = queue
      BY <2>4 DEF JobAborts, Quiet, heapVars
    <3>2. Pending' = SubSeq(queue, Len(queue) + 1, Len(queue))
      BY <3>1 DEF Pending
    <3>3. Pending' = <<>>
      BY <1>0, <3>2, SubSeqEmpty
    <3>4. Jobs!Abort
      BY <2>1, <2>2, <3>3 DEF Jobs!Abort
    <3>5. QED
      BY <3>4 DEF Jobs!Next
  <2>5. QED
    BY <1>6, <2>3, <2>4
<1>7. QED
  BY <1>3, <1>4, <1>5, <1>6, ControlStep DEF Moves

(* The array, its count, the cursor and the guard flag together implement  *)
(* a first-in first-out queue of jobs run one at a time: JobQueue.         *)
THEOREM QueueImplementsJobQueue == Spec => JobsAreFifo
<1>1. Init => CursorInv /\ Jobs!Init
  <2> SUFFICES ASSUME Init PROVE CursorInv /\ Jobs!Init
    OBVIOUS
  <2>1. queue = <<>> /\ cursor = 0 /\ cur = NoJob
    BY DEF Init
  <2>2. Pending = <<>>
    BY <2>1, SubSeqEmpty DEF Pending
  <2>3. QED
    BY <2>1, <2>2 DEF CursorInv, Jobs!Init
<1>2. IInv /\ CursorInv /\ [Next]_vars => CursorInv'
  BY ControlStep
<1>3. IInv /\ IInv' /\ CursorInv /\ [Next]_vars => [Jobs!Next]_(Jobs!vars)
  BY NextInv, FifoStep
<1>4. QED
  BY <1>1, <1>2, <1>3, Invariance, PTL DEF Spec, JobsAreFifo, Jobs!Spec

=============================================================================
