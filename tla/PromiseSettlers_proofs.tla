----------------------- MODULE PromiseSettlers_proofs -----------------------
(***************************************************************************)
(* Who may settle a promise, and with what: proofs about PromiseJobs that  *)
(* need to know that functions, reactions, jobs and values refer only to   *)
(* promises that exist.  The first half proves that a pending promise has  *)
(* exactly one settler, the second that a promise that follows another     *)
(* ends as it did.                                                         *)
(***************************************************************************)
EXTENDS PromiseJobs_proofs, FiniteSetTheorems

(* Nothing refers to a promise above np.                                   *)

BornVal(v, n) == v \in Promise => v <= n

JobBorn(j, n) ==
    /\ BornVal(j.arg, n)
    /\ BornVal(j.handler.resolution, n)
    /\ j.downstream.promise <= n

ReactionBorn(r, n) ==
    /\ BornVal(r.onFulfilled.resolution, n)
    /\ BornVal(r.onRejected.resolution, n)
    /\ r.downstream.promise <= n

RecordBorn(q, n) ==
    /\ BornVal(q.result, n)
    /\ \A k \in 1..Len(q.reactions) : ReactionBorn(q.reactions[k], n)

PromScoped(ps, n) ==
    \A p \in Promise : /\ p > n => ps[p] = Unborn
                       /\ RecordBorn(ps[p], n)
CellScoped(cs, m, n) ==
    \A c \in Cell : IF c <= m THEN cs[c].target <= n ELSE cs[c].called
QueueScoped(q, n) == \A k \in 1..Len(q) : JobBorn(q[k], n)

FollowsBorn(f, n) == \A p \in Promise : f[p] <= n

HeapScoped ==
    /\ PromScoped(prom, np)
    /\ CellScoped(cell, nc, np)
    /\ QueueScoped(queue, np)

Scoped ==
    /\ HeapScoped
    /\ JobBorn(cur, np)
    /\ BornVal(ret, np)
    /\ attached \subseteq 1..np
    /\ FollowsBorn(follows, np)

(* What refers to the promises up to m refers to those up to n.            *)
LEMMA Grow ==
    ASSUME NEW m \in Nat, NEW n \in Nat, m <= n
    PROVE  /\ \A v \in Value : BornVal(v, m) => BornVal(v, n)
           /\ \A j \in Job \cup {NoJob} : JobBorn(j, m) => JobBorn(j, n)
           /\ \A q \in PromiseRec : RecordBorn(q, m) => RecordBorn(q, n)
           /\ \A q \in Seq(Job) : QueueScoped(q, m) => QueueScoped(q, n)
<1>1. \A v : BornVal(v, m) => BornVal(v, n)
  BY DEF BornVal, Promise
<1>2. \A d \in Downstream : d.promise \in Nat
  BY BoundsAssumption DEF Downstream, NoDownstream, Promise, None
<1>3. \A j \in Job \cup {NoJob} : JobBorn(j, m) => JobBorn(j, n)
  <2>1. \A j \in Job \cup {NoJob} : j.downstream \in Downstream
    BY DEF Job, NoJob, Downstream, NoDownstream
  <2>2. QED
    BY <1>1, <1>2, <2>1 DEF JobBorn
<1>4. \A r \in Reaction : ReactionBorn(r, m) => ReactionBorn(r, n)
  <2>1. \A r \in Reaction : r.downstream \in Downstream
    BY DEF Reaction
  <2>2. QED
    BY <1>1, <1>2, <2>1 DEF ReactionBorn
<1>5. \A q \in PromiseRec : RecordBorn(q, m) => RecordBorn(q, n)
  <2>1. \A q \in PromiseRec : \A k \in 1..Len(q.reactions) : q.reactions[k] \in Reaction
    BY DEF PromiseRec
  <2>2. QED
    BY <1>1, <1>4, <2>1 DEF RecordBorn
<1>6. \A q \in Seq(Job) : QueueScoped(q, m) => QueueScoped(q, n)
  BY <1>3 DEF QueueScoped
<1>7. QED
  BY <1>1, <1>3, <1>5, <1>6

LEMMA AtomsBorn ==
    ASSUME NEW n \in Nat
    PROVE  /\ BornVal(None, n) /\ BornVal(Error, n) /\ BornVal(Interrupted, n)
           /\ \A v \in Plain \cup Thenable \cup Poison : BornVal(v, n)
           /\ JobBorn(NoJob, n) /\ RecordBorn(Unborn, n) /\ RecordBorn(Fresh, n)
BY ValuesAssumption
DEF BornVal, JobBorn, NoJob, NoDownstream, Plainly, RecordBorn, Unborn, Fresh, None, Promise

(* The operations of the heap keep the scope.                              *)

LEMMA TriggerScoped ==
    ASSUME NEW rs \in Seq(Reaction), NEW state, NEW v \in Value, NEW n \in Nat,
           \A k \in 1..Len(rs) : ReactionBorn(rs[k], n), BornVal(v, n)
    PROVE  /\ TriggerReactions(rs, state, v) \in Seq(Job)
           /\ Len(TriggerReactions(rs, state, v)) = Len(rs)
           /\ QueueScoped(TriggerReactions(rs, state, v), n)
           /\ \A k \in 1..Len(rs) :
                TriggerReactions(rs, state, v)[k].downstream = rs[k].downstream
<1> DEFINE js == TriggerReactions(rs, state, v)
<1>1. js \in Seq(Job)
  BY TriggerReactionsType
<1>2. Len(rs) \in Nat /\ DOMAIN js = 1..Len(rs) /\ \A k \in 1..Len(rs) : js[k] = ReactionJob(rs[k], state, v)
  BY DEF TriggerReactions
<1>3. Len(js) = Len(rs)
  <2>1. Len(js) \in Nat /\ DOMAIN js = 1..Len(js)
    BY <1>1, LenProperties
  <2> HIDE DEF js
  <2>2. QED
    BY <1>2, <2>1
<1>4. \A r \in Reaction : ReactionBorn(r, n) =>
        /\ JobBorn(ReactionJob(r, state, v), n)
        /\ ReactionJob(r, state, v).downstream = r.downstream
  BY AtomsBorn DEF ReactionBorn, JobBorn, ReactionJob, Plainly
<1>5. \A k \in 1..Len(rs) : rs[k] \in Reaction
  OBVIOUS
<1> HIDE DEF js
<1>6. QED
  BY <1>1, <1>2, <1>3, <1>4, <1>5 DEF QueueScoped, js

LEMMA ConcatScoped ==
    ASSUME NEW q \in Seq(Job), NEW r \in Seq(Job), NEW n \in Nat,
           QueueScoped(q, n), QueueScoped(r, n)
    PROVE  QueueScoped(q \o r, n)
<1>1. /\ Len(q \o r) = Len(q) + Len(r) /\ Len(q) \in Nat /\ Len(r) \in Nat
      /\ \A k \in 1..Len(q \o r) : (q \o r)[k] = IF k <= Len(q) THEN q[k] ELSE r[k - Len(q)]
  BY ConcatProperties
<1> DEFINE t == q \o r
<1> HIDE DEF t
<1>2. \A k \in 1..Len(t) : t[k] = IF k <= Len(q) THEN q[k] ELSE r[k - Len(q)]
  BY <1>1 DEF t
<1>3. Len(t) = Len(q) + Len(r)
  BY <1>1 DEF t
<1>4. \A k \in 1..Len(t) : JobBorn(t[k], n)
  BY <1>1, <1>2, <1>3 DEF QueueScoped
<1>5. QED
  BY <1>4 DEF QueueScoped, t

(* The record a promise has once it is settled.                            *)
SettledRecord(q, state, v, listed) ==
    [q EXCEPT !.state = state, !.result = v, !.reactions = <<>>, !.inRejectList = listed]

LEMMA SettledRecordFacts ==
    \A q \in PromiseRec, state \in Settled, v \in Value, listed \in BOOLEAN :
        LET r == SettledRecord(q, state, v, listed)
        IN /\ r \in PromiseRec /\ r.state = state /\ r.result = v /\ r.reactions = <<>>
           /\ r.isHandled = q.isHandled /\ r.inRejectList = listed
<1>1. <<>> \in Seq(Reaction)
  OBVIOUS
<1>2. SUFFICES ASSUME NEW q \in PromiseRec, NEW state \in Settled, NEW v \in Value,
                      NEW listed \in BOOLEAN
               PROVE  LET r == SettledRecord(q, state, v, listed)
                      IN /\ r \in PromiseRec /\ r.state = state /\ r.result = v
                         /\ r.reactions = <<>>
                         /\ r.isHandled = q.isHandled /\ r.inRejectList = listed
  OBVIOUS
<1>3. QED
  BY <1>1 DEF SettledRecord, PromiseRec

(* What settling a pending promise does, record by record.                 *)
LEMMA SettleFacts ==
    ASSUME HeapInv, NEW p \in Promise, NEW state \in Settled, NEW v \in Value,
           PromiseSettle(p, state, v), IsPending(p)
    PROVE  /\ prom'[p] = SettledRecord(prom[p], state, v,
                            prom[p].inRejectList \/ Tracks(p, state))
           /\ \A q \in Promise : q # p => prom'[q] = prom[q]
           /\ queue' = queue \o TriggerReactions(prom[p].reactions, state, v)
           /\ prom[p] \in PromiseRec /\ prom[p].reactions \in Seq(Reaction)
           /\ prom' \in [Promise -> PromiseRec]
           /\ prom'[p].state = state /\ prom'[p].result = v /\ prom'[p].reactions = <<>>
<1>1. /\ prom' = [prom EXCEPT ![p] = SettledRecord(prom[p], state, v,
                            prom[p].inRejectList \/ Tracks(p, state))]
      /\ queue' = queue \o TriggerReactions(prom[p].reactions, state, v)
  BY DEF PromiseSettle, SettledRecord
<1>2. prom \in [Promise -> PromiseRec]
  BY DEF HeapInv, HeapType
<1>3. prom[p] \in PromiseRec /\ prom[p].reactions \in Seq(Reaction)
  BY <1>2 DEF PromiseRec
<1>4. prom' \in [Promise -> PromiseRec]
  BY SettleStep
<1>5. (prom[p].inRejectList \/ Tracks(p, state)) \in BOOLEAN
  OBVIOUS
<1> DEFINE listed == prom[p].inRejectList \/ Tracks(p, state)
<1>6. LET r == SettledRecord(prom[p], state, v, listed)
      IN r.state = state /\ r.result = v /\ r.reactions = <<>>
  <2> HIDE DEF listed
  <2>1. listed \in BOOLEAN
    BY <1>5 DEF listed
  <2>2. QED
    BY <1>3, <2>1, SettledRecordFacts
<1> HIDE DEF listed
<1>7. prom' = [prom EXCEPT ![p] = SettledRecord(prom[p], state, v, listed)]
  BY <1>1 DEF listed
<1>8. prom'[p] = SettledRecord(prom[p], state, v, listed)
      /\ \A q \in Promise : q # p => prom'[q] = prom[q]
  BY <1>2, <1>7
<1>9. QED
  BY <1>1, <1>3, <1>4, <1>6, <1>8 DEF listed

LEMMA SettleScoped ==
    ASSUME HeapInv, HeapScoped, NEW p \in Promise, NEW state \in Settled, NEW v \in Value,
           BornVal(v, np), PromiseSettle(p, state, v)
    PROVE  PromScoped(prom', np) /\ QueueScoped(queue', np)
<1>0. np \in Nat /\ queue \in Seq(Job)
  BY DEF HeapInv, HeapType
<1>1. CASE ~IsPending(p)
  BY <1>1 DEF PromiseSettle, HeapScoped
<1>2. CASE IsPending(p)
  <2>1. /\ prom'[p].result = v /\ prom'[p].reactions = <<>>
        /\ \A q \in Promise : q # p => prom'[q] = prom[q]
        /\ queue' = queue \o TriggerReactions(prom[p].reactions, state, v)
        /\ prom[p].reactions \in Seq(Reaction)
    BY <1>2, SettleFacts
  <2>2. p <= np
    BY <1>0, <1>2 DEF HeapScoped, PromScoped, IsPending, Unborn, Promise
  <2>3. PromScoped(prom', np)
    <3>1. RecordBorn(prom'[p], np)
      <4>1. Len(prom'[p].reactions) = 0
        BY <2>1
      <4>2. QED
        BY <2>1, <4>1 DEF RecordBorn
    <3>2. \A q \in Promise : q # p => (q > np => prom'[q] = Unborn) /\ RecordBorn(prom'[q], np)
      BY <2>1 DEF HeapScoped, PromScoped
    <3>3. ~(p > np)
      BY <1>0, <2>2 DEF Promise
    <3>4. QED
      BY <3>1, <3>2, <3>3 DEF PromScoped
  <2>4. /\ TriggerReactions(prom[p].reactions, state, v) \in Seq(Job)
        /\ QueueScoped(TriggerReactions(prom[p].reactions, state, v), np)
    BY <1>0, <2>1, TriggerScoped DEF HeapScoped, PromScoped, RecordBorn
  <2>5. QED
    BY <1>0, <2>1, <2>3, <2>4, ConcatScoped DEF HeapScoped
<1>3. QED
  BY <1>1, <1>2

LEMMA ResolveScoped ==
    ASSUME HeapInv, HeapScoped, NEW p \in Promise, NEW v \in Value, BornVal(v, np),
           p <= np,
           NEW cells \in [Cell -> [target : Promise, called : BOOLEAN]],
           CellScoped(cells, nc, np), ResolveWithValue(p, v, cells)
    PROVE  /\ HeapScoped' /\ np' = np /\ nc' >= nc /\ nc' \in Nat
           /\ (\A q \in Promise : follows[q] <= np) => \A q \in Promise : follows'[q] <= np
<1>0. np \in Nat /\ nc \in Nat /\ queue \in Seq(Job)
  BY DEF HeapInv, HeapType
<1>1. CASE IsPending(p) /\ v # p /\ v \in Promise \cup Thenable
  <2> DEFINE j == [handler |-> ThenableJob(nc + 1, v), arg |-> None,
                   downstream |-> NoDownstream]
             c2 == [target |-> p, called |-> FALSE]
             f == IF v \in Promise THEN v ELSE None
  <2>1. /\ nc < MaxCells /\ nc' = nc + 1
        /\ cell' = [cells EXCEPT ![nc + 1] = c2]
        /\ queue' = Append(queue, j)
        /\ follows' = [follows EXCEPT ![p] = f]
        /\ UNCHANGED <<prom, np>>
    BY <1>1 DEF ResolveWithValue
  <2>2. c2.target = p
    OBVIOUS
  <2>3. f <= np
    BY <1>0 DEF BornVal, None, Promise
  <2>4. JobBorn(j, np)
    BY <1>0, AtomsBorn DEF JobBorn, ThenableJob, NoDownstream, None
  <2>5. nc + 1 \in Cell
    BY <1>0, <2>1, BoundsAssumption DEF Cell
  <2> HIDE DEF j, c2, f
  <2>6. CellScoped(cell', nc', np)
    BY <1>0, <2>1, <2>2, <2>5 DEF CellScoped, Cell
  <2>7. QueueScoped(queue', np)
    BY <1>0, <2>1, <2>4 DEF HeapScoped, QueueScoped
  <2>8. (\A q \in Promise : follows[q] <= np) => \A q \in Promise : follows'[q] <= np
    BY <2>1, <2>3 DEF HeapInv, HeapType
  <2>9. QED
    BY <1>0, <2>1, <2>6, <2>7, <2>8 DEF HeapScoped
<1>2. CASE ~(IsPending(p) /\ v # p /\ v \in Promise \cup Thenable)
  <2>1. /\ cell' = cells
        /\ \/ PromiseSettle(p, "rejected", Error)
           \/ PromiseSettle(p, "fulfilled", v)
        /\ UNCHANGED <<np, nc, follows>>
    BY <1>2 DEF ResolveWithValue
  <2>2. Error \in Value /\ "rejected" \in Settled /\ "fulfilled" \in Settled /\ BornVal(Error, np)
    BY <1>0, AtomsBorn DEF Value, Settled
  <2>3. PromScoped(prom', np) /\ QueueScoped(queue', np)
    BY <2>1, <2>2, SettleScoped
  <2>4. QED
    BY <1>0, <2>1, <2>3 DEF HeapScoped
<1>3. QED
  BY <1>1, <1>2


LEMMA MarkScoped ==
    ASSUME HeapInv, HeapScoped, NEW c \in Cell, ~AlreadyCalled(c)
    PROVE  /\ c <= nc /\ cell[c].target \in Promise /\ cell[c].target <= np
           /\ MarkAlreadyCalled(c) \in [Cell -> [target : Promise, called : BOOLEAN]]
           /\ MarkAlreadyCalled(c)[c].called
           /\ \A d \in Cell : /\ MarkAlreadyCalled(c)[d].target = cell[d].target
                              /\ d # c => MarkAlreadyCalled(c)[d] = cell[d]
           /\ CellScoped(MarkAlreadyCalled(c), nc, np)
<1>1. cell \in [Cell -> [target : Promise, called : BOOLEAN]] /\ CellScoped(cell, nc, np)
  BY DEF HeapInv, HeapType, HeapScoped
<1>2. c <= nc /\ cell[c].target \in Promise /\ cell[c].target <= np
  BY <1>1 DEF CellScoped, AlreadyCalled
<1>3. /\ MarkAlreadyCalled(c) \in [Cell -> [target : Promise, called : BOOLEAN]]
      /\ MarkAlreadyCalled(c)[c].called
      /\ \A d \in Cell : /\ MarkAlreadyCalled(c)[d].target = cell[d].target
                         /\ d # c => MarkAlreadyCalled(c)[d] = cell[d]
  BY <1>1 DEF MarkAlreadyCalled
<1>4. CellScoped(MarkAlreadyCalled(c), nc, np)
  BY <1>1, <1>3 DEF CellScoped
<1>5. QED
  BY <1>2, <1>3, <1>4

HeapGrows ==
    /\ HeapScoped' /\ np' >= np /\ nc' >= nc
    /\ np' \in Nat /\ nc' \in Nat
    /\ FollowsBorn(follows, np) => FollowsBorn(follows', np')

LEMMA SameHeap ==
    ASSUME HeapInv, HeapScoped, UNCHANGED heapVars
    PROVE  HeapGrows
BY DEF HeapInv, HeapType, HeapScoped, HeapGrows, heapVars

LEMMA CallResolveScoped ==
    ASSUME HeapInv, HeapScoped, NEW c \in Cell, NEW v \in Value, BornVal(v, np),
           CallResolveFn(c, v)
    PROVE  HeapGrows
<1>1. CASE AlreadyCalled(c)
  BY <1>1, SameHeap DEF CallResolveFn
<1>2. CASE ~AlreadyCalled(c)
  <2>1. ResolveWithValue(cell[c].target, v, MarkAlreadyCalled(c))
    BY <1>2 DEF CallResolveFn
  <2>2. np \in Nat /\ nc \in Nat
    BY DEF HeapInv, HeapType
  <2>3. QED
    BY <1>2, <2>1, <2>2, MarkScoped, ResolveScoped DEF HeapGrows, FollowsBorn
<1>3. QED
  BY <1>1, <1>2

LEMMA CallRejectScoped ==
    ASSUME HeapInv, HeapScoped, NEW c \in Cell, NEW v \in Value, BornVal(v, np),
           CallRejectFn(c, v)
    PROVE  HeapGrows
<1>1. CASE AlreadyCalled(c)
  BY <1>1, SameHeap DEF CallRejectFn
<1>2. CASE ~AlreadyCalled(c)
  <2>1. /\ cell' = MarkAlreadyCalled(c)
        /\ PromiseSettle(cell[c].target, "rejected", v)
        /\ UNCHANGED <<np, nc, follows>>
    BY <1>2 DEF CallRejectFn
  <2>2. np \in Nat /\ nc \in Nat /\ "rejected" \in Settled
    BY DEF HeapInv, HeapType, Settled
  <2>3. PromScoped(prom', np) /\ QueueScoped(queue', np)
    BY <1>2, <2>1, <2>2, MarkScoped, SettleScoped
  <2>4. CellScoped(cell', nc', np')
    BY <1>2, <2>1, MarkScoped
  <2>5. QED
    BY <2>1, <2>2, <2>3, <2>4 DEF HeapGrows, HeapScoped, FollowsBorn
<1>3. QED
  BY <1>1, <1>2

(* What then does to the promise it is called on and to the derived one.   *)
LEMMA AddReactionFacts ==
    ASSUME HeapInv, HeapScoped, NEW p \in Promise, p <= np, NEW r \in Reaction,
           np < MaxPromises, AddReaction(p, r)
    PROVE  /\ np + 1 \in Promise /\ np + 1 # p /\ prom'[np + 1] = Fresh
           /\ prom' \in [Promise -> PromiseRec]
           /\ \A q \in Promise : q # p /\ q # np + 1 => prom'[q] = prom[q]
           /\ prom'[p].state = prom[p].state /\ prom'[p].result = prom[p].result
           /\ prom'[p].isHandled
           /\ prom'[p].inRejectList = prom[p].inRejectList
           /\ prom[p].reactions \in Seq(Reaction)
           /\ IsPending(p) => /\ prom'[p].reactions = Append(prom[p].reactions, r)
                              /\ queue' = queue
           /\ ~IsPending(p) =>
                /\ prom'[p].reactions = <<>>
                /\ prom[p].reactions = <<>>
                /\ queue' = queue \o
                     TriggerReactions(<<r>>, prom[p].state, prom[p].result)
<1> DEFINE rs == Append(prom[p].reactions, r)
           kept == IF IsPending(p) THEN rs ELSE <<>>
           upd == [prom[p] EXCEPT !.isHandled = TRUE, !.reactions = kept]
<1>1. /\ prom' = [prom EXCEPT ![np + 1] = Fresh, ![p] = upd]
      /\ queue' = IF IsPending(p) THEN queue
                  ELSE queue \o TriggerReactions(rs, prom[p].state, prom[p].result)
  BY DEF AddReaction
<1>2. prom \in [Promise -> PromiseRec] /\ prom[p] \in PromiseRec /\ np \in Nat
  BY DEF HeapInv, HeapType
<1>3. /\ prom[p].reactions \in Seq(Reaction) /\ rs \in Seq(Reaction)
      /\ kept \in Seq(Reaction)
  <2>1. <<>> \in Seq(Reaction) /\ prom[p].reactions \in Seq(Reaction)
    BY <1>2 DEF PromiseRec
  <2>2. QED
    BY <2>1, AppendProperties
<1>4. /\ upd.state = prom[p].state /\ upd.result = prom[p].result
      /\ upd.reactions = kept /\ upd.isHandled = TRUE
      /\ upd.inRejectList = prom[p].inRejectList
  <2> HIDE DEF kept
  <2>1. QED
    BY <1>2 DEF PromiseRec
<1>5. np + 1 \in Promise /\ np + 1 # p
  BY <1>2, BoundsAssumption DEF Promise
<1>6. /\ prom'[p] = upd /\ prom'[np + 1] = Fresh
      /\ \A q \in Promise : q # p /\ q # np + 1 => prom'[q] = prom[q]
  <2> HIDE DEF upd
  <2>1. QED
    BY <1>1, <1>2, <1>5
<1>7. prom' \in [Promise -> PromiseRec]
  BY AddReactionStep
<1>8. ~IsPending(p) => prom[p].reactions = <<>> /\ rs = <<r>>
  <2>1. ~IsPending(p) => prom[p].reactions = <<>>
    BY DEF HeapInv, PromiseInv, IsPending
  <2>2. Append(<<>>, r) = <<r>>
    OBVIOUS
  <2>3. QED
    BY <2>1, <2>2
<1> HIDE DEF rs, upd
<1>9. QED
  BY <1>1, <1>3, <1>4, <1>5, <1>6, <1>7, <1>8 DEF rs

LEMMA ThenScoped ==
    ASSUME HeapInv, HeapScoped, NEW p \in Promise, p <= np,
           NEW onF \in Handler, NEW onR \in Handler, NEW species \in BOOLEAN,
           onF.resolution = None, onR.resolution = None,
           Then(p, onF, onR, species)
    PROVE  HeapGrows
<1> DEFINE ds == IF species THEN [promise |-> None, cell |-> nc + 1]
                            ELSE [promise |-> np + 1, cell |-> None]
           r == [onFulfilled |-> onF, onRejected |-> onR, downstream |-> ds]
           n == np + 1
<1>1. /\ np < MaxPromises /\ np' = np + 1 /\ (species => nc < MaxCells)
      /\ nc' = IF species THEN nc + 1 ELSE nc
      /\ cell' = IF species
                   THEN [cell EXCEPT ![nc + 1] = [target |-> np + 1, called |-> FALSE]]
                   ELSE cell
      /\ AddReaction(p, r)
  BY DEF Then
<1>2. follows' = [follows EXCEPT ![np + 1] = p] \/ follows' = follows
  BY DEF Then
<1>3. /\ np \in Nat /\ nc \in Nat /\ queue \in Seq(Job)
      /\ cell \in [Cell -> [target : Promise, called : BOOLEAN]]
      /\ follows \in [Promise -> Promise \cup {None}]
      /\ prom \in [Promise -> PromiseRec]
  BY DEF HeapInv, HeapType
<1>4. np + 1 \in Promise /\ (species => nc + 1 \in Cell)
  <2>1. MaxPromises \in Nat /\ MaxCells \in Nat
    BY BoundsAssumption
  <2>2. np + 1 \in Promise
    BY <1>1, <1>3, <2>1 DEF Promise
  <2>3. ASSUME species
        PROVE  nc + 1 \in Cell
    BY <1>1, <1>3, <2>1, <2>3 DEF Cell
  <2>4. QED
    BY <2>2, <2>3
<1>5. ds \in Downstream /\ ds.promise <= n
  BY <1>3, <1>4 DEF Downstream, NoDownstream, None
<1>6. r \in Reaction /\ ReactionBorn(r, n)
  BY <1>3, <1>5, AtomsBorn DEF Reaction, ReactionBorn, BornVal, None, Promise
<1> HIDE DEF r
<1>7. /\ prom'[np + 1] = Fresh /\ prom' \in [Promise -> PromiseRec]
      /\ \A q \in Promise : q # p /\ q # np + 1 => prom'[q] = prom[q]
      /\ prom'[p].result = prom[p].result
      /\ prom[p].reactions \in Seq(Reaction)
      /\ IsPending(p) => prom'[p].reactions = Append(prom[p].reactions, r) /\ queue' = queue
      /\ ~IsPending(p) => /\ prom'[p].reactions = <<>>
                          /\ queue' = queue \o
                               TriggerReactions(<<r>>, prom[p].state, prom[p].result)
  BY <1>1, <1>6, AddReactionFacts
<1>8. /\ np <= n /\ n \in Nat
      /\ \A q \in Promise : RecordBorn(prom[q], n)
      /\ QueueScoped(queue, n)
      /\ \A v \in Value : BornVal(v, np) => BornVal(v, n)
  <2>1. np <= n /\ n \in Nat
    BY <1>3
  <2> HIDE DEF n
  <2>2. QED
    BY <1>3, <2>1, Grow DEF HeapScoped, PromScoped
<1>9. RecordBorn(prom'[p], n)
  <2>1. CASE IsPending(p)
    <3>1. \A k \in 1..Len(prom[p].reactions) : ReactionBorn(prom[p].reactions[k], n)
      BY <1>8 DEF RecordBorn
    <3>2. /\ Len(prom'[p].reactions) = Len(prom[p].reactions) + 1
          /\ Len(prom[p].reactions) \in Nat
          /\ prom'[p].reactions[Len(prom[p].reactions) + 1] = r
          /\ \A k \in 1..Len(prom[p].reactions) : prom'[p].reactions[k] = prom[p].reactions[k]
      BY <1>6, <1>7, <2>1, AppendProperties
    <3>3. \A k \in 1..Len(prom'[p].reactions) : ReactionBorn(prom'[p].reactions[k], n)
      <4>1. \A k \in 1..Len(prom'[p].reactions) :
              k \in 1..Len(prom[p].reactions) \/ k = Len(prom[p].reactions) + 1
        BY <3>2
      <4>2. QED
        BY <1>6, <3>1, <3>2, <4>1
    <3>4. QED
      BY <1>7, <1>8, <3>3 DEF RecordBorn
  <2>2. CASE ~IsPending(p)
    <3>1. Len(prom'[p].reactions) = 0
      BY <1>7, <2>2
    <3>2. QED
      BY <1>7, <1>8, <3>1 DEF RecordBorn
  <2>3. QED
    BY <2>1, <2>2
<1>10. PromScoped(prom', n)
  <2>1. \A q \in Promise : q > n => prom'[q] = Unborn
    BY <1>3, <1>7 DEF HeapScoped, PromScoped, Promise
  <2>2. RecordBorn(prom'[np + 1], n)
    BY <1>7, <1>8, AtomsBorn
  <2>3. \A q \in Promise : RecordBorn(prom'[q], n)
    BY <1>7, <1>8, <1>9, <2>2
  <2>4. QED
    BY <2>1, <2>3 DEF PromScoped
<1>11. QueueScoped(queue', n)
  <2>1. CASE IsPending(p)
    BY <1>7, <1>8, <2>1
  <2>2. CASE ~IsPending(p)
    <3>1. /\ <<r>> \in Seq(Reaction) /\ Len(<<r>>) = 1 /\ <<r>>[1] = r
          /\ prom[p].result \in Value /\ BornVal(prom[p].result, n)
      BY <1>3, <1>6, <1>8 DEF PromiseRec, RecordBorn
    <3>2. /\ TriggerReactions(<<r>>, prom[p].state, prom[p].result) \in Seq(Job)
          /\ QueueScoped(TriggerReactions(<<r>>, prom[p].state, prom[p].result), n)
      <4>1. \A k \in 1..Len(<<r>>) : ReactionBorn(<<r>>[k], n)
        BY <1>6, <3>1
      <4> HIDE DEF n
      <4>2. QED
        BY <1>8, <3>1, <4>1, TriggerScoped
    <3> HIDE DEF n
    <3>3. QED
      BY <1>3, <1>7, <1>8, <2>2, <3>2, ConcatScoped
  <2>3. QED
    BY <2>1, <2>2
<1>12. CellScoped(cell', nc', n)
  <2>1. \A c \in Cell : cell[c].target \in Nat /\ (IF c <= nc THEN cell[c].target <= np
                                                             ELSE cell[c].called)
    BY <1>3, BoundsAssumption DEF HeapScoped, CellScoped, Promise
  <2>2. CASE ~species
    BY <1>1, <1>3, <2>1, <2>2 DEF CellScoped
  <2>3. CASE species
    <3> DEFINE c2 == [target |-> np + 1, called |-> FALSE]
    <3>1. nc' = nc + 1 /\ cell' = [cell EXCEPT ![nc + 1] = c2] /\ c2.target = np + 1
      BY <1>1, <2>3
    <3> HIDE DEF c2
    <3>2. \A c \in Cell : cell'[c] = IF c = nc + 1 THEN c2 ELSE cell[c]
      BY <1>3, <3>1
    <3>3. QED
      BY <1>3, <2>1, <3>1, <3>2 DEF CellScoped, Cell
  <2>4. QED
    BY <2>2, <2>3
<1>13. FollowsBorn(follows, np) => FollowsBorn(follows', n)
  <2>1. \A q \in Promise : follows[q] \in Nat
    BY <1>3, BoundsAssumption DEF Promise, None
  <2>2. \A q \in Promise : follows'[q] = follows[q] \/ follows'[q] = p
    BY <1>2, <1>3, <1>4
  <2>3. p \in Nat
    BY BoundsAssumption DEF Promise
  <2>4. QED
    BY <1>3, <2>1, <2>2, <2>3 DEF FollowsBorn
<1>14. QED
  BY <1>1, <1>3, <1>8, <1>10, <1>11, <1>12, <1>13 DEF HeapGrows, HeapScoped


LEMMA AllocateScoped ==
    ASSUME HeapInv, HeapScoped, np < MaxPromises, np' = np + 1,
           NEW r \in PromiseRec, RecordBorn(r, np + 1), prom' = [prom EXCEPT ![np + 1] = r],
           UNCHANGED <<queue, follows>>,
           NEW c2 \in [target : Promise, called : BOOLEAN], c2.target = np + 1,
           \/ UNCHANGED <<cell, nc>>
           \/ nc < MaxCells /\ nc' = nc + 1 /\ cell' = [cell EXCEPT ![nc + 1] = c2]
    PROVE  HeapGrows
<1>0. /\ np \in Nat /\ nc \in Nat /\ queue \in Seq(Job)
      /\ cell \in [Cell -> [target : Promise, called : BOOLEAN]]
      /\ prom \in [Promise -> PromiseRec]
      /\ follows \in [Promise -> Promise \cup {None}]
      /\ np + 1 \in Nat /\ np <= np + 1
  BY DEF HeapInv, HeapType
<1>1. PromScoped(prom', np + 1)
  <2>1. \A q \in Promise : prom'[q] = IF q = np + 1 THEN r ELSE prom[q]
    BY <1>0
  <2>2. \A q \in Promise : RecordBorn(prom[q], np + 1)
    BY <1>0, Grow DEF HeapScoped, PromScoped
  <2>3. \A q \in Promise : q > np + 1 => prom'[q] = Unborn
    BY <1>0, <2>1 DEF HeapScoped, PromScoped, Promise
  <2>4. QED
    BY <2>1, <2>2, <2>3 DEF PromScoped
<1>2. QueueScoped(queue', np + 1)
  BY <1>0, Grow DEF HeapScoped
<1>3. CellScoped(cell', nc', np + 1) /\ nc' >= nc /\ nc' \in Nat
  <2>1. \A c \in Cell : cell[c].target \in Nat /\ (IF c <= nc THEN cell[c].target <= np
                                                             ELSE cell[c].called)
    BY <1>0, BoundsAssumption DEF HeapScoped, CellScoped, Promise
  <2>2. CASE UNCHANGED <<cell, nc>>
    BY <1>0, <2>1, <2>2 DEF CellScoped
  <2>3. CASE nc < MaxCells /\ nc' = nc + 1 /\ cell' = [cell EXCEPT ![nc + 1] = c2]
    <3>1. \A c \in Cell : cell'[c] = IF c = nc + 1 THEN c2 ELSE cell[c]
      BY <1>0, <2>3
    <3>2. QED
      BY <1>0, <2>1, <2>3, <3>1 DEF CellScoped, Cell
  <2>4. QED
    BY <2>2, <2>3
<1>4. FollowsBorn(follows, np) => FollowsBorn(follows', np + 1)
  <2>1. \A q \in Promise : follows[q] \in Nat
    BY <1>0, BoundsAssumption DEF Promise, None
  <2>2. QED
    BY <1>0, <2>1 DEF FollowsBorn
<1>5. QED
  BY <1>0, <1>1, <1>2, <1>3, <1>4 DEF HeapGrows, HeapScoped

(* What is left to show of a step whose heap operation is known.           *)
LEMMA KeepScoped ==
    ASSUME IInv, Scoped, HeapGrows,
           cur' = cur \/ cur' = NoJob,
           ret' = ret \/ BornVal(ret', np'),
           attached' \subseteq attached \cup 1..np'
    PROVE  Scoped'
<1>0. /\ np \in Nat /\ np' \in Nat /\ np <= np' /\ cur \in Job \cup {NoJob} /\ ret \in Value
      /\ attached \subseteq 1..np /\ JobBorn(cur, np) /\ BornVal(ret, np)
      /\ FollowsBorn(follows', np')
  BY DEF IInv, HeapInv, HeapType, ControlType, Scoped, HeapGrows
<1>1. JobBorn(cur, np') /\ JobBorn(NoJob, np') /\ BornVal(ret, np')
  BY <1>0, Grow, AtomsBorn
<1>2. attached' \subseteq 1..np'
  BY <1>0
<1>3. JobBorn(cur', np') /\ BornVal(ret', np')
  BY <1>1, Zenon
<1>4. QED
  BY <1>0, <1>2, <1>3 DEF Scoped, HeapGrows

LEMMA ScriptScoped ==
    ASSUME IInv, Scoped, ScriptStep \/ HostStep
    PROVE  Scoped'
<1>0. /\ HeapInv /\ HeapScoped /\ np \in Nat /\ nc \in Nat /\ exposed \subseteq Cell
      /\ np + 1 \in Nat
  BY DEF IInv, HeapInv, HeapType, ControlType, Scoped
<1>1. ScriptValue \subseteq Value /\ \A v \in ScriptValue : BornVal(v, np)
  <2>1. Born \subseteq Promise /\ \A v \in Born : v <= np
    BY BoundsAssumption DEF Born, Promise, IInv, HeapInv, HeapType
  <2>2. QED
    BY <1>0, <2>1, AtomsBorn DEF ScriptValue, Value, BornVal
<1>2. Error \in Value /\ BornVal(Error, np) /\ \A v \in Plain : BornVal(v, np + 1)
  BY <1>0, AtomsBorn DEF Value
<1>3. ASSUME np < MaxPromises
      PROVE  /\ [target |-> np + 1, called |-> FALSE] \in [target : Promise, called : BOOLEAN]
             /\ [target |-> np + 1, called |-> TRUE] \in [target : Promise, called : BOOLEAN]
             /\ [target |-> np + 1, called |-> FALSE].target = np + 1
             /\ [target |-> np + 1, called |-> TRUE].target = np + 1
  BY <1>0, <1>3, BoundsAssumption DEF Promise
<1>4. CASE NewPromise
  <2>1. HeapGrows
    <3> DEFINE c2 == [target |-> np + 1, called |-> FALSE]
    <3>1. /\ np < MaxPromises /\ np' = np + 1 /\ prom' = [prom EXCEPT ![np + 1] = Fresh]
          /\ UNCHANGED <<queue, follows>>
          /\ nc < MaxCells /\ nc' = nc + 1 /\ cell' = [cell EXCEPT ![nc + 1] = c2]
      BY <1>4 DEF NewPromise
    <3>2. c2 \in [target : Promise, called : BOOLEAN] /\ c2.target = np + 1
      BY <1>3, <3>1
    <3>3. Fresh \in PromiseRec /\ RecordBorn(Fresh, np + 1)
      BY <1>0, FreshType, AtomsBorn
    <3> HIDE DEF c2
    <3>4. QED
      BY <1>0, <3>1, <3>2, <3>3, AllocateScoped
  <2>2. QED
    BY <1>4, <2>1, KeepScoped DEF NewPromise, ScriptOp
<1>5. CASE NewPromiseInterrupted
  <2>1. HeapGrows
    <3> DEFINE c2 == [target |-> np + 1, called |-> TRUE]
               r == [Fresh EXCEPT !.state = "rejected", !.result = Interrupted,
                                  !.inRejectList = TRUE]
    <3>1. /\ np < MaxPromises /\ np' = np + 1 /\ prom' = [prom EXCEPT ![np + 1] = r]
          /\ UNCHANGED <<queue, follows>>
          /\ nc < MaxCells /\ nc' = nc + 1 /\ cell' = [cell EXCEPT ![nc + 1] = c2]
      BY <1>5 DEF NewPromiseInterrupted
    <3>2. c2 \in [target : Promise, called : BOOLEAN] /\ c2.target = np + 1
      BY <1>3, <3>1
    <3>3. r \in PromiseRec /\ r.result = Interrupted /\ r.reactions = <<>>
      BY FreshType DEF PromiseRec, Settled, Value
    <3> HIDE DEF c2, r
    <3>4. RecordBorn(r, np + 1)
      <4>1. Len(r.reactions) = 0
        BY <3>3
      <4>2. QED
        BY <1>0, <3>3, <4>1, AtomsBorn DEF RecordBorn
    <3>5. QED
      BY <1>0, <3>1, <3>2, <3>3, <3>4, AllocateScoped
  <2>2. QED
    BY <1>5, <2>1, KeepScoped DEF NewPromiseInterrupted, ScriptOp
<1>6. CASE SettlingCombinator
  <2>1. HeapGrows
    <3> DEFINE c2 == [target |-> np + 1, called |-> FALSE]
    <3>1. PICK v \in Plain : prom' = [prom EXCEPT ![np + 1] =
                               [Fresh EXCEPT !.state = "fulfilled", !.result = v]]
      BY <1>6 DEF SettlingCombinator
    <3> DEFINE r == [Fresh EXCEPT !.state = "fulfilled", !.result = v]
    <3>2. /\ np < MaxPromises /\ np' = np + 1 /\ prom' = [prom EXCEPT ![np + 1] = r]
          /\ UNCHANGED <<queue, follows, cell, nc>>
      BY <1>6, <3>1 DEF SettlingCombinator
    <3>3. c2 \in [target : Promise, called : BOOLEAN] /\ c2.target = np + 1
      BY <1>3, <3>2
    <3>4. r \in PromiseRec /\ r.result = v /\ r.reactions = <<>>
      BY FreshType DEF PromiseRec, Settled, Value
    <3> HIDE DEF c2, r
    <3>5. RecordBorn(r, np + 1)
      <4>1. Len(r.reactions) = 0
        BY <3>4
      <4>2. QED
        BY <1>2, <3>4, <4>1 DEF RecordBorn
    <3>6. QED
      BY <1>0, <3>2, <3>3, <3>4, <3>5, AllocateScoped
  <2>2. QED
    BY <1>6, <2>1, KeepScoped DEF SettlingCombinator, ScriptOp
<1>7. CASE ScriptResolve \/ ScriptReject
  <2>1. HeapGrows
    BY <1>0, <1>1, <1>2, <1>7, CallResolveScoped, CallRejectScoped DEF ScriptResolve, ScriptReject
  <2>2. QED
    BY <1>7, <2>1, KeepScoped DEF ScriptResolve, ScriptReject, ScriptOp
<1>8. CASE ScriptThen
  <2>1. PICK p \in Born, onF \in {Plainly("user"), Plainly("undefined")},
             onR \in {Plainly("user"), Plainly("undefined")},
             species \in BOOLEAN : Then(p, onF, onR, species)
    BY <1>8 DEF ScriptThen
  <2>2. /\ onF \in Handler /\ onR \in Handler
        /\ onF.resolution = None /\ onR.resolution = None
    BY DEF Handler, Callable, Closure, Plainly
  <2>3. p \in Promise /\ p <= np
    BY BoundsAssumption DEF Born, Promise, IInv, HeapInv, HeapType
  <2>4. HeapGrows
    BY <1>0, <2>1, <2>2, <2>3, ThenScoped
  <2>5. attached' \subseteq attached \cup 1..np'
    <3>1. attached' = attached \cup {p} /\ np' = np + 1
      BY <2>1 DEF Then
    <3>2. QED
      BY <1>0, <2>3, <3>1 DEF Promise
  <2>6. QED
    BY <1>8, <2>4, <2>5, KeepScoped DEF ScriptThen, ScriptOp
<1>9. CASE Eval \/ HostDrain
  <2>1. HeapGrows
    BY <1>0, <1>9, SameHeap DEF Eval, HostDrain, HostCall
  <2>2. QED
    BY <1>9, <2>1, KeepScoped DEF Eval, HostDrain, HostCall, drainVars
<1>10. CASE HostSettle
  <2>1. HeapGrows
    BY <1>0, <1>1, <1>2, <1>10, CallResolveScoped, CallRejectScoped DEF HostSettle
  <2>2. QED
    BY <1>10, <2>1, KeepScoped DEF HostSettle, drainVars
<1>11. QED
  BY <1>4, <1>5, <1>6, <1>7, <1>8, <1>9, <1>10 DEF ScriptStep, HostStep


(* The flags of a promise that the report clears and sets do not matter.   *)
LEMMA FlagScoped ==
    ASSUME HeapInv, HeapScoped,
           \A q \in Promise : /\ prom'[q].result = prom[q].result
                              /\ prom'[q].reactions = prom[q].reactions
                              /\ prom[q] = Unborn => prom'[q] = Unborn,
           UNCHANGED <<np, cell, nc, queue, follows>>
    PROVE  HeapGrows
<1>1. PromScoped(prom', np)
  BY DEF HeapScoped, PromScoped, RecordBorn
<1>2. QED
  BY <1>1 DEF HeapScoped, HeapGrows, HeapInv, HeapType

LEMMA ReportScoped ==
    ASSUME IInv, Scoped, ReportSkip \/ ReportCall \/ TrackerReturn \/ ReportReturn
    PROVE  Scoped'
<1>0. HeapInv /\ HeapScoped /\ prom \in [Promise -> PromiseRec]
  BY DEF IInv, HeapInv, HeapType, Scoped
<1>1. UNCHANGED <<np, cell, nc, queue, follows, cur, ret, attached>>
  BY DEF ReportSkip, ReportCall, TrackerReturn, ReportReturn, ReportQuiet, drainVars
<1>2. ASSUME HeapGrows
      PROVE  Scoped'
  BY <1>1, <1>2, KeepScoped
<1>3. [Unborn EXCEPT !.inRejectList = FALSE] = Unborn
  <2>1. Unborn = [x \in {"state", "result", "reactions", "isHandled", "inRejectList"} |-> Unborn[x]]
    BY DEF Unborn
  <2>2. Unborn.inRejectList = FALSE
    BY DEF Unborn
  <2>3. QED
    BY <2>1, <2>2
<1>4. CASE ReportSkip
  <2> DEFINE p == slots[Head(stack).i + 1]
             r == [prom[p] EXCEPT !.inRejectList = FALSE]
  <2>1. prom' = IF p = None THEN prom ELSE [prom EXCEPT ![p] = r]
    BY <1>4 DEF ReportSkip
  <2>2. p \in Promise => /\ r.result = prom[p].result /\ r.reactions = prom[p].reactions
                         /\ prom[p] = Unborn => r = Unborn
    <3>1. p \in Promise => prom[p] \in PromiseRec
      BY <1>0
    <3> HIDE DEF p
    <3>2. QED
      BY <1>3, <3>1 DEF PromiseRec
  <2> HIDE DEF p, r
  <2>3. \A q \in Promise : prom'[q] = IF q = p /\ p # None THEN r ELSE prom[q]
    BY <1>0, <2>1
  <2>4. HeapGrows
    BY <1>0, <1>1, <2>2, <2>3, FlagScoped
  <2>5. QED
    BY <1>2, <2>4
<1>5. CASE ReportCall
  <2> DEFINE p == slots[Head(stack).i + 1]
             r == [prom[p] EXCEPT !.inRejectList = FALSE, !.isHandled = TRUE]
  <2>1. prom' = [prom EXCEPT ![p] = r] /\ prom[p].state = "rejected"
    BY <1>5 DEF ReportCall, StillUnhandled
  <2>2. p \in Promise => /\ r.result = prom[p].result /\ r.reactions = prom[p].reactions
                         /\ prom[p] # Unborn
    <3>1. p \in Promise => prom[p] \in PromiseRec
      BY <1>0
    <3>2. prom[p] # Unborn
      BY <2>1 DEF Unborn
    <3> HIDE DEF p
    <3>3. QED
      BY <3>1, <3>2 DEF PromiseRec
  <2> HIDE DEF p, r
  <2>3. \A q \in Promise : prom'[q] = IF q = p THEN r ELSE prom[q]
    BY <1>0, <2>1
  <2>4. HeapGrows
    BY <1>0, <1>1, <2>2, <2>3, FlagScoped
  <2>5. QED
    BY <1>2, <2>4
<1>6. CASE TrackerReturn \/ ReportReturn
  <2>1. prom' = prom
    BY <1>6 DEF TrackerReturn, ReportReturn
  <2>2. HeapGrows
    BY <1>0, <1>1, <2>1, FlagScoped
  <2>3. QED
    BY <1>2, <2>2
<1>7. QED
  BY <1>4, <1>5, <1>6

LEMMA AfterScoped ==
    ASSUME HeapInv, HeapScoped, NEW ds \in Downstream, ds.promise <= np,
           ret \in Value, BornVal(ret, np), MicrotaskAfter(ds)
    PROVE  HeapGrows
<1>0. np \in Nat /\ nc \in Nat /\ cell \in [Cell -> [target : Promise, called : BOOLEAN]]
  BY DEF HeapInv, HeapType
<1>1. CASE ds.cell # None
  <2>1. ds.cell \in Cell
    BY <1>1 DEF Downstream, NoDownstream
  <2>2. CallRejectFn(ds.cell, ret) \/ CallResolveFn(ds.cell, ret)
    BY <1>1 DEF MicrotaskAfter
  <2>3. QED
    BY <2>1, <2>2, CallRejectScoped, CallResolveScoped
<1>2. CASE ds.cell = None /\ ds.promise # None /\ IsPending(ds.promise)
  <2>1. ds.promise \in Promise
    BY <1>2 DEF Downstream, NoDownstream
  <2>2. \/ PromiseSettle(ds.promise, "rejected", ret) /\ UNCHANGED <<np, cell, nc, follows>>
        \/ ResolveWithValue(ds.promise, ret, cell)
    BY <1>2 DEF MicrotaskAfter
  <2>3. CASE PromiseSettle(ds.promise, "rejected", ret) /\ UNCHANGED <<np, cell, nc, follows>>
    <3>1. PromScoped(prom', np) /\ QueueScoped(queue', np)
      BY <2>1, <2>3, SettleScoped DEF Settled
    <3>2. QED
      BY <1>0, <2>3, <3>1 DEF HeapScoped, HeapGrows
  <2>4. CASE ResolveWithValue(ds.promise, ret, cell)
    BY <1>0, <2>1, <2>4, ResolveScoped DEF HeapGrows, HeapScoped, FollowsBorn
  <2>5. QED
    BY <2>2, <2>3, <2>4
<1>3. CASE ds.cell = None /\ ~(ds.promise # None /\ IsPending(ds.promise))
  BY <1>3, SameHeap DEF MicrotaskAfter
<1>4. QED
  BY <1>1, <1>2, <1>3

LEMMA EngineScoped ==
    ASSUME IInv, Scoped, EngineStep
    PROVE  Scoped'
<1>0. /\ HeapInv /\ HeapScoped /\ np \in Nat /\ nc \in Nat /\ queue \in Seq(Job)
      /\ JobBorn(cur, np) /\ BornVal(ret, np) /\ attached \subseteq 1..np
      /\ cursor \in 0..Len(queue) /\ Len(queue) \in Nat
  BY DEF IInv, HeapInv, HeapType, Scoped
<1>1. /\ Error \in Value /\ BornVal(Error, np) /\ Interrupted \in Value
      /\ BornVal(Interrupted, np) /\ BornVal(None, np)
      /\ \A v \in Plain \cup ScriptValue : BornVal(v, np)
  <2>1. \A v \in Born : BornVal(v, np)
    BY <1>0 DEF Born, BornVal
  <2>2. QED
    BY <1>0, <2>1, AtomsBorn DEF ScriptValue, Value
<1>2. CASE ScriptEnd \/ EvalReturn \/ HostDrainReturn
  <2>1. HeapGrows
    BY <1>0, <1>2, SameHeap DEF ScriptEnd, EvalReturn, HostDrainReturn, Quiet
  <2>2. QED
    BY <1>2, <2>1, KeepScoped DEF ScriptEnd, EvalReturn, HostDrainReturn, Quiet, drainVars
<1>3. CASE DrainEnter \/ DrainReturn
  <2>1. UNCHANGED <<prom, np, cell, nc, queue, follows, cur, ret, attached>>
    BY <1>3 DEF DrainEnter, DrainReturn, Quiet, heapVars
  <2>2. HeapGrows
    BY <1>0, <2>1, FlagScoped
  <2>3. QED
    BY <2>1, <2>2, KeepScoped
<1>4. CASE DrainEnd
  <2>1. UNCHANGED <<prom, np, cell, nc, follows, cur, ret, attached>> /\ queue' = <<>>
    BY <1>4 DEF DrainEnd
  <2>2. QueueScoped(queue', np)
    <3>1. Len(queue') = 0
      BY <2>1
    <3>2. QED
      BY <3>1 DEF QueueScoped
  <2>3. HeapGrows
    BY <1>0, <2>1, <2>2 DEF HeapGrows, HeapScoped
  <2>4. QED
    BY <2>1, <2>3, KeepScoped
<1>5. CASE DrainTake
  <2>1. /\ cursor < Len(queue) /\ cur' = queue[cursor + 1]
        /\ UNCHANGED <<prom, np, cell, nc, queue, follows, ret, attached>>
    BY <1>5 DEF DrainTake, Quiet, heapVars
  <2>2. JobBorn(cur', np)
    BY <1>0, <2>1 DEF HeapScoped, QueueScoped
  <2>3. QED
    BY <1>0, <2>1, <2>2 DEF Scoped, HeapScoped
<1>6. CASE RunScriptHandler \/ RunIdentity \/ RunThrower
  <2>1. HeapGrows
    BY <1>0, <1>6, SameHeap DEF RunScriptHandler, RunIdentity, RunThrower, Quiet
  <2>2. UNCHANGED <<np, cur, attached>> /\ (ret' = ret \/ ret' = cur.arg)
    BY <1>6 DEF RunScriptHandler, RunIdentity, RunThrower, Quiet, heapVars, JobQuiet
  <2>3. QED
    BY <1>0, <2>1, <2>2, KeepScoped DEF JobBorn
<1>7. CASE RunResolvingFn
  <2>1. cur.handler.cell \in Cell /\ cur.arg \in Value /\ BornVal(cur.arg, np)
    BY <1>0, <1>7, JobFacts DEF RunResolvingFn, JobStarts, JobBorn
  <2>2. HeapGrows
    BY <1>0, <1>7, <2>1, CallResolveScoped, CallRejectScoped DEF RunResolvingFn
  <2>3. BornVal(None, np')
    BY <2>2, AtomsBorn DEF HeapGrows
  <2>4. QED
    BY <1>7, <2>2, <2>3, KeepScoped DEF RunResolvingFn, JobQuiet
<1>8. CASE RunNativeThenable
  <2>1. /\ cur.handler.cell \in Cell /\ cur.handler.resolution \in Promise
        /\ cur.handler.resolution <= np
    BY <1>0, <1>8, JobFacts DEF RunNativeThenable, JobStarts, JobBorn, BornVal
  <2>2. /\ ResolveFn(cur.handler.cell) \in Handler /\ RejectFn(cur.handler.cell) \in Handler
        /\ ResolveFn(cur.handler.cell).resolution = None
        /\ RejectFn(cur.handler.cell).resolution = None
    BY <2>1 DEF ResolveFn, RejectFn, Handler, Callable, Resolving
  <2>3. Then(cur.handler.resolution, ResolveFn(cur.handler.cell),
             RejectFn(cur.handler.cell), FALSE)
    BY <1>8 DEF RunNativeThenable
  <2>4. HeapGrows
    BY <1>0, <2>1, <2>2, <2>3, ThenScoped
  <2>5. attached' \subseteq attached \cup 1..np'
    <3>1. attached' = attached \cup {cur.handler.resolution} /\ np' = np + 1
      BY <2>3 DEF Then
    <3>2. QED
      BY <1>0, <2>1, <3>1 DEF Promise
  <2>6. BornVal(None, np')
    BY <2>4, AtomsBorn DEF HeapGrows
  <2>7. QED
    BY <1>8, <2>4, <2>5, <2>6, KeepScoped DEF RunNativeThenable, JobQuiet
<1>9. CASE RunScriptThenable
  <2>1. HeapGrows
    BY <1>0, <1>9, SameHeap DEF RunScriptThenable
  <2>2. QED
    BY <1>9, <2>1, KeepScoped DEF RunScriptThenable, JobQuiet
<1>10. CASE HandlerEnd
  <2>1. HeapGrows /\ UNCHANGED <<np, cur, attached>>
    BY <1>0, <1>10, SameHeap DEF HandlerEnd, heapVars
  <2>2. ret' \in Plain \cup ScriptValue \cup {Error, Interrupted}
    BY <1>10 DEF HandlerEnd
  <2>3. BornVal(ret', np')
    BY <1>1, <2>1, <2>2, Zenon
  <2>4. QED
    BY <2>1, <2>3, KeepScoped
<1>11. CASE ThenableEnd
  <2>1. cur.handler.cell \in Cell
    <3>1. Running("thenable")
      BY <1>11 DEF ThenableEnd
    <3>2. stack # <<>> /\ stack[1].kind = "thenable" /\ stack \in Seq(Frame)
      BY <3>1, StackFacts
    <3>3. 1 \in 1..Len(stack)
      BY <3>2, PopProperties
    <3>4. QED
      BY <3>2, <3>3, JobFacts DEF IInv, StackDiscipline, Disciplined
  <2>2. HeapGrows
    BY <1>0, <1>1, <1>11, <2>1, SameHeap, CallRejectScoped DEF ThenableEnd
  <2>3. BornVal(None, np')
    BY <2>2, AtomsBorn DEF HeapGrows
  <2>4. QED
    BY <1>11, <2>2, <2>3, KeepScoped DEF ThenableEnd
<1>12. CASE JobAfter
  <2>1. /\ MicrotaskAfter(cur.downstream) /\ cur' = NoJob /\ ret' = None
        /\ attached' = attached
    BY <1>12 DEF JobAfter
  <2>2. cur.downstream.promise <= np
    BY <1>0 DEF JobBorn
  <2>3. HeapGrows
    BY <1>0, <2>1, <2>2, JobFacts, AfterScoped
  <2>4. BornVal(None, np')
    BY <2>3, AtomsBorn DEF HeapGrows
  <2>5. QED
    BY <2>1, <2>3, <2>4, KeepScoped
<1>13. CASE JobAborts
  <2>1. HeapGrows
    BY <1>0, <1>13, SameHeap DEF JobAborts, Quiet
  <2>2. BornVal(None, np')
    BY <2>1, AtomsBorn DEF HeapGrows
  <2>3. QED
    BY <1>13, <2>1, <2>2, KeepScoped DEF JobAborts, Quiet
<1>14. QED
  BY <1>2, <1>3, <1>4, <1>5, <1>6, <1>7, <1>8, <1>9, <1>10, <1>11, <1>12, <1>13,
     ReportScoped DEF EngineStep

LEMMA ScopedStep ==
    ASSUME IInv, Scoped, [Next]_vars
    PROVE  Scoped'
<1>1. CASE UNCHANGED vars
  BY <1>1 DEF Scoped, HeapScoped, vars
<1>2. QED
  BY <1>1, ScriptScoped, EngineScoped DEF Next

LEMMA InitScoped ==
    ASSUME Init
    PROVE  Scoped
<1>1. Len(<<>>) = 0 /\ 0 \in Nat
  OBVIOUS
<1>2. RecordBorn(Unborn, 0) /\ JobBorn(NoJob, 0) /\ BornVal(None, 0)
  BY <1>1, AtomsBorn
<1>3. PromScoped(prom, np)
  BY <1>2 DEF Init, PromScoped
<1>4. CellScoped(cell, nc, np)
  BY DEF Init, CellScoped, Unallocated, Cell
<1>5. QueueScoped(queue, np)
  BY <1>1 DEF Init, QueueScoped
<1>6. FollowsBorn(follows, np)
  BY DEF Init, FollowsBorn, None
<1>7. QED
  BY <1>2, <1>3, <1>4, <1>5, <1>6 DEF Init, Scoped, HeapScoped


-----------------------------------------------------------------------------
(* What may still settle a promise p, as in Settlers(p), written token by  *)
(* token and for explicit values of the variables: capability a of the n   *)
(* allocated, reaction b of promise a, queued job a, or the running job.   *)

Tok(n, cs, ps, q, c, j, k, a, b, p) ==
    \/ /\ k = "cell" /\ b = 0
       /\ a \in 1..n /\ cs[a].target = p /\ ~cs[a].called
    \/ /\ k = "reaction"
       /\ a \in Promise /\ b \in 1..Len(ps[a].reactions)
       /\ ps[a].reactions[b].downstream.promise = p
    \/ /\ k = "job" /\ b = 0
       /\ a \in (c + 1)..Len(q) /\ q[a].downstream.promise = p
    \/ /\ k = "running" /\ a = 0 /\ b = 0
       /\ j.downstream.promise = p

AtMostOne(n, cs, ps, q, c, j, p) ==
    \A k, a, b, l, d, e :
        Tok(n, cs, ps, q, c, j, k, a, b, p) /\ Tok(n, cs, ps, q, c, j, l, d, e, p)
            => k = l /\ a = d /\ b = e

Some(n, cs, ps, q, c, j, p) == \E k, a, b : Tok(n, cs, ps, q, c, j, k, a, b, p)

Sound(n, cs, ps, q, c, j, abort) ==
    \A p \in Promise :
        /\ AtMostOne(n, cs, ps, q, c, j, p)
        /\ IF ps[p].state = "pending" THEN abort \/ Some(n, cs, ps, q, c, j, p)
                                      ELSE ~Some(n, cs, ps, q, c, j, p)

SettlerInv == Sound(nc, cell, prom, queue, cursor, cur, aborted)

(* The ways a step may treat the settlers.  Nothing changes:               *)
LEMMA SoundSame ==
    ASSUME SettlerInv, aborted' = aborted,
           \A p \in Promise : prom'[p].state = "pending" <=> prom[p].state = "pending",
           \A p \in Promise : \A k, a, b :
              Tok(nc', cell', prom', queue', cursor', cur', k, a, b, p)
                <=> Tok(nc, cell, prom, queue, cursor, cur, k, a, b, p)
    PROVE  SettlerInv'
<1>1. ASSUME NEW p \in Promise
      PROVE  /\ AtMostOne(nc', cell', prom', queue', cursor', cur', p)
             /\ IF prom'[p].state = "pending"
                  THEN aborted' \/ Some(nc', cell', prom', queue', cursor', cur', p)
                  ELSE ~Some(nc', cell', prom', queue', cursor', cur', p)
  BY DEF SettlerInv, Sound, AtMostOne, Some
<1>2. QED
  BY <1>1 DEF SettlerInv, Sound

(* settlers only go, as a drain is aborted:                                *)
LEMMA SoundDrop ==
    ASSUME SettlerInv, aborted' = TRUE,
           \A p \in Promise : prom'[p].state = prom[p].state,
           \A p \in Promise : \A k, a, b :
              Tok(nc', cell', prom', queue', cursor', cur', k, a, b, p)
                => Tok(nc, cell, prom, queue, cursor, cur, k, a, b, p)
    PROVE  SettlerInv'
<1>1. ASSUME NEW p \in Promise
      PROVE  /\ AtMostOne(nc', cell', prom', queue', cursor', cur', p)
             /\ IF prom'[p].state = "pending"
                  THEN aborted' \/ Some(nc', cell', prom', queue', cursor', cur', p)
                  ELSE ~Some(nc', cell', prom', queue', cursor', cur', p)
  BY DEF SettlerInv, Sound, AtMostOne, Some
<1>2. QED
  BY <1>1 DEF SettlerInv, Sound

(* a new promise comes with one:                                           *)
LEMMA SoundAdd ==
    ASSUME SettlerInv, aborted' = aborted, NEW r \in Promise,
           prom[r].state # "pending", prom'[r].state = "pending",
           \A p \in Promise : p # r => prom'[p].state = prom[p].state,
           NEW nk, NEW na, NEW nb,
           Tok(nc', cell', prom', queue', cursor', cur', nk, na, nb, r),
           \A p \in Promise : \A k, a, b :
              Tok(nc', cell', prom', queue', cursor', cur', k, a, b, p)
                <=> \/ Tok(nc, cell, prom, queue, cursor, cur, k, a, b, p)
                    \/ p = r /\ k = nk /\ a = na /\ b = nb
    PROVE  SettlerInv'
<1>1. ASSUME NEW p \in Promise
      PROVE  /\ AtMostOne(nc', cell', prom', queue', cursor', cur', p)
             /\ IF prom'[p].state = "pending"
                  THEN aborted' \/ Some(nc', cell', prom', queue', cursor', cur', p)
                  ELSE ~Some(nc', cell', prom', queue', cursor', cur', p)
  <2>1. CASE p # r
    BY <2>1 DEF SettlerInv, Sound, AtMostOne, Some
  <2>2. CASE p = r
    <3>1. \A k, a, b : ~Tok(nc, cell, prom, queue, cursor, cur, k, a, b, p)
      BY <2>2 DEF SettlerInv, Sound, Some
    <3>2. AtMostOne(nc', cell', prom', queue', cursor', cur', p)
      BY <2>2, <3>1 DEF AtMostOne
    <3>3. Some(nc', cell', prom', queue', cursor', cur', p)
      BY <2>2 DEF Some
    <3>4. QED
      BY <2>2, <3>2, <3>3
  <2>3. QED
    BY <2>1, <2>2
<1>2. QED
  BY <1>1 DEF SettlerInv, Sound

(* the next job is taken:                                                  *)
LEMMA SoundTake ==
    ASSUME SettlerInv, aborted' = aborted,
           \A p \in Promise : prom'[p].state = prom[p].state,
           \A p \in Promise : \A a, b :
              ~Tok(nc, cell, prom, queue, cursor, cur, "running", a, b, p),
           \A p \in Promise : \A k, a, b :
              Tok(nc', cell', prom', queue', cursor', cur', k, a, b, p)
                <=> \/ /\ Tok(nc, cell, prom, queue, cursor, cur, k, a, b, p)
                       /\ ~(k = "job" /\ a = cursor + 1 /\ b = 0)
                    \/ /\ Tok(nc, cell, prom, queue, cursor, cur, "job", cursor + 1, 0, p)
                       /\ k = "running" /\ a = 0 /\ b = 0
    PROVE  SettlerInv'
<1>1. ASSUME NEW p \in Promise
      PROVE  /\ AtMostOne(nc', cell', prom', queue', cursor', cur', p)
             /\ IF prom'[p].state = "pending"
                  THEN aborted' \/ Some(nc', cell', prom', queue', cursor', cur', p)
                  ELSE ~Some(nc', cell', prom', queue', cursor', cur', p)
  <2>1. AtMostOne(nc, cell, prom, queue, cursor, cur, p)
    BY DEF SettlerInv, Sound
  <2>2. AtMostOne(nc', cell', prom', queue', cursor', cur', p)
    BY <2>1 DEF AtMostOne
  <2>3. Some(nc', cell', prom', queue', cursor', cur', p)
          <=> Some(nc, cell, prom, queue, cursor, cur, p)
    BY DEF Some
  <2>4. QED
    BY <2>2, <2>3 DEF SettlerInv, Sound
<1>2. QED
  BY <1>1 DEF SettlerInv, Sound

(* a settler of q hands over to a new capability on it:                    *)
LEMMA SoundRenew ==
    ASSUME SettlerInv, aborted' = aborted, NEW q \in Promise,
           NEW tk, NEW ta, NEW tb,
           Tok(nc, cell, prom, queue, cursor, cur, tk, ta, tb, q),
           \A p \in Promise : prom'[p].state = prom[p].state,
           \A p \in Promise : \A k, a, b :
              Tok(nc', cell', prom', queue', cursor', cur', k, a, b, p)
                <=> \/ /\ Tok(nc, cell, prom, queue, cursor, cur, k, a, b, p)
                       /\ ~(k = tk /\ a = ta /\ b = tb)
                    \/ p = q /\ k = "cell" /\ a = nc + 1 /\ b = 0,
           \A p \in Promise : p # q => ~Tok(nc, cell, prom, queue, cursor, cur, tk, ta, tb, p)
    PROVE  SettlerInv'
<1>1. ASSUME NEW p \in Promise
      PROVE  /\ AtMostOne(nc', cell', prom', queue', cursor', cur', p)
             /\ IF prom'[p].state = "pending"
                  THEN aborted' \/ Some(nc', cell', prom', queue', cursor', cur', p)
                  ELSE ~Some(nc', cell', prom', queue', cursor', cur', p)
  <2>1. AtMostOne(nc, cell, prom, queue, cursor, cur, p)
    BY DEF SettlerInv, Sound
  <2>2. CASE p # q
    <3>1. \A k, a, b : Tok(nc', cell', prom', queue', cursor', cur', k, a, b, p)
                         <=> Tok(nc, cell, prom, queue, cursor, cur, k, a, b, p)
      BY <2>2
    <3>2. QED
      BY <3>1 DEF SettlerInv, Sound, AtMostOne, Some
  <2>3. CASE p = q
    <3>1. \A k, a, b : Tok(nc', cell', prom', queue', cursor', cur', k, a, b, p)
                         <=> k = "cell" /\ a = nc + 1 /\ b = 0
      BY <2>1, <2>3 DEF AtMostOne
    <3>2. AtMostOne(nc', cell', prom', queue', cursor', cur', p)
      BY <3>1 DEF AtMostOne
    <3>3. Some(nc', cell', prom', queue', cursor', cur', p)
      BY <3>1 DEF Some
    <3>4. prom'[p].state = "pending"
      BY <2>3 DEF SettlerInv, Sound, Some
    <3>5. QED
      BY <3>2, <3>3, <3>4
  <2>4. QED
    BY <2>2, <2>3
<1>2. QED
  BY <1>1 DEF SettlerInv, Sound

(* a settler of q settles it, and q's reactions become the jobs behind L:  *)
LEMMA SoundSettle ==
    ASSUME SettlerInv, aborted' = aborted, NEW q \in Promise, NEW L \in Nat,
           NEW tk \in {"cell", "running"}, NEW ta, NEW tb,
           Tok(nc, cell, prom, queue, cursor, cur, tk, ta, tb, q),
           prom'[q].state # "pending",
           \A p \in Promise : p # q => prom'[p].state = prom[p].state,
           \A p \in Promise : p # q => ~Tok(nc, cell, prom, queue, cursor, cur, tk, ta, tb, p),
           \A p \in Promise : \A a, b :
              /\ Tok(nc, cell, prom, queue, cursor, cur, "job", a, b, p) => a <= L
              /\ Tok(nc, cell, prom, queue, cursor, cur, "reaction", a, b, p) => b \in Nat /\ b > 0,
           \A p \in Promise : \A k, a, b :
              Tok(nc', cell', prom', queue', cursor', cur', k, a, b, p)
                <=> \/ /\ Tok(nc, cell, prom, queue, cursor, cur, k, a, b, p)
                       /\ ~(k = tk /\ a = ta /\ b = tb)
                       /\ ~(k = "reaction" /\ a = q)
                    \/ /\ k = "job" /\ b = 0 /\ a \in Nat /\ a > L
                       /\ Tok(nc, cell, prom, queue, cursor, cur, "reaction", q, a - L, p)
    PROVE  SettlerInv'
<1> DEFINE Old(k, a, b, p) == Tok(nc, cell, prom, queue, cursor, cur, k, a, b, p)
           New(k, a, b, p) == Tok(nc', cell', prom', queue', cursor', cur', k, a, b, p)
<1>1. ASSUME NEW p \in Promise
      PROVE  /\ AtMostOne(nc', cell', prom', queue', cursor', cur', p)
             /\ IF prom'[p].state = "pending"
                  THEN aborted' \/ Some(nc', cell', prom', queue', cursor', cur', p)
                  ELSE ~Some(nc', cell', prom', queue', cursor', cur', p)
  <2>1. \A k, a, b, l, d, e : Old(k, a, b, p) /\ Old(l, d, e, p) => k = l /\ a = d /\ b = e
    BY DEF SettlerInv, Sound, AtMostOne
  <2>2. CASE p # q
    <3>1. \A k, a, b : New(k, a, b, p) <=>
            \/ Old(k, a, b, p) /\ ~(k = "reaction" /\ a = q)
            \/ k = "job" /\ b = 0 /\ a \in Nat /\ a > L /\ Old("reaction", q, a - L, p)
      BY <2>2
    <3>2. \A a, b : Old("job", a, b, p) => a <= L
      OBVIOUS
    <3>3. \A b : Old("reaction", q, b, p) => b \in Nat /\ b > 0
      OBVIOUS
    <3>4. (\E k, a, b : New(k, a, b, p)) <=> (\E k, a, b : Old(k, a, b, p))
      <4> HIDE DEF Old, New
      <4>1. ASSUME NEW k, NEW a, NEW b, Old(k, a, b, p)
            PROVE  \E l, d, e : New(l, d, e, p)
        <5>1. CASE k = "reaction" /\ a = q
          <6>1. b \in Nat /\ b > 0 /\ Old("reaction", q, b, p)
            BY <3>3, <4>1, <5>1
          <6>2. b + L \in Nat /\ b + L > L /\ (b + L) - L = b
            BY <6>1
          <6>3. New("job", b + L, 0, p)
            BY <3>1, <6>1, <6>2
          <6>4. QED
            BY <6>3
        <5>2. CASE ~(k = "reaction" /\ a = q)
          BY <3>1, <4>1, <5>2
        <5>3. QED
          BY <5>1, <5>2
      <4>2. ASSUME NEW k, NEW a, NEW b, New(k, a, b, p)
            PROVE  \E l, d, e : Old(l, d, e, p)
        BY <3>1, <4>2
      <4>3. QED
        BY <4>1, <4>2
    <3>5. \A k, a, b, l, d, e : New(k, a, b, p) /\ New(l, d, e, p) => k = l /\ a = d /\ b = e
      <4> HIDE DEF Old, New
      <4>1. SUFFICES ASSUME NEW k, NEW a, NEW b, NEW l, NEW d, NEW e,
                            New(k, a, b, p), New(l, d, e, p)
                     PROVE  k = l /\ a = d /\ b = e
        BY Zenon
      <4>2. CASE Old(k, a, b, p) /\ ~(k = "reaction" /\ a = q)
        <5>1. CASE Old(l, d, e, p) /\ ~(l = "reaction" /\ d = q)
          BY <2>1, <4>2, <5>1
        <5>2. CASE Old("reaction", q, d - L, p)
          BY <2>1, <4>2, <5>2
        <5>3. QED
          BY <3>1, <4>1, <5>1, <5>2
      <4>3. CASE k = "job" /\ b = 0 /\ a \in Nat /\ a > L /\ Old("reaction", q, a - L, p)
        <5>1. CASE Old(l, d, e, p) /\ ~(l = "reaction" /\ d = q)
          BY <2>1, <4>3, <5>1
        <5>2. CASE l = "job" /\ e = 0 /\ d \in Nat /\ d > L /\ Old("reaction", q, d - L, p)
          <6>1. a - L = d - L
            BY <2>1, <4>3, <5>2
          <6>2. QED
            BY <4>3, <5>2, <6>1
        <5>3. QED
          BY <3>1, <4>1, <5>1, <5>2
      <4>4. QED
        BY <3>1, <4>1, <4>2, <4>3
    <3>6. AtMostOne(nc', cell', prom', queue', cursor', cur', p)
      BY <3>5 DEF AtMostOne
    <3>7. Some(nc', cell', prom', queue', cursor', cur', p)
            <=> Some(nc, cell, prom, queue, cursor, cur, p)
      BY <3>4 DEF Some
    <3>8. QED
      BY <2>2, <3>6, <3>7 DEF SettlerInv, Sound
  <2>3. CASE p = q
    <3>1. \A k, a, b : Old(k, a, b, p) => k = tk /\ a = ta /\ b = tb
      BY <2>1, <2>3
    <3>2. \A b : ~Old("reaction", q, b, p)
      BY <3>1
    <3>3. \A k, a, b : ~New(k, a, b, p)
      BY <2>3, <3>1, <3>2
    <3>4. QED
      BY <2>3, <3>3 DEF AtMostOne, Some
  <2>4. QED
    BY <2>2, <2>3
<1>2. QED
  BY <1>1 DEF SettlerInv, Sound


(* What the operations of the heap do to the settlers.                     *)

LEMMA TokSettle ==
    ASSUME HeapInv, HeapScoped, NEW p \in Promise, NEW state \in Settled, NEW v \in Value,
           BornVal(v, np), PromiseSettle(p, state, v), IsPending(p),
           cursor \in 0..Len(queue), NEW n, NEW cs, NEW j
    PROVE  \A r \in Promise : \A k, a, b :
              Tok(n, cs, prom', queue', cursor, j, k, a, b, r)
                <=> \/ /\ Tok(n, cs, prom, queue, cursor, j, k, a, b, r)
                       /\ ~(k = "reaction" /\ a = p)
                    \/ /\ k = "job" /\ b = 0 /\ a \in Nat /\ a > Len(queue)
                       /\ Tok(n, cs, prom, queue, cursor, j, "reaction", p, a - Len(queue), r)
<1> DEFINE rs == prom[p].reactions
           js == TriggerReactions(rs, state, v)
<1>0. queue \in Seq(Job) /\ Len(queue) \in Nat /\ np \in Nat /\ cursor \in Nat
  BY DEF HeapInv, HeapType
<1>1. /\ prom'[p].reactions = <<>> /\ rs \in Seq(Reaction)
      /\ \A q \in Promise : q # p => prom'[q] = prom[q]
      /\ queue' = queue \o js
  BY SettleFacts
<1>2. /\ js \in Seq(Job) /\ Len(js) = Len(rs) /\ Len(rs) \in Nat
      /\ \A k \in 1..Len(rs) : js[k].downstream = rs[k].downstream
  <2>1. \A k \in 1..Len(rs) : ReactionBorn(rs[k], np)
    BY DEF HeapScoped, PromScoped, RecordBorn
  <2> HIDE DEF rs
  <2>2. QED
    BY <1>0, <1>1, <2>1, TriggerScoped
<1> HIDE DEF js
<1>3. /\ Len(queue') = Len(queue) + Len(rs)
      /\ \A k \in 1..Len(queue') : queue'[k] = IF k <= Len(queue) THEN queue[k] ELSE js[k - Len(queue)]
  <2>1. /\ Len(queue \o js) = Len(queue) + Len(js)
        /\ \A k \in 1..(Len(queue) + Len(js)) :
             (queue \o js)[k] = IF k <= Len(queue) THEN queue[k] ELSE js[k - Len(queue)]
    BY <1>0, <1>2, ConcatProperties
  <2>2. QED
    BY <1>1, <1>2, <2>1
<1>4. Len(prom'[p].reactions) = 0
  BY <1>1
<1> SUFFICES ASSUME NEW r \in Promise, NEW k, NEW a, NEW b
             PROVE  Tok(n, cs, prom', queue', cursor, j, k, a, b, r)
                <=> \/ /\ Tok(n, cs, prom, queue, cursor, j, k, a, b, r)
                       /\ ~(k = "reaction" /\ a = p)
                    \/ /\ k = "job" /\ b = 0 /\ a \in Nat /\ a > Len(queue)
                       /\ Tok(n, cs, prom, queue, cursor, j, "reaction", p, a - Len(queue), r)
  OBVIOUS
<1>5. CASE k = "reaction"
  <2>1. CASE a = p
    BY <1>4, <1>5, <2>1 DEF Tok
  <2>2. CASE a # p
    BY <1>1, <1>5, <2>2 DEF Tok
  <2>3. QED
    BY <2>1, <2>2
<1>6. CASE k = "job"
  <2>1. CASE a \in 1..Len(queue)
    <3>1. a <= Len(queue) /\ a \in 1..Len(queue') /\ queue'[a] = queue[a] /\ ~(a > Len(queue))
          /\ (a \in (cursor + 1)..Len(queue') <=> a \in (cursor + 1)..Len(queue))
      BY <1>0, <1>2, <1>3, <2>1
    <3>2. QED
      BY <1>6, <3>1 DEF Tok
  <2>2. CASE a \in Nat /\ a > Len(queue)
    <3>1. a \notin (cursor + 1)..Len(queue)
      BY <1>0, <2>2
    <3>2. a \in (cursor + 1)..Len(queue') <=> a - Len(queue) \in 1..Len(rs)
      BY <1>0, <1>2, <1>3, <2>2
    <3>3. a - Len(queue) \in 1..Len(rs) =>
            queue'[a].downstream = rs[a - Len(queue)].downstream
      BY <1>0, <1>2, <1>3, <2>2
    <3>4. Tok(n, cs, prom', queue', cursor, j, "job", a, b, r) <=>
            /\ b = 0 /\ a - Len(queue) \in 1..Len(rs)
            /\ rs[a - Len(queue)].downstream.promise = r
      BY <3>2, <3>3 DEF Tok
    <3>5. Tok(n, cs, prom, queue, cursor, j, "reaction", p, a - Len(queue), r) <=>
            /\ a - Len(queue) \in 1..Len(rs)
            /\ rs[a - Len(queue)].downstream.promise = r
      BY DEF Tok
    <3>6. ~Tok(n, cs, prom, queue, cursor, j, "job", a, b, r)
      BY <3>1 DEF Tok
    <3>7. QED
      BY <1>6, <2>2, <3>4, <3>5, <3>6
  <2>3. CASE a \notin Nat \/ a = 0
    <3>1. a \notin (cursor + 1)..Len(queue') /\ a \notin (cursor + 1)..Len(queue)
      BY <1>0, <1>2, <1>3, <2>3
    <3>2. ~(a \in Nat /\ a > Len(queue))
      BY <1>0, <2>3
    <3>3. QED
      BY <1>6, <3>1, <3>2 DEF Tok
  <2>4. QED
    BY <1>0, <2>1, <2>2, <2>3
<1>7. CASE k # "reaction" /\ k # "job"
  BY <1>7 DEF Tok
<1>8. QED
  BY <1>5, <1>6, <1>7

(* The ranges of the tokens.                                               *)
LEMMA TokRange ==
    ASSUME HeapInv, cursor \in 0..Len(queue)
    PROVE  \A p \in Promise : \A a, b :
              /\ Tok(nc, cell, prom, queue, cursor, cur, "job", a, b, p) => a <= Len(queue)
              /\ Tok(nc, cell, prom, queue, cursor, cur, "reaction", a, b, p) => b \in Nat /\ b > 0
<1>1. Len(queue) \in Nat /\ cursor \in Nat
  BY DEF HeapInv, HeapType
<1>2. \A p \in Promise : prom[p].reactions \in Seq(Reaction) /\ Len(prom[p].reactions) \in Nat
  BY DEF HeapInv, HeapType, PromiseRec
<1>3. QED
  BY <1>1, <1>2 DEF Tok

LEMMA TokMark ==
    ASSUME HeapInv, HeapScoped, NEW c \in Cell, ~AlreadyCalled(c), NEW j,
           \A p \in Promise : j.downstream.promise = p <=> cur.downstream.promise = p
    PROVE  /\ \A p \in Promise : \A k, a, b :
                Tok(nc, MarkAlreadyCalled(c), prom, queue, cursor, j, k, a, b, p)
                  <=> /\ Tok(nc, cell, prom, queue, cursor, cur, k, a, b, p)
                      /\ ~(k = "cell" /\ a = c /\ b = 0)
           /\ Tok(nc, cell, prom, queue, cursor, cur, "cell", c, 0, cell[c].target)
           /\ \A p \in Promise : p # cell[c].target =>
                ~Tok(nc, cell, prom, queue, cursor, cur, "cell", c, 0, p)
<1>1. /\ c \in 1..nc /\ 1..nc \subseteq Cell
      /\ MarkAlreadyCalled(c)[c].called
      /\ \A d \in Cell : /\ MarkAlreadyCalled(c)[d].target = cell[d].target
                         /\ d # c => MarkAlreadyCalled(c)[d] = cell[d]
  BY MarkScoped, BoundsAssumption DEF Cell, HeapInv, HeapType
<1>2. ~cell[c].called
  BY DEF AlreadyCalled
<1>3. ASSUME NEW p \in Promise, NEW k, NEW a, NEW b
      PROVE  Tok(nc, MarkAlreadyCalled(c), prom, queue, cursor, j, k, a, b, p)
                  <=> /\ Tok(nc, cell, prom, queue, cursor, cur, k, a, b, p)
                      /\ ~(k = "cell" /\ a = c /\ b = 0)
  <2>1. CASE k = "cell"
    BY <1>1, <1>2, <2>1 DEF Tok
  <2>2. CASE k # "cell"
    BY <2>2 DEF Tok
  <2>3. QED
    BY <2>1, <2>2
<1>4. Tok(nc, cell, prom, queue, cursor, cur, "cell", c, 0, cell[c].target)
  BY <1>1, <1>2 DEF Tok
<1>5. \A p \in Promise : p # cell[c].target =>
        ~Tok(nc, cell, prom, queue, cursor, cur, "cell", c, 0, p)
  BY DEF Tok
<1>6. QED
  BY <1>3, <1>4, <1>5

(* The settler t of q is used up in a call that settles q.                 *)
LEMMA SettleSound ==
    ASSUME HeapInv, HeapScoped, SettlerInv, cursor \in 0..Len(queue),
           cursor' = cursor, aborted' = aborted, nc' = nc,
           NEW q \in Promise, NEW state \in Settled, NEW v \in Value, BornVal(v, np),
           PromiseSettle(q, state, v),
           NEW tk \in {"cell", "running"}, NEW ta, NEW tb,
           Tok(nc, cell, prom, queue, cursor, cur, tk, ta, tb, q),
           \A p \in Promise : p # q => ~Tok(nc, cell, prom, queue, cursor, cur, tk, ta, tb, p),
           \A p \in Promise : \A k, a, b :
              Tok(nc, cell', prom, queue, cursor, cur', k, a, b, p)
                <=> /\ Tok(nc, cell, prom, queue, cursor, cur, k, a, b, p)
                    /\ ~(k = tk /\ a = ta /\ b = tb)
    PROVE  SettlerInv'
<1>1. IsPending(q)
  BY DEF SettlerInv, Sound, Some, IsPending
<1>2. /\ prom'[q].state # "pending"
      /\ \A p \in Promise : p # q => prom'[p].state = prom[p].state
  BY <1>1, SettleFacts DEF Settled
<1>3. \A p \in Promise : \A k, a, b :
        Tok(nc, cell', prom', queue', cursor, cur', k, a, b, p)
          <=> \/ /\ Tok(nc, cell', prom, queue, cursor, cur', k, a, b, p)
                 /\ ~(k = "reaction" /\ a = q)
              \/ /\ k = "job" /\ b = 0 /\ a \in Nat /\ a > Len(queue)
                 /\ Tok(nc, cell', prom, queue, cursor, cur', "reaction", q, a - Len(queue), p)
  BY <1>1, TokSettle
<1>4. \A p \in Promise : \A b :
        Tok(nc, cell', prom, queue, cursor, cur', "reaction", q, b, p)
          <=> Tok(nc, cell, prom, queue, cursor, cur, "reaction", q, b, p)
  OBVIOUS
<1>5. \A p \in Promise : \A k, a, b :
        Tok(nc', cell', prom', queue', cursor', cur', k, a, b, p)
          <=> \/ /\ Tok(nc, cell, prom, queue, cursor, cur, k, a, b, p)
                 /\ ~(k = tk /\ a = ta /\ b = tb)
                 /\ ~(k = "reaction" /\ a = q)
              \/ /\ k = "job" /\ b = 0 /\ a \in Nat /\ a > Len(queue)
                 /\ Tok(nc, cell, prom, queue, cursor, cur, "reaction", q, a - Len(queue), p)
  BY <1>3, <1>4
<1>6. Len(queue) \in Nat
  BY DEF HeapInv, HeapType
<1>7. QED
  BY <1>2, <1>5, <1>6, TokRange, SoundSettle

LEMMA ResolveSound ==
    ASSUME HeapInv, HeapScoped, SettlerInv, cursor \in 0..Len(queue),
           cursor' = cursor, aborted' = aborted,
           NEW q \in Promise, NEW v \in Value, BornVal(v, np),
           NEW cells \in [Cell -> [target : Promise, called : BOOLEAN]],
           ResolveWithValue(q, v, cells),
           NEW tk \in {"cell", "running"}, NEW ta, NEW tb,
           Tok(nc, cell, prom, queue, cursor, cur, tk, ta, tb, q),
           \A p \in Promise : p # q => ~Tok(nc, cell, prom, queue, cursor, cur, tk, ta, tb, p),
           \A p \in Promise : \A k, a, b :
              Tok(nc, cells, prom, queue, cursor, cur', k, a, b, p)
                <=> /\ Tok(nc, cell, prom, queue, cursor, cur, k, a, b, p)
                    /\ ~(k = tk /\ a = ta /\ b = tb)
    PROVE  SettlerInv'
<1>1. CASE IsPending(q) /\ v # q /\ v \in Promise \cup Thenable
  <2> DEFINE j == [handler |-> ThenableJob(nc + 1, v), arg |-> None,
                   downstream |-> NoDownstream]
             c2 == [target |-> q, called |-> FALSE]
  <2>1. /\ nc < MaxCells /\ nc' = nc + 1
        /\ cell' = [cells EXCEPT ![nc + 1] = c2]
        /\ queue' = Append(queue, j)
        /\ prom' = prom
    BY <1>1 DEF ResolveWithValue
  <2>2. c2.target = q /\ ~c2.called /\ j.downstream.promise = None
    BY DEF NoDownstream
  <2>3. queue \in Seq(Job) /\ nc \in Nat /\ cursor \in Nat /\ Len(queue) \in Nat
    BY DEF HeapInv, HeapType
  <2> HIDE DEF j, c2
  <2>4. /\ \A d \in 1..nc : cell'[d] = cells[d]
        /\ cell'[nc + 1] = c2
    BY <2>1, <2>3, BoundsAssumption DEF Cell
  <2>5. /\ Len(queue') = Len(queue) + 1
        /\ \A d \in 1..Len(queue) : queue'[d] = queue[d]
        /\ queue'[Len(queue) + 1] = j
    BY <2>1, <2>3
  <2>6. ASSUME NEW p \in Promise, NEW k, NEW a, NEW b
        PROVE  Tok(nc', cell', prom', queue', cursor', cur', k, a, b, p)
                 <=> \/ Tok(nc, cells, prom, queue, cursor, cur', k, a, b, p)
                     \/ p = q /\ k = "cell" /\ a = nc + 1 /\ b = 0
    <3>1. CASE k = "cell"
      <4>1. CASE a \in 1..nc
        BY <2>1, <2>3, <2>4, <3>1, <4>1 DEF Tok
      <4>2. CASE a = nc + 1
        BY <2>1, <2>2, <2>3, <2>4, <3>1, <4>2 DEF Tok
      <4>3. CASE a \notin 1..nc /\ a # nc + 1
        BY <2>1, <2>3, <3>1, <4>3 DEF Tok
      <4>4. QED
        BY <4>1, <4>2, <4>3
    <3>2. CASE k = "job"
      <4>1. CASE a = Len(queue) + 1
        <5>1. p # None
          BY DEF Promise, None
        <5>2. QED
          BY <2>2, <2>3, <2>5, <3>2, <4>1, <5>1 DEF Tok
      <4>2. CASE a # Len(queue) + 1
        <5>1. a \in (cursor + 1)..Len(queue') <=> a \in (cursor + 1)..Len(queue)
          BY <2>3, <2>5, <4>2
        <5>2. a \in (cursor + 1)..Len(queue) => queue'[a] = queue[a]
          BY <2>3, <2>5
        <5>3. QED
          BY <3>2, <5>1, <5>2 DEF Tok
      <4>3. QED
        BY <4>1, <4>2
    <3>3. CASE k # "cell" /\ k # "job"
      BY <2>1, <3>3 DEF Tok
    <3>4. QED
      BY <3>1, <3>2, <3>3
  <2>7. \A p \in Promise : \A k, a, b :
          Tok(nc', cell', prom', queue', cursor', cur', k, a, b, p)
            <=> \/ /\ Tok(nc, cell, prom, queue, cursor, cur, k, a, b, p)
                   /\ ~(k = tk /\ a = ta /\ b = tb)
                \/ p = q /\ k = "cell" /\ a = nc + 1 /\ b = 0
    BY <2>6
  <2>8. \A p \in Promise : prom'[p].state = prom[p].state
    BY <2>1
  <2>9. QED
    BY <2>7, <2>8, SoundRenew
<1>2. CASE ~(IsPending(q) /\ v # q /\ v \in Promise \cup Thenable)
  <2>1. /\ cell' = cells
        /\ \/ PromiseSettle(q, "rejected", Error)
           \/ PromiseSettle(q, "fulfilled", v)
        /\ UNCHANGED <<np, nc, follows>>
    BY <1>2 DEF ResolveWithValue
  <2>2. Error \in Value /\ "rejected" \in Settled /\ "fulfilled" \in Settled /\ BornVal(Error, np)
    BY AtomsBorn DEF Value, Settled, HeapInv, HeapType
  <2>3. \A p \in Promise : \A k, a, b :
              Tok(nc, cell', prom, queue, cursor, cur', k, a, b, p)
                <=> /\ Tok(nc, cell, prom, queue, cursor, cur, k, a, b, p)
                    /\ ~(k = tk /\ a = ta /\ b = tb)
    BY <2>1
  <2>4. CASE PromiseSettle(q, "rejected", Error)
    BY <2>1, <2>2, <2>3, <2>4, SettleSound
  <2>5. CASE PromiseSettle(q, "fulfilled", v)
    BY <2>1, <2>2, <2>3, <2>5, SettleSound
  <2>6. QED
    BY <2>1, <2>4, <2>5
<1>3. QED
  BY <1>1, <1>2

(* A step that leaves the capabilities, the queue and the current job.     *)
LEMMA KeepSound ==
    ASSUME SettlerInv, UNCHANGED <<nc, cell, queue, cursor, aborted>>,
           \A p \in Promise : prom'[p].state = "pending" <=> prom[p].state = "pending",
           \A p \in Promise : prom'[p].reactions = prom[p].reactions,
           \A p \in Promise : cur'.downstream.promise = p <=> cur.downstream.promise = p
    PROVE  SettlerInv'
<1>1. \A p \in Promise : \A k, a, b :
        Tok(nc', cell', prom', queue', cursor', cur', k, a, b, p)
          <=> Tok(nc, cell, prom, queue, cursor, cur, k, a, b, p)
  BY DEF Tok
<1>2. QED
  BY <1>1, SoundSame

LEMMA CallResolveSound ==
    ASSUME HeapInv, HeapScoped, SettlerInv, cursor \in 0..Len(queue),
           UNCHANGED <<cursor, aborted>>,
           \A p \in Promise : cur'.downstream.promise = p <=> cur.downstream.promise = p,
           NEW c \in Cell, NEW v \in Value, BornVal(v, np), CallResolveFn(c, v)
    PROVE  SettlerInv'
<1>1. CASE AlreadyCalled(c)
  BY <1>1, KeepSound DEF CallResolveFn, heapVars
<1>2. CASE ~AlreadyCalled(c)
  <2>1. ResolveWithValue(cell[c].target, v, MarkAlreadyCalled(c))
    BY <1>2 DEF CallResolveFn
  <2>2. /\ cell[c].target \in Promise
        /\ MarkAlreadyCalled(c) \in [Cell -> [target : Promise, called : BOOLEAN]]
    BY <1>2, MarkScoped
  <2>3. /\ \A p \in Promise : \A k, a, b :
             Tok(nc, MarkAlreadyCalled(c), prom, queue, cursor, cur', k, a, b, p)
               <=> /\ Tok(nc, cell, prom, queue, cursor, cur, k, a, b, p)
                   /\ ~(k = "cell" /\ a = c /\ b = 0)
        /\ Tok(nc, cell, prom, queue, cursor, cur, "cell", c, 0, cell[c].target)
        /\ \A p \in Promise : p # cell[c].target =>
             ~Tok(nc, cell, prom, queue, cursor, cur, "cell", c, 0, p)
    BY <1>2, TokMark
  <2>4. QED
    BY <2>1, <2>2, <2>3, ResolveSound
<1>3. QED
  BY <1>1, <1>2

LEMMA CallRejectSound ==
    ASSUME HeapInv, HeapScoped, SettlerInv, cursor \in 0..Len(queue),
           UNCHANGED <<cursor, aborted>>,
           \A p \in Promise : cur'.downstream.promise = p <=> cur.downstream.promise = p,
           NEW c \in Cell, NEW v \in Value, BornVal(v, np), CallRejectFn(c, v)
    PROVE  SettlerInv'
<1>1. CASE AlreadyCalled(c)
  BY <1>1, KeepSound DEF CallRejectFn, heapVars
<1>2. CASE ~AlreadyCalled(c)
  <2>1. /\ cell' = MarkAlreadyCalled(c) /\ nc' = nc
        /\ PromiseSettle(cell[c].target, "rejected", v)
    BY <1>2 DEF CallRejectFn
  <2>2. cell[c].target \in Promise /\ "rejected" \in Settled
    BY <1>2, MarkScoped DEF Settled
  <2>3. /\ \A p \in Promise : \A k, a, b :
             Tok(nc, MarkAlreadyCalled(c), prom, queue, cursor, cur', k, a, b, p)
               <=> /\ Tok(nc, cell, prom, queue, cursor, cur, k, a, b, p)
                   /\ ~(k = "cell" /\ a = c /\ b = 0)
        /\ Tok(nc, cell, prom, queue, cursor, cur, "cell", c, 0, cell[c].target)
        /\ \A p \in Promise : p # cell[c].target =>
             ~Tok(nc, cell, prom, queue, cursor, cur, "cell", c, 0, p)
    BY <1>2, TokMark
  <2>4. \A p \in Promise : \A k, a, b :
          Tok(nc, cell', prom, queue, cursor, cur', k, a, b, p)
            <=> /\ Tok(nc, cell, prom, queue, cursor, cur, k, a, b, p)
                /\ ~(k = "cell" /\ a = c /\ b = 0)
    BY <2>1, <2>3
  <2>5. QED
    BY <2>1, <2>2, <2>3, <2>4, SettleSound
<1>3. QED
  BY <1>1, <1>2

(* The next capability, and the next promise, are allocated.               *)
NewCell(m, c2) ==
    nc < MaxCells /\ m = nc + 1 /\ nc' = m /\ cell' = [cell EXCEPT ![m] = c2]
NewRecord(n, r) ==
    np < MaxPromises /\ n = np + 1 /\ prom' = [prom EXCEPT ![n] = r]

(* The capability of a new promise is a settler exactly if it is uncalled. *)
LEMMA TokCell ==
    ASSUME HeapInv, NEW m, NEW c2, NewCell(m, c2), NEW ps, NEW q, NEW c, NEW j
    PROVE  /\ c2.called => \A p \in Promise : \A k, a, b :
                Tok(nc', cell', ps, q, c, j, k, a, b, p)
                  <=> Tok(nc, cell, ps, q, c, j, k, a, b, p)
           /\ ~c2.called => \A p \in Promise : \A k, a, b :
                Tok(nc', cell', ps, q, c, j, k, a, b, p)
                  <=> \/ Tok(nc, cell, ps, q, c, j, k, a, b, p)
                      \/ p = c2.target /\ k = "cell" /\ a = m /\ b = 0
<1>1. /\ nc \in Nat /\ m \in Cell /\ nc' = m /\ m = nc + 1
      /\ cell' = [cell EXCEPT ![m] = c2]
      /\ cell \in [Cell -> [target : Promise, called : BOOLEAN]]
      /\ \A d \in 1..nc : d \in Cell /\ d # m
  BY BoundsAssumption DEF HeapInv, HeapType, Cell, NewCell
<1>2. cell'[m] = c2 /\ \A d \in 1..nc : cell'[d] = cell[d]
  BY <1>1
<1>3. \A a : /\ a \in 1..nc' <=> a \in 1..nc \/ a = m
             /\ ~(m \in 1..nc)
  BY <1>1
<1>4. ASSUME c2.called, NEW p \in Promise, NEW k, NEW a, NEW b
      PROVE  Tok(nc', cell', ps, q, c, j, k, a, b, p)
                <=> Tok(nc, cell, ps, q, c, j, k, a, b, p)
  <2>1. CASE k = "cell"
    BY <1>2, <1>3, <1>4, <2>1 DEF Tok
  <2>2. CASE k # "cell"
    BY <2>2 DEF Tok
  <2>3. QED
    BY <2>1, <2>2
<1>5. ASSUME ~c2.called, NEW p \in Promise, NEW k, NEW a, NEW b
      PROVE  Tok(nc', cell', ps, q, c, j, k, a, b, p)
                <=> \/ Tok(nc, cell, ps, q, c, j, k, a, b, p)
                    \/ p = c2.target /\ k = "cell" /\ a = m /\ b = 0
  <2>1. CASE k = "cell"
    BY <1>2, <1>3, <1>5, <2>1 DEF Tok
  <2>2. CASE k # "cell"
    BY <2>2 DEF Tok
  <2>3. QED
    BY <2>1, <2>2
<1>6. QED
  BY <1>4, <1>5

LEMMA AllocateSound ==
    ASSUME HeapInv, HeapScoped, SettlerInv,
           NEW n, NEW r \in PromiseRec, r.reactions = <<>>, NewRecord(n, r),
           NEW m, NEW c2, c2.target = n, NewCell(m, c2),
           \/ r.state = "pending" /\ ~c2.called
           \/ r.state # "pending" /\ c2.called,
           UNCHANGED <<queue, cursor, cur, aborted>>
    PROVE  SettlerInv'
<1>1. n \in Promise /\ \A q \in Promise : prom'[q] = IF q = n THEN r ELSE prom[q]
  BY BoundsAssumption DEF HeapInv, HeapType, Promise, NewRecord
<1>2. prom[n].state # "pending" /\ prom[n].reactions = <<>>
  BY <1>1 DEF HeapInv, HeapType, PromiseInv, NewRecord
<1>3. \A q \in Promise : prom'[q].reactions = prom[q].reactions
  BY <1>1, <1>2
<1>4. \A p \in Promise : \A k, a, b :
        Tok(nc', cell', prom', queue', cursor', cur', k, a, b, p)
          <=> Tok(nc', cell', prom, queue, cursor, cur, k, a, b, p)
  BY <1>3 DEF Tok
<1>5. CASE r.state = "pending" /\ ~c2.called
  <2>1. PICK nk, nb : nk = "cell" /\ nb = 0
    OBVIOUS
  <2>2. \A p \in Promise : \A k, a, b :
          Tok(nc', cell', prom, queue, cursor, cur, k, a, b, p)
            <=> \/ Tok(nc, cell, prom, queue, cursor, cur, k, a, b, p)
                \/ p = c2.target /\ k = "cell" /\ a = m /\ b = 0
    BY <1>5, TokCell
  <2>3. \A p \in Promise : \A k, a, b :
          Tok(nc', cell', prom', queue', cursor', cur', k, a, b, p)
            <=> \/ Tok(nc, cell, prom, queue, cursor, cur, k, a, b, p)
                \/ p = n /\ k = nk /\ a = m /\ b = nb
    BY <1>4, <2>1, <2>2
  <2>4. Tok(nc', cell', prom', queue', cursor', cur', nk, m, nb, n)
    BY <1>1, <2>3
  <2>5. prom'[n].state = "pending" /\ \A p \in Promise : p # n => prom'[p].state = prom[p].state
    BY <1>1, <1>5
  <2>6. QED
    BY <1>1, <1>2, <2>3, <2>4, <2>5, SoundAdd
<1>6. CASE r.state # "pending" /\ c2.called
  <2>1. \A p \in Promise : \A k, a, b :
          Tok(nc', cell', prom', queue', cursor', cur', k, a, b, p)
            <=> Tok(nc, cell, prom, queue, cursor, cur, k, a, b, p)
    BY <1>4, <1>6, TokCell
  <2>2. \A p \in Promise : prom'[p].state = "pending" <=> prom[p].state = "pending"
    BY <1>1, <1>2, <1>6
  <2>3. QED
    BY <2>1, <2>2, SoundSame
<1>7. QED
  BY <1>5, <1>6

(* Where the reaction that then adds is found: on p's list, or as a job.   *)
LEMMA TokReaction ==
    ASSUME HeapInv, HeapScoped, cursor \in 0..Len(queue), NEW p \in Promise, p <= np,
           NEW r \in Reaction, np < MaxPromises, AddReaction(p, r), NEW n, NEW cs, NEW j
    PROVE  /\ IsPending(p) => \A q \in Promise : \A k, a, b :
                Tok(n, cs, prom', queue', cursor, j, k, a, b, q)
                  <=> \/ Tok(n, cs, prom, queue, cursor, j, k, a, b, q)
                      \/ /\ r.downstream.promise = q /\ k = "reaction" /\ a = p
                         /\ b = Len(prom[p].reactions) + 1
           /\ ~IsPending(p) => \A q \in Promise : \A k, a, b :
                Tok(n, cs, prom', queue', cursor, j, k, a, b, q)
                  <=> \/ Tok(n, cs, prom, queue, cursor, j, k, a, b, q)
                      \/ /\ r.downstream.promise = q /\ k = "job"
                         /\ a = Len(queue) + 1 /\ b = 0
<1> DEFINE m == np + 1
           rs == prom[p].reactions
           js == TriggerReactions(<<r>>, prom[p].state, prom[p].result)
<1>1. /\ m \in Promise /\ m # p /\ prom'[m] = Fresh
      /\ \A q \in Promise : q # p /\ q # m => prom'[q] = prom[q]
      /\ rs \in Seq(Reaction)
      /\ IsPending(p) => /\ prom'[p].reactions = Append(rs, r)
                         /\ queue' = queue
      /\ ~IsPending(p) => /\ prom'[p].reactions = <<>> /\ rs = <<>>
                          /\ queue' = queue \o js
  BY AddReactionFacts
<1>2. /\ queue \in Seq(Job) /\ Len(queue) \in Nat /\ cursor \in Nat /\ cursor <= Len(queue)
      /\ prom[m].reactions = <<>> /\ Fresh.reactions = <<>>
      /\ prom[p].result \in Value /\ BornVal(prom[p].result, np)
      /\ np \in Nat
  BY <1>1 DEF HeapInv, HeapType, PromiseInv, PromiseRec, Fresh, Unborn, HeapScoped,
              PromScoped, RecordBorn
<1>3. \A q \in Promise : q # p => prom'[q].reactions = prom[q].reactions
  BY <1>1, <1>2
<1>4. ASSUME IsPending(p)
      PROVE  \A q \in Promise : \A k, a, b :
                Tok(n, cs, prom', queue', cursor, j, k, a, b, q)
                  <=> \/ Tok(n, cs, prom, queue, cursor, j, k, a, b, q)
                      \/ /\ r.downstream.promise = q /\ k = "reaction" /\ a = p
                         /\ b = Len(rs) + 1
  <2>1. /\ Len(prom'[p].reactions) = Len(rs) + 1 /\ Len(rs) \in Nat
        /\ prom'[p].reactions[Len(rs) + 1] = r
        /\ \A k \in 1..Len(rs) : prom'[p].reactions[k] = rs[k]
    BY <1>1, <1>4, AppendProperties
  <2> SUFFICES ASSUME NEW q \in Promise, NEW k, NEW a, NEW b
               PROVE  Tok(n, cs, prom', queue', cursor, j, k, a, b, q)
                  <=> \/ Tok(n, cs, prom, queue, cursor, j, k, a, b, q)
                      \/ /\ r.downstream.promise = q /\ k = "reaction" /\ a = p
                         /\ b = Len(rs) + 1
    OBVIOUS
  <2>2. CASE k = "reaction" /\ a = p
    <3>1. b \in 1..Len(prom'[p].reactions) <=> b \in 1..Len(rs) \/ b = Len(rs) + 1
      BY <2>1
    <3>2. ~(Len(rs) + 1 \in 1..Len(rs))
      BY <2>1
    <3>3. QED
      BY <2>1, <2>2, <3>1, <3>2 DEF Tok
  <2>3. CASE k = "reaction" /\ a # p
    BY <1>3, <2>3 DEF Tok
  <2>4. CASE k # "reaction"
    BY <1>1, <1>4, <2>4 DEF Tok
  <2>5. QED
    BY <2>2, <2>3, <2>4
<1>5. ASSUME ~IsPending(p)
      PROVE  \A q \in Promise : \A k, a, b :
                Tok(n, cs, prom', queue', cursor, j, k, a, b, q)
                  <=> \/ Tok(n, cs, prom, queue, cursor, j, k, a, b, q)
                      \/ /\ r.downstream.promise = q /\ k = "job"
                         /\ a = Len(queue) + 1 /\ b = 0
  <2>1. /\ js \in Seq(Job) /\ Len(js) = 1 /\ js[1].downstream = r.downstream
    <3>1. <<r>> \in Seq(Reaction) /\ Len(<<r>>) = 1 /\ <<r>>[1] = r
      OBVIOUS
    <3>2. js = [k \in 1..1 |-> ReactionJob(<<r>>[k], prom[p].state, prom[p].result)]
      BY <3>1 DEF TriggerReactions
    <3>3. js[1] = ReactionJob(r, prom[p].state, prom[p].result)
      BY <3>1, <3>2
    <3>4. js \in Seq(Job)
      BY <1>2, <3>1, TriggerReactionsType
    <3>5. DOMAIN js = 1..1
      BY <3>2
    <3>6. Len(js) = 1
      <4>1. Len(js) \in Nat /\ DOMAIN js = 1..Len(js)
        BY <3>4, LenProperties
      <4> HIDE DEF js
      <4>2. QED
        BY <3>5, <4>1
    <3>7. QED
      BY <3>3, <3>4, <3>6 DEF ReactionJob
  <2> HIDE DEF js
  <2>2. /\ Len(queue') = Len(queue) + 1 /\ queue'[Len(queue) + 1] = js[1]
        /\ \A k \in 1..Len(queue) : queue'[k] = queue[k]
    <3>1. /\ Len(queue \o js) = Len(queue) + Len(js)
          /\ \A k \in 1..(Len(queue) + Len(js)) :
               (queue \o js)[k] = IF k <= Len(queue) THEN queue[k] ELSE js[k - Len(queue)]
      BY <1>2, <2>1, ConcatProperties
    <3>2. QED
      BY <1>1, <1>2, <1>5, <2>1, <3>1
  <2> SUFFICES ASSUME NEW q \in Promise, NEW k, NEW a, NEW b
               PROVE  Tok(n, cs, prom', queue', cursor, j, k, a, b, q)
                  <=> \/ Tok(n, cs, prom, queue, cursor, j, k, a, b, q)
                      \/ /\ r.downstream.promise = q /\ k = "job"
                         /\ a = Len(queue) + 1 /\ b = 0
    OBVIOUS
  <2>3. CASE k = "job"
    <3>1. /\ a \in (cursor + 1)..Len(queue') <=>
               a \in (cursor + 1)..Len(queue) \/ a = Len(queue) + 1
          /\ a \in (cursor + 1)..Len(queue) => queue'[a] = queue[a] /\ a # Len(queue) + 1
      BY <1>2, <2>2
    <3>2. QED
      BY <2>1, <2>2, <2>3, <3>1 DEF Tok
  <2>4. CASE k # "job"
    <3>1. prom'[p].reactions = prom[p].reactions
      BY <1>1, <1>5
    <3>2. QED
      BY <1>3, <2>4, <3>1 DEF Tok
  <2>5. QED
    BY <2>3, <2>4
<1>6. QED
  BY <1>4, <1>5

(* A derived promise is settled by its capability or by the reaction.      *)
LEMMA ThenSound ==
    ASSUME HeapInv, HeapScoped, SettlerInv, cursor \in 0..Len(queue),
           UNCHANGED <<cursor, cur, aborted>>, NEW p \in Promise, p <= np,
           NEW onF \in Handler, NEW onR \in Handler, NEW species \in BOOLEAN,
           Then(p, onF, onR, species)
    PROVE  SettlerInv'
<1>1. PICK n, m : n = np + 1 /\ m = nc + 1
  OBVIOUS
<1>2. PICK ds : ds = IF species THEN [promise |-> None, cell |-> m]
                                ELSE [promise |-> n, cell |-> None]
  OBVIOUS
<1>3. PICK r : r = [onFulfilled |-> onF, onRejected |-> onR, downstream |-> ds]
  OBVIOUS
<1>4. /\ np < MaxPromises /\ AddReaction(p, r)
      /\ species => NewCell(m, [target |-> n, called |-> FALSE])
      /\ ~species => nc' = nc /\ cell' = cell
  BY <1>1, <1>2, <1>3 DEF Then, NewCell
<1>5. /\ r.downstream = ds /\ r \in Reaction
      /\ species => ds.promise = None
      /\ ~species => ds.promise = n
  <2>1. /\ n \in Promise /\ (species => m \in Cell)
    BY <1>1, <1>4, BoundsAssumption DEF Promise, Cell, NewCell, HeapInv, HeapType
  <2>2. ds \in Downstream
    BY <1>2, <2>1 DEF Downstream
  <2>3. QED
    BY <1>2, <1>3, <2>2 DEF Reaction
<1>6. /\ n \in Promise /\ n # p /\ prom'[n].state = "pending"
      /\ prom[n].state # "pending"
      /\ \A q \in Promise : q # n => prom'[q].state = prom[q].state
  <2>1. /\ n \in Promise /\ n # p /\ prom'[n] = Fresh
        /\ \A q \in Promise : q # p /\ q # n => prom'[q] = prom[q]
        /\ prom'[p].state = prom[p].state
    BY <1>1, <1>4, <1>5, AddReactionFacts
  <2>2. Fresh.state = "pending"
    BY DEF Fresh, Unborn
  <2>3. prom[n].state # "pending"
    BY <1>1, <2>1 DEF HeapInv, HeapType, PromiseInv
  <2>4. QED
    BY <2>1, <2>2, <2>3
<1>7. \A q \in Promise : q # None
  BY DEF Promise, None
<1>8. CASE species
  <2>1. PICK c2 : c2 = [target |-> n, called |-> FALSE]
    OBVIOUS
  <2>2. c2.target = n /\ ~c2.called /\ NewCell(m, c2)
    BY <1>4, <1>8, <2>1
  <2>3. \A q \in Promise : ds.promise # q
    BY <1>5, <1>7, <1>8
  <2>4. \A q \in Promise : \A k, a, b :
          Tok(nc', cell', prom', queue', cursor, cur, k, a, b, q)
            <=> Tok(nc', cell', prom, queue, cursor, cur, k, a, b, q)
    <3>1. CASE IsPending(p)
      BY <1>4, <1>5, <2>3, <3>1, TokReaction
    <3>2. CASE ~IsPending(p)
      BY <1>4, <1>5, <2>3, <3>2, TokReaction
    <3>3. QED
      BY <3>1, <3>2
  <2>5. \A q \in Promise : \A k, a, b :
          Tok(nc', cell', prom, queue, cursor, cur, k, a, b, q)
            <=> \/ Tok(nc, cell, prom, queue, cursor, cur, k, a, b, q)
                \/ q = c2.target /\ k = "cell" /\ a = m /\ b = 0
    BY <2>2, TokCell
  <2>6. PICK nk, nb : nk = "cell" /\ nb = 0
    OBVIOUS
  <2>7. \A q \in Promise : \A k, a, b :
          Tok(nc', cell', prom', queue', cursor', cur', k, a, b, q)
            <=> \/ Tok(nc, cell, prom, queue, cursor, cur, k, a, b, q)
                \/ q = n /\ k = nk /\ a = m /\ b = nb
    BY <2>2, <2>4, <2>5, <2>6
  <2>8. Tok(nc', cell', prom', queue', cursor', cur', nk, m, nb, n)
    BY <1>6, <2>7
  <2>9. QED
    BY <1>6, <2>7, <2>8, SoundAdd
<1>9. CASE ~species
  <2>1. PICK nk, na, nb : IF IsPending(p)
                            THEN nk = "reaction" /\ na = p /\ nb = Len(prom[p].reactions) + 1
                            ELSE nk = "job" /\ na = Len(queue) + 1 /\ nb = 0
    <3>1. CASE IsPending(p)
      BY <3>1
    <3>2. CASE ~IsPending(p)
      BY <3>2
    <3>3. QED
      BY <3>1, <3>2
  <2>2. \A q \in Promise : \A k, a, b :
          Tok(nc', cell', prom', queue', cursor, cur, k, a, b, q)
            <=> \/ Tok(nc', cell', prom, queue, cursor, cur, k, a, b, q)
                \/ ds.promise = q /\ k = nk /\ a = na /\ b = nb
    <3>1. CASE IsPending(p)
      BY <1>4, <1>5, <2>1, <3>1, TokReaction
    <3>2. CASE ~IsPending(p)
      BY <1>4, <1>5, <2>1, <3>2, TokReaction
    <3>3. QED
      BY <3>1, <3>2
  <2>3. \A q \in Promise : \A k, a, b :
          Tok(nc', cell', prom', queue', cursor', cur', k, a, b, q)
            <=> \/ Tok(nc, cell, prom, queue, cursor, cur, k, a, b, q)
                \/ q = n /\ k = nk /\ a = na /\ b = nb
    BY <1>4, <1>5, <1>9, <2>2
  <2>4. Tok(nc', cell', prom', queue', cursor', cur', nk, na, nb, n)
    BY <1>6, <2>3
  <2>5. QED
    BY <1>6, <2>3, <2>4, SoundAdd
<1>10. QED
  BY <1>8, <1>9

LEMMA ScriptSound ==
    ASSUME IInv, Scoped, SettlerInv, ScriptStep \/ HostStep
    PROVE  SettlerInv'
<1>0. /\ HeapInv /\ HeapScoped /\ exposed \subseteq Cell /\ cursor \in 0..Len(queue)
      /\ np \in Nat
  BY DEF IInv, HeapInv, HeapType, ControlType, Scoped
<1>1. /\ ScriptValue \subseteq Value /\ \A v \in ScriptValue : BornVal(v, np)
      /\ Error \in Value /\ BornVal(Error, np)
  <2>1. Born \subseteq Promise /\ \A v \in Born : v <= np
    BY BoundsAssumption DEF Born, Promise, IInv, HeapInv, HeapType
  <2>2. QED
    BY <1>0, <2>1, AtomsBorn DEF ScriptValue, Value, BornVal
<1>2. CASE NewPromise
  <2>1. PICK n, m, c2 : n = np + 1 /\ m = nc + 1 /\ c2 = [target |-> n, called |-> FALSE]
    OBVIOUS
  <2>2. /\ c2.target = n /\ ~c2.called
        /\ NewRecord(n, Fresh) /\ NewCell(m, c2)
        /\ UNCHANGED <<queue, cursor, cur, aborted>>
    BY <1>2, <2>1 DEF NewPromise, ScriptOp, NewRecord, NewCell
  <2>3. Fresh \in PromiseRec /\ Fresh.reactions = <<>> /\ Fresh.state = "pending"
    BY FreshType DEF Fresh, Unborn
  <2>4. QED
    BY <1>0, <2>2, <2>3, AllocateSound
<1>3. CASE NewPromiseInterrupted
  <2>1. PICK n, m, c2 : n = np + 1 /\ m = nc + 1 /\ c2 = [target |-> n, called |-> TRUE]
    OBVIOUS
  <2>2. PICK r : r = [Fresh EXCEPT !.state = "rejected", !.result = Interrupted,
                                   !.inRejectList = TRUE]
    OBVIOUS
  <2>3. /\ c2.target = n /\ c2.called
        /\ NewRecord(n, r) /\ NewCell(m, c2)
        /\ UNCHANGED <<queue, cursor, cur, aborted>>
    BY <1>3, <2>1, <2>2 DEF NewPromiseInterrupted, ScriptOp, NewRecord, NewCell
  <2>4. r \in PromiseRec /\ r.reactions = <<>> /\ r.state # "pending"
    BY <2>2, FreshType DEF PromiseRec, Settled, Value
  <2>5. QED
    BY <1>0, <2>3, <2>4, AllocateSound
<1>4. CASE SettlingCombinator
  <2>1. PICK v \in Plain : prom' = [prom EXCEPT ![np + 1] =
                             [Fresh EXCEPT !.state = "fulfilled", !.result = v]]
    BY <1>4 DEF SettlingCombinator
  <2>2. PICK n, r : n = np + 1 /\ r = [Fresh EXCEPT !.state = "fulfilled", !.result = v]
    OBVIOUS
  <2>3. /\ n \in Promise
        /\ \A q \in Promise : prom'[q] = IF q = n THEN r ELSE prom[q]
        /\ UNCHANGED <<nc, cell, queue, cursor, aborted, cur>>
    BY <1>4, <2>1, <2>2, BoundsAssumption
    DEF SettlingCombinator, ScriptOp, HeapInv, HeapType, Promise, IInv
  <2>4. r.reactions = <<>> /\ r.state # "pending"
    BY <2>2, FreshType DEF PromiseRec, Settled, Value
  <2>5. prom[n].state # "pending" /\ prom[n].reactions = <<>>
    BY <1>0, <2>2, <2>3 DEF HeapInv, PromiseInv
  <2>6. QED
    BY <2>3, <2>4, <2>5, KeepSound
<1>5. CASE ScriptResolve \/ ScriptReject \/ HostSettle
  <2>1. UNCHANGED <<cursor, aborted, cur>>
    BY <1>5 DEF ScriptResolve, ScriptReject, HostSettle, ScriptOp, drainVars, histVars
  <2>2. \A p \in Promise : cur'.downstream.promise = p <=> cur.downstream.promise = p
    BY <2>1
  <2>3. \/ \E c \in exposed, v \in ScriptValue : CallResolveFn(c, v)
        \/ \E c \in exposed : CallRejectFn(c, Error)
    BY <1>5 DEF ScriptResolve, ScriptReject, HostSettle
  <2>4. QED
    BY <1>0, <1>1, <2>1, <2>2, <2>3, CallResolveSound, CallRejectSound
<1>6. CASE ScriptThen
  <2>1. PICK p \in Born, onF \in {Plainly("user"), Plainly("undefined")},
             onR \in {Plainly("user"), Plainly("undefined")},
             species \in BOOLEAN : Then(p, onF, onR, species)
    BY <1>6 DEF ScriptThen
  <2>2. onF \in Handler /\ onR \in Handler
    BY DEF Handler, Callable, Closure, Plainly
  <2>3. p \in Promise /\ p <= np
    BY BoundsAssumption DEF Born, Promise, IInv, HeapInv, HeapType
  <2>4. UNCHANGED <<cursor, cur, aborted>>
    BY <1>6 DEF ScriptThen, ScriptOp
  <2>5. QED
    BY <1>0, <2>1, <2>2, <2>3, <2>4, ThenSound
<1>7. CASE Eval \/ HostDrain
  <2>1. UNCHANGED <<prom, nc, cell, queue, cursor, aborted, cur>>
    BY <1>7 DEF Eval, HostDrain, HostCall, heapVars, drainVars
  <2>2. QED
    BY <2>1, KeepSound
<1>8. QED
  BY <1>2, <1>3, <1>4, <1>5, <1>6, <1>7 DEF ScriptStep, HostStep

(* What the end of a job does to its downstream.                           *)
LEMMA AfterSound ==
    ASSUME IInv, Scoped, SettlerInv, JobAfter
    PROVE  SettlerInv'
<1>0. /\ HeapInv /\ HeapScoped /\ cursor \in 0..Len(queue)
      /\ ret \in Value /\ BornVal(ret, np)
      /\ cell \in [Cell -> [target : Promise, called : BOOLEAN]]
  BY DEF IInv, HeapInv, HeapType, ControlType, Scoped
<1>1. /\ UNCHANGED <<cursor, aborted>> /\ cur' = NoJob
      /\ MicrotaskAfter(cur.downstream)
      /\ cur.downstream \in Downstream
  BY JobFacts DEF JobAfter, histVars
<1>2. PICK ds : ds = cur.downstream
  OBVIOUS
<1>3. \A p \in Promise : p # None /\ cur'.downstream.promise # p
  BY <1>1 DEF Promise, None, NoJob, NoDownstream
<1>4. CASE ds.cell # None
  <2>1. ds.cell \in Cell /\ ds.promise = None
    BY <1>1, <1>2, <1>4 DEF Downstream, NoDownstream
  <2>2. CallRejectFn(ds.cell, ret) \/ CallResolveFn(ds.cell, ret)
    BY <1>1, <1>2, <1>4 DEF MicrotaskAfter
  <2>3. \A p \in Promise : cur'.downstream.promise = p <=> cur.downstream.promise = p
    BY <1>2, <1>3, <2>1
  <2>4. QED
    BY <1>0, <1>1, <2>1, <2>2, <2>3, CallRejectSound, CallResolveSound
<1>5. CASE ds.cell = None /\ ds.promise # None
  <2>1. PICK q \in Promise : q = ds.promise
    BY <1>1, <1>2, <1>5 DEF Downstream, NoDownstream
  <2>2. PICK tk \in {"cell", "running"}, ta \in {0}, tb \in {0} : tk = "running" /\ ta = 0 /\ tb = 0
    OBVIOUS
  <2>3. /\ Tok(nc, cell, prom, queue, cursor, cur, tk, ta, tb, q)
        /\ \A p \in Promise : p # q =>
             ~Tok(nc, cell, prom, queue, cursor, cur, tk, ta, tb, p)
    BY <1>2, <2>1, <2>2 DEF Tok
  <2>4. \A p \in Promise : \A k, a, b :
          Tok(nc, cell, prom, queue, cursor, cur', k, a, b, p)
            <=> /\ Tok(nc, cell, prom, queue, cursor, cur, k, a, b, p)
                /\ ~(k = tk /\ a = ta /\ b = tb)
    BY <1>3, <2>2 DEF Tok
  <2>5. IsPending(q)
    BY <2>3 DEF SettlerInv, Sound, Some, IsPending
  <2>6. \/ PromiseSettle(q, "rejected", ret) /\ UNCHANGED <<np, cell, nc, follows>>
        \/ ResolveWithValue(q, ret, cell)
    BY <1>1, <1>2, <1>5, <2>1, <2>5 DEF MicrotaskAfter
  <2>7. CASE PromiseSettle(q, "rejected", ret) /\ UNCHANGED <<np, cell, nc, follows>>
    <3>1. \A p \in Promise : \A k, a, b :
            Tok(nc, cell', prom, queue, cursor, cur', k, a, b, p)
              <=> /\ Tok(nc, cell, prom, queue, cursor, cur, k, a, b, p)
                  /\ ~(k = tk /\ a = ta /\ b = tb)
      BY <2>4, <2>7
    <3>2. "rejected" \in Settled /\ nc' = nc
      BY <2>7 DEF Settled
    <3>3. QED
      BY <1>0, <1>1, <2>3, <2>7, <3>1, <3>2, SettleSound
  <2>8. CASE ResolveWithValue(q, ret, cell)
    BY <1>0, <1>1, <2>3, <2>4, <2>8, ResolveSound
  <2>9. QED
    BY <2>6, <2>7, <2>8
<1>6. CASE ds.cell = None /\ ds.promise = None
  <2>1. UNCHANGED heapVars
    BY <1>1, <1>2, <1>6 DEF MicrotaskAfter
  <2>2. \A p \in Promise : cur'.downstream.promise = p <=> cur.downstream.promise = p
    BY <1>2, <1>3, <1>6
  <2>3. QED
    BY <1>1, <2>1, <2>2, KeepSound DEF heapVars
<1>7. QED
  BY <1>4, <1>5, <1>6

LEMMA DrainSound ==
    ASSUME IInv, CursorInv, SettlerInv, DrainEnter \/ DrainTake \/ DrainEnd
    PROVE  SettlerInv'
<1>0. /\ queue \in Seq(Job) /\ Len(queue) \in Nat
      /\ cursor \in 0..Len(queue) /\ cursor \in Nat
  BY DEF IInv, HeapInv, HeapType
<1>1. CASE DrainEnter
  <2>1. UNCHANGED <<prom, nc, cell, queue, aborted, cur>>
    BY <1>1 DEF DrainEnter, histVars
  <2>2. cursor' = cursor
    BY <1>1 DEF DrainEnter, CursorInv
  <2>3. QED
    BY <2>1, <2>2, KeepSound
<1>2. CASE DrainTake
  <2>1. /\ Running("drain") /\ Head(stack).i = 0 /\ cursor < Len(queue)
        /\ cur' = queue[cursor + 1] /\ cursor' = cursor + 1
        /\ UNCHANGED <<prom, nc, cell, queue, aborted>>
    BY <1>2 DEF DrainTake, Quiet, heapVars, histVars
  <2>2. cur = NoJob
    <3>1. /\ stack # <<>> /\ stack[1].kind = "drain" /\ stack[1].i = 0
          /\ stack \in Seq(Frame) /\ draining \in BOOLEAN /\ Disciplined(stack, draining, cur)
      BY <2>1, StackFacts
    <3>2. \A k \in 2..Len(stack) : stack[k].kind \notin JobFrames
      BY <3>1, OneDrain, Zenon
    <3>3. \A k \in 1..Len(stack) : stack[k].kind \notin JobFrames
      BY <3>1, <3>2 DEF JobFrames
    <3>4. QED
      BY <3>1, <3>3 DEF Disciplined
  <2>3. \A p \in Promise : cur.downstream.promise # p
    BY <2>2 DEF NoJob, NoDownstream, Promise, None
  <2>4. \A p \in Promise : \A a, b :
          ~Tok(nc, cell, prom, queue, cursor, cur, "running", a, b, p)
    BY <2>3 DEF Tok
  <2>5. \A p \in Promise : \A b :
          Tok(nc, cell, prom, queue, cursor, cur, "job", cursor + 1, 0, p)
            <=> cur'.downstream.promise = p
    BY <1>0, <2>1 DEF Tok
  <2>6. ASSUME NEW p \in Promise, NEW k, NEW a, NEW b
        PROVE  Tok(nc', cell', prom', queue', cursor', cur', k, a, b, p)
                 <=> \/ /\ Tok(nc, cell, prom, queue, cursor, cur, k, a, b, p)
                        /\ ~(k = "job" /\ a = cursor + 1 /\ b = 0)
                     \/ /\ Tok(nc, cell, prom, queue, cursor, cur, "job", cursor + 1, 0, p)
                        /\ k = "running" /\ a = 0 /\ b = 0
    <3>1. CASE k = "job"
      <4>1. a \in (cursor' + 1)..Len(queue) <=> a \in (cursor + 1)..Len(queue) /\ a # cursor + 1
        BY <1>0, <2>1
      <4>2. QED
        BY <2>1, <3>1, <4>1 DEF Tok
    <3>2. CASE k = "running"
      <4>1. Tok(nc', cell', prom', queue', cursor', cur', k, a, b, p)
              <=> a = 0 /\ b = 0 /\ cur'.downstream.promise = p
        BY <3>2 DEF Tok
      <4>2. QED
        BY <2>4, <2>5, <3>2, <4>1
    <3>3. CASE k # "job" /\ k # "running"
      BY <2>1, <3>3 DEF Tok
    <3>4. QED
      BY <3>1, <3>2, <3>3
  <2>7. \A p \in Promise : prom'[p].state = prom[p].state
    BY <2>1
  <2>8. QED
    BY <2>1, <2>4, <2>6, <2>7, SoundTake
<1>3. CASE DrainEnd
  <2>1. /\ cursor = Len(queue) /\ queue' = <<>> /\ cursor' = 0
        /\ UNCHANGED <<prom, nc, cell, aborted, cur>>
    BY <1>3 DEF DrainEnd, histVars
  <2>2. Len(queue') = 0
    BY <2>1
  <2>3. \A a : a \notin (cursor + 1)..Len(queue) /\ a \notin (cursor' + 1)..Len(queue')
    BY <1>0, <2>1, <2>2
  <2>4. \A p \in Promise : \A k, a, b :
          Tok(nc', cell', prom', queue', cursor', cur', k, a, b, p)
            <=> Tok(nc, cell, prom, queue, cursor, cur, k, a, b, p)
    BY <2>1, <2>3 DEF Tok
  <2>5. QED
    BY <2>1, <2>4, SoundSame
<1>4. QED
  BY <1>1, <1>2, <1>3

LEMMA ReportSound ==
    ASSUME IInv, SettlerInv, ReportSkip \/ ReportCall \/ TrackerReturn \/ ReportReturn
    PROVE  SettlerInv'
<1>1. UNCHANGED <<nc, cell, queue, cursor, cur, aborted>>
  BY DEF ReportSkip, ReportCall, TrackerReturn, ReportReturn, ReportQuiet, drainVars
<1>2. prom \in [Promise -> PromiseRec]
  BY DEF IInv, HeapInv, HeapType
<1>3. \A q \in Promise : /\ prom'[q].state = prom[q].state
                         /\ prom'[q].reactions = prom[q].reactions
  <2>1. CASE ReportSkip
    <3>1. PICK p : prom' = IF p = None THEN prom ELSE [prom EXCEPT ![p].inRejectList = FALSE]
      BY <2>1 DEF ReportSkip
    <3>2. QED
      BY <1>2, <3>1 DEF PromiseRec
  <2>2. CASE ReportCall
    <3>1. PICK p : prom' = [prom EXCEPT ![p].inRejectList = FALSE, ![p].isHandled = TRUE]
      BY <2>2 DEF ReportCall
    <3>2. QED
      BY <1>2, <3>1 DEF PromiseRec
  <2>3. CASE TrackerReturn \/ ReportReturn
    BY <2>3 DEF TrackerReturn, ReportReturn
  <2>4. QED
    BY <2>1, <2>2, <2>3
<1>4. QED
  BY <1>1, <1>3, KeepSound

LEMMA EngineSound ==
    ASSUME IInv, Scoped, CursorInv, SettlerInv, EngineStep
    PROVE  SettlerInv'
<1>0. /\ HeapInv /\ HeapScoped /\ cursor \in 0..Len(queue) /\ np \in Nat
      /\ JobBorn(cur, np)
  BY DEF IInv, HeapInv, HeapType, Scoped
<1>1. \A p \in Promise : cur' = cur =>
        (cur'.downstream.promise = p <=> cur.downstream.promise = p)
  OBVIOUS
<1>2. CASE \/ ScriptEnd \/ EvalReturn \/ HostDrainReturn \/ DrainReturn
           \/ RunScriptHandler \/ RunIdentity \/ RunThrower
           \/ RunScriptThenable \/ HandlerEnd
  <2>1. UNCHANGED heapVars /\ UNCHANGED <<cursor, cur, aborted>>
    BY <1>2 DEF ScriptEnd, EvalReturn, HostDrainReturn, DrainReturn, RunScriptHandler,
       RunIdentity, RunThrower, RunScriptThenable, HandlerEnd, Quiet, JobQuiet, drainVars, histVars
  <2>2. QED
    BY <2>1, KeepSound DEF heapVars
<1>3. CASE RunResolvingFn
  <2>1. cur.handler.cell \in Cell /\ cur.arg \in Value /\ BornVal(cur.arg, np)
    BY <1>0, <1>3, JobFacts DEF RunResolvingFn, JobStarts, JobBorn
  <2>2. UNCHANGED <<cursor, cur, aborted>>
    BY <1>3 DEF RunResolvingFn, JobQuiet, histVars
  <2>3. \/ CallResolveFn(cur.handler.cell, cur.arg)
        \/ CallRejectFn(cur.handler.cell, cur.arg)
    BY <1>3 DEF RunResolvingFn
  <2>4. QED
    BY <1>0, <1>1, <2>1, <2>2, <2>3, CallResolveSound, CallRejectSound
<1>4. CASE RunNativeThenable
  <2>1. /\ cur.handler.cell \in Cell /\ cur.handler.resolution \in Promise
        /\ cur.handler.resolution <= np
    BY <1>0, <1>4, JobFacts DEF RunNativeThenable, JobStarts, JobBorn, BornVal
  <2>2. ResolveFn(cur.handler.cell) \in Handler /\ RejectFn(cur.handler.cell) \in Handler
    BY <2>1 DEF ResolveFn, RejectFn, Handler, Callable, Resolving
  <2>3. Then(cur.handler.resolution, ResolveFn(cur.handler.cell),
             RejectFn(cur.handler.cell), FALSE)
    BY <1>4 DEF RunNativeThenable
  <2>4. UNCHANGED <<cursor, cur, aborted>>
    BY <1>4 DEF RunNativeThenable, JobQuiet, histVars
  <2>5. QED
    BY <1>0, <2>1, <2>2, <2>3, <2>4, ThenSound
<1>5. CASE ThenableEnd
  <2>1. cur.handler.cell \in Cell
    <3>1. Running("thenable")
      BY <1>5 DEF ThenableEnd
    <3>2. stack # <<>> /\ stack[1].kind = "thenable" /\ stack \in Seq(Frame)
      BY <3>1, StackFacts
    <3>3. 1 \in 1..Len(stack)
      BY <3>2, PopProperties
    <3>4. QED
      BY <3>2, <3>3, JobFacts DEF IInv, StackDiscipline, Disciplined
  <2>2. UNCHANGED <<cursor, cur, aborted>>
    BY <1>5 DEF ThenableEnd
  <2>3. \/ UNCHANGED heapVars
        \/ CallRejectFn(cur.handler.cell, Error)
        \/ CallRejectFn(cur.handler.cell, Interrupted)
    BY <1>5 DEF ThenableEnd
  <2>4. /\ Error \in Value /\ BornVal(Error, np)
        /\ Interrupted \in Value /\ BornVal(Interrupted, np)
    BY <1>0, AtomsBorn DEF Value
  <2>5. CASE UNCHANGED heapVars
    BY <2>2, <2>5, KeepSound DEF heapVars
  <2>6. CASE CallRejectFn(cur.handler.cell, Error) \/ CallRejectFn(cur.handler.cell, Interrupted)
    BY <1>0, <1>1, <2>1, <2>2, <2>4, <2>6, CallRejectSound
  <2>7. QED
    BY <2>3, <2>5, <2>6
<1>6. CASE JobAborts
  <2>1. /\ UNCHANGED heapVars /\ cursor' = Len(queue) /\ cur' = NoJob /\ aborted' = TRUE
    BY <1>6 DEF JobAborts, Quiet
  <2>2. \A p \in Promise : cur'.downstream.promise # p
    BY <2>1 DEF NoJob, NoDownstream, Promise, None
  <2>3. \A a : a \notin (cursor' + 1)..Len(queue')
    <3>1. Len(queue) \in Nat /\ queue' = queue
      BY <2>1 DEF heapVars, IInv, HeapInv, HeapType
    <3>2. QED
      BY <2>1, <3>1
  <2>4. \A p \in Promise : \A k, a, b :
          Tok(nc', cell', prom', queue', cursor', cur', k, a, b, p)
            => Tok(nc, cell, prom, queue, cursor, cur, k, a, b, p)
    BY <2>1, <2>2, <2>3 DEF Tok, heapVars
  <2>5. QED
    BY <2>1, <2>4, SoundDrop DEF heapVars
<1>7. QED
  BY <1>2, <1>3, <1>4, <1>5, <1>6, AfterSound, DrainSound, ReportSound DEF EngineStep

LEMMA SoundStep ==
    ASSUME IInv, Scoped, CursorInv, SettlerInv, [Next]_vars
    PROVE  SettlerInv'
<1>1. CASE UNCHANGED vars
  BY <1>1, KeepSound DEF vars
<1>2. QED
  BY <1>1, ScriptSound, EngineSound DEF Next

LEMMA InitSound ==
    ASSUME Init
    PROVE  SettlerInv
<1>1. /\ nc = 0 /\ queue = <<>> /\ cursor = 0 /\ cur = NoJob
      /\ \A p \in Promise : prom[p] = Unborn
  BY DEF Init
<1>2. Len(queue) = 0 /\ Len(Unborn.reactions) = 0 /\ Unborn.state = "unborn"
  <2>1. Unborn.reactions = <<>>
    BY DEF Unborn
  <2>2. QED
    BY <1>1, <2>1 DEF Unborn
<1>3. \A p \in Promise : NoJob.downstream.promise # p
  BY DEF NoJob, NoDownstream, Promise, None
<1>4. \A p \in Promise : \A k, a, b : ~Tok(nc, cell, prom, queue, cursor, cur, k, a, b, p)
  BY <1>1, <1>2, <1>3 DEF Tok
<1>5. QED
  BY <1>1, <1>2, <1>4 DEF SettlerInv, Sound, AtMostOne, Some

LEMMA Settling == Spec => [](IInv /\ Scoped /\ CursorInv /\ SettlerInv)
<1>1. Init => IInv /\ Scoped /\ CursorInv /\ SettlerInv
  BY InitInv, InitScoped, InitSound DEF Init, CursorInv
<1>2. IInv /\ Scoped /\ CursorInv /\ SettlerInv /\ [Next]_vars
        => (IInv /\ Scoped /\ CursorInv /\ SettlerInv)'
  BY NextInv, StutterInv, ScopedStep, ControlStep, SoundStep
<1>3. QED
  BY <1>1, <1>2, PTL DEF Spec

(* The tokens of p are the members of Settlers(p).                         *)
LEMMA SettlersAreTokens ==
    ASSUME IInv, Scoped, NEW p \in Born
    PROVE  \A x : x \in Settlers(p) <=>
              \E k, a, b : /\ x = <<k, a, b>>
                           /\ Tok(nc, cell, prom, queue, cursor, cur, k, a, b, p)
<1>1. /\ np \in 0..MaxPromises /\ Born \subseteq Promise
      /\ \A q \in Promise : prom[q].reactions \in Seq(Reaction)
      /\ \A q \in Promise : q \notin Born => Len(prom[q].reactions) = 0
  <2>1. np \in 0..MaxPromises /\ prom \in [Promise -> PromiseRec]
    BY DEF IInv, HeapInv, HeapType
  <2>2. \A q \in Promise : q \notin Born => prom[q].reactions = <<>>
    BY <2>1 DEF IInv, HeapInv, PromiseInv, Born, Promise
  <2>3. QED
    BY <2>1, <2>2, BoundsAssumption DEF Born, Promise, PromiseRec
<1>2. \A q \in Promise : DOMAIN prom[q].reactions = 1..Len(prom[q].reactions)
  BY <1>1
<1> SUFFICES ASSUME NEW x
             PROVE  x \in Settlers(p) <=>
                      \E k, a, b : /\ x = <<k, a, b>>
                                   /\ Tok(nc, cell, prom, queue, cursor, cur, k, a, b, p)
  OBVIOUS
<1>3. x \in Settlers(p) <=>
        \/ \E c \in 1..nc : x = <<"cell", c, 0>> /\ cell[c].target = p /\ ~cell[c].called
        \/ \E q \in Born : \E k \in DOMAIN prom[q].reactions :
             /\ x = <<"reaction", q, k>>
             /\ prom[q].reactions[k].downstream.promise = p
        \/ \E k \in (cursor + 1)..Len(queue) :
             x = <<"job", k, 0>> /\ queue[k].downstream.promise = p
        \/ x = <<"running", 0, 0>> /\ cur.downstream.promise = p
  <2> DEFINE C == {<<"cell", c, 0>> : c \in {c \in 1..nc : cell[c].target = p /\ ~cell[c].called}}
             R(q) == {<<"reaction", q, k>> : k \in {k \in DOMAIN prom[q].reactions :
                        prom[q].reactions[k].downstream.promise = p}}
             J == {<<"job", k, 0>> : k \in {k \in cursor + 1..Len(queue) :
                        queue[k].downstream.promise = p}}
             N == {t \in {<<"running", 0, 0>>} : cur.downstream.promise = p}
  <2>1. Settlers(p) = C \cup (UNION {R(q) : q \in Born}) \cup J \cup N
    BY Zenon DEF Settlers
  <2>2. x \in C <=> \E c \in 1..nc : x = <<"cell", c, 0>> /\ cell[c].target = p /\ ~cell[c].called
    BY Zenon
  <2>3. \A q : x \in R(q) <=> \E k \in DOMAIN prom[q].reactions :
             /\ x = <<"reaction", q, k>>
             /\ prom[q].reactions[k].downstream.promise = p
    BY Zenon
  <2>4. x \in J <=> \E k \in (cursor + 1)..Len(queue) :
             x = <<"job", k, 0>> /\ queue[k].downstream.promise = p
    BY Zenon
  <2>5. x \in N <=> x = <<"running", 0, 0>> /\ cur.downstream.promise = p
    BY Zenon
  <2> HIDE DEF C, R, J, N
  <2>6. x \in Settlers(p) <=> x \in C \/ (\E q \in Born : x \in R(q)) \/ x \in J \/ x \in N
    BY <2>1
  <2>7. QED
    BY <2>2, <2>3, <2>4, <2>5, <2>6, Zenon
<1>4. ASSUME x \in Settlers(p)
      PROVE  \E k, a, b : /\ x = <<k, a, b>>
                          /\ Tok(nc, cell, prom, queue, cursor, cur, k, a, b, p)
  <2>1. CASE \E c \in 1..nc : x = <<"cell", c, 0>> /\ cell[c].target = p /\ ~cell[c].called
    BY <2>1 DEF Tok
  <2>2. CASE \E q \in Born : \E k \in DOMAIN prom[q].reactions :
               /\ x = <<"reaction", q, k>>
               /\ prom[q].reactions[k].downstream.promise = p
    BY <1>1, <1>2, <2>2 DEF Tok
  <2>3. CASE \E k \in (cursor + 1)..Len(queue) :
               x = <<"job", k, 0>> /\ queue[k].downstream.promise = p
    BY <2>3 DEF Tok
  <2>4. CASE x = <<"running", 0, 0>> /\ cur.downstream.promise = p
    BY <2>4 DEF Tok
  <2>5. QED
    BY <1>3, <1>4, <2>1, <2>2, <2>3, <2>4
<1>5. ASSUME NEW k, NEW a, NEW b, x = <<k, a, b>>,
             Tok(nc, cell, prom, queue, cursor, cur, k, a, b, p)
      PROVE  x \in Settlers(p)
  BY <1>1, <1>2, <1>3, <1>5 DEF Tok
<1>6. QED
  BY <1>4, <1>5

(* However resolution nests thenables, capabilities, reactions and jobs,   *)
(* exactly one party can settle a pending promise and none a settled one   *)
(* (promise_resolve_with_value, builtin_promise_proto_then,                *)
(* promise_microtask_after); only an aborted drain leaves none.            *)
THEOREM OneSettler == Spec => []ExactlyOneSettler
<1>1. ASSUME IInv, Scoped, SettlerInv
      PROVE  ExactlyOneSettler
  <2> SUFFICES ASSUME NEW p \in Born
               PROVE  IF IsPending(p)
                        THEN \/ Cardinality(Settlers(p)) = 1
                             \/ aborted /\ Cardinality(Settlers(p)) = 0
                        ELSE Cardinality(Settlers(p)) = 0
    BY DEF ExactlyOneSettler
  <2>1. p \in Promise
    BY <1>1, BoundsAssumption DEF Born, Promise, IInv, HeapInv, HeapType
  <2>2. \A x : x \in Settlers(p) <=>
           \E k, a, b : /\ x = <<k, a, b>>
                        /\ Tok(nc, cell, prom, queue, cursor, cur, k, a, b, p)
    BY <1>1, SettlersAreTokens
  <2>3. /\ AtMostOne(nc, cell, prom, queue, cursor, cur, p)
        /\ IF prom[p].state = "pending"
             THEN aborted \/ Some(nc, cell, prom, queue, cursor, cur, p)
             ELSE ~Some(nc, cell, prom, queue, cursor, cur, p)
    BY <1>1, <2>1 DEF SettlerInv, Sound
  <2>4. \A x, y : x \in Settlers(p) /\ y \in Settlers(p) => x = y
    BY <2>2, <2>3 DEF AtMostOne
  <2>5. Some(nc, cell, prom, queue, cursor, cur, p) <=> \E x : x \in Settlers(p)
    BY <2>2 DEF Some
  <2>6. CASE \E x : x \in Settlers(p)
    <3>1. PICK x : x \in Settlers(p)
      BY <2>6
    <3>2. Settlers(p) = {x}
      BY <2>4, <3>1
    <3>3. Cardinality(Settlers(p)) = 1
      BY <3>2, FS_Singleton
    <3>4. QED
      BY <2>3, <2>5, <2>6, <3>3 DEF IsPending
  <2>7. CASE ~\E x : x \in Settlers(p)
    <3>1. Settlers(p) = {}
      BY <2>7
    <3>2. Cardinality(Settlers(p)) = 0
      BY <3>1, FS_EmptySet
    <3>3. QED
      BY <2>3, <2>5, <2>7, <3>2 DEF IsPending
  <2>8. QED
    BY <2>6, <2>7
<1>2. IInv /\ Scoped /\ CursorInv /\ SettlerInv => ExactlyOneSettler
  BY <1>1
<1>3. QED
  BY <1>2, Settling, PTL

-----------------------------------------------------------------------------
(* Who may still settle a follower.                                        *)

(* Capability c of the n allocated may still settle p; a downstream d      *)
(* leads to p directly or through such a capability.                       *)
Live(n, cs, c, p) == c \in 1..n /\ cs[c].target = p /\ ~cs[c].called
Leads(n, cs, d, p) == d.promise = p \/ Live(n, cs, d.cell, p)

Ends(ps, q, state, v) == ps[q].state = state /\ ps[q].result = v

(* The reactions on a promise, and the jobs that wait or run.              *)
Waiting(ps, r) == {ps[r].reactions[k] : k \in 1..Len(ps[r].reactions)}
InPlay(q, c, j) == {q[k] : k \in (c + 1)..Len(q)} \cup {j}

(* A reaction on r can settle p, the follower of q, only if r is q and the *)
(* reaction passes on what becomes of q; a job only as q ended.            *)
ReactionFits(n, cs, x, r, p, q) ==
    /\ Leads(n, cs, x.downstream, p) =>
          r = q /\ x.onFulfilled.kind = "undefined" /\ x.onRejected.kind = "undefined"
    /\ Live(n, cs, x.onFulfilled.cell, p) => r = q /\ x.onFulfilled.kind = "resolve"
    /\ Live(n, cs, x.onRejected.cell, p) => r = q /\ x.onRejected.kind = "reject"

JobFits(n, cs, ps, j, p, q) ==
    /\ Leads(n, cs, j.downstream, p) =>
          \/ j.handler.kind = "identity" /\ Ends(ps, q, "fulfilled", j.arg)
          \/ j.handler.kind = "thrower" /\ Ends(ps, q, "rejected", j.arg)
    /\ Live(n, cs, j.handler.cell, p) =>
          \/ j.handler.kind = "thenable" /\ j.handler.resolution = q
          \/ j.handler.kind = "resolve" /\ Ends(ps, q, "fulfilled", j.arg)
          \/ j.handler.kind = "reject" /\ Ends(ps, q, "rejected", j.arg)

Bound(n, cs, ps, js, e, p, q) ==
    /\ \A c \in e : ~Live(n, cs, c, p)
    /\ \A r \in Promise : \A x \in Waiting(ps, r) : ReactionFits(n, cs, x, r, p, q)
    /\ \A j \in js : JobFits(n, cs, ps, j, p, q)

FollowInv ==
    \A p \in Promise : follows[p] # None /\ IsPending(p) =>
        Bound(nc, cell, prom, InPlay(queue, cursor, cur), exposed, p, follows[p])

(* Nothing refers to a capability that does not exist.                     *)
ReactionRefs(x, n) ==
    x.onFulfilled.cell <= n /\ x.onRejected.cell <= n /\ x.downstream.cell <= n
JobRefs(j, n) == j.handler.cell <= n /\ j.downstream.cell <= n

RefsInv ==
    /\ \A c \in exposed : c <= nc
    /\ \A r \in Promise : \A x \in Waiting(prom, r) : ReactionRefs(x, nc)
    /\ \A j \in InPlay(queue, cursor, cur) : JobRefs(j, nc)

(* A promise is never fulfilled with what could be adopted, and one that   *)
(* does not exist follows none.                                            *)
ResultInv ==
    \A p \in Promise :
        /\ IF p <= np THEN prom[p].state # "unborn" ELSE follows[p] = None
        /\ prom[p].state = "fulfilled" =>
              prom[p].result \notin Promise \cup Thenable \cup Poison

Agreement ==
    \A p \in Promise : follows[p] # None /\ prom[p].state # "pending" =>
        Ends(prom, follows[p], prom[p].state, prom[p].result)

FollowerInv == RefsInv /\ ResultInv /\ Agreement /\ FollowInv

(* What the job's frames know of the job and of its outcome.               *)
FramesFit(s, c) ==
    \A k \in 1..Len(s) :
        /\ s[k].kind = "handler" => c.handler.kind = "user"
        /\ s[k].kind = "thenable" => c.handler.resolution \in Thenable
        /\ s[k].kind \in {"job", "after"} => k = 1

Outcome(c, v, failed) ==
    /\ c.handler.kind = "identity" => v = c.arg /\ ~failed
    /\ c.handler.kind = "thrower" => v = c.arg /\ failed

OutcomeInv ==
    /\ FramesFit(stack, cur)
    /\ Running("job") => ~hasError
    /\ Running("after") => Outcome(cur, ret, hasError)

(* A stack on which no job is about to start or just over.                 *)
Steady(s, c) ==
    /\ s \in Seq(Frame) /\ FramesFit(s, c)
    /\ s = <<>> \/ s[1].kind \notin {"job", "after"}

LEMMA SteadyPop ==
    ASSUME NEW s \in Seq(Frame), NEW c, FramesFit(s, c), s # <<>>
    PROVE  Steady(Tail(s), c)
<1>1. /\ Tail(s) \in Seq(Frame) /\ Len(Tail(s)) \in Nat
      /\ \A k \in 1..Len(Tail(s)) : k + 1 \in 1..Len(s) /\ Tail(s)[k] = s[k + 1] /\ k + 1 # 1
  BY PopProperties
<1>2. \A k \in 1..Len(Tail(s)) : Tail(s)[k].kind \notin {"job", "after"}
  BY <1>1 DEF FramesFit
<1>3. FramesFit(Tail(s), c)
  BY <1>1, <1>2 DEF FramesFit
<1>4. Tail(s) # <<>> => 1 \in 1..Len(Tail(s))
  BY <1>1, PopProperties
<1>5. QED
  BY <1>1, <1>2, <1>3, <1>4 DEF Steady

LEMMA SteadyPush ==
    ASSUME NEW s, NEW c, Steady(s, c), NEW f \in Frame,
           f.kind = "handler" => c.handler.kind = "user",
           f.kind = "thenable" => c.handler.resolution \in Thenable
    PROVE  /\ <<f>> \o s \in Seq(Frame) /\ FramesFit(<<f>> \o s, c)
           /\ (<<f>> \o s)[1] = f
           /\ f.kind \notin {"job", "after"} => Steady(<<f>> \o s, c)
<1> DEFINE t == <<f>> \o s
<1>1. /\ s \in Seq(Frame) /\ FramesFit(s, c)
      /\ s = <<>> \/ s[1].kind \notin {"job", "after"}
  BY DEF Steady
<1>2. /\ t \in Seq(Frame) /\ Len(t) = Len(s) + 1 /\ t[1] = f /\ Len(s) \in Nat
      /\ \A k \in 1..Len(s) : t[k + 1] = s[k]
  BY <1>1, PushProperties
<1> HIDE DEF t
<1>3. \A k \in 1..Len(t) : k = 1 \/ (k - 1 \in 1..Len(s) /\ t[k] = s[k - 1])
  BY <1>2
<1>4. \A k \in 1..Len(s) : s[k].kind \notin {"job", "after"}
  <2>1. \A k \in 1..Len(s) : s[k].kind \in {"job", "after"} => k = 1
    BY <1>1 DEF FramesFit
  <2>2. s = <<>> => Len(s) = 0
    OBVIOUS
  <2>3. QED
    BY <1>1, <1>2, <2>1, <2>2
<1>5. ASSUME NEW k \in 1..Len(t)
      PROVE  /\ t[k].kind = "handler" => c.handler.kind = "user"
             /\ t[k].kind = "thenable" => c.handler.resolution \in Thenable
             /\ t[k].kind \in {"job", "after"} => k = 1
  <2>1. CASE k = 1
    BY <1>2, <2>1
  <2>2. CASE k - 1 \in 1..Len(s) /\ t[k] = s[k - 1]
    BY <1>1, <1>4, <2>2 DEF FramesFit
  <2>3. QED
    BY <1>3, <2>1, <2>2
<1>6. FramesFit(t, c)
  BY <1>5 DEF FramesFit
<1>7. QED
  BY <1>2, <1>6 DEF t, Steady

LEMMA SteadyEnd ==
    ASSUME Steady(stack', cur')
    PROVE  OutcomeInv'
<1>1. /\ stack' \in Seq(Frame) /\ FramesFit(stack', cur')
      /\ stack' = <<>> \/ stack'[1].kind \notin {"job", "after"}
  BY DEF Steady
<1>2. stack' # <<>> => Head(stack') = stack'[1]
  BY <1>1, PopProperties
<1>3. ~Running("job")' /\ ~Running("after")'
  BY <1>1, <1>2 DEF Running
<1>4. QED
  BY <1>1, <1>3 DEF OutcomeInv

LEMMA SteadyReport ==
    ASSUME NEW t, NEW c, Steady(t, c), ucount \in Nat, CallReport(t)
    PROVE  Steady(stack', c)
<1> DEFINE f == [Top("report") EXCEPT !.n = ucount]
<1>1. f \in Frame /\ f.kind = "report"
  BY FrameTypes
<1>2. stack' = t \/ stack' = <<f>> \o t
  BY DEF CallReport
<1> HIDE DEF f
<1>3. Steady(<<f>> \o t, c)
  BY <1>1, SteadyPush
<1>4. QED
  BY <1>2, <1>3, Zenon

(* A job's handler answers: how, only the two closures determine.          *)
LEMMA AnswerFits ==
    ASSUME IInv, OutcomeInv, stack # <<>>, UNCHANGED cur,
           stack' = <<Top("after")>> \o Tail(stack), Outcome(cur, ret', hasError')
    PROVE  OutcomeInv'
<1>1. stack \in Seq(Frame) /\ FramesFit(stack, cur)
  BY StackFacts DEF OutcomeInv
<1>2. Steady(Tail(stack), cur)
  BY <1>1, SteadyPop
<1>3. Top("after") \in Frame /\ Top("after").kind = "after"
  BY FrameTypes
<1>4. /\ stack' \in Seq(Frame) /\ FramesFit(stack', cur)
      /\ stack'[1] = Top("after")
  BY <1>2, <1>3, SteadyPush
<1>5. stack' # <<>> => Head(stack') = stack'[1]
  BY <1>4, PopProperties
<1>6. ~Running("job")'
  BY <1>3, <1>4, <1>5 DEF Running
<1>7. QED
  BY <1>4, <1>6 DEF OutcomeInv

LEMMA OutcomeStep ==
    ASSUME IInv, OutcomeInv, [Next]_vars
    PROVE  OutcomeInv'
<1>0. /\ stack \in Seq(Frame) /\ FramesFit(stack, cur) /\ ucount \in Nat
      /\ \A kind : Running(kind) => stack # <<>> /\ Head(stack) = stack[1]
                                    /\ stack[1].kind = kind /\ stack[1] \in Frame
  BY StackFacts DEF OutcomeInv, IInv, HeapInv, HeapType
<1>1. \A kind : kind \notin {"job", "after"} /\ Running(kind) => Steady(stack, cur)
  BY <1>0 DEF Steady
<1>2. stack = <<>> => Steady(stack, cur)
  BY <1>0 DEF Steady
<1>3. stack # <<>> => Steady(Tail(stack), cur)
  BY <1>0, SteadyPop
<1>4. CASE \/ NewPromise \/ NewPromiseInterrupted \/ ScriptResolve \/ ScriptReject
           \/ ScriptThen \/ HostSettle
  <2>1. UNCHANGED <<stack, cur>> /\ (InScript \/ stack = <<>>)
    BY <1>4 DEF NewPromise, NewPromiseInterrupted, ScriptResolve, ScriptReject,
       ScriptThen, HostSettle, ScriptOp, drainVars
  <2>2. Steady(stack', cur')
    BY <1>1, <1>2, <2>1 DEF InScript
  <2>3. QED
    BY <2>2, SteadyEnd
<1>5. CASE UNCHANGED vars
  BY <1>5 DEF OutcomeInv, vars, Running
<1>6. CASE SettlingCombinator \/ Eval \/ ReportCall
  <2>1. cur' = cur /\ (InScript \/ stack = <<>> \/ Running("tracker") \/ Running("report"))
    BY <1>6 DEF SettlingCombinator, Eval, ReportCall, ScriptOp, HostCall, ReportQuiet, drainVars
  <2>2. PICK kind \in {"enter", "script", "tracker"} : stack' = <<Top(kind)>> \o stack
    BY <1>6 DEF SettlingCombinator, Eval, ReportCall, Push
  <2>3. Steady(stack, cur)
    BY <1>1, <1>2, <2>1 DEF InScript
  <2>4. Top(kind) \in Frame /\ Top(kind).kind = kind
    BY FrameTypes
  <2>5. Steady(stack', cur')
    BY <2>1, <2>2, <2>3, <2>4, SteadyPush
  <2>6. QED
    BY <2>5, SteadyEnd
<1>7. CASE HostDrain
  <2>1. cur' = cur /\ stack' = <<Top("enter"), Top("hostdrain")>> /\ stack = <<>>
    BY <1>7 DEF HostDrain, HostCall, drainVars
  <2>2. /\ Top("enter") \in Frame /\ Top("enter").kind = "enter"
        /\ Top("hostdrain") \in Frame /\ Top("hostdrain").kind = "hostdrain"
    BY FrameTypes
  <2>3. stack' = <<Top("enter")>> \o (<<Top("hostdrain")>> \o stack)
    <3>1. stack' = <<Top("enter"), Top("hostdrain")>> \o stack
      BY <2>1, <2>2
    <3>2. QED
      BY <1>0, <2>2, <3>1, PushTwo
  <2>4. Steady(<<Top("hostdrain")>> \o stack, cur)
    BY <1>2, <2>1, <2>2, SteadyPush
  <2>5. Steady(stack', cur')
    BY <2>1, <2>2, <2>3, <2>4, SteadyPush
  <2>6. QED
    BY <2>5, SteadyEnd
<1>8. CASE ScriptEnd
  <2>1. cur' = cur /\ stack # <<>>
    BY <1>0, <1>8 DEF ScriptEnd, drainVars
  <2>2. PICK failed \in {0, 1} :
          stack' = <<Top("enter"), [kind |-> "evaluated", i |-> failed,
                                    n |-> IF hasError' THEN 1 ELSE 0]>> \o Tail(stack)
    BY <1>8 DEF ScriptEnd
  <2> DEFINE f == [kind |-> "evaluated", i |-> failed, n |-> IF hasError' THEN 1 ELSE 0]
  <2>3. f \in Frame /\ f.kind = "evaluated"
    BY DEF Frame
  <2> HIDE DEF f
  <2>4. Top("enter") \in Frame /\ Top("enter").kind = "enter"
    BY FrameTypes
  <2>5. Steady(Tail(stack), cur) /\ Tail(stack) \in Seq(Frame)
    BY <1>3, <2>1 DEF Steady
  <2>6. stack' = <<Top("enter")>> \o (<<f>> \o Tail(stack))
    <3>1. stack' = <<Top("enter"), f>> \o Tail(stack)
      BY <2>2 DEF f
    <3>2. QED
      BY <2>3, <2>4, <2>5, <3>1, PushTwo
  <2>7. Steady(<<f>> \o Tail(stack), cur)
    BY <2>3, <2>5, SteadyPush
  <2>8. Steady(stack', cur')
    BY <2>1, <2>4, <2>6, <2>7, SteadyPush
  <2>9. QED
    BY <2>8, SteadyEnd
<1>9. CASE EvalReturn \/ HostDrainReturn \/ ReportReturn \/ DrainReturn
  <2>1. stack # <<>> /\ stack' = Tail(stack) /\ cur' = cur
    BY <1>0, <1>9 DEF EvalReturn, HostDrainReturn, ReportReturn, DrainReturn, ReportQuiet,
       drainVars
  <2>2. Steady(stack', cur')
    BY <1>3, <2>1
  <2>3. QED
    BY <2>2, SteadyEnd
<1>10. CASE DrainEnter
  <2>1. stack # <<>> /\ cur' = cur
    BY <1>0, <1>10 DEF DrainEnter
  <2>2. \/ stack' = Tail(stack)
        \/ CallReport(Tail(stack))
        \/ stack' = <<Top("drain")>> \o Tail(stack)
    BY <1>10 DEF DrainEnter, Replace
  <2>3. Top("drain") \in Frame /\ Top("drain").kind = "drain"
    BY FrameTypes
  <2>4. Steady(<<Top("drain")>> \o Tail(stack), cur)
    BY <1>3, <2>1, <2>3, SteadyPush
  <2>5. CallReport(Tail(stack)) => Steady(stack', cur)
    BY <1>0, <1>3, <2>1, SteadyReport
  <2>6. Steady(stack', cur)
    BY <1>3, <2>1, <2>2, <2>4, <2>5, Zenon
  <2>7. QED
    BY <2>1, <2>6, SteadyEnd
<1>11. CASE DrainEnd
  <2> DEFINE f == [Top("drain") EXCEPT !.i = 1]
  <2>1. stack # <<>> /\ cur' = cur /\ CallReport(<<f>> \o Tail(stack))
    BY <1>0, <1>11 DEF DrainEnd, Replace
  <2>2. f \in Frame /\ f.kind = "drain"
    BY FrameTypes
  <2> HIDE DEF f
  <2>3. Steady(<<f>> \o Tail(stack), cur)
    BY <1>3, <2>1, <2>2, SteadyPush
  <2>4. Steady(stack', cur')
    BY <1>0, <2>1, <2>3, SteadyReport
  <2>5. QED
    BY <2>4, SteadyEnd
<1>12. CASE DrainTake
  <2>1. Running("drain") /\ stack' = <<Top("job")>> \o stack /\ ~hasError'
    BY <1>12 DEF DrainTake, Push
  <2>2. \A k \in 1..Len(stack) : stack[k].kind \notin JobFrames
    <3>1. stack[1].kind = "drain" /\ stack # <<>> /\ Disciplined(stack, draining, cur)
      BY <1>0, <2>1, StackFacts
    <3>2. \A k \in 2..Len(stack) : stack[k].kind \notin JobFrames
      BY <1>0, <3>1, OneDrain, Zenon
    <3>3. QED
      BY <3>1, <3>2 DEF JobFrames
  <2>3. Steady(stack, cur')
    BY <1>0, <2>2 DEF Steady, FramesFit, JobFrames
  <2>4. Top("job") \in Frame /\ Top("job").kind = "job"
    BY FrameTypes
  <2>5. /\ stack' \in Seq(Frame) /\ FramesFit(stack', cur')
        /\ stack'[1] = Top("job")
    BY <2>1, <2>3, <2>4, SteadyPush
  <2>6. stack' # <<>> => Head(stack') = stack'[1]
    BY <2>5, PopProperties
  <2>7. ~Running("after")'
    BY <2>4, <2>5, <2>6 DEF Running
  <2>8. QED
    BY <2>1, <2>5, <2>7 DEF OutcomeInv
<1>13. CASE RunScriptHandler \/ RunScriptThenable
  <2>1. stack # <<>> /\ cur' = cur
    BY <1>0, <1>13 DEF RunScriptHandler, RunScriptThenable, JobStarts, JobQuiet
  <2>2. PICK kind \in {"handler", "thenable"} :
          /\ stack' = <<Top(kind)>> \o Tail(stack)
          /\ kind = "handler" => cur.handler.kind = "user"
          /\ kind = "thenable" => cur.handler.resolution \in Thenable
    BY <1>13 DEF RunScriptHandler, RunScriptThenable, JobStarts, Replace
  <2>3. Top(kind) \in Frame /\ Top(kind).kind = kind
    BY FrameTypes
  <2>4. Steady(stack', cur')
    BY <1>3, <2>1, <2>2, <2>3, SteadyPush
  <2>5. QED
    BY <2>4, SteadyEnd
<1>14. CASE \/ RunIdentity \/ RunThrower \/ RunResolvingFn \/ RunNativeThenable
            \/ HandlerEnd \/ ThenableEnd
  <2>1. /\ stack # <<>> /\ cur' = cur
        /\ stack' = <<Top("after")>> \o Tail(stack)
    BY <1>0, <1>14 DEF RunIdentity, RunThrower, RunResolvingFn, RunNativeThenable, HandlerEnd,
       ThenableEnd, JobStarts, JobQuiet, Replace
  <2>2. Outcome(cur, ret', hasError')
    <3>1. CASE RunIdentity
      BY <3>1 DEF RunIdentity, JobStarts, OutcomeInv, Outcome
    <3>2. CASE RunThrower
      BY <3>2 DEF RunThrower, JobStarts, Outcome
    <3>3. CASE RunResolvingFn \/ RunNativeThenable
      BY <3>3 DEF RunResolvingFn, RunNativeThenable, JobStarts, Outcome
    <3>4. CASE HandlerEnd
      <4>1. stack[1].kind = "handler" /\ 1 \in 1..Len(stack)
        BY <1>0, <3>4, PopProperties DEF HandlerEnd
      <4>2. cur.handler.kind = "user"
        BY <1>0, <4>1 DEF FramesFit
      <4>3. QED
        BY <4>2 DEF Outcome
    <3>5. CASE ThenableEnd
      <4>1. stack[1].kind = "thenable" /\ 1 \in 1..Len(stack)
        BY <1>0, <3>5, PopProperties DEF ThenableEnd
      <4>2. cur.handler.kind = "thenable"
        BY <4>1 DEF IInv, StackDiscipline, Disciplined
      <4>3. QED
        BY <4>2 DEF Outcome
    <3>6. QED
      BY <1>14, <3>1, <3>2, <3>3, <3>4, <3>5
  <2>3. QED
    BY <2>1, <2>2, AnswerFits
<1>15. CASE JobAfter \/ JobAborts
  <2>1. Running("after") /\ stack' = Tail(stack)
    BY <1>15 DEF JobAfter, JobAborts
  <2>2. stack # <<>> /\ stack[1].kind = "after" /\ Disciplined(stack, draining, cur)
    BY <1>0, <2>1, StackFacts
  <2>3. \A k \in 2..Len(stack) : stack[k].kind \notin JobFrames
    BY <1>0, <2>2, OneDrain, Zenon DEF JobFrames
  <2>4. FramesFit(stack', cur')
    <3>1. \A k \in 1..Len(stack') : k + 1 \in 2..Len(stack) /\ stack'[k] = stack[k + 1]
      BY <1>0, <2>1, <2>2, PopProperties
    <3>2. QED
      BY <2>3, <3>1 DEF FramesFit, JobFrames
  <2>5. Steady(stack', cur')
    BY <1>3, <2>1, <2>2, <2>4 DEF Steady
  <2>6. QED
    BY <2>5, SteadyEnd
<1>16. CASE ReportSkip
  <2>1. /\ Running("report") /\ cur' = cur
        /\ stack' = <<[Head(stack) EXCEPT !.i = Head(stack).i + 1]>> \o Tail(stack)
    BY <1>16 DEF ReportSkip, ReportQuiet, NextEntry, Replace, drainVars
  <2> DEFINE f == [Head(stack) EXCEPT !.i = Head(stack).i + 1]
  <2>2. f \in Frame /\ f.kind = "report" /\ stack # <<>>
    <3>1. Head(stack) \in Frame /\ Head(stack).kind = "report" /\ stack # <<>>
      BY <1>0, <2>1
    <3>2. QED
      BY <3>1 DEF Frame
  <2> HIDE DEF f
  <2>3. Steady(stack', cur')
    BY <1>3, <2>1, <2>2, SteadyPush DEF f
  <2>4. QED
    BY <2>3, SteadyEnd
<1>17. CASE TrackerReturn
  <2>1. /\ Running("tracker") /\ cur' = cur
        /\ stack' = <<[stack[2] EXCEPT !.i = stack[2].i + 1]>> \o Tail(Tail(stack))
    BY <1>17 DEF TrackerReturn, ReportQuiet, drainVars
  <2> DEFINE f == [stack[2] EXCEPT !.i = stack[2].i + 1]
  <2>2. /\ Len(stack) \in Nat /\ 2 \in 1..Len(stack) /\ stack[2].kind = "report"
        /\ stack[2] \in Frame /\ stack # <<>>
    <3>1. 1 \in 1..Len(stack) /\ Len(stack) \in Nat /\ stack[1].kind = "tracker" /\ stack # <<>>
      BY <1>0, <2>1, PopProperties
    <3>2. QED
      BY <1>0, <3>1 DEF IInv, StackDiscipline, Disciplined
  <2>3. f \in Frame /\ f.kind = "report"
    BY <2>2 DEF Frame
  <2> HIDE DEF f
  <2>4. Steady(Tail(stack), cur) /\ Tail(stack) # <<>>
    <3>1. Len(Tail(stack)) = Len(stack) - 1
      BY <1>0, <2>2, PopProperties
    <3>2. Len(Tail(stack)) # 0
      BY <2>2, <3>1
    <3>3. Len(<<>>) = 0
      OBVIOUS
    <3>4. Tail(stack) # <<>>
      BY <3>2, <3>3, Zenon
    <3>5. QED
      BY <1>3, <2>2, <3>4
  <2>5. Steady(Tail(Tail(stack)), cur)
    BY <2>4, SteadyPop DEF Steady
  <2>6. Steady(stack', cur')
    BY <2>1, <2>3, <2>5, SteadyPush DEF f
  <2>7. QED
    BY <2>6, SteadyEnd
<1>18. QED
  BY <1>4, <1>5, <1>6, <1>7, <1>8, <1>9, <1>10, <1>11, <1>12, <1>13, <1>14, <1>15, <1>16, <1>17
  DEF Next, ScriptStep, HostStep, EngineStep

-----------------------------------------------------------------------------
(* What is waiting and what is in play, after each operation of the heap.  *)

LEMMA PlaceTypes ==
    ASSUME HeapInv, cursor \in 0..Len(queue), cur \in Job \cup {NoJob}
    PROVE  /\ nc \in Nat /\ np \in Nat /\ Len(queue) \in Nat /\ cursor \in Nat
           /\ \A r \in Promise : Waiting(prom, r) \subseteq Reaction
           /\ InPlay(queue, cursor, cur) \subseteq Job \cup {NoJob}
<1>1. nc \in Nat /\ np \in Nat /\ Len(queue) \in Nat /\ cursor \in Nat /\ queue \in Seq(Job)
  BY DEF HeapInv, HeapType
<1>2. \A r \in Promise : prom[r].reactions \in Seq(Reaction)
  BY DEF HeapInv, HeapType, PromiseRec
<1>3. \A r \in Promise : Waiting(prom, r) \subseteq Reaction
  BY <1>2 DEF Waiting
<1>4. \A k \in (cursor + 1)..Len(queue) : queue[k] \in Job
  BY <1>1
<1>5. QED
  BY <1>1, <1>3, <1>4 DEF InPlay

LEMMA CellTypes ==
    /\ \A x \in Reaction : /\ x.onFulfilled.cell \in Nat /\ x.onRejected.cell \in Nat
                           /\ x.downstream.cell \in Nat /\ x.downstream.promise \in Nat
    /\ \A j \in Job \cup {NoJob} : j.handler.cell \in Nat /\ j.downstream.cell \in Nat
                                   /\ j.downstream.promise \in Nat
<1>1. \A h \in Callable \cup {Plainly("undefined")} : h.cell \in Nat
  BY BoundsAssumption DEF Callable, Closure, Resolving, Adopting, Plainly, Cell, None
<1>2. \A d \in Downstream : d.cell \in Nat /\ d.promise \in Nat
  BY BoundsAssumption DEF Downstream, NoDownstream, Cell, Promise, None
<1>3. NoDownstream \in Downstream /\ NoJob.handler = Plainly("undefined")
      /\ NoJob.downstream = NoDownstream
  BY DEF Downstream, NoJob
<1>4. QED
  BY <1>1, <1>2, <1>3 DEF Reaction, Job, Handler

(* No capability is at None, and the job that is none leads nowhere.       *)
LEMMA NoneFits ==
    ASSUME NEW n \in Nat, NEW cs
    PROVE  /\ \A p : ~Live(n, cs, None, p)
           /\ \A ps, q : \A p \in Promise : JobFits(n, cs, ps, NoJob, p, q)
           /\ JobRefs(NoJob, n)
<1>1. \A p : ~Live(n, cs, None, p)
  BY DEF Live, None
<1>2. NoJob.handler.cell = None /\ NoJob.downstream.cell = None /\ NoJob.downstream.promise = None
  BY DEF NoJob, Plainly, NoDownstream
<1>3. \A p \in Promise : p # None
  BY DEF Promise, None
<1>4. None <= n
  BY DEF None
<1>5. QED
  BY <1>1, <1>2, <1>3, <1>4 DEF JobFits, Leads, JobRefs

LEMMA PlacesSettle ==
    ASSUME HeapInv, NEW t \in Promise, NEW state \in Settled, NEW v \in Value,
           PromiseSettle(t, state, v), IsPending(t), cursor \in Nat
    PROVE  /\ \A r \in Promise : Waiting(prom', r) \subseteq Waiting(prom, r)
           /\ \A k : \A j \in InPlay(queue', cursor, k) :
                \/ j \in InPlay(queue, cursor, k)
                \/ \E x \in Waiting(prom, t) : j = ReactionJob(x, state, v)
           /\ \A r \in Promise : r # t => prom'[r] = prom[r]
           /\ Ends(prom', t, state, v)
<1> DEFINE rs == prom[t].reactions
           js == TriggerReactions(rs, state, v)
<1>1. /\ \A r \in Promise : r # t => prom'[r] = prom[r]
      /\ queue' = queue \o js
      /\ rs \in Seq(Reaction) /\ prom'[t].reactions = <<>>
      /\ prom'[t].state = state /\ prom'[t].result = v
  BY SettleFacts
<1>2. Waiting(prom', t) = {}
  <2>1. Len(prom'[t].reactions) = 0
    BY <1>1
  <2>2. QED
    BY <2>1 DEF Waiting
<1>3. \A r \in Promise : Waiting(prom', r) \subseteq Waiting(prom, r)
  BY <1>1, <1>2 DEF Waiting
<1>4. /\ js \in Seq(Job) /\ Len(js) = Len(rs) /\ Len(rs) \in Nat
      /\ \A k \in 1..Len(rs) : js[k] = ReactionJob(rs[k], state, v)
  <2>1. js \in Seq(Job)
    BY <1>1, TriggerReactionsType
  <2>2. Len(rs) \in Nat /\ DOMAIN js = 1..Len(rs)
        /\ \A k \in 1..Len(rs) : js[k] = ReactionJob(rs[k], state, v)
    BY <1>1 DEF TriggerReactions
  <2>3. Len(js) \in Nat /\ DOMAIN js = 1..Len(js)
    BY <2>1, LenProperties
  <2> HIDE DEF js
  <2>4. Len(js) = Len(rs)
    BY <2>2, <2>3
  <2>5. QED
    BY <2>1, <2>2, <2>4
<1> HIDE DEF js
<1>5. queue \in Seq(Job) /\ Len(queue) \in Nat
  BY DEF HeapInv, HeapType
<1>6. /\ Len(queue') = Len(queue) + Len(rs)
      /\ \A k \in 1..Len(queue') : queue'[k] = IF k <= Len(queue) THEN queue[k] ELSE js[k - Len(queue)]
  <2>1. js \in Seq(Job) /\ queue \in Seq(Job)
    BY <1>4, <1>5
  <2>2. /\ Len(queue \o js) = Len(queue) + Len(js)
        /\ \A k \in 1..(Len(queue) + Len(js)) :
             (queue \o js)[k] = IF k <= Len(queue) THEN queue[k] ELSE js[k - Len(queue)]
    BY <2>1, ConcatProperties
  <2>3. QED
    BY <1>1, <1>4, <2>2
<1>7. ASSUME NEW k \in (cursor + 1)..Len(queue')
      PROVE  \/ k \in (cursor + 1)..Len(queue) /\ queue'[k] = queue[k]
             \/ \E x \in Waiting(prom, t) : queue'[k] = ReactionJob(x, state, v)
  <2>1. CASE k <= Len(queue)
    BY <1>5, <1>6, <2>1
  <2>2. CASE k > Len(queue)
    <3>1. k - Len(queue) \in 1..Len(rs) /\ queue'[k] = js[k - Len(queue)]
      BY <1>4, <1>5, <1>6, <2>2
    <3>2. PICK i \in 1..Len(rs) : queue'[k] = ReactionJob(rs[i], state, v)
      BY <1>4, <3>1
    <3>3. rs[i] \in Waiting(prom, t)
      BY DEF Waiting
    <3>4. QED
      BY <3>2, <3>3
  <2>3. QED
    BY <1>5, <2>1, <2>2
<1>8. QED
  BY <1>1, <1>3, <1>7 DEF InPlay, Ends

LEMMA PlacesThen ==
    ASSUME HeapInv, HeapScoped, NEW p \in Promise, p <= np, NEW x \in Reaction,
           np < MaxPromises, AddReaction(p, x), cursor \in Nat
    PROVE  /\ \A r \in Promise : \A y \in Waiting(prom', r) :
                y \in Waiting(prom, r) \/ (y = x /\ r = p)
           /\ \A k : \A j \in InPlay(queue', cursor, k) :
                \/ j \in InPlay(queue, cursor, k)
                \/ ~IsPending(p) /\ j = ReactionJob(x, prom[p].state, prom[p].result)
<1> DEFINE m == np + 1
           rs == prom[p].reactions
           js == TriggerReactions(<<x>>, prom[p].state, prom[p].result)
<1>1. /\ m \in Promise /\ m # p /\ prom'[m] = Fresh
      /\ \A q \in Promise : q # p /\ q # m => prom'[q] = prom[q]
      /\ rs \in Seq(Reaction)
      /\ IsPending(p) => prom'[p].reactions = Append(rs, x) /\ queue' = queue
      /\ ~IsPending(p) => prom'[p].reactions = <<>> /\ queue' = queue \o js
  BY AddReactionFacts
<1>2. queue \in Seq(Job) /\ Len(queue) \in Nat /\ prom[p].result \in Value /\ Len(<<>>) = 0
  BY DEF HeapInv, HeapType, PromiseRec
<1>3. Waiting(prom', m) = {}
  BY <1>1, <1>2, FreshType DEF Waiting
<1>4. Waiting(prom', p) \subseteq Waiting(prom, p) \cup {x}
  <2>1. CASE IsPending(p)
    <3>1. /\ Len(prom'[p].reactions) = Len(rs) + 1 /\ Len(rs) \in Nat
          /\ prom'[p].reactions[Len(rs) + 1] = x
          /\ \A k \in 1..Len(rs) : prom'[p].reactions[k] = rs[k]
      BY <1>1, <2>1, AppendProperties
    <3>2. \A k \in 1..Len(prom'[p].reactions) : k \in 1..Len(rs) \/ k = Len(rs) + 1
      BY <3>1
    <3>3. QED
      BY <3>1, <3>2 DEF Waiting
  <2>2. CASE ~IsPending(p)
    BY <1>1, <1>2, <2>2 DEF Waiting
  <2>3. QED
    BY <2>1, <2>2
<1>5. \A r \in Promise : \A y \in Waiting(prom', r) :
        y \in Waiting(prom, r) \/ (y = x /\ r = p)
  BY <1>1, <1>3, <1>4 DEF Waiting
<1>6. ASSUME ~IsPending(p), NEW k \in (cursor + 1)..Len(queue')
      PROVE  \/ k \in (cursor + 1)..Len(queue) /\ queue'[k] = queue[k]
             \/ queue'[k] = ReactionJob(x, prom[p].state, prom[p].result)
  <2>1. js \in Seq(Job) /\ Len(js) = 1 /\ js[1] = ReactionJob(x, prom[p].state, prom[p].result)
    <3>1. <<x>> \in Seq(Reaction) /\ Len(<<x>>) = 1 /\ <<x>>[1] = x
      OBVIOUS
    <3>2. js = [i \in 1..1 |-> ReactionJob(<<x>>[i], prom[p].state, prom[p].result)]
      BY <3>1 DEF TriggerReactions
    <3>3. js[1] = ReactionJob(x, prom[p].state, prom[p].result) /\ DOMAIN js = 1..1
      BY <3>1, <3>2
    <3>4. js \in Seq(Job)
      BY <1>2, <3>1, TriggerReactionsType
    <3>5. Len(js) \in Nat /\ DOMAIN js = 1..Len(js)
      BY <3>4, LenProperties
    <3> HIDE DEF js
    <3>6. Len(js) = 1
      BY <3>3, <3>5
    <3>7. QED
      BY <3>3, <3>4, <3>6
  <2> HIDE DEF js
  <2>2. /\ Len(queue \o js) = Len(queue) + Len(js)
        /\ \A i \in 1..(Len(queue) + Len(js)) :
             (queue \o js)[i] = IF i <= Len(queue) THEN queue[i] ELSE js[i - Len(queue)]
    BY <1>2, <2>1, ConcatProperties
  <2>3. Len(queue') = Len(queue) + 1
        /\ \A i \in 1..Len(queue') : queue'[i] = IF i <= Len(queue) THEN queue[i] ELSE js[i - Len(queue)]
    BY <1>1, <1>6, <2>1, <2>2
  <2>4. k <= Len(queue) \/ k = Len(queue) + 1
    BY <1>2, <2>3
  <2>5. QED
    BY <1>2, <2>1, <2>3, <2>4
<1>7. \A k : \A j \in InPlay(queue', cursor, k) :
                \/ j \in InPlay(queue, cursor, k)
                \/ ~IsPending(p) /\ j = ReactionJob(x, prom[p].state, prom[p].result)
  <2>1. CASE IsPending(p)
    BY <1>1, <2>1
  <2>2. CASE ~IsPending(p)
    BY <1>6, <2>2 DEF InPlay
  <2>3. QED
    BY <2>1, <2>2
<1>8. QED
  BY <1>5, <1>7

(* What fits a follower still fits, as settled promises stay settled.      *)
LEMMA BoundStays ==
    ASSUME NEW p \in Promise, NEW q \in Promise, NEW n, NEW cs, NEW ps, NEW js, NEW e,
           Bound(n, cs, ps, js, e, p, q),
           NEW m, NEW ds, NEW rs, NEW ks, NEW f,
           \A c : Live(m, ds, c, p) => Live(n, cs, c, p),
           ps[q].state \in Settled => rs[q].state = ps[q].state /\ rs[q].result = ps[q].result,
           \A c \in f : c \in e \/ ~Live(m, ds, c, p),
           \A r \in Promise : \A x \in Waiting(rs, r) :
              x \in Waiting(ps, r) \/ ReactionFits(m, ds, x, r, p, q),
           \A j \in ks : j \in js \/ JobFits(m, ds, rs, j, p, q)
    PROVE  Bound(m, ds, rs, ks, f, p, q)
<1>1. \A x, r : ReactionFits(n, cs, x, r, p, q) => ReactionFits(m, ds, x, r, p, q)
  BY DEF ReactionFits, Leads
<1>2. \A state \in Settled : \A v : Ends(ps, q, state, v) => Ends(rs, q, state, v)
  BY DEF Ends
<1>3. \A j : JobFits(n, cs, ps, j, p, q) => JobFits(m, ds, rs, j, p, q)
  <2>1. "fulfilled" \in Settled /\ "rejected" \in Settled
    BY DEF Settled
  <2>2. \A d : Leads(m, ds, d, p) => Leads(n, cs, d, p)
    BY DEF Leads
  <2>3. QED
    BY <1>2, <2>1, <2>2, Zenon DEF JobFits
<1>4. \A c \in f : ~Live(m, ds, c, p)
  BY DEF Bound
<1>5. \A r \in Promise : \A x \in Waiting(rs, r) : ReactionFits(m, ds, x, r, p, q)
  BY <1>1 DEF Bound
<1>6. \A j \in ks : JobFits(m, ds, rs, j, p, q)
  BY <1>3 DEF Bound
<1>7. QED
  BY <1>4, <1>5, <1>6 DEF Bound

LEMMA RefsStay ==
    ASSUME HeapInv, cursor \in 0..Len(queue), cur \in Job \cup {NoJob}, RefsInv,
           nc' \in Nat, nc <= nc',
           \A c \in exposed' : c \in Nat /\ (c \in exposed \/ c <= nc'),
           \A r \in Promise : \A x \in Waiting(prom', r) :
              x \in Waiting(prom, r) \/ ReactionRefs(x, nc'),
           \A j \in InPlay(queue', cursor', cur') :
              j \in InPlay(queue, cursor, cur) \/ JobRefs(j, nc')
    PROVE  RefsInv'
<1>1. /\ nc \in Nat /\ \A r \in Promise : Waiting(prom, r) \subseteq Reaction
      /\ InPlay(queue, cursor, cur) \subseteq Job \cup {NoJob}
  BY PlaceTypes
<1>2. \A x \in Reaction : ReactionRefs(x, nc) => ReactionRefs(x, nc')
  BY <1>1, CellTypes DEF ReactionRefs
<1>3. \A j \in Job \cup {NoJob} : JobRefs(j, nc) => JobRefs(j, nc')
  BY <1>1, CellTypes DEF JobRefs
<1>4. \A c \in exposed' : c <= nc'
  BY <1>1 DEF RefsInv
<1>5. \A r \in Promise : \A x \in Waiting(prom', r) : ReactionRefs(x, nc')
  BY <1>1, <1>2 DEF RefsInv
<1>6. \A j \in InPlay(queue', cursor', cur') : JobRefs(j, nc')
  BY <1>1, <1>3 DEF RefsInv
<1>7. QED
  BY <1>4, <1>5, <1>6 DEF RefsInv

(* The job a reaction on t becomes when t is settled.                      *)
LEMMA ReactionJobFits ==
    ASSUME NEW x \in Reaction, NEW state \in Settled, NEW v, NEW n \in Nat,
           NEW cs, NEW ps, NEW t, Ends(ps, t, state, v)
    PROVE  /\ \A p, q : ReactionFits(n, cs, x, t, p, q) =>
                JobFits(n, cs, ps, ReactionJob(x, state, v), p, q)
           /\ ReactionRefs(x, n) => JobRefs(ReactionJob(x, state, v), n)
<1> DEFINE h == IF state = "fulfilled" THEN x.onFulfilled ELSE x.onRejected
           j == ReactionJob(x, state, v)
<1>1. /\ j.arg = v /\ j.downstream = x.downstream
      /\ h.kind # "undefined" => j.handler = h
      /\ h.kind = "undefined" =>
            /\ j.handler.kind = IF state = "fulfilled" THEN "identity" ELSE "thrower"
            /\ j.handler.cell = None
  BY DEF ReactionJob, Plainly
<1>2. state = "fulfilled" \/ state = "rejected"
  BY DEF Settled
<1>3. \A p : ~Live(n, cs, None, p)
  BY NoneFits
<1>4. ASSUME NEW p, NEW q, ReactionFits(n, cs, x, t, p, q)
      PROVE  JobFits(n, cs, ps, j, p, q)
  <2>1. ASSUME Leads(n, cs, j.downstream, p)
        PROVE  \/ j.handler.kind = "identity" /\ Ends(ps, q, "fulfilled", j.arg)
               \/ j.handler.kind = "thrower" /\ Ends(ps, q, "rejected", j.arg)
    <3>1. t = q /\ x.onFulfilled.kind = "undefined" /\ x.onRejected.kind = "undefined"
      BY <1>1, <1>4, <2>1 DEF ReactionFits
    <3>2. QED
      BY <1>1, <1>2, <3>1
  <2>2. ASSUME Live(n, cs, j.handler.cell, p)
        PROVE  \/ j.handler.kind = "thenable" /\ j.handler.resolution = q
               \/ j.handler.kind = "resolve" /\ Ends(ps, q, "fulfilled", j.arg)
               \/ j.handler.kind = "reject" /\ Ends(ps, q, "rejected", j.arg)
    <3>1. h.kind # "undefined" /\ j.handler = h
      BY <1>1, <1>3, <2>2
    <3>2. Live(n, cs, h.cell, p)
      BY <2>2, <3>1
    <3>3. CASE state = "fulfilled"
      BY <1>1, <1>4, <3>1, <3>2, <3>3 DEF ReactionFits
    <3>4. CASE state = "rejected"
      BY <1>1, <1>4, <3>1, <3>2, <3>4 DEF ReactionFits
    <3>5. QED
      BY <1>2, <3>3, <3>4
  <2> HIDE DEF j
  <2>3. QED
    BY <2>1, <2>2 DEF JobFits
<1>5. ASSUME ReactionRefs(x, n)
      PROVE  JobRefs(j, n)
  <2>1. None <= n
    BY DEF None
  <2>2. j.handler.cell <= n
    BY <1>1, <1>5, <2>1 DEF ReactionRefs
  <2>3. QED
    BY <1>1, <1>5, <2>2 DEF JobRefs, ReactionRefs
<1>6. QED
  BY <1>4, <1>5

(* The ways a step may treat the followers.  No promise is settled and     *)
(* no capability allocated:                                                *)
LEMMA SameFollow ==
    ASSUME HeapInv, cursor \in 0..Len(queue), cur \in Job \cup {NoJob}, FollowerInv,
           UNCHANGED <<np, nc, cell, follows>>,
           \A p \in Promise : /\ prom'[p].state = prom[p].state
                              /\ prom'[p].result = prom[p].result
                              /\ prom'[p].reactions = prom[p].reactions,
           InPlay(queue', cursor', cur') \subseteq InPlay(queue, cursor, cur) \cup {NoJob},
           exposed' \subseteq Cell,
           \A c \in exposed' : \/ c \in exposed
                               \/ /\ c <= nc
                                  /\ \A p \in Promise : follows[p] # None /\ IsPending(p) =>
                                        ~Live(nc, cell, c, p)
    PROVE  FollowerInv'
<1>1. nc \in Nat /\ follows \in [Promise -> Promise \cup {None}]
  BY PlaceTypes DEF HeapInv, HeapType
<1>2. \A r \in Promise : Waiting(prom', r) = Waiting(prom, r)
  BY DEF Waiting
<1>3. \A c \in exposed' : c \in Nat
  BY DEF Cell
<1>4. RefsInv'
  BY <1>1, <1>2, <1>3, NoneFits, RefsStay DEF FollowerInv
<1>5. ResultInv'
  BY DEF FollowerInv, ResultInv
<1>6. Agreement'
  <2>1. \A p \in Promise : follows[p] # None => follows[p] \in Promise
    BY <1>1
  <2>2. QED
    BY <2>1 DEF FollowerInv, Agreement, Ends
<1>7. ASSUME NEW p \in Promise, follows[p] # None, prom[p].state = "pending"
      PROVE  Bound(nc, cell, prom', InPlay(queue', cursor', cur'), exposed', p, follows[p])
  <2>1. Bound(nc, cell, prom, InPlay(queue, cursor, cur), exposed, p, follows[p])
    BY <1>7 DEF FollowerInv, FollowInv, IsPending
  <2>2. follows[p] \in Promise
    BY <1>1, <1>7
  <2>3. \A c \in exposed' : c \in exposed \/ ~Live(nc, cell, c, p)
    BY <1>7 DEF IsPending
  <2>4. \A j \in InPlay(queue', cursor', cur') :
          j \in InPlay(queue, cursor, cur) \/ JobFits(nc, cell, prom', j, p, follows[p])
    BY <1>1, NoneFits
  <2>5. QED
    BY <1>2, <2>1, <2>2, <2>3, <2>4, BoundStays
<1>8. FollowInv'
  BY <1>7 DEF FollowInv, IsPending
<1>9. QED
  BY <1>4, <1>5, <1>6, <1>8 DEF FollowerInv

(* a promise is settled, a follower as the promise it follows was:         *)
LEMMA SettleFollow ==
    ASSUME HeapInv, cursor \in 0..Len(queue), cur \in Job \cup {NoJob}, FollowerInv,
           NEW t \in Promise, IsPending(t), NEW state \in Settled, NEW v \in Value,
           PromiseSettle(t, state, v),
           state = "fulfilled" => v \notin Promise \cup Thenable \cup Poison,
           follows[t] # None => Ends(prom, follows[t], state, v),
           UNCHANGED <<np, nc, follows, cursor, exposed>>, exposed \subseteq Cell,
           cur' = cur \/ cur' = NoJob,
           \A c, p : Live(nc, cell', c, p) => Live(nc, cell, c, p)
    PROVE  FollowerInv'
<1>1. /\ nc \in Nat /\ cursor \in Nat /\ follows \in [Promise -> Promise \cup {None}]
      /\ \A r \in Promise : Waiting(prom, r) \subseteq Reaction
      /\ \A c \in exposed : c \in Nat
  BY PlaceTypes DEF HeapInv, HeapType, Cell
<1>2. /\ \A r \in Promise : Waiting(prom', r) \subseteq Waiting(prom, r)
      /\ \A k : \A j \in InPlay(queue', cursor, k) :
           \/ j \in InPlay(queue, cursor, k)
           \/ \E x \in Waiting(prom, t) : j = ReactionJob(x, state, v)
      /\ \A r \in Promise : r # t => prom'[r] = prom[r]
      /\ Ends(prom', t, state, v)
  BY <1>1, PlacesSettle
<1>3. \A j \in InPlay(queue', cursor, cur') :
           \/ j \in InPlay(queue, cursor, cur)
           \/ j = NoJob
           \/ \E x \in Waiting(prom, t) : j = ReactionJob(x, state, v)
  <2>1. InPlay(queue', cursor, cur') \subseteq InPlay(queue', cursor, cur) \cup {NoJob}
    BY DEF InPlay
  <2>2. QED
    BY <1>2, <2>1
<1>4. prom[t].state = "pending" /\ prom'[t].state = state /\ state # "pending" /\ state # "unborn"
      /\ prom'[t].result = v
  BY <1>2 DEF IsPending, Ends, Settled
<1>5. RefsInv'
  <2>1. \A j \in InPlay(queue', cursor, cur') :
          j \in InPlay(queue, cursor, cur) \/ JobRefs(j, nc)
    <3> SUFFICES ASSUME NEW x \in Waiting(prom, t)
                 PROVE  JobRefs(ReactionJob(x, state, v), nc)
      BY <1>1, <1>3, NoneFits
    <3>1. x \in Reaction /\ ReactionRefs(x, nc)
      BY <1>1 DEF FollowerInv, RefsInv
    <3>2. QED
      BY <1>1, <1>2, <3>1, ReactionJobFits
  <2>2. nc <= nc' /\ nc' = nc
    BY <1>1
  <2>3. QED
    BY <1>1, <1>2, <2>1, <2>2, RefsStay DEF FollowerInv
<1>6. ResultInv'
  BY <1>2, <1>4 DEF FollowerInv, ResultInv
<1>7. Agreement'
  <2> SUFFICES ASSUME NEW p \in Promise, follows[p] # None, prom'[p].state # "pending"
               PROVE  Ends(prom', follows[p], prom'[p].state, prom'[p].result)
    BY DEF Agreement, Ends
  <2>1. follows[p] \in Promise
    BY <1>1
  <2>2. Ends(prom, follows[p], prom'[p].state, prom'[p].result)
    <3>1. CASE p = t
      BY <1>4, <3>1
    <3>2. CASE p # t
      BY <1>2, <3>2 DEF FollowerInv, Agreement
    <3>3. QED
      BY <3>1, <3>2
  <2>3. follows[p] # t
    BY <1>4, <2>2 DEF Ends
  <2>4. QED
    BY <1>2, <2>1, <2>2, <2>3 DEF Ends
<1>8. ASSUME NEW p \in Promise, follows[p] # None, prom'[p].state = "pending"
      PROVE  Bound(nc, cell', prom', InPlay(queue', cursor, cur'), exposed, p, follows[p])
  <2>1. p # t /\ prom[p].state = "pending"
    BY <1>2, <1>4, <1>8
  <2>2. Bound(nc, cell, prom, InPlay(queue, cursor, cur), exposed, p, follows[p])
    BY <1>8, <2>1 DEF FollowerInv, FollowInv, IsPending
  <2>3. follows[p] \in Promise
    BY <1>1, <1>8
  <2>4. prom[follows[p]].state \in Settled =>
          /\ prom'[follows[p]].state = prom[follows[p]].state
          /\ prom'[follows[p]].result = prom[follows[p]].result
    BY <1>2, <1>4, <2>3 DEF Settled
  <2>5. \A j \in InPlay(queue', cursor, cur') :
          j \in InPlay(queue, cursor, cur) \/ JobFits(nc, cell', prom', j, p, follows[p])
    <3> SUFFICES ASSUME NEW x \in Waiting(prom, t)
                 PROVE  JobFits(nc, cell', prom', ReactionJob(x, state, v), p, follows[p])
      BY <1>1, <1>3, NoneFits
    <3>1. x \in Reaction /\ ReactionFits(nc, cell, x, t, p, follows[p])
      BY <1>1, <2>2 DEF Bound
    <3>2. ReactionFits(nc, cell', x, t, p, follows[p])
      BY <3>1 DEF ReactionFits, Leads
    <3>3. QED
      BY <1>1, <1>2, <3>1, <3>2, ReactionJobFits
  <2>6. QED
    BY <1>2, <2>2, <2>3, <2>4, <2>5, BoundStays
<1>9. FollowInv'
  BY <1>8 DEF FollowInv, IsPending
<1>10. QED
  BY <1>5, <1>6, <1>7, <1>9 DEF FollowerInv

(* a promise is resolved with a thenable, which a new capability adopts:   *)
LEMMA RenewFollow ==
    ASSUME HeapInv, cursor \in 0..Len(queue), cur \in Job \cup {NoJob}, FollowerInv,
           SettlerInv', NEW t \in Promise, IsPending(t), NEW v \in Promise \cup Thenable,
           NEW cells \in [Cell -> [target : Promise, called : BOOLEAN]], nc < MaxCells,
           NEW j \in Job, j.handler = ThenableJob(nc + 1, v), j.downstream = NoDownstream,
           nc' = nc + 1, cell' = [cells EXCEPT ![nc + 1] = [target |-> t, called |-> FALSE]],
           queue' = Append(queue, j),
           follows' = [follows EXCEPT ![t] = IF v \in Promise THEN v ELSE None],
           UNCHANGED <<prom, np, cursor, exposed>>, exposed \subseteq Cell,
           cur' = cur \/ cur' = NoJob,
           \A c, p : Live(nc, cells, c, p) => Live(nc, cell, c, p)
    PROVE  FollowerInv'
<1>1. /\ nc \in Nat /\ nc' \in Nat /\ nc <= nc' /\ cursor \in Nat
      /\ follows \in [Promise -> Promise \cup {None}]
      /\ queue \in Seq(Job) /\ Len(queue) \in Nat /\ np \in Nat
      /\ \A r \in Promise : Waiting(prom, r) \subseteq Reaction
      /\ InPlay(queue, cursor, cur) \subseteq Job \cup {NoJob}
      /\ \A c \in exposed : c \in Nat
  BY PlaceTypes DEF HeapInv, HeapType, Cell
<1>2. /\ j.handler.kind = "thenable" /\ j.handler.cell = nc + 1 /\ j.handler.resolution = v
      /\ j.downstream.promise = None /\ j.downstream.cell = None
  BY DEF ThenableJob, NoDownstream
<1>3. /\ Len(queue') = Len(queue) + 1 /\ queue'[Len(queue) + 1] = j
      /\ \A k \in 1..Len(queue) : queue'[k] = queue[k]
  BY <1>1, AppendProperties
<1>4. \A i \in InPlay(queue', cursor, cur') :
         i \in InPlay(queue, cursor, cur) \/ i = NoJob \/ i = j
  <2>1. \A k \in (cursor + 1)..Len(queue') : k \in (cursor + 1)..Len(queue) \/ k = Len(queue) + 1
    BY <1>1, <1>3
  <2>2. \A k \in (cursor + 1)..Len(queue) : queue'[k] = queue[k]
    BY <1>1, <1>3
  <2>3. QED
    BY <1>3, <2>1, <2>2 DEF InPlay
<1>5. /\ nc + 1 \in Cell /\ cell'[nc + 1].target = t /\ ~cell'[nc + 1].called
      /\ \A c \in 1..nc : cell'[c] = cells[c]
      /\ \A c : c \in 1..nc' <=> c \in 1..nc \/ c = nc + 1
  <2>1. nc + 1 \in Cell /\ \A c \in 1..nc : c \in Cell /\ c # nc + 1
    BY <1>1, BoundsAssumption DEF Cell
  <2>2. QED
    BY <1>1, <2>1
<1>6. \A c, p : Live(nc', cell', c, p) =>
        IF c = nc + 1 THEN p = t ELSE Live(nc, cell, c, p)
  BY <1>5 DEF Live
<1>7. \A p \in Promise : ~Live(nc', cell', None, p) /\ p # None
  <2>1. \A p : ~Live(nc', cell', None, p)
    BY <1>1, NoneFits
  <2>2. \A p \in Promise : p # None
    BY DEF Promise, None
  <2>3. QED
    BY <2>1, <2>2, Zenon
<1>8. RefsInv'
  <2>1. JobRefs(NoJob, nc') /\ JobRefs(j, nc')
    <3>1. JobRefs(NoJob, nc')
      BY <1>1, NoneFits
    <3>2. None <= nc' /\ nc + 1 <= nc'
      BY <1>1 DEF None
    <3>3. QED
      BY <1>2, <3>1, <3>2 DEF JobRefs
  <2>2. \A c \in exposed' : c \in Nat /\ c \in exposed
    BY <1>1
  <2>3. \A r \in Promise : Waiting(prom', r) = Waiting(prom, r)
    BY DEF Waiting
  <2>4. \A i \in InPlay(queue', cursor', cur') :
          i \in InPlay(queue, cursor, cur) \/ JobRefs(i, nc')
    BY <1>4, <2>1
  <2>5. QED
    BY <1>1, <2>1, <2>2, <2>3, <2>4, RefsStay DEF FollowerInv
<1>9. t <= np
  BY <1>1 DEF HeapInv, PromiseInv, IsPending, Promise
<1>10. ResultInv'
  BY <1>1, <1>9 DEF FollowerInv, ResultInv
<1>11. Agreement'
  BY <1>1 DEF FollowerInv, Agreement, IsPending, Ends
<1>12. ASSUME NEW p \in Promise, p # t, follows[p] # None, prom[p].state = "pending"
       PROVE  Bound(nc', cell', prom, InPlay(queue', cursor, cur'), exposed, p, follows[p])
  <2>1. Bound(nc, cell, prom, InPlay(queue, cursor, cur), exposed, p, follows[p])
    BY <1>12 DEF FollowerInv, FollowInv, IsPending
  <2>2. follows[p] \in Promise
    BY <1>1, <1>12
  <2>3. \A c : Live(nc', cell', c, p) => Live(nc, cell, c, p)
    BY <1>6, <1>12
  <2>4. JobFits(nc', cell', prom, j, p, follows[p])
    BY <1>2, <1>6, <1>7, <1>12 DEF JobFits, Leads
  <2>5. JobFits(nc', cell', prom, NoJob, p, follows[p])
    BY <1>1, NoneFits
  <2>6. \A i \in InPlay(queue', cursor, cur') :
          i \in InPlay(queue, cursor, cur) \/ JobFits(nc', cell', prom, i, p, follows[p])
    BY <1>4, <2>4, <2>5, Zenon
  <2>7. QED
    BY <2>1, <2>2, <2>3, <2>6, BoundStays
<1>13. ASSUME v \in Promise
       PROVE  Bound(nc', cell', prom, InPlay(queue', cursor, cur'), exposed, t, v)
  <2>1. AtMostOne(nc', cell', prom', queue', cursor', cur', t)
    BY DEF SettlerInv, Sound
  <2>2. Tok(nc', cell', prom', queue', cursor', cur', "cell", nc + 1, 0, t)
    BY <1>5 DEF Tok
  <2>3. \A k, a, b : Tok(nc', cell', prom', queue', cursor', cur', k, a, b, t)
          => k = "cell" /\ a = nc + 1
    BY <2>1, <2>2 DEF AtMostOne
  <2>4. \A c : Live(nc', cell', c, t) => c = nc + 1
    BY <2>3 DEF Live, Tok
  <2>5. \A r \in Promise : \A x \in Waiting(prom, r) : x.downstream.promise # t
    <3> SUFFICES ASSUME NEW r \in Promise, NEW k \in 1..Len(prom[r].reactions),
                        prom[r].reactions[k].downstream.promise = t
                 PROVE  FALSE
      BY DEF Waiting
    <3>1. Tok(nc', cell', prom', queue', cursor', cur', "reaction", r, k, t)
      BY DEF Tok
    <3>2. QED
      BY <2>3, <3>1
  <2>6. \A i \in InPlay(queue', cursor, cur') : i.downstream.promise # t
    <3>1. \A k \in (cursor + 1)..Len(queue') : queue'[k].downstream.promise # t
      <4> SUFFICES ASSUME NEW k \in (cursor + 1)..Len(queue'),
                          queue'[k].downstream.promise = t
                   PROVE  FALSE
        OBVIOUS
      <4>1. Tok(nc', cell', prom', queue', cursor', cur', "job", k, 0, t)
        BY DEF Tok
      <4>2. QED
        BY <2>3, <4>1
    <3>2. cur'.downstream.promise # t
      <4>1. cur'.downstream.promise = t =>
              Tok(nc', cell', prom', queue', cursor', cur', "running", 0, 0, t)
        BY DEF Tok
      <4>2. QED
        BY <2>3, <4>1
    <3>3. QED
      BY <3>1, <3>2 DEF InPlay
  <2>7. \A c \in Nat : c <= nc => ~Live(nc', cell', c, t)
    <3>1. \A c \in Nat : c <= nc => c # nc + 1
      BY <1>1
    <3>2. QED
      BY <2>4, <3>1, Zenon
  <2>8. \A c \in exposed : ~Live(nc', cell', c, t)
    BY <1>1, <2>7 DEF FollowerInv, RefsInv
  <2>9. \A r \in Promise : \A x \in Waiting(prom, r) : ReactionFits(nc', cell', x, r, t, v)
    <3> SUFFICES ASSUME NEW r \in Promise, NEW x \in Waiting(prom, r)
                 PROVE  ReactionFits(nc', cell', x, r, t, v)
      OBVIOUS
    <3>1. x \in Reaction /\ ReactionRefs(x, nc)
      BY <1>1 DEF FollowerInv, RefsInv
    <3>2. /\ ~Live(nc', cell', x.onFulfilled.cell, t) /\ ~Live(nc', cell', x.onRejected.cell, t)
          /\ ~Live(nc', cell', x.downstream.cell, t)
      BY <2>7, <3>1, CellTypes DEF ReactionRefs
    <3>3. QED
      BY <2>5, <3>2 DEF ReactionFits, Leads
  <2>10. \A i \in InPlay(queue', cursor, cur') : JobFits(nc', cell', prom, i, t, v)
    <3>1. ASSUME NEW i \in InPlay(queue, cursor, cur), i.downstream.promise # t
          PROVE  JobFits(nc', cell', prom, i, t, v)
      <4>1. i \in Job \cup {NoJob} /\ JobRefs(i, nc)
        BY <1>1 DEF FollowerInv, RefsInv
      <4>2. /\ ~Live(nc', cell', i.handler.cell, t)
            /\ ~Live(nc', cell', i.downstream.cell, t)
        BY <2>7, <4>1, CellTypes DEF JobRefs
      <4>3. QED
        BY <3>1, <4>2 DEF JobFits, Leads
    <3>2. JobFits(nc', cell', prom, NoJob, t, v)
      BY <1>1, NoneFits
    <3>3. JobFits(nc', cell', prom, j, t, v)
      BY <1>2, <1>7 DEF JobFits, Leads
    <3>4. QED
      BY <1>4, <2>6, <3>1, <3>2, <3>3
  <2>11. QED
    BY <2>8, <2>9, <2>10 DEF Bound
<1>14. FollowInv'
  <2> SUFFICES ASSUME NEW p \in Promise, follows'[p] # None, prom'[p].state = "pending"
               PROVE  Bound(nc', cell', prom', InPlay(queue', cursor', cur'), exposed', p, follows'[p])
    BY DEF FollowInv, IsPending
  <2>1. CASE p = t
    <3>1. v \in Promise /\ follows'[t] = v
      BY <1>1, <2>1
    <3>2. QED
      BY <1>13, <2>1, <3>1
  <2>2. CASE p # t
    <3>1. follows'[p] = follows[p]
      BY <1>1, <2>2
    <3>2. QED
      BY <1>12, <2>2, <3>1
  <2>3. QED
    BY <2>1, <2>2
<1>15. QED
  BY <1>8, <1>10, <1>11, <1>14 DEF FollowerInv

(* then is called on p, with handlers that pass on to a follower of p what *)
(* becomes of p:                                                           *)
Passes(onF, onR, p) ==
    /\ onF.cell <= nc /\ onR.cell <= nc
    /\ \A s \in Promise : follows[s] # None /\ IsPending(s) =>
          /\ Live(nc, cell, onF.cell, s) => follows[s] = p /\ onF.kind = "resolve"
          /\ Live(nc, cell, onR.cell, s) => follows[s] = p /\ onR.kind = "reject"

LEMMA ThenFollow ==
    ASSUME HeapInv, HeapScoped, JobBorn(cur, np), cursor \in 0..Len(queue),
           cur \in Job \cup {NoJob}, FollowerInv, exposed \subseteq Cell,
           NEW p \in Promise, p <= np, NEW onF \in Handler, NEW onR \in Handler,
           NEW species \in BOOLEAN, Passes(onF, onR, p), Then(p, onF, onR, species),
           UNCHANGED <<cursor, cur, exposed>>
    PROVE  FollowerInv'
<1> DEFINE x == [onFulfilled |-> onF, onRejected |-> onR,
                 downstream |-> IF species THEN [promise |-> None, cell |-> nc + 1]
                                           ELSE [promise |-> np + 1, cell |-> None]]
<1>1. /\ nc \in Nat /\ np \in Nat /\ cursor \in Nat /\ Len(queue) \in Nat
      /\ follows \in [Promise -> Promise \cup {None}]
      /\ cell \in [Cell -> [target : Promise, called : BOOLEAN]]
      /\ \A r \in Promise : Waiting(prom, r) \subseteq Reaction
      /\ InPlay(queue, cursor, cur) \subseteq Job \cup {NoJob}
      /\ \A c \in exposed : c \in Nat
      /\ RefsInv /\ ResultInv /\ Agreement /\ FollowInv
  BY PlaceTypes DEF HeapInv, HeapType, Cell, FollowerInv
<1>2. /\ np < MaxPromises /\ np' = np + 1
      /\ nc' = IF species THEN nc + 1 ELSE nc
      /\ species => nc < MaxCells
      /\ cell' = IF species
                   THEN [cell EXCEPT ![nc + 1] = [target |-> np + 1, called |-> FALSE]]
                   ELSE cell
      /\ AddReaction(p, x)
      /\ follows' = IF onF.kind = "undefined" /\ onR.kind = "undefined"
                      THEN [follows EXCEPT ![np + 1] = p] ELSE follows
  BY DEF Then
<1>3. PICK m : m = np + 1
  OBVIOUS
<1>4. /\ np < MaxPromises /\ np' = m /\ MaxPromises \in Nat /\ MaxCells \in Nat
      /\ species => nc < MaxCells /\ nc' = nc + 1
                    /\ cell' = [cell EXCEPT ![nc + 1] = [target |-> m, called |-> FALSE]]
      /\ ~species => nc' = nc /\ cell' = cell
  <2>1. MaxPromises \in Nat /\ MaxCells \in Nat
    BY BoundsAssumption
  <2>2. np < MaxPromises /\ np' = m
    BY <1>2, <1>3
  <2>3. ASSUME species
        PROVE  /\ nc < MaxCells /\ nc' = nc + 1
               /\ cell' = [cell EXCEPT ![nc + 1] = [target |-> m, called |-> FALSE]]
    BY <1>2, <1>3, <2>3
  <2>4. ASSUME ~species
        PROVE  nc' = nc /\ cell' = cell
    BY <1>2, <2>4
  <2>5. QED
    BY <2>1, <2>2, <2>3, <2>4, Zenon
<1>5. nc' \in Nat /\ nc <= nc'
  <2>1. CASE species
    BY <1>1, <1>4, <2>1
  <2>2. CASE ~species
    BY <1>1, <1>4, <2>2
  <2>3. QED
    BY <2>1, <2>2
<1>6. species => nc + 1 \in Cell
  BY <1>1, <1>4 DEF Cell
<1>7. m \in Promise /\ m # p /\ m # None /\ x \in Reaction
  <2>1. m \in Promise /\ m # p /\ m # None
    BY <1>1, <1>4, <1>3 DEF Promise, None
  <2>3. x.downstream \in Downstream
    <3>1. CASE species
      BY <1>6, <3>1 DEF Downstream
    <3>2. CASE ~species
      BY <1>3, <2>1, <3>2 DEF Downstream
    <3>3. QED
      BY <3>1, <3>2
  <2>4. QED
    BY <2>1, <2>3 DEF Reaction
<1>8. /\ prom'[m] = Fresh /\ prom'[p].state = prom[p].state /\ prom'[p].result = prom[p].result
      /\ \A q \in Promise : q # p /\ q # m => prom'[q] = prom[q]
  BY <1>1, <1>2, <1>3, <1>7, AddReactionFacts
<1>9. /\ \A r \in Promise : \A y \in Waiting(prom', r) :
           y \in Waiting(prom, r) \/ (y = x /\ r = p)
      /\ \A k : \A j \in InPlay(queue', cursor, k) :
           \/ j \in InPlay(queue, cursor, k)
           \/ ~IsPending(p) /\ j = ReactionJob(x, prom[p].state, prom[p].result)
  BY <1>1, <1>2, <1>7, PlacesThen
<1>10. /\ x.onFulfilled = onF /\ x.onRejected = onR
      /\ x.downstream.promise = (IF species THEN None ELSE m)
      /\ x.downstream.cell = (IF species THEN nc + 1 ELSE None)
  BY <1>3
<1> HIDE DEF x
<1>11. prom[m] = Unborn /\ follows[m] = None /\ m > np
  <2>1. m > np
    BY <1>1, <1>3
  <2>2. prom[m] = Unborn
    BY <1>7, <2>1 DEF HeapScoped, PromScoped
  <2>3. ~(m <= np)
    BY <1>1, <1>3
  <2>4. follows[m] = None
    BY <1>1, <1>7, <2>3 DEF ResultInv
  <2>5. QED
    BY <2>1, <2>2, <2>4
<1>12. ~IsPending(p) => prom[p].state \in Settled /\ Ends(prom', p, prom[p].state, prom[p].result)
  BY <1>1, <1>8 DEF ResultInv, IsPending, HeapInv, HeapType, PromiseRec, Ends, Settled
(* Live capabilities: the old ones, and the new one on m.                  *)
<1>13. \A c, s : Live(nc', cell', c, s) =>
          Live(nc, cell, c, s) \/ (species /\ c = nc + 1 /\ s = m)
  <2>1. CASE species
    <3>1. nc + 1 \in Cell /\ \A c \in 1..nc : c \in Cell /\ c # nc + 1
      <4>1. nc < MaxCells /\ MaxCells \in Nat
        BY <1>4, <2>1
      <4>2. QED
        BY <1>1, <4>1 DEF Cell
    <3>2. /\ cell'[nc + 1].target = m
          /\ \A c \in 1..nc : cell'[c] = cell[c]
      BY <1>1, <1>4, <2>1, <3>1
    <3>3. \A c : c \in 1..nc' => c \in 1..nc \/ c = nc + 1
      BY <1>1, <1>4, <2>1
    <3>4. \A c, s : Live(nc', cell', c, s) =>
            Live(nc, cell, c, s) \/ (c = nc + 1 /\ s = m)
      BY <3>2, <3>3 DEF Live
    <3>5. QED
      BY <2>1, <3>4
  <2>2. CASE ~species
    <3>1. nc' = nc /\ cell' = cell
      BY <1>4, <2>2
    <3>2. \A c, s : Live(nc', cell', c, s) => Live(nc, cell, c, s)
      BY <3>1
    <3>3. QED
      BY <3>2
  <2>3. QED
    BY <2>1, <2>2
<1>14. \A c : ~Live(nc, cell, c, m)
  <2>1. \A c \in 1..nc : c \in Cell /\ c <= nc
    BY <1>1, BoundsAssumption DEF HeapInv, HeapType, Cell
  <2>2. \A c \in 1..nc : cell[c].target <= np
    BY <2>1 DEF HeapScoped, CellScoped
  <2>3. QED
    BY <1>1, <1>3, <2>2 DEF Live
<1>15. \A c \in Nat : c <= nc => ~Live(nc', cell', c, m)
  <2>1. \A c \in Nat : c <= nc => c # nc + 1
    BY <1>1
  <2>2. ASSUME NEW c \in Nat, c <= nc
        PROVE  ~Live(nc', cell', c, m)
    BY <1>13, <1>14, <2>1, <2>2
  <2>3. QED
    BY <2>2
<1>16. ASSUME NEW s \in Promise, s # m
       PROVE  /\ \A c : Live(nc', cell', c, s) => Live(nc, cell, c, s)
              /\ ~Leads(nc', cell', x.downstream, s)
  <2>1. \A c : Live(nc', cell', c, s) => Live(nc, cell, c, s)
    BY <1>13, <1>16
  <2>2. x.downstream.promise # s
    BY <1>10, <1>16 DEF Promise, None
  <2>3. ~Live(nc', cell', x.downstream.cell, s)
    <3>1. CASE species
      <4>1. nc + 1 \notin 1..nc
        BY <1>1
      <4>2. ~Live(nc, cell, nc + 1, s)
        BY <4>1 DEF Live
      <4>3. QED
        BY <1>10, <2>1, <3>1, <4>2
    <3>2. CASE ~species
      BY <1>10, <1>5, <3>2, NoneFits
    <3>3. QED
      BY <3>1, <3>2
  <2>4. QED
    BY <2>1, <2>2, <2>3 DEF Leads
<1>17. RefsInv'
  <2>1. ReactionRefs(x, nc')
    <3>1. onF.cell \in Nat /\ onR.cell \in Nat
      BY <1>7, <1>10, CellTypes
    <3>2. onF.cell <= nc' /\ onR.cell <= nc'
      <4>1. onF.cell <= nc /\ onR.cell <= nc
        BY DEF Passes
      <4>2. \A c \in Nat : c <= nc => c <= nc'
        BY <1>1, <1>5
      <4>3. QED
        BY <3>1, <4>1, <4>2
    <3>3. x.downstream.cell <= nc'
      BY <1>1, <1>4, <1>5, <1>10 DEF None
    <3>4. QED
      BY <1>10, <3>2, <3>3 DEF ReactionRefs
  <2>2. ~IsPending(p) => JobRefs(ReactionJob(x, prom[p].state, prom[p].result), nc')
    BY <1>7, <1>12, <1>5, <2>1, ReactionJobFits
  <2>3. /\ \A r \in Promise : \A y \in Waiting(prom', r) :
             y \in Waiting(prom, r) \/ ReactionRefs(y, nc')
        /\ \A j \in InPlay(queue', cursor', cur') :
             j \in InPlay(queue, cursor, cur) \/ JobRefs(j, nc')
    BY <1>9, <2>1, <2>2
  <2>4. QED
    BY <1>1, <1>5, <2>3, RefsStay
<1>18. ResultInv'
  <2> SUFFICES ASSUME NEW r \in Promise
               PROVE  /\ IF r <= np' THEN prom'[r].state # "unborn" ELSE follows'[r] = None
                      /\ prom'[r].state = "fulfilled" =>
                            prom'[r].result \notin Promise \cup Thenable \cup Poison
    BY DEF ResultInv
  <2>1. CASE r = m
    BY <1>1, <1>2, <1>3, <1>8, <2>1 DEF Fresh, Unborn
  <2>2. CASE r # m
    <3>1. r \in Nat /\ np \in Nat /\ np' = np + 1 /\ r # np + 1
      BY <1>1, <1>3, <1>4, <2>2 DEF Promise
    <3>2. r <= np' <=> r <= np
      BY <3>1
    <3>3. follows'[r] = follows[r]
      BY <1>1, <1>2, <1>3, <2>2
    <3>4. prom'[r].state = prom[r].state /\ prom'[r].result = prom[r].result
      BY <1>8, <2>2
    <3>5. QED
      BY <1>1, <3>2, <3>3, <3>4 DEF ResultInv
  <2>3. QED
    BY <2>1, <2>2
<1>19. Agreement'
  <2> SUFFICES ASSUME NEW s \in Promise, follows'[s] # None, prom'[s].state # "pending"
               PROVE  Ends(prom', follows'[s], prom'[s].state, prom'[s].result)
    BY DEF Agreement, Ends
  <2>1. s # m
    BY <1>8 DEF Fresh, Unborn
  <2>2. /\ follows'[s] = follows[s] /\ follows[s] \in Promise
        /\ prom'[s].state = prom[s].state /\ prom'[s].result = prom[s].result
    BY <1>1, <1>2, <1>3, <1>8, <2>1
  <2>3. Ends(prom, follows[s], prom[s].state, prom[s].result) /\ prom[s].state # "unborn"
    BY <1>1, <2>2 DEF Agreement, ResultInv
  <2>4. follows[s] # m
    BY <1>11, <2>3 DEF Ends, Unborn
  <2>5. prom'[follows[s]].state = prom[follows[s]].state
        /\ prom'[follows[s]].result = prom[follows[s]].result
    BY <1>8, <2>2, <2>4
  <2>6. QED
    BY <2>2, <2>3, <2>5 DEF Ends
<1>20. ASSUME NEW s \in Promise, NEW q \in Promise, ReactionFits(nc', cell', x, p, s, q)
       PROVE  /\ \A r \in Promise : \A y \in Waiting(prom', r) :
                   y \in Waiting(prom, r) \/ ReactionFits(nc', cell', y, r, s, q)
              /\ \A j \in InPlay(queue', cursor, cur) :
                   j \in InPlay(queue, cursor, cur) \/ JobFits(nc', cell', prom', j, s, q)
  <2>1. ~IsPending(p) => JobFits(nc', cell', prom',
                           ReactionJob(x, prom[p].state, prom[p].result), s, q)
    BY <1>7, <1>12, <1>5, <1>20, ReactionJobFits
  <2>2. QED
    BY <1>9, <1>20, <2>1, Zenon
<1>21. ASSUME NEW s \in Promise, s # m, follows[s] # None, prom[s].state = "pending"
       PROVE  Bound(nc', cell', prom', InPlay(queue', cursor, cur), exposed, s, follows[s])
  <2>1. Bound(nc, cell, prom, InPlay(queue, cursor, cur), exposed, s, follows[s])
    BY <1>1, <1>21 DEF FollowInv, IsPending
  <2>2. follows[s] \in Promise
    BY <1>1, <1>21
  <2>3. /\ \A c : Live(nc', cell', c, s) => Live(nc, cell, c, s)
        /\ ~Leads(nc', cell', x.downstream, s)
    BY <1>16, <1>21
  <2>4. ReactionFits(nc', cell', x, p, s, follows[s])
    BY <1>10, <1>21, <2>3 DEF ReactionFits, Passes, IsPending
  <2>5. prom[follows[s]].state \in Settled =>
          /\ prom'[follows[s]].state = prom[follows[s]].state
          /\ prom'[follows[s]].result = prom[follows[s]].result
    BY <1>8, <1>11, <2>2 DEF Settled, Unborn
  <2>6. /\ \A r \in Promise : \A y \in Waiting(prom', r) :
             y \in Waiting(prom, r) \/ ReactionFits(nc', cell', y, r, s, follows[s])
        /\ \A j \in InPlay(queue', cursor, cur) :
             j \in InPlay(queue, cursor, cur) \/ JobFits(nc', cell', prom', j, s, follows[s])
    BY <1>20, <2>2, <2>4
  <2>7. QED
    BY <2>1, <2>2, <2>3, <2>5, <2>6, BoundStays
<1>22. ASSUME onF.kind = "undefined", onR.kind = "undefined"
       PROVE  Bound(nc', cell', prom', InPlay(queue', cursor, cur), exposed, m, p)
  <2>1. \A c \in exposed : ~Live(nc', cell', c, m)
    BY <1>1, <1>15 DEF RefsInv
  <2>2. ReactionFits(nc', cell', x, p, m, p)
    <3>1. onF.cell \in Nat /\ onR.cell \in Nat /\ onF.cell <= nc /\ onR.cell <= nc
      BY <1>7, <1>10, CellTypes DEF Passes
    <3>2. ~Live(nc', cell', onF.cell, m) /\ ~Live(nc', cell', onR.cell, m)
      BY <1>15, <3>1
    <3>3. QED
      BY <1>10, <1>22, <3>2 DEF ReactionFits
  <2>3. ASSUME NEW r \in Promise, NEW y \in Waiting(prom, r)
        PROVE  ReactionFits(nc', cell', y, r, m, p)
    <3>1. y \in Reaction /\ ReactionRefs(y, nc)
      BY <1>1 DEF RefsInv
    <3>2. /\ ~Live(nc', cell', y.onFulfilled.cell, m) /\ ~Live(nc', cell', y.onRejected.cell, m)
          /\ ~Live(nc', cell', y.downstream.cell, m)
      BY <1>15, <3>1, CellTypes DEF ReactionRefs
    <3>3. y.downstream.promise <= np
      BY DEF HeapScoped, PromScoped, RecordBorn, ReactionBorn, Waiting
    <3>4. y.downstream.promise # m
      BY <1>1, <1>3, <3>3
    <3>5. QED
      BY <3>2, <3>4 DEF ReactionFits, Leads
  <2>4. ASSUME NEW j \in InPlay(queue, cursor, cur)
        PROVE  JobFits(nc', cell', prom', j, m, p)
    <3>1. j \in Job \cup {NoJob} /\ JobRefs(j, nc)
      BY <1>1 DEF RefsInv
    <3>2. /\ ~Live(nc', cell', j.handler.cell, m)
          /\ ~Live(nc', cell', j.downstream.cell, m)
      BY <1>15, <3>1, CellTypes DEF JobRefs
    <3>3. j.downstream.promise <= np
      <4>1. \A k \in (cursor + 1)..Len(queue) : k \in 1..Len(queue)
        BY <1>1
      <4>2. JobBorn(j, np)
        BY <4>1 DEF InPlay, HeapScoped, QueueScoped
      <4>3. QED
        BY <4>2 DEF JobBorn
    <3>4. j.downstream.promise # m
      BY <1>1, <1>3, <3>3
    <3>5. QED
      BY <3>2, <3>4 DEF JobFits, Leads
  <2>5. /\ \A r \in Promise : \A y \in Waiting(prom', r) :
             y \in Waiting(prom, r) \/ ReactionFits(nc', cell', y, r, m, p)
        /\ \A j \in InPlay(queue', cursor, cur) :
             j \in InPlay(queue, cursor, cur) \/ JobFits(nc', cell', prom', j, m, p)
    BY <1>7, <1>20, <2>2
  <2>6. QED
    BY <2>1, <2>3, <2>4, <2>5 DEF Bound
<1>23. FollowInv'
  <2> SUFFICES ASSUME NEW s \in Promise, follows'[s] # None, prom'[s].state = "pending"
               PROVE  Bound(nc', cell', prom', InPlay(queue', cursor', cur'), exposed', s, follows'[s])
    BY DEF FollowInv, IsPending
  <2>1. CASE s = m
    <3>1. onF.kind = "undefined" /\ onR.kind = "undefined" /\ follows'[s] = p
      BY <1>1, <1>2, <1>3, <1>11, <2>1
    <3>2. QED
      BY <1>22, <2>1, <3>1
  <2>2. CASE s # m
    <3>1. follows'[s] = follows[s] /\ prom[s].state = "pending"
      BY <1>1, <1>2, <1>3, <1>8, <2>2
    <3>2. QED
      BY <1>21, <2>2, <3>1
  <2>3. QED
    BY <2>1, <2>2
<1>24. QED
  BY <1>17, <1>18, <1>19, <1>23 DEF FollowerInv

(* a promise is allocated, perhaps with a capability:                      *)
LEMMA AllocateFollow ==
    ASSUME HeapInv, cursor \in 0..Len(queue), cur \in Job \cup {NoJob}, FollowerInv,
           exposed \subseteq Cell, NEW n, NEW r, NewRecord(n, r), np' = n,
           r.reactions = <<>>, r.state # "unborn",
           r.state = "fulfilled" => r.result \notin Promise \cup Thenable \cup Poison,
           UNCHANGED <<queue, cursor, cur, follows>>, nc' \in Nat, nc <= nc',
           \A c, p : Live(nc', cell', c, p) => Live(nc, cell, c, p) \/ p = n,
           \A c \in exposed' : c \in exposed
              \/ (c \in Nat /\ c <= nc' /\ \A p : ~Live(nc, cell, c, p))
    PROVE  FollowerInv'
<1>1. /\ nc \in Nat /\ np \in Nat /\ n = np + 1 /\ follows \in [Promise -> Promise \cup {None}]
      /\ n \in Promise /\ \A q \in Promise : prom'[q] = IF q = n THEN r ELSE prom[q]
  BY BoundsAssumption DEF HeapInv, HeapType, Promise, NewRecord
<1>2. RefsInv /\ ResultInv /\ Agreement /\ FollowInv
  BY DEF FollowerInv
<1>3. prom[n].state = "unborn" /\ follows[n] = None
  <2>1. n > np /\ ~(n <= np)
    BY <1>1
  <2>2. QED
    BY <1>1, <1>2, <2>1 DEF HeapInv, PromiseInv, ResultInv
<1>4. \A q \in Promise : Waiting(prom', q) \subseteq Waiting(prom, q)
  <2>1. Len(r.reactions) = 0
    OBVIOUS
  <2>2. Waiting(prom', n) = {}
    BY <1>1, <2>1 DEF Waiting
  <2>3. QED
    BY <1>1, <2>2 DEF Waiting
<1>5. RefsInv'
  <2>1. \A c \in exposed' : c \in Nat /\ (c \in exposed \/ c <= nc')
    <3>1. Cell \subseteq Nat
      BY DEF Cell
    <3>2. \A c \in exposed : c \in Nat
      BY <3>1, Zenon
    <3>3. QED
      BY <3>2, Zenon
  <2>2. QED
    BY <1>1, <1>2, <1>4, <2>1, RefsStay
<1>6. ResultInv'
  <2> SUFFICES ASSUME NEW q \in Promise
               PROVE  /\ IF q <= np' THEN prom'[q].state # "unborn" ELSE follows'[q] = None
                      /\ prom'[q].state = "fulfilled" =>
                            prom'[q].result \notin Promise \cup Thenable \cup Poison
    BY DEF ResultInv
  <2>1. CASE q = n
    BY <1>1, <2>1
  <2>2. CASE q # n
    <3>1. q \in Nat /\ q # np + 1
      BY <1>1, <2>2 DEF Promise
    <3>2. q <= np' <=> q <= np
      BY <1>1, <3>1
    <3>3. QED
      BY <1>1, <1>2, <2>2, <3>2 DEF ResultInv
  <2>3. QED
    BY <2>1, <2>2
<1>7. Agreement'
  <2> SUFFICES ASSUME NEW s \in Promise, follows[s] # None, prom'[s].state # "pending"
               PROVE  Ends(prom', follows[s], prom'[s].state, prom'[s].result)
    BY DEF Agreement, Ends
  <2>1. s # n /\ prom'[s] = prom[s] /\ follows[s] \in Promise
    BY <1>1, <1>3
  <2>2. Ends(prom, follows[s], prom[s].state, prom[s].result) /\ prom[s].state # "unborn"
    BY <1>2, <2>1 DEF Agreement, ResultInv
  <2>3. follows[s] # n
    BY <1>3, <2>2 DEF Ends
  <2>4. QED
    BY <1>1, <2>1, <2>2, <2>3 DEF Ends
<1>8. ASSUME NEW s \in Promise, follows[s] # None, prom'[s].state = "pending"
      PROVE  Bound(nc', cell', prom', InPlay(queue, cursor, cur), exposed', s, follows[s])
  <2>1. s # n /\ prom[s].state = "pending" /\ follows[s] \in Promise
    BY <1>1, <1>3, <1>8
  <2>2. Bound(nc, cell, prom, InPlay(queue, cursor, cur), exposed, s, follows[s])
    BY <1>2, <1>8, <2>1 DEF FollowInv, IsPending
  <2>3. \A c : Live(nc', cell', c, s) => Live(nc, cell, c, s)
    BY <2>1
  <2>4. \A c \in exposed' : c \in exposed \/ ~Live(nc', cell', c, s)
    BY <2>3
  <2>5. prom[follows[s]].state \in Settled =>
          /\ prom'[follows[s]].state = prom[follows[s]].state
          /\ prom'[follows[s]].result = prom[follows[s]].result
    BY <1>1, <1>3, <2>1 DEF Settled
  <2>6. QED
    BY <1>4, <2>1, <2>2, <2>3, <2>4, <2>5, BoundStays
<1>9. FollowInv'
  BY <1>8 DEF FollowInv, IsPending
<1>10. QED
  BY <1>5, <1>6, <1>7, <1>9 DEF FollowerInv

(* a promise is resolved, a follower with what it follows ended with:      *)
LEMMA ResolveFollow ==
    ASSUME HeapInv, cursor \in 0..Len(queue), cur \in Job \cup {NoJob}, FollowerInv,
           SettlerInv', exposed \subseteq Cell, NEW t \in Promise, IsPending(t),
           NEW v \in Value, follows[t] # None => Ends(prom, follows[t], "fulfilled", v),
           NEW cells \in [Cell -> [target : Promise, called : BOOLEAN]],
           ResolveWithValue(t, v, cells), UNCHANGED <<cursor, exposed>>,
           cur' = cur \/ cur' = NoJob,
           \A c, p : Live(nc, cells, c, p) => Live(nc, cell, c, p)
    PROVE  FollowerInv'
<1>1. follows[t] # None => v \notin Promise \cup Thenable \cup Poison
  <2>1. follows \in [Promise -> Promise \cup {None}] /\ ResultInv
    BY DEF HeapInv, HeapType, FollowerInv
  <2>2. QED
    BY <2>1 DEF ResultInv, Ends
<1>2. CASE v # t /\ v \in Promise \cup Thenable
  <2> DEFINE j == [handler |-> ThenableJob(nc + 1, v), arg |-> None,
                   downstream |-> NoDownstream]
  <2>1. /\ nc < MaxCells /\ nc' = nc + 1
        /\ cell' = [cells EXCEPT ![nc + 1] = [target |-> t, called |-> FALSE]]
        /\ queue' = Append(queue, j)
        /\ follows' = [follows EXCEPT ![t] = IF v \in Promise THEN v ELSE None]
        /\ UNCHANGED <<prom, np>>
    BY <1>2 DEF ResolveWithValue
  <2>2. j \in Job
    <3>1. nc + 1 \in Cell
      BY <2>1, BoundsAssumption DEF HeapInv, HeapType, Cell
    <3>2. ThenableJob(nc + 1, v) \in Callable
      BY <1>2, <3>1 DEF ThenableJob, Callable, Adopting
    <3>3. None \in Value /\ NoDownstream \in Downstream
      BY DEF Value, Downstream
    <3>4. QED
      BY <3>2, <3>3 DEF Job
  <2>3. j.handler = ThenableJob(nc + 1, v) /\ j.downstream = NoDownstream
    OBVIOUS
  <2> HIDE DEF j
  <2>4. QED
    BY <1>2, <2>1, <2>2, <2>3, RenewFollow
<1>3. CASE ~(v # t /\ v \in Promise \cup Thenable)
  <2>1. /\ cell' = cells /\ UNCHANGED <<np, nc, follows>>
        /\ IF v = t \/ v \in Poison THEN PromiseSettle(t, "rejected", Error)
                                    ELSE PromiseSettle(t, "fulfilled", v)
    BY <1>3 DEF ResolveWithValue
  <2>2. \A c, p : Live(nc, cell', c, p) => Live(nc, cell, c, p)
    BY <2>1
  <2>3. CASE v = t \/ v \in Poison
    <3>1. follows[t] = None /\ PromiseSettle(t, "rejected", Error)
      BY <1>1, <2>1, <2>3
    <3>2. "rejected" \in Settled /\ Error \in Value /\ "rejected" # "fulfilled"
      BY DEF Settled, Value
    <3>3. QED
      BY <2>1, <2>2, <3>1, <3>2, SettleFollow
  <2>4. CASE ~(v = t \/ v \in Poison)
    <3>1. PromiseSettle(t, "fulfilled", v) /\ v \notin Promise \cup Thenable \cup Poison
      BY <1>3, <2>1, <2>4
    <3>2. "fulfilled" \in Settled
      BY DEF Settled
    <3>3. QED
      BY <2>1, <2>2, <3>1, <3>2, SettleFollow
  <2>5. QED
    BY <2>3, <2>4
<1>4. QED
  BY <1>2, <1>3

(* A resolving function is called with what the follower it can settle is  *)
(* to end with.                                                            *)
Hands(c, state, v) ==
    \A p \in Promise : follows[p] # None /\ IsPending(p) /\ Live(nc, cell, c, p) =>
        Ends(prom, follows[p], state, v)

LEMMA CallFollow ==
    ASSUME IInv, HeapScoped, SettlerInv, SettlerInv', FollowerInv,
           UNCHANGED <<cursor, exposed>>, cur' = cur \/ cur' = NoJob,
           NEW c \in Cell, NEW v \in Value, NEW state \in Settled, Hands(c, state, v),
           \/ state = "fulfilled" /\ CallResolveFn(c, v)
           \/ state = "rejected" /\ CallRejectFn(c, v)
    PROVE  FollowerInv'
<1>1. /\ HeapInv /\ cursor \in 0..Len(queue) /\ cur \in Job \cup {NoJob}
      /\ exposed \subseteq Cell
  BY DEF IInv, ControlType
<1>2. CASE AlreadyCalled(c)
  <2>1. UNCHANGED heapVars
    BY <1>2 DEF CallResolveFn, CallRejectFn
  <2>2. InPlay(queue', cursor', cur') \subseteq InPlay(queue, cursor, cur) \cup {NoJob}
    BY <2>1 DEF InPlay, heapVars
  <2>3. UNCHANGED <<np, nc, cell, follows>> /\ prom' = prom
    BY <2>1 DEF heapVars
  <2>4. QED
    BY <1>1, <2>2, <2>3, SameFollow
<1>3. CASE ~AlreadyCalled(c)
  <2>1. PICK t : t = cell[c].target
    OBVIOUS
  <2>2. /\ c \in 1..nc /\ t \in Promise
        /\ MarkAlreadyCalled(c) \in [Cell -> [target : Promise, called : BOOLEAN]]
        /\ \A d \in Cell : MarkAlreadyCalled(c)[d].target = cell[d].target
        /\ MarkAlreadyCalled(c)[c].called
        /\ \A d \in Cell : d # c => MarkAlreadyCalled(c)[d] = cell[d]
    BY <1>1, <1>3, <2>1, MarkScoped DEF HeapInv, HeapType, Cell
  <2>3. Live(nc, cell, c, t)
    BY <1>3, <2>1, <2>2 DEF Live, AlreadyCalled
  <2>4. \A d, p : Live(nc, MarkAlreadyCalled(c), d, p) => Live(nc, cell, d, p)
    <3>1. \A d \in 1..nc : d \in Cell
      BY <1>1, BoundsAssumption DEF HeapInv, HeapType, Cell
    <3>2. QED
      BY <2>2, <3>1 DEF Live
  <2>5. IsPending(t)
    <3>1. Tok(nc, cell, prom, queue, cursor, cur, "cell", c, 0, t)
      BY <2>3 DEF Tok, Live
    <3>2. QED
      BY <2>2, <3>1 DEF SettlerInv, Sound, Some, IsPending
  <2>6. follows[t] # None => Ends(prom, follows[t], state, v)
    BY <2>2, <2>3, <2>5 DEF Hands
  <2>7. CASE state = "fulfilled" /\ CallResolveFn(c, v)
    <3>1. ResolveWithValue(t, v, MarkAlreadyCalled(c))
      BY <1>3, <2>1, <2>7 DEF CallResolveFn
    <3>2. QED
      BY <1>1, <2>2, <2>4, <2>5, <2>6, <2>7, <3>1, ResolveFollow
  <2>8. CASE state = "rejected" /\ CallRejectFn(c, v)
    <3>1. /\ cell' = MarkAlreadyCalled(c) /\ PromiseSettle(t, "rejected", v)
          /\ UNCHANGED <<np, nc, follows>>
      BY <1>3, <2>1, <2>8 DEF CallRejectFn
    <3>2. \A d, p : Live(nc, cell', d, p) => Live(nc, cell, d, p)
      BY <2>4, <3>1
    <3>3. "rejected" # "fulfilled" /\ "rejected" \in Settled
      BY DEF Settled
    <3>4. QED
      BY <1>1, <2>2, <2>5, <2>6, <2>8, <3>1, <3>2, <3>3, SettleFollow
  <2>9. QED
    BY <2>7, <2>8
<1>4. QED
  BY <1>2, <1>3

-----------------------------------------------------------------------------
(* Followers under each step.                                              *)

LEMMA LiveCell ==
    ASSUME HeapInv, NEW m, NEW c2, NewCell(m, c2)
    PROVE  /\ \A c, p : Live(nc', cell', c, p) => Live(nc, cell, c, p) \/ p = c2.target
           /\ \A p : ~Live(nc, cell, m, p)
           /\ nc' \in Nat /\ nc <= nc' /\ m \in Nat /\ m <= nc'
<1>1. /\ nc \in Nat /\ m \in Cell /\ nc' = m /\ m = nc + 1
      /\ cell' = [cell EXCEPT ![m] = c2]
      /\ cell \in [Cell -> [target : Promise, called : BOOLEAN]]
      /\ \A d \in 1..nc : d \in Cell /\ d # m
  BY BoundsAssumption DEF HeapInv, HeapType, Cell, NewCell
<1>2. cell'[m] = c2 /\ \A d \in 1..nc : cell'[d] = cell[d]
  BY <1>1
<1>3. \A c : c \in 1..nc' => c \in 1..nc \/ c = m
  BY <1>1
<1>4. \A c, p : Live(nc', cell', c, p) => Live(nc, cell, c, p) \/ p = c2.target
  BY <1>2, <1>3 DEF Live
<1>5. m \notin 1..nc
  BY <1>1
<1>6. \A p : ~Live(nc, cell, m, p)
  BY <1>5 DEF Live
<1>7. nc' \in Nat /\ nc <= nc' /\ m \in Nat /\ m <= nc'
  BY <1>1
<1>8. QED
  BY <1>4, <1>6, <1>7

(* What no follower depends on hands anything on.                          *)
LEMMA HandsFree ==
    ASSUME NEW c, \A p \in Promise : follows[p] # None /\ IsPending(p) => ~Live(nc, cell, c, p)
    PROVE  \A state, v : Hands(c, state, v)
BY DEF Hands

LEMMA ScriptFollow ==
    ASSUME IInv, Scoped, SettlerInv, SettlerInv', FollowerInv, ScriptStep \/ HostStep
    PROVE  FollowerInv'
<1>0. /\ HeapInv /\ HeapScoped /\ exposed \subseteq Cell /\ cursor \in 0..Len(queue)
      /\ cur \in Job \cup {NoJob} /\ JobBorn(cur, np)
      /\ np \in Nat /\ nc \in Nat
  BY DEF IInv, HeapInv, HeapType, ControlType, Scoped
<1>1. CASE NewPromise \/ NewPromiseInterrupted
  <2>1. PICK n, m : n = np + 1 /\ m = nc + 1
    OBVIOUS
  <2>2. PICK called \in BOOLEAN :
          cell' = [cell EXCEPT ![nc + 1] = [target |-> np + 1, called |-> called]]
    BY <1>1 DEF NewPromise, NewPromiseInterrupted
  <2>3. PICK c2 : c2 = [target |-> n, called |-> called]
    OBVIOUS
  <2>4. PICK r : /\ r = Fresh \/ r = [Fresh EXCEPT !.state = "rejected", !.result = Interrupted,
                                                   !.inRejectList = TRUE]
                 /\ prom' = [prom EXCEPT ![np + 1] = r]
    BY <1>1 DEF NewPromise, NewPromiseInterrupted
  <2>5. /\ NewRecord(n, r) /\ NewCell(m, c2) /\ np' = n
        /\ UNCHANGED <<queue, cursor, cur, follows>>
        /\ exposed' = exposed \cup {m}
    BY <1>1, <2>1, <2>2, <2>3, <2>4 DEF NewPromise, NewPromiseInterrupted, ScriptOp,
       NewRecord, NewCell
  <2>6. r.reactions = <<>> /\ r.state # "unborn" /\ r.state # "fulfilled"
    BY <2>4 DEF Fresh, Unborn
  <2>7. /\ \A c, p : Live(nc', cell', c, p) => Live(nc, cell, c, p) \/ p = n
        /\ \A p : ~Live(nc, cell, m, p)
        /\ nc' \in Nat /\ nc <= nc' /\ m \in Nat /\ m <= nc'
    <3>1. c2.target = n
      BY <2>3
    <3>2. QED
      BY <1>0, <2>5, <3>1, LiveCell
  <2>8. \A c \in exposed' : c \in exposed
           \/ (c \in Nat /\ c <= nc' /\ \A p : ~Live(nc, cell, c, p))
    BY <2>5, <2>7
  <2>9. QED
    BY <1>0, <2>5, <2>6, <2>7, <2>8, AllocateFollow
<1>2. CASE SettlingCombinator
  <2>1. PICK v \in Plain : prom' = [prom EXCEPT ![np + 1] =
                             [Fresh EXCEPT !.state = "fulfilled", !.result = v]]
    BY <1>2 DEF SettlingCombinator
  <2>2. PICK n, r : n = np + 1 /\ r = [Fresh EXCEPT !.state = "fulfilled", !.result = v]
    OBVIOUS
  <2>3. /\ NewRecord(n, r) /\ np' = n
        /\ UNCHANGED <<queue, cursor, cur, follows, nc, cell, exposed>>
    BY <1>2, <2>1, <2>2 DEF SettlingCombinator, ScriptOp, NewRecord
  <2>4. r.reactions = <<>> /\ r.state # "unborn" /\ r.result = v
    BY <2>2 DEF Fresh, Unborn
  <2>5. v \notin Promise \cup Thenable \cup Poison
    BY ValuesAssumption
  <2>6. /\ \A c, p : Live(nc', cell', c, p) => Live(nc, cell, c, p) \/ p = n
        /\ \A c \in exposed' : c \in exposed
        /\ nc' \in Nat /\ nc <= nc'
    BY <1>0, <2>3
  <2>7. QED
    BY <1>0, <2>3, <2>4, <2>5, <2>6, AllocateFollow
<1>3. CASE ScriptResolve \/ ScriptReject \/ HostSettle
  <2>1. UNCHANGED <<cursor, cur, exposed>>
    BY <1>3 DEF ScriptResolve, ScriptReject, HostSettle, ScriptOp, drainVars
  <2>2. PICK c \in exposed : (\E v \in ScriptValue : CallResolveFn(c, v)) \/ CallRejectFn(c, Error)
    BY <1>3 DEF ScriptResolve, ScriptReject, HostSettle
  <2>3. \A state, v : Hands(c, state, v)
    BY HandsFree DEF FollowerInv, FollowInv, Bound
  <2>4. /\ ScriptValue \subseteq Value /\ Error \in Value /\ c \in Cell
        /\ "fulfilled" \in Settled /\ "rejected" \in Settled
    <3>1. Born \subseteq Promise
      BY BoundsAssumption DEF Born, Promise, IInv, HeapInv, HeapType
    <3>2. QED
      BY <1>0, <3>1 DEF ScriptValue, Value, Settled
  <2>5. CASE \E v \in ScriptValue : CallResolveFn(c, v)
    BY <1>0, <2>1, <2>3, <2>4, <2>5, CallFollow
  <2>6. CASE CallRejectFn(c, Error)
    BY <1>0, <2>1, <2>3, <2>4, <2>6, CallFollow
  <2>7. QED
    BY <2>2, <2>5, <2>6
<1>4. CASE ScriptThen
  <2>1. PICK p \in Born, onF \in {Plainly("user"), Plainly("undefined")},
             onR \in {Plainly("user"), Plainly("undefined")},
             species \in BOOLEAN : Then(p, onF, onR, species)
    BY <1>4 DEF ScriptThen
  <2>2. onF \in Handler /\ onR \in Handler /\ onF.cell = None /\ onR.cell = None
    BY DEF Handler, Callable, Closure, Plainly
  <2>3. p \in Promise /\ p <= np
    BY BoundsAssumption DEF Born, Promise, IInv, HeapInv, HeapType
  <2>4. Passes(onF, onR, p)
    <3>1. None <= nc
      BY <1>0 DEF None
    <3>2. \A s : ~Live(nc, cell, None, s)
      BY <1>0, NoneFits
    <3>3. QED
      BY <2>2, <3>1, <3>2 DEF Passes
  <2>5. UNCHANGED <<cursor, cur, exposed>>
    BY <1>4 DEF ScriptThen, ScriptOp
  <2>6. QED
    BY <1>0, <2>1, <2>2, <2>3, <2>4, <2>5, ThenFollow
<1>5. CASE Eval \/ HostDrain
  <2>1. UNCHANGED <<prom, np, nc, cell, queue, cursor, cur, exposed, follows>>
    BY <1>5 DEF Eval, HostDrain, HostCall, heapVars, drainVars
  <2>2. InPlay(queue', cursor', cur') \subseteq InPlay(queue, cursor, cur) \cup {NoJob}
    BY <2>1 DEF InPlay
  <2>3. QED
    BY <1>0, <2>1, <2>2, SameFollow
<1>6. QED
  BY <1>1, <1>2, <1>3, <1>4, <1>5 DEF ScriptStep, HostStep

(* The followers the running job can settle, and how.                      *)
LEMMA CurFits ==
    ASSUME IInv, FollowerInv
    PROVE  /\ JobRefs(cur, nc)
           /\ \A p \in Promise : follows[p] # None /\ IsPending(p) =>
                follows[p] \in Promise /\ JobFits(nc, cell, prom, cur, p, follows[p])
BY DEF FollowerInv, FollowInv, RefsInv, Bound, InPlay, IInv, HeapInv, HeapType

LEMMA AfterFollow ==
    ASSUME IInv, Scoped, SettlerInv, SettlerInv', OutcomeInv, FollowerInv, JobAfter
    PROVE  FollowerInv'
<1>0. /\ HeapInv /\ HeapScoped /\ cursor \in 0..Len(queue) /\ cur \in Job \cup {NoJob}
      /\ exposed \subseteq Cell /\ ret \in Value /\ hasError \in BOOLEAN
      /\ cell \in [Cell -> [target : Promise, called : BOOLEAN]]
      /\ "fulfilled" \in Settled /\ "rejected" \in Settled
  BY DEF IInv, HeapInv, HeapType, ControlType, Scoped, Settled
<1>1. /\ UNCHANGED <<cursor, exposed>> /\ cur' = NoJob
      /\ MicrotaskAfter(cur.downstream)
      /\ cur.downstream \in Downstream
      /\ Outcome(cur, ret, hasError)
  BY JobFacts DEF JobAfter, OutcomeInv
<1>2. PICK ds, state : ds = cur.downstream
                       /\ state = IF hasError THEN "rejected" ELSE "fulfilled"
  OBVIOUS
(* The followers that the end of the job leads to are to end as it did.    *)
<1>3. ASSUME NEW p \in Promise, follows[p] # None, IsPending(p), Leads(nc, cell, ds, p)
      PROVE  Ends(prom, follows[p], state, ret)
  <2>1. JobFits(nc, cell, prom, cur, p, follows[p])
    BY <1>3, CurFits
  <2>2. \/ cur.handler.kind = "identity" /\ Ends(prom, follows[p], "fulfilled", cur.arg)
        \/ cur.handler.kind = "thrower" /\ Ends(prom, follows[p], "rejected", cur.arg)
    BY <1>2, <1>3, <2>1 DEF JobFits
  <2>3. CASE cur.handler.kind = "identity" /\ Ends(prom, follows[p], "fulfilled", cur.arg)
    BY <1>1, <1>2, <2>3 DEF Outcome
  <2>4. CASE cur.handler.kind = "thrower" /\ Ends(prom, follows[p], "rejected", cur.arg)
    BY <1>1, <1>2, <2>4 DEF Outcome
  <2>5. QED
    BY <2>2, <2>3, <2>4
<1>4. CASE ds.cell # None
  <2>1. ds.cell \in Cell
    BY <1>1, <1>2, <1>4 DEF Downstream, NoDownstream
  <2>2. Hands(ds.cell, state, ret)
    BY <1>3 DEF Hands, Leads
  <2>3. \/ state = "fulfilled" /\ CallResolveFn(ds.cell, ret)
        \/ state = "rejected" /\ CallRejectFn(ds.cell, ret)
    <3>1. IF hasError THEN CallRejectFn(ds.cell, ret) ELSE CallResolveFn(ds.cell, ret)
      BY <1>1, <1>2, <1>4 DEF MicrotaskAfter
    <3>2. QED
      BY <1>2, <3>1
  <2>4. state \in Settled
    BY <1>0, <1>2
  <2>5. QED
    BY <1>0, <1>1, <2>1, <2>2, <2>3, <2>4, CallFollow
<1>5. CASE ds.cell = None /\ ds.promise # None
  <2>1. PICK t \in Promise : t = ds.promise
    BY <1>1, <1>2, <1>5 DEF Downstream, NoDownstream
  <2>2. IsPending(t)
    <3>1. Tok(nc, cell, prom, queue, cursor, cur, "running", 0, 0, t)
      BY <1>2, <2>1 DEF Tok
    <3>2. QED
      BY <3>1 DEF SettlerInv, Sound, Some, IsPending
  <2>3. follows[t] # None => Ends(prom, follows[t], state, ret)
    BY <1>3, <2>1, <2>2 DEF Leads
  <2>4. IF hasError
          THEN PromiseSettle(t, "rejected", ret) /\ UNCHANGED <<np, cell, nc, follows>>
          ELSE ResolveWithValue(t, ret, cell)
    BY <1>1, <1>2, <1>5, <2>1, <2>2 DEF MicrotaskAfter
  <2>5. CASE hasError
    <3>1. state = "rejected" /\ state # "fulfilled"
      BY <1>2, <2>5
    <3>2. PromiseSettle(t, state, ret) /\ UNCHANGED <<np, cell, nc, follows>>
      BY <2>4, <2>5, <3>1
    <3>3. \A c, p : Live(nc, cell', c, p) => Live(nc, cell, c, p)
      BY <3>2
    <3>4. QED
      BY <1>0, <1>1, <2>2, <2>3, <3>1, <3>2, <3>3, SettleFollow
  <2>6. CASE ~hasError
    <3>1. state = "fulfilled" /\ ResolveWithValue(t, ret, cell)
      BY <1>2, <2>4, <2>6
    <3>2. QED
      BY <1>0, <1>1, <2>2, <2>3, <3>1, ResolveFollow
  <2>7. QED
    BY <2>5, <2>6
<1>6. CASE ds.cell = None /\ ds.promise = None
  <2>1. UNCHANGED heapVars
    BY <1>1, <1>2, <1>6 DEF MicrotaskAfter
  <2>2. UNCHANGED <<prom, np, nc, cell, queue, follows>>
    BY <2>1 DEF heapVars
  <2>3. InPlay(queue', cursor', cur') \subseteq InPlay(queue, cursor, cur) \cup {NoJob}
    BY <1>1, <2>2 DEF InPlay
  <2>4. QED
    BY <1>0, <1>1, <2>2, <2>3, SameFollow
<1>7. QED
  BY <1>4, <1>5, <1>6

LEMMA DrainFollow ==
    ASSUME IInv, CursorInv, FollowerInv,
           DrainEnter \/ DrainTake \/ DrainEnd \/ JobAborts
    PROVE  FollowerInv'
<1>0. /\ HeapInv /\ exposed \subseteq Cell /\ cur \in Job \cup {NoJob}
      /\ queue \in Seq(Job) /\ Len(queue) \in Nat
      /\ cursor \in 0..Len(queue) /\ cursor \in Nat
  BY DEF IInv, HeapInv, HeapType, ControlType
<1>1. UNCHANGED <<prom, np, nc, cell, exposed, follows>>
  BY DEF DrainEnter, DrainTake, DrainEnd, JobAborts, Quiet, heapVars
<1>2. InPlay(queue', cursor', cur') \subseteq InPlay(queue, cursor, cur) \cup {NoJob}
  <2>1. CASE DrainEnter
    <3>1. cursor' = cursor /\ queue' = queue /\ cur' = cur
      BY <2>1 DEF DrainEnter, CursorInv
    <3>2. QED
      BY <3>1 DEF InPlay
  <2>2. CASE DrainTake
    <3>1. /\ cursor < Len(queue) /\ cur' = queue[cursor + 1] /\ cursor' = cursor + 1
          /\ queue' = queue
      BY <2>2 DEF DrainTake, Quiet, heapVars
    <3>2. /\ cursor + 1 \in (cursor + 1)..Len(queue)
          /\ \A k \in (cursor' + 1)..Len(queue) : k \in (cursor + 1)..Len(queue)
      BY <1>0, <3>1
    <3>3. QED
      BY <3>1, <3>2 DEF InPlay
  <2>3. CASE DrainEnd
    <3>1. queue' = <<>> /\ cursor' = 0 /\ cur' = cur /\ Len(<<>>) = 0
      BY <2>3 DEF DrainEnd
    <3>2. \A k : k \notin (cursor' + 1)..Len(queue')
      BY <3>1
    <3>3. QED
      BY <3>1, <3>2 DEF InPlay
  <2>4. CASE JobAborts
    <3>1. queue' = queue /\ cursor' = Len(queue) /\ cur' = NoJob
      BY <2>4 DEF JobAborts, Quiet, heapVars
    <3>2. \A k : k \notin (cursor' + 1)..Len(queue')
      BY <1>0, <3>1
    <3>3. QED
      BY <3>1, <3>2 DEF InPlay
  <2>5. QED
    BY <2>1, <2>2, <2>3, <2>4
<1>3. QED
  BY <1>0, <1>1, <1>2, SameFollow

LEMMA ReportFollow ==
    ASSUME IInv, FollowerInv, ReportSkip \/ ReportCall \/ TrackerReturn \/ ReportReturn
    PROVE  FollowerInv'
<1>0. /\ HeapInv /\ exposed \subseteq Cell /\ cur \in Job \cup {NoJob}
      /\ cursor \in 0..Len(queue) /\ prom \in [Promise -> PromiseRec]
  BY DEF IInv, HeapInv, HeapType, ControlType
<1>1. UNCHANGED <<np, nc, cell, queue, cursor, cur, exposed, follows>>
  BY DEF ReportSkip, ReportCall, TrackerReturn, ReportReturn, ReportQuiet, drainVars
<1>2. \A q \in Promise : /\ prom'[q].state = prom[q].state
                         /\ prom'[q].result = prom[q].result
                         /\ prom'[q].reactions = prom[q].reactions
  <2>1. CASE ReportSkip
    <3>1. PICK p : prom' = IF p = None THEN prom ELSE [prom EXCEPT ![p].inRejectList = FALSE]
      BY <2>1 DEF ReportSkip
    <3>2. QED
      BY <1>0, <3>1 DEF PromiseRec
  <2>2. CASE ReportCall
    <3>1. PICK p : prom' = [prom EXCEPT ![p].inRejectList = FALSE, ![p].isHandled = TRUE]
      BY <2>2 DEF ReportCall
    <3>2. QED
      BY <1>0, <3>1 DEF PromiseRec
  <2>3. CASE TrackerReturn \/ ReportReturn
    BY <2>3 DEF TrackerReturn, ReportReturn
  <2>4. QED
    BY <2>1, <2>2, <2>3
<1>3. InPlay(queue', cursor', cur') \subseteq InPlay(queue, cursor, cur) \cup {NoJob}
  BY <1>1 DEF InPlay
<1>4. QED
  BY <1>0, <1>1, <1>2, <1>3, SameFollow

LEMMA EngineFollow ==
    ASSUME IInv, Scoped, CursorInv, SettlerInv, SettlerInv', OutcomeInv, FollowerInv,
           EngineStep
    PROVE  FollowerInv'
<1>0. /\ HeapInv /\ HeapScoped /\ exposed \subseteq Cell /\ cursor \in 0..Len(queue)
      /\ cur \in Job \cup {NoJob} /\ JobBorn(cur, np)
      /\ np \in Nat /\ nc \in Nat
      /\ Error \in Value /\ Interrupted \in Value
      /\ "fulfilled" \in Settled /\ "rejected" \in Settled
  BY DEF IInv, HeapInv, HeapType, ControlType, Scoped, Value, Settled
<1>1. CASE \/ ScriptEnd \/ EvalReturn \/ HostDrainReturn \/ DrainReturn
           \/ RunScriptHandler \/ RunIdentity \/ RunThrower \/ HandlerEnd
  <2>1. UNCHANGED heapVars /\ UNCHANGED <<cursor, cur, exposed>>
    BY <1>1 DEF ScriptEnd, EvalReturn, HostDrainReturn, DrainReturn, RunScriptHandler,
       RunIdentity, RunThrower, HandlerEnd, Quiet, JobQuiet, drainVars
  <2>2. UNCHANGED <<prom, np, nc, cell, queue, cursor, cur, exposed, follows>>
    BY <2>1 DEF heapVars
  <2>3. InPlay(queue', cursor', cur') \subseteq InPlay(queue, cursor, cur) \cup {NoJob}
    BY <2>2 DEF InPlay
  <2>4. QED
    BY <1>0, <2>2, <2>3, SameFollow
<1>2. CASE RunResolvingFn
  <2>1. cur.handler.cell \in Cell /\ cur.arg \in Value
    BY <1>2, JobFacts DEF RunResolvingFn, JobStarts
  <2>2. UNCHANGED <<cursor, cur, exposed>>
    BY <1>2 DEF RunResolvingFn, JobQuiet
  <2>3. \/ cur.handler.kind = "resolve" /\ CallResolveFn(cur.handler.cell, cur.arg)
        \/ cur.handler.kind = "reject" /\ CallRejectFn(cur.handler.cell, cur.arg)
    BY <1>2 DEF RunResolvingFn, JobStarts
  <2>4. CASE cur.handler.kind = "resolve" /\ CallResolveFn(cur.handler.cell, cur.arg)
    <3>1. Hands(cur.handler.cell, "fulfilled", cur.arg)
      BY <2>4, CurFits DEF Hands, JobFits
    <3>2. QED
      BY <1>0, <2>1, <2>2, <2>4, <3>1, CallFollow
  <2>5. CASE cur.handler.kind = "reject" /\ CallRejectFn(cur.handler.cell, cur.arg)
    <3>1. Hands(cur.handler.cell, "rejected", cur.arg)
      BY <2>5, CurFits DEF Hands, JobFits
    <3>2. QED
      BY <1>0, <2>1, <2>2, <2>5, <3>1, CallFollow
  <2>6. QED
    BY <2>3, <2>4, <2>5
<1>3. CASE RunNativeThenable
  <2>1. /\ cur.handler.kind = "thenable"
        /\ cur.handler.cell \in Cell /\ cur.handler.resolution \in Promise
        /\ cur.handler.resolution <= np
    BY <1>0, <1>3, JobFacts DEF RunNativeThenable, JobStarts, JobBorn, BornVal
  <2>2. PICK onF, onR : onF = ResolveFn(cur.handler.cell) /\ onR = RejectFn(cur.handler.cell)
    OBVIOUS
  <2>3. /\ onF \in Handler /\ onF.kind = "resolve" /\ onF.cell = cur.handler.cell
        /\ onR \in Handler /\ onR.kind = "reject" /\ onR.cell = cur.handler.cell
    BY <2>1, <2>2 DEF ResolveFn, RejectFn, Handler, Callable, Resolving
  <2>4. Then(cur.handler.resolution, onF, onR, FALSE)
    BY <1>3, <2>2 DEF RunNativeThenable
  <2>5. UNCHANGED <<cursor, cur, exposed>>
    BY <1>3 DEF RunNativeThenable, JobQuiet
  <2>6. Passes(onF, onR, cur.handler.resolution)
    <3>1. cur.handler.cell <= nc
      BY CurFits DEF JobRefs
    <3>2. ASSUME NEW s \in Promise, follows[s] # None, IsPending(s),
                 Live(nc, cell, cur.handler.cell, s)
          PROVE  follows[s] = cur.handler.resolution
      BY <2>1, <3>2, CurFits DEF JobFits
    <3>3. QED
      BY <2>3, <3>1, <3>2 DEF Passes
  <2>7. QED
    BY <1>0, <2>1, <2>3, <2>4, <2>5, <2>6, ThenFollow
(* A script's then is given the functions of a capability that no follower *)
(* depends on.                                                             *)
<1>4. ASSUME cur.handler.kind = "thenable", cur.handler.resolution \in Thenable,
             NEW p \in Promise, follows[p] # None, IsPending(p)
      PROVE  ~Live(nc, cell, cur.handler.cell, p)
  <2>1. follows[p] \in Promise /\ JobFits(nc, cell, prom, cur, p, follows[p])
    BY <1>4, CurFits
  <2>2. follows[p] # cur.handler.resolution
    BY <1>4, <2>1, ValuesAssumption
  <2>3. QED
    BY <1>4, <2>1, <2>2 DEF JobFits
<1>5. CASE RunScriptThenable
  <2>1. /\ cur.handler.kind = "thenable" /\ cur.handler.resolution \in Thenable
        /\ cur.handler.cell \in Cell
        /\ exposed' = exposed \cup {cur.handler.cell}
        /\ UNCHANGED <<prom, np, nc, cell, queue, cursor, cur, follows>>
    BY <1>5, JobFacts DEF RunScriptThenable, JobStarts, JobQuiet, heapVars
  <2>2. InPlay(queue', cursor', cur') \subseteq InPlay(queue, cursor, cur) \cup {NoJob}
    BY <2>1 DEF InPlay
  <2>3. cur.handler.cell <= nc
    BY CurFits DEF JobRefs
  <2>4. exposed' \subseteq Cell
    BY <1>0, <2>1
  <2>5. \A c \in exposed' : \/ c \in exposed
                            \/ /\ c <= nc
                               /\ \A p \in Promise : follows[p] # None /\ IsPending(p) =>
                                     ~Live(nc, cell, c, p)
    BY <1>4, <2>1, <2>3
  <2>6. QED
    BY <1>0, <2>1, <2>2, <2>4, <2>5, SameFollow
<1>6. CASE ThenableEnd
  <2>1. /\ cur.handler.kind = "thenable" /\ cur.handler.resolution \in Thenable
        /\ cur.handler.cell \in Cell
    <3>1. Running("thenable")
      BY <1>6 DEF ThenableEnd
    <3>2. stack # <<>> /\ stack[1].kind = "thenable" /\ stack \in Seq(Frame)
      BY <3>1, StackFacts
    <3>3. 1 \in 1..Len(stack)
      BY <3>2, PopProperties
    <3>4. cur.handler.kind = "thenable"
      BY <3>2, <3>3 DEF IInv, StackDiscipline, Disciplined
    <3>5. cur.handler.resolution \in Thenable
      BY <3>2, <3>3 DEF OutcomeInv, FramesFit
    <3>6. QED
      BY <3>4, <3>5, JobFacts
  <2>2. UNCHANGED <<cursor, cur, exposed>>
    BY <1>6 DEF ThenableEnd
  <2>3. \/ UNCHANGED heapVars
        \/ CallRejectFn(cur.handler.cell, Error)
        \/ CallRejectFn(cur.handler.cell, Interrupted)
    BY <1>6 DEF ThenableEnd
  <2>4. CASE UNCHANGED heapVars
    <3>1. UNCHANGED <<prom, np, nc, cell, queue, follows>>
      BY <2>4 DEF heapVars
    <3>2. InPlay(queue', cursor', cur') \subseteq InPlay(queue, cursor, cur) \cup {NoJob}
      BY <2>2, <3>1 DEF InPlay
    <3>3. QED
      BY <1>0, <2>2, <3>1, <3>2, SameFollow
  <2>5. \A state, v : Hands(cur.handler.cell, state, v)
    BY <1>4, <2>1, HandsFree
  <2>6. CASE CallRejectFn(cur.handler.cell, Error)
    BY <1>0, <2>1, <2>2, <2>5, <2>6, CallFollow
  <2>7. CASE CallRejectFn(cur.handler.cell, Interrupted)
    BY <1>0, <2>1, <2>2, <2>5, <2>7, CallFollow
  <2>8. QED
    BY <2>3, <2>4, <2>6, <2>7
<1>7. QED
  BY <1>1, <1>2, <1>3, <1>5, <1>6, AfterFollow, DrainFollow, ReportFollow DEF EngineStep

LEMMA FollowStep ==
    ASSUME IInv, Scoped, CursorInv, SettlerInv, SettlerInv', OutcomeInv, FollowerInv,
           [Next]_vars
    PROVE  FollowerInv'
<1>1. CASE UNCHANGED vars
  <2>1. UNCHANGED <<prom, np, nc, cell, queue, cursor, cur, exposed, follows>>
    BY <1>1 DEF vars
  <2>2. InPlay(queue', cursor', cur') \subseteq InPlay(queue, cursor, cur) \cup {NoJob}
    BY <2>1 DEF InPlay
  <2>3. /\ HeapInv /\ exposed \subseteq Cell /\ cur \in Job \cup {NoJob}
        /\ cursor \in 0..Len(queue)
    BY DEF IInv, ControlType
  <2>4. QED
    BY <2>1, <2>2, <2>3, SameFollow
<1>2. QED
  BY <1>1, ScriptFollow, EngineFollow DEF Next

LEMMA InitFollow ==
    ASSUME Init
    PROVE  OutcomeInv /\ FollowerInv
<1>1. /\ stack = <<>> /\ exposed = {} /\ nc = 0 /\ np = 0 /\ queue = <<>> /\ cursor = 0
      /\ cur = NoJob /\ \A p \in Promise : prom[p] = Unborn /\ follows[p] = None
  BY DEF Init
<1>2. /\ Len(<<>>) = 0 /\ Unborn.reactions = <<>> /\ Unborn.state = "unborn"
  BY DEF Unborn
<1>3. OutcomeInv
  BY <1>1, <1>2 DEF OutcomeInv, FramesFit, Running
<1>4. RefsInv
  <2>1. InPlay(queue, cursor, cur) = {NoJob}
    <3>1. \A k : k \notin (cursor + 1)..Len(queue)
      BY <1>1, <1>2
    <3>2. QED
      BY <1>1, <3>1 DEF InPlay
  <2>2. \A r \in Promise : Waiting(prom, r) = {}
    BY <1>1, <1>2 DEF Waiting
  <2>3. JobRefs(NoJob, nc)
    BY <1>1, NoneFits
  <2>4. QED
    BY <1>1, <2>1, <2>2, <2>3 DEF RefsInv
<1>5. ResultInv /\ Agreement /\ FollowInv
  <2>1. \A p \in Promise : ~(p <= np)
    BY <1>1 DEF Promise
  <2>2. QED
    BY <1>1, <1>2, <2>1 DEF ResultInv, Agreement, FollowInv
<1>6. QED
  BY <1>3, <1>4, <1>5 DEF FollowerInv

LEMMA Following ==
    Spec => [](IInv /\ Scoped /\ CursorInv /\ SettlerInv /\ OutcomeInv /\ FollowerInv)
<1>1. Init => OutcomeInv /\ FollowerInv
  BY InitFollow
<1>2. IInv /\ Scoped /\ CursorInv /\ SettlerInv /\ SettlerInv'
        /\ OutcomeInv /\ FollowerInv /\ [Next]_vars => OutcomeInv' /\ FollowerInv'
  BY OutcomeStep, FollowStep
<1>3. QED
  BY <1>1, <1>2, Settling, PTL DEF Spec

(* A promise that adopted another, or was derived from it by a then        *)
(* without handlers, settles only after it and exactly as it did: no       *)
(* second call of a resolving function, no handler of somebody else's and  *)
(* no error left by another job gets in between                            *)
(* (promise_resolve_with_value, promise_microtask_after).                  *)
THEOREM FollowersEndAlike == Spec => []FollowersAgree
<1>1. ASSUME IInv, FollowerInv
      PROVE  FollowersAgree
  <2>1. Born \subseteq Promise
    BY <1>1, BoundsAssumption DEF Born, Promise, IInv, HeapInv, HeapType
  <2>2. QED
    BY <1>1, <2>1 DEF FollowersAgree, FollowerInv, Agreement, Ends, IsPending
<1>2. IInv /\ FollowerInv => FollowersAgree
  BY <1>1
<1>3. QED
  BY <1>2, Following, PTL

=============================================================================
