---------------------------- MODULE PropertyMap ----------------------------
(***************************************************************************)
(* What hobject.c3 promises of the named properties of ordinary objects:   *)
(* each object has its own ordered list of properties; one is added at the *)
(* end, given another value or other attributes in place, or deleted, and  *)
(* a read returns what the nearest object of the prototype chain has.      *)
(* Shapes, transitions, slot recycling and caches do not appear here.      *)
(***************************************************************************)
EXTENDS Integers, Sequences, SequencesExt

CONSTANTS
    Objects, Keys, Values, Flags,
    Prototype,  \* Prototype[o]: an object, or None
    None

VARIABLES
    props,      \* props[o]: the properties of o, in order of creation
    got         \* the result of the last read, None for undefined

vars == <<props, got>>
Property == [key : Keys, value : Values, flags : Flags]

Init == props = [o \in Objects |-> <<>>] /\ got = None

(* How the list of one object may change.                                  *)
Position(list, k) == SelectInSeq(list, LAMBDA p : p.key = k)
Adds(was, now) ==
    /\ Len(now) = Len(was) + 1 /\ Front(now) = was
    /\ Last(now) \in Property /\ Position(was, Last(now).key) = 0
Writes(was, now) ==
    /\ Len(now) = Len(was)
    /\ \E i \in DOMAIN was : /\ now[i] \in Property /\ now[i].key = was[i].key
                            /\ now = [was EXCEPT ![i] = now[i]]
Deletes(was, now) ==
    /\ Len(now) = Len(was) - 1
    /\ \E i \in DOMAIN was : now = RemoveAt(was, i)

Change(o) ==
    /\ UNCHANGED got
    /\ \A other \in Objects \ {o} : props'[other] = props[other]
    /\ LET was == props[o]
           now == props'[o]
       IN  Adds(was, now) \/ Writes(was, now) \/ Deletes(was, now)

(* What a read of k finds on one object, or on its prototype.              *)
Found(list, k) == IF Position(list, k) = 0 THEN None ELSE list[Position(list, k)].value
Get(o, k) ==
    /\ got' = IF Position(props[o], k) = 0 /\ Prototype[o] # None
              THEN Found(props[Prototype[o]], k) ELSE Found(props[o], k)
    /\ UNCHANGED props

Next == \E o \in Objects : (\E k \in Keys : Get(o, k)) \/ Change(o)

Spec == Init /\ [][Next]_vars
=============================================================================
