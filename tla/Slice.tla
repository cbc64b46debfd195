-------------------------------- MODULE Slice --------------------------------
(****************************************************************************)
(* `shrt chain slice`: the sub-chain that reproduces one step (Slice), and  *)
(* the chain that is left without some steps (Without). A chain is a        *)
(* sequence of steps; a reference is resolved to the step that produces it  *)
(* (producerOf), a contract names rpcs a call needs first (prereqs), and a  *)
(* write is kept when it changes what a kept step reads. Steps are numbers  *)
(* from 1 in the order of the chain. One action is one turn of a loop.      *)
(*                                                                          *)
(* The reason given for each kept step is left out: it is text. So is the   *)
(* text order of what is asked for and of the references of one step, hence *)
(* any order of them in the queue.                                          *)
(****************************************************************************)
EXTENDS Integers, Sequences, FiniteSets

CONSTANTS Requests,   \* what is asked of which chain (IsRequest)
          Tag,        \* the var `tag`, made anew for every run that sets none
          None

VARIABLES req,     \* the request
          pc,      \* where Slice or Without is
          kept,    \* Slice: the steps to keep; Without: the steps left so far
          queue,   \* kept steps not looked at yet
          at,      \* the step that is looked at
          nth,     \* which of its prerequisites is looked at next
          bound,   \* <<step, alias>>: the alias a step without one stands for
          unmet,   \* <<step, rpc>>: prerequisites no earlier step calls
          grew,    \* whether this turn of the outer loop kept anything
          gone,    \* Without: the steps left out so far
          res      \* the result, or None

vars == <<req, pc, kept, queue, at, nth, bound, unmet, grew, gone, res>>

-----------------------------------------------------------------------------
(* Chains, references and requests. *)

Last(S) == IF S = {} THEN 0 ELSE CHOOSE m \in S : \A k \in S : k <= m
Indices(c) == DOMAIN c.steps

\* A reference: ${steps.n...}, ${exports.n}, a bare ${n}, or ${vars.n}.
IsRef(r) == r.kind \in {"step", "export", "bare", "var"}
IsPrereq(p) == DOMAIN p = {"rpc", "via", "write", "value", "field", "alias", "for"}
IsStep(s) ==
  /\ DOMAIN s = {"id", "rpc", "write", "login", "listing", "refuses", "refs", "sends", "exports",
                 "fields", "whole", "mixes", "keys", "tags"}
  /\ {s.write, s.login, s.listing, s.refuses} \subseteq BOOLEAN
  /\ s.sends \subseteq s.refs
  /\ \A r \in s.refs : IsRef(r)
IsRequest(c) ==
  /\ c.steps = [i \in 1 .. Len(c.steps) |-> c.steps[i]]
  /\ Len(c.steps) \in Nat
  /\ \A i \in Indices(c) : IsStep(c.steps[i])
  /\ \A i, j \in Indices(c) : c.steps[i].id = c.steps[j].id => i = j
  /\ c.target \in Indices(c)
  /\ c.keep \cup c.pinned \cup c.checkpoints \cup c.drop \subseteq Indices(c)
  /\ \A i \in Indices(c) : LET ps == c.needs[c.steps[i].rpc]
                            IN /\ ps = [k \in 1 .. Len(ps) |-> ps[k]]
                               /\ Len(ps) \in Nat
  /\ c.refused \in [Indices(c) -> {"no", "refused", "unsent"}]

ASSUME RequestsAssumption == \A c \in Requests : IsRequest(c)

\* The step of K that a reference of step i reads: the last that exports the
\* name, or the one with that id; 0 when none before i does.
ProducerIn(c, K, r, i) ==
  LET before == {j \in K : j < i}
      exporter == Last({j \in before : r.name \in c.steps[j].exports})
      named == Last({j \in before : c.steps[j].id = r.name})
  IN CASE r.kind = "export" -> exporter
       [] r.kind = "step" -> named
       [] r.kind = "bare" -> IF exporter # 0 THEN exporter ELSE named
       [] OTHER -> 0
ProducerSlip(c, r, i) ==
  LET named == Last({j \in Indices(c) : j < i /\ c.steps[j].id = r.name})
      exporter == {j \in Indices(c) : j < i /\ r.name \in c.steps[j].exports}
  IN CASE r.kind = "export" -> IF exporter = {} THEN 0 ELSE CHOOSE m \in exporter : \A k \in exporter : m <= k
       [] r.kind \in {"step", "bare"} -> named
       [] OTHER -> 0
Producer(c, r, i) == ProducerIn(c, Indices(c), r, i)

ProducersOf(c, refs, i) == {Producer(c, r, i) : r \in refs} \ {0}
Producers(c, i) == ProducersOf(c, c.steps[i].refs, i)
EntitiesSent(c, i) == ProducersOf(c, c.steps[i].sends, i)

\* What step i is built from, directly or through other steps.
Reach(c) ==
  LET reach[i \in Indices(c)] == Producers(c, i) \cup UNION {reach[j] : j \in Producers(c, i)}
  IN reach
\* The entities a step acts on, named by the steps that created them: those it
\* sends, and those these were created from. A reader follows reads only.
ActsOn(c) ==
  LET acts[i \in Indices(c)] == EntitiesSent(c, i) \cup UNION {acts[j] : j \in EntitiesSent(c, i)}
  IN acts
ReadEntities(c) ==
  LET reads[i \in Indices(c)] ==
        EntitiesSent(c, i) \cup UNION {reads[j] : j \in {k \in EntitiesSent(c, i) : ~c.steps[k].write}}
  IN reads

Prereqs(c, i) == c.needs[c.steps[i].rpc]
CalledBy(p, rpc) == rpc = p.rpc \/ rpc \in p.via
ProducesNothing(c, i) == c.refused[i] # "no" \/ c.steps[i].refuses
NotSent(c, i) == c.refused[i] = "unsent"
CarriesAlias(c, i, a) == a \in c.steps[i].tags
Asked(c) ==
  c.keep \cup (IF c.keepWrites THEN {w \in 1 .. c.target - 1 : c.steps[w].write /\ ~c.steps[w].login} ELSE {})
Seeds(c) == {c.target} \cup Asked(c) \cup c.checkpoints

-----------------------------------------------------------------------------
(* What a kept step asks for, and which writes a set of kept steps asks for. *)

\* A field that a prerequisite would fill holds a value no step produces.
NeedsNoProducer(c, i, f) ==
  /\ f \in DOMAIN c.steps[i].fields
  /\ \A r \in c.steps[i].fields[f] : Producer(c, r, i) = 0
Skipped(c, i, p) ==
  \/ p.for # None /\ ~CarriesAlias(c, i, p.for)
  \/ p.value /\ NeedsNoProducer(c, i, p.field)

\* The earlier calls that could meet a prerequisite.
CallsOf(c, p, i) ==
  {j \in Indices(c) : j < i /\ CalledBy(p, c.steps[j].rpc) /\ ~ProducesNothing(c, j)}
Sharing(c, p, i) ==
  IF p.value \/ p.alias # None THEN {}
  ELSE {j \in CallsOf(c, p, i) : Producers(c, j) \cap Reach(c)[i] # {}}

Rank(c, p, i, j) ==
  (IF p.alias = None \/ CarriesAlias(c, j, p.alias) THEN 3 ELSE 1) + (IF j \in Producers(c, i) THEN 1 ELSE 0)
\* The call that suits best, the last of those; 0 when there is none.
LastCall(c, p, i) ==
  Last({j \in CallsOf(c, p, i) : \A k \in CallsOf(c, p, i) : Rank(c, p, i, k) <= Rank(c, p, i, j)})

\* What a prerequisite of step i asks for, and all of them together.
CallsFor(c, p, i) ==
  IF Skipped(c, i, p) THEN {}
  ELSE IF Sharing(c, p, i) # {} THEN Sharing(c, p, i)
  ELSE {LastCall(c, p, i)} \ {0}
Called(c, i) == UNION {CallsFor(c, Prereqs(c, i)[k], i) : k \in DOMAIN Prereqs(c, i)}

\* The writes before the target that a kept set may still ask for.
Candidates(c, K) ==
  {w \in 1 .. c.target - 1 : w \notin K /\ c.steps[w].write /\ ~NotSent(c, w) /\ ~c.steps[w].login}
RpcNeeds(c, rpc, need) ==
  \E k \in DOMAIN c.needs[rpc] : c.needs[rpc][k].rpc = need /\ ~c.needs[rpc][k].value

\* Writes that change the state a kept step's contract needs, on an entity that
\* the step and the kept call that sets the state share.
SideEffectWrites(c, K) ==
  {w \in Candidates(c, K) :
     \E i \in K : \E k \in DOMAIN Prereqs(c, i) :
       LET p == Prereqs(c, i)[k]
       IN /\ ~p.value /\ p.write
          /\ c.steps[w].rpc = p.rpc \/ RpcNeeds(c, c.steps[w].rpc, p.rpc)
          /\ \E j \in K : /\ j < i /\ c.steps[j].rpc = p.rpc
                          /\ Reach(c)[w] \cap Reach(c)[j] \cap Reach(c)[i] # {}}

\* A kept step reads state when it is the target, was asked for or is a read;
\* another kept write does when it asserts what w wrote.
Reads(c, w, r) ==
  /\ r = c.target \/ r \in Asked(c) \/ ~c.steps[r].write \/ <<w, r>> \in c.asserts
  /\ <<w, r>> \notin c.irrelevant
ListFilterShared(c, w, r) ==
  c.steps[r].listing /\ ~c.steps[r].refuses /\ c.steps[w].whole \cap c.steps[r].whole # {}
\* Writes that change the state of a kept entity that a later kept step reads,
\* or create what it lists.
StateWrites(c, K) ==
  {w \in Candidates(c, K) :
     \E r \in K : /\ w < r /\ Reads(c, w, r)
                  /\ \/ ActsOn(c)[w] \cap ReadEntities(c)[r] \cap K # {}
                     \/ ListFilterShared(c, w, r)}

\* Writes that send a unique value the target sends again.
SameValueWrites(c, K) ==
  {w \in Candidates(c, K) : ~ProducesNothing(c, w) /\ c.steps[w].keys \cap c.steps[c.target].keys # {}}

-----------------------------------------------------------------------------
(* Slice. *)

\* S in any order, and in the order of the chain.
Orders(S) == {q \in [1 .. Cardinality(S) -> S] : {q[k] : k \in DOMAIN q} = S}
InOrder(S) == {q \in Orders(S) : \A a, b \in DOMAIN q : a < b => q[a] < q[b]}

Init ==
  /\ req \in Requests
  /\ pc = IF req.drop = {} THEN "begin" ELSE "walk"
  /\ kept = {} /\ queue = <<>> /\ at = 0 /\ nth = 1
  /\ bound = {} /\ unmet = {} /\ grew = FALSE /\ gone = {}
  /\ res = None

\* A step after the target can be kept only to be pinned.
Unkeepable(c) == \E j \in c.keep : j > c.target /\ j \notin c.pinned

Refuse ==
  /\ pc = "begin" /\ Unkeepable(req)
  /\ pc' = "refused"
  /\ UNCHANGED <<req, kept, queue, at, nth, bound, unmet, grew, gone, res>>

Begin ==
  /\ pc = "begin" /\ ~Unkeepable(req)
  /\ kept' = Seeds(req)
  /\ \E q \in Orders(Seeds(req) \ {req.target}) : queue' = <<req.target>> \o q
  /\ pc' = "serve"
  /\ UNCHANGED <<req, at, nth, bound, unmet, grew, gone, res>>

\* The head of the queue: its producers are kept, its prerequisites come next.
ServeSlip ==
  /\ pc = "serve" /\ queue # <<>>
  /\ at' = Head(queue)
  /\ \E q \in Orders(Producers(req, Head(queue)) \ kept) : queue' = Tail(queue) \o q
  /\ nth' = 1
  /\ pc' = "prereqs"
  /\ UNCHANGED <<req, kept, bound, unmet, grew, gone, res>>
Serve ==
  /\ pc = "serve" /\ queue # <<>>
  /\ at' = Head(queue)
  /\ \E q \in Orders(Producers(req, Head(queue)) \ kept) : queue' = Tail(queue) \o q
  /\ kept' = kept \cup Producers(req, Head(queue))
  /\ nth' = 1
  /\ pc' = "prereqs"
  /\ UNCHANGED <<req, bound, unmet, grew, gone, res>>

\* The call for a prerequisite, or 0: a call without the alias can stand for
\* one alias only.
BoundCall(p) ==
  LET j == LastCall(req, p, at)
      taken == \E b \in bound : b[1] = j /\ b[2] # p.alias
  IN IF j # 0 /\ p.alias # None /\ ~CarriesAlias(req, j, p.alias) /\ taken THEN 0 ELSE j
Binds(p, j) == j # 0 /\ p.alias # None /\ ~CarriesAlias(req, j, p.alias)

Here == Prereqs(req, at)[nth]
PrereqSlip ==
  LET calls == CallsFor(req, Here, at) \cup ({BoundCall(Here)} \ {0})
  IN /\ pc = "prereqs" /\ nth <= Len(Prereqs(req, at))
     /\ kept' = kept \cup calls
     /\ \E q \in InOrder(calls \ kept) : queue' = queue \o q
     /\ nth' = nth + 1
     /\ UNCHANGED <<req, pc, at, bound, unmet, grew, gone, res>>
Prereq ==
  LET skipped == Skipped(req, at, Here)
      sharing == Sharing(req, Here, at)
      j == BoundCall(Here)
      calls == IF skipped THEN {} ELSE IF sharing # {} THEN sharing ELSE {j} \ {0}
  IN /\ pc = "prereqs" /\ nth <= Len(Prereqs(req, at))
     /\ kept' = kept \cup calls
     /\ \E q \in InOrder(calls \ kept) : queue' = queue \o q
     /\ bound' = IF ~skipped /\ sharing = {} /\ Binds(Here, j) THEN bound \cup {<<j, Here.alias>>} ELSE bound
     /\ unmet' = IF ~skipped /\ calls = {} THEN unmet \cup {<<at, Here.rpc>>} ELSE unmet
     /\ nth' = nth + 1
     /\ UNCHANGED <<req, pc, at, grew, gone, res>>

Served ==
  /\ pc = "prereqs" /\ nth > Len(Prereqs(req, at))
  /\ pc' = "serve"
  /\ UNCHANGED <<req, kept, queue, at, nth, bound, unmet, grew, gone, res>>

\* Once the queue is empty, three rules in turn, and again while one added.
Add(S, first, next) ==
  /\ kept' = kept \cup S
  /\ \E q \in InOrder(S) : queue' = queue \o q
  /\ grew' = (S # {} \/ (grew /\ ~first))
  /\ pc' = next
  /\ UNCHANGED <<req, at, nth, bound, unmet, gone, res>>

AddSideEffects == pc = "serve" /\ queue = <<>> /\ Add(SideEffectWrites(req, kept), TRUE, "state")
AddStateWrites == pc = "state" /\ Add(StateWrites(req, kept), FALSE, "same")
AddSameValues == pc = "same" /\ Add(SameValueWrites(req, kept), FALSE, "again")

AgainSlip ==
  /\ pc = "again"
  /\ pc' = "build"
  /\ UNCHANGED <<req, kept, queue, at, nth, bound, unmet, grew, gone, res>>
Again ==
  /\ pc = "again"
  /\ pc' = IF grew THEN "serve" ELSE "build"
  /\ UNCHANGED <<req, kept, queue, at, nth, bound, unmet, grew, gone, res>>

-----------------------------------------------------------------------------
(* The chain a slice becomes. *)

Used(c, K) == {r.name : r \in {r \in UNION {c.steps[i].refs : i \in K} : r.kind = "var"}}
\* Vars that a kept write, other than a login, builds a string with.
Fresh(c, K) == UNION {c.steps[i].mixes : i \in {k \in K : c.steps[k].write /\ ~c.steps[k].login}}
Declared(c) == DOMAIN c.declared

\* The value the slice declares for a used var: one that a write creates with
\* is never taken from the run.
Settled(c, K) == {n \in Used(c, K) : n \in Declared(c) \/ n \in DOMAIN c.flags}
ValueSlip(c, K, n) ==
  IF n \notin Declared(c) THEN c.flags[n]
  ELSE IF c.verify /\ n \in DOMAIN c.ran THEN c.ran[n]
  ELSE c.declared[n]
Value(c, K, n) ==
  IF n \notin Declared(c) THEN c.flags[n]
  ELSE IF n \in Fresh(c, K) THEN IF n \in DOMAIN c.flags THEN c.flags[n] ELSE c.declared[n]
  ELSE IF c.verify /\ n \in DOMAIN c.ran THEN c.ran[n]
  ELSE c.declared[n]
Missing(c, K) == Used(c, K) \ (Settled(c, K) \cup {Tag})
\* What -verify asks a new value for: not the tag when shrt makes it.
FreshVars(c, K) ==
  IF Tag \notin Declared(c) /\ Tag \notin DOMAIN c.flags THEN Fresh(c, K) \ {Tag} ELSE Fresh(c, K)

LeftWrites(c, K) == {w \in 1 .. c.target - 1 : w \notin K /\ c.steps[w].write /\ ~c.steps[w].login}

\* A slice takes along the pins of the steps it keeps.
Sliced(c, K) ==
  [steps |-> K,
   dropped |-> {w \in LeftWrites(c, K) : c.refused[w] = "no"},
   refused |-> {w \in LeftWrites(c, K) : c.refused[w] # "no"},
   pins |-> {p \in c.pins : p[1] \in K},
   vars |-> [n \in Settled(c, K) |-> Value(c, K, n)],
   missing |-> Missing(c, K),
   fresh |-> FreshVars(c, K)]

Build ==
  /\ pc = "build"
  /\ res' = Sliced(req, kept)
  /\ pc' = "done"
  /\ UNCHANGED <<req, kept, queue, at, nth, bound, unmet, grew, gone>>

-----------------------------------------------------------------------------
(* Without: the steps named, and those that read a step left out. *)

ReadsGone(i) == \E r \in req.steps[i].refs : Producer(req, r, i) \in gone

Walk ==
  /\ pc = "walk" /\ at < Len(req.steps)
  /\ at' = at + 1
  /\ IF at + 1 \in req.drop \/ ReadsGone(at + 1)
     THEN gone' = gone \cup {at + 1} /\ UNCHANGED kept
     ELSE kept' = kept \cup {at + 1} /\ UNCHANGED gone
  /\ UNCHANGED <<req, pc, queue, nth, bound, unmet, grew, res>>

\* The chain without them keeps the vars and the pins of what is left.
Left(c, K) == [steps |-> K, pins |-> {p \in c.pins : p[1] \in K}]

Leave ==
  /\ pc = "walk" /\ at = Len(req.steps)
  /\ IF kept = {} THEN pc' = "refused" /\ UNCHANGED res
     ELSE pc' = "done" /\ res' = Left(req, kept)
  /\ UNCHANGED <<req, kept, queue, at, nth, bound, unmet, grew, gone>>

-----------------------------------------------------------------------------

Next ==
  \/ Refuse \/ Begin \/ Serve \/ Prereq \/ Served
  \/ AddSideEffects \/ AddStateWrites \/ AddSameValues \/ Again \/ Build
  \/ Walk \/ Leave
Spec == Init /\ [][Next]_vars

-----------------------------------------------------------------------------
(* Properties. *)

Done == pc = "done"
Slicing == req.drop = {}
PCs == {"begin", "serve", "prereqs", "state", "same", "again", "build", "walk", "done", "refused"}

\* The state of Slice and Without: the queue holds kept steps, no step is both
\* kept and left out, and a result names the kept steps.
TypeOK ==
  /\ req \in Requests /\ pc \in PCs
  /\ kept \subseteq Indices(req) /\ gone \subseteq Indices(req) /\ kept \cap gone = {}
  /\ queue \in Seq(kept)
  /\ at \in 0 .. Len(req.steps) /\ nth \in Nat \ {0}
  /\ \A b \in bound : b[1] \in kept
  /\ \A u \in unmet : u[1] \in kept
  /\ grew \in BOOLEAN
  /\ IF Done THEN res.steps = kept ELSE res = None

\* A step that is kept reads in the shorter chain what it reads in the whole
\* one: each reference still names the same step, although an export name may
\* be exported by several steps and a bare name may be an export or a step id.
ReadsSame ==
  Done => \A i \in res.steps : \A r \in req.steps[i].refs :
            ProducerIn(req, res.steps, r, i) = Producer(req, r, i)

\* A slice is complete when the loop ends: for each kept step it holds the
\* producers and the calls its contract needs, or names the call as unmet, and
\* no rule has a write to add, whatever the last turn of the loop kept.
Complete ==
  Done /\ Slicing =>
    /\ \A i \in kept : Producers(req, i) \subseteq kept
    /\ \A i \in kept : \A k \in DOMAIN Prereqs(req, i) :
         CallsFor(req, Prereqs(req, i)[k], i) \subseteq kept \/ <<i, Prereqs(req, i)[k].rpc>> \in unmet
    /\ SideEffectWrites(req, kept) = {} /\ StateWrites(req, kept) = {} /\ SameValueWrites(req, kept) = {}

\* A slice is no larger than it must be: every set of steps that holds what was
\* asked for and is closed under the rules contains it, in whatever order the
\* queue was worked off.
Closed(c, C) ==
  /\ \A i \in C : Producers(c, i) \cup Called(c, i) \subseteq C
  /\ SideEffectWrites(c, C) = {} /\ StateWrites(c, C) = {} /\ SameValueWrites(c, C) = {}
Least ==
  Done /\ Slicing =>
    \A C \in SUBSET Indices(req) : Seeds(req) \subseteq C /\ Closed(req, C) => kept \subseteq C

\* A slice that -verify runs sends what the source run sent, and creates nothing
\* twice: a var it uses has the value of the run unless a flag sets it or it is
\* reported as missing, but one that a kept write creates with has not.
InputsOfRun ==
  Done /\ Slicing /\ req.verify =>
    \A n \in (Used(req, kept) \cap DOMAIN req.ran) \ (res.missing \cup {Tag}) :
      IF n \in res.fresh THEN n \in DOMAIN res.vars => res.vars[n] # req.ran[n]
      ELSE n \notin DOMAIN req.flags => res.vars[n] = req.ran[n]
=============================================================================
