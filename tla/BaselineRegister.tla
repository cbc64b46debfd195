-------------------------- MODULE BaselineRegister --------------------------
(***************************************************************************)
(* What the store promises of a baseline, without its files: approvals are *)
(* numbered one after the other, each is of content that a run recorded,   *)
(* none is written over another, and one goes out of sight only when it is *)
(* kept elsewhere.                                                         *)
(***************************************************************************)
EXTENDS Naturals

CONSTANTS Chains, RunIds, Contents, None

VARIABLES recorded,  \* <<run, content>> of every run
          baseline,  \* baseline[c]: what verify reads, None when it reads nothing
          archived,  \* numbers of the approvals in the archive
          count      \* approvals so far

vars == <<recorded, baseline, archived, count>>

Init == /\ recorded = {} /\ archived = {} /\ count = 0
        /\ baseline = [c \in Chains |-> None]

Record(i, x) == /\ recorded' = recorded \cup {<<i, x>>}
                /\ UNCHANGED <<baseline, archived, count>>

\* An approval of a recorded run, where nothing is in place.
Confirm(c, e) ==
  /\ baseline[c] = None /\ count' = count + 1
  /\ baseline' = [baseline EXCEPT ![c] =
                    [run |-> e[1], content |-> e[2], digest |-> e[2], at |-> count]]
  /\ UNCHANGED <<recorded, archived>>

Archive(c) == /\ baseline[c] # None
              /\ archived' = archived \cup {baseline[c].at}
              /\ UNCHANGED <<recorded, baseline, count>>

\* The approval at c is also in the archive, or in place under another name.
Kept(c) == \/ baseline[c].at \in archived
           \/ \E d \in Chains \ {c} : baseline[d] # None /\ baseline[d].at = baseline[c].at

Withdraw(c) == /\ baseline[c] # None /\ Kept(c)
               /\ baseline' = [baseline EXCEPT ![c] = None]
               /\ UNCHANGED <<recorded, archived, count>>

\* A rename takes what was approved along, not what the file may say by then.
Carry(from, to) ==
  /\ baseline[from] # None /\ baseline[to] = None
  /\ baseline' = [baseline EXCEPT ![to] = [baseline[from] EXCEPT !.content = baseline[from].digest]]
  /\ UNCHANGED <<recorded, archived, count>>

\* A person changes what the file says; its digest stays.
Edit(c, x) == /\ baseline[c] # None
              /\ baseline' = [baseline EXCEPT ![c] = [baseline[c] EXCEPT !.content = x]]
              /\ UNCHANGED <<recorded, archived, count>>

Next == \/ \E i \in RunIds, x \in Contents : Record(i, x)
        \/ \E c \in Chains, e \in recorded : Confirm(c, e)
        \/ \E c \in Chains : Archive(c) \/ Withdraw(c)
        \/ \E from, to \in Chains : Carry(from, to)
        \/ \E c \in Chains, x \in Contents : Edit(c, x)

Spec == Init /\ [][Next]_vars
=============================================================================
