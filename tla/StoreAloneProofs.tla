-------------------------- MODULE StoreAloneProofs --------------------------
(***************************************************************************)
(* What the store promises when its commands run one after the other: for  *)
(* any chains, runs, approvals, edits by hand, and a process killed any    *)
(* number of times between any two of its file operations.  With a second  *)
(* process each of these is false: no file is locked between the step that *)
(* reads it for a decision and the step that writes.                       *)
(***************************************************************************)
EXTENDS SafeSpotStoreProofs

\* There is at most one process; a killed one is followed by the next.
Alone == \A p, q \in Procs : p = q

(***************************************************************************)
(* The inductive invariant                                                 *)
(***************************************************************************)
\* What is in place at c is of run r, or nothing is when r is None.
InPlace(c, r) == IF r = None THEN spots[c] = None ELSE Readable(spots[c]) /\ spots[c].run = r

Renaming == {"r_kept", "r_load", "r_open", "r_fill", "r_remove"}

\* What the files hold of what a command remembers: nobody else wrote them.
Remembers(p) ==
  /\ pc[p] = "idle" => prop[p] = None
  /\ pc[p] \in {"p_report", "p_open", "p_fill"} => InPlace(arg[p], prop[p].replaces)
  /\ pc[p] \in {"p_open", "p_fill"} => report[arg[p]] = prop[p].run
  /\ pc[p] = "p_fill" => pending[arg[p]] = Torn
  /\ pc[p] \in {"a_seal", "a_spot", "a_open", "a_fill"} =>
       prop[p] = pending[arg[p]] /\ Readable(prop[p]) /\ rec[p].id = prop[p].run
  /\ pc[p] = "drop" =>
       prop[p] = None \/ (prop[p] = pending[arg[p]] /\ Readable(spots[arg[p]]) /\ spots[arg[p]].run = prop[p].run)
  /\ pc[p] = "dropmd" => pending[arg[p]] = None
  /\ pc[p] \in Renaming => arg[p] # dest[p] /\ pending[arg[p]] = None /\ pending[dest[p]] = None

\* What is about to be written over is in the archive, and what is about to be
\* removed is in place under its other name.
Keeps(p) ==
  /\ pc[p] = "a_open" /\ Readable(spots[arg[p]]) => \E s \in archive[arg[p]] : s.at = spots[arg[p]].at
  /\ pc[p] = "a_fill" => spots[arg[p]] = Torn
  /\ pc[p] = "r_open" => spots[dest[p]] = None
  /\ pc[p] = "r_fill" => spots[dest[p]] = Torn
  /\ pc[p] \in {"r_open", "r_fill"} /\ Readable(spots[arg[p]]) => spots[arg[p]].at = prev[p].at
  /\ pc[p] = "r_remove" /\ Readable(spots[arg[p]]) =>
       Readable(spots[dest[p]]) /\ spots[dest[p]].at = spots[arg[p]].at

\* A pending proposal names what is in place, unless that is torn, or is already
\* what it proposes; and its report is beside it.
Named(p, c) ==
  \/ InPlace(c, pending[c].replaces)
  \/ spots[c] = Torn
  \/ /\ Readable(spots[c]) /\ spots[c].run = pending[c].run
     /\ crashes > 0 \/ (pc[p] = "drop" /\ arg[p] = c)
Reported(p, c) == crashes > 0 \/ (pc[p] = "p_open" /\ arg[p] = c) \/ report[c] = pending[c].run
Proposed(p) == \A c \in Chains : Readable(pending[c]) => Named(p, c) /\ Reported(p, c)

\* An approval is in place, or in an archive.
Stored(n) ==
  \E c \in Chains : (Readable(spots[c]) /\ spots[c].at = n) \/ (\E s \in archive[c] : s.at = n)

Orderly == NothingLost /\ \A p \in Procs : Remembers(p) /\ Keeps(p) /\ Proposed(p)
\* With no process at work and no file there is nothing to keep.
LEMMA InitOrderly == Init => Orderly
  BY Sentinels DEF Init, Orderly, NothingLost, Remembers, Keeps, Proposed, Readable, Renaming

(***************************************************************************)
(* No approval is lost                                                     *)
(***************************************************************************)
\* An approval that is stored stays so when every file keeps its own.
LEMMA StoredStays ==
  ASSUME \A n : Stored(n) => Stored(n)', approvals' = approvals, NothingLost
  PROVE  NothingLost'
  BY DEF NothingLost, Stored

\* What a step that writes no safe spot keeps in the archive stays there.
LEMMA StoredSame ==
  ASSUME UNCHANGED spots, \A c \in Chains : archive[c] \subseteq archive'[c], UNCHANGED approvals, NothingLost
  PROVE  NothingLost'
<1>1. \A n : Stored(n) => Stored(n)'
  BY DEF Stored, Readable
<1> QED BY <1>1, StoredStays

\* The safe spot of a command at the end of Promote has its shape.
LEMMA NewSpotType ==
  ASSUME Shape, NEW p \in Procs, pc[p] = "a_fill", prev[p] \in Spots \cup {None}
  PROVE  NewSpot(p) \in Spots
  BY Sentinels DEF Shape, TypeOK, MemoryOK, NewSpot, Spots, Records, Bodies

\* A process alone loses no approval: what it writes over is archived, what it
\* removes is in place elsewhere.
LEMMA NothingLostStep ==
  ASSUME IInv, Orderly, NEW p \in Procs, Step(p)
  PROVE  NothingLost'
<1> USE DEF At, Goto
<1>a. /\ spots \in [Chains -> FileOf(Spots)] /\ archive \in [Chains -> SUBSET Spots]
      /\ arg[p] \in Chains /\ dest[p] \in Chains
  BY DEF IInv, Shape, TypeOK
<1>b. Keeps(p) /\ Remembers(p) /\ NothingLost
  BY DEF Orderly
<1>1. CASE PromoteArchive(p)
  BY <1>1, <1>a, <1>b, StoredSame DEF PromoteArchive, ghosts
<1>2. CASE PromoteOpen(p)
  <2>1. /\ pc[p] = "a_open" /\ spots' = [spots EXCEPT ![arg[p]] = Torn] /\ UNCHANGED <<archive, approvals>>
    BY <1>2 DEF PromoteOpen, ghosts
  <2>2. ASSUME NEW n, Stored(n) PROVE Stored(n)'
    BY <2>1, <2>2, <1>a, <1>b, Sentinels DEF Stored, Readable, Keeps
  <2> QED BY <2>1, <2>2, <1>b, StoredStays
<1>3. CASE PromoteFill(p)
  <2>1. spots[arg[p]] = Torn
    BY <1>3, <1>b DEF PromoteFill, Keeps
  <2>2. /\ spots' = [spots EXCEPT ![arg[p]] = NewSpot(p)] /\ UNCHANGED archive
        /\ approvals' = approvals \cup {NewSpot(p)}
    BY <1>3, <2>1, Sentinels DEF PromoteFill, Filled
  <2>3. NewSpot(p) \in Spots
    <3>1. pc[p] = "a_fill" /\ prev[p] \in Spots \cup {None}
      BY <1>3 DEF PromoteFill, IInv, Shape, TypeOK
    <3> QED BY <3>1, NewSpotType DEF IInv
  <2>4. ASSUME NEW n, Stored(n) PROVE Stored(n)'
    BY <2>1, <2>2, <2>3, <2>4, <1>a DEF Stored, Readable
  <2>5. \A n : n = NewSpot(p).at => Stored(n)'
    <3>1. spots'[arg[p]] = NewSpot(p) /\ Readable(NewSpot(p))
      BY <2>2, <2>3, <1>a, Sentinels DEF Readable
    <3> QED BY <3>1, <1>a DEF Stored, Readable
  <2>6. \A a \in approvals' : Stored(a.at)'
    BY <2>2, <2>4, <2>5, <1>b DEF NothingLost, Stored
  <2> QED BY <2>6 DEF NothingLost, Stored
<1>4. CASE RenameOpen(p)
  <2>1. /\ spots[dest[p]] = None /\ spots' = [spots EXCEPT ![dest[p]] = Torn] /\ UNCHANGED <<archive, approvals>>
    BY <1>4, <1>b DEF RenameOpen, ghosts, Keeps
  <2>2. ASSUME NEW n, Stored(n) PROVE Stored(n)'
    BY <2>1, <2>2, <1>a DEF Stored, Readable
  <2> QED BY <2>1, <2>2, <1>b, StoredStays
<1>5. CASE RenameFill(p)
  <2> DEFINE s == [prev[p] EXCEPT !.chain = dest[p]]
  <2>1. /\ spots[dest[p]] = Torn /\ spots' = [spots EXCEPT ![dest[p]] = s] /\ UNCHANGED <<archive, approvals>>
    BY <1>5, <1>b, Sentinels DEF RenameFill, ghosts, Keeps, Filled
  <2> HIDE DEF s
  <2>2. ASSUME NEW n, Stored(n) PROVE Stored(n)'
    BY <2>1, <2>2, <1>a DEF Stored, Readable
  <2> QED BY <2>1, <2>2, <1>b, StoredStays
<1>6. CASE RenameRemove(p)
  <2>1. /\ pc[p] = "r_remove" /\ arg[p] # dest[p]
        /\ spots' = [spots EXCEPT ![arg[p]] = None] /\ UNCHANGED <<archive, approvals>>
    BY <1>6, <1>b DEF RenameRemove, ghosts, Remembers, Renaming
  <2>2. ASSUME NEW n, Stored(n) PROVE Stored(n)'
    BY <2>1, <2>2, <1>a, <1>b DEF Stored, Readable, Keeps
  <2> QED BY <2>1, <2>2, <1>b, StoredStays
<1>7. ASSUME ~PromoteArchive(p), ~PromoteOpen(p), ~PromoteFill(p), ~RenameOpen(p), ~RenameFill(p), ~RenameRemove(p)
      PROVE  NothingLost'
  <2>1. UNCHANGED <<spots, archive, approvals>>
    BY <1>7 DEF disk, ghosts, Step, ProposeLoad, ProposeSeal, ProposeSpot, ProposeReport, ProposeOpen, ProposeFill,
       ApproveStart, ApproveProposal, ApproveMatch, Reject, ApproveLoad, ApproveSeal, DropProposal, DropReport, RenameCheck, RenameKept, RenameLoad, Crash
  <2> QED BY <2>1, <1>b, StoredSame
<1> QED BY <1>1, <1>2, <1>3, <1>4, <1>5, <1>6, <1>7
(***************************************************************************)
(* What a process alone remembers stays true of the files                  *)
(***************************************************************************)
\* A step that changes no file: what the process remembers is what it just read,
\* or it ends.
LEMMA RemembersStep ==
  ASSUME IInv, Orderly, NEW p \in Procs, Step(p)
  PROVE  Remembers(p)'
<1> USE DEF At, Goto, Keep, End, Renaming, disk, ghosts
<1>a. /\ pc \in [Procs -> Labels] /\ arg \in [Procs -> Chains] /\ dest \in [Procs -> Chains]
      /\ rec \in [Procs -> Records \cup {None}] /\ prop \in [Procs -> Proposals \cup {None}]
      /\ super \in [Procs -> BOOLEAN] /\ prev \in [Procs -> Spots \cup {None}]
      /\ spots \in [Chains -> FileOf(Spots)] /\ pending \in [Chains -> FileOf(Proposals)]
      /\ report \in [Chains -> RunIds \cup {None}]
      /\ arg[p] \in Chains /\ dest[p] \in Chains
  BY DEF IInv, Shape, TypeOK
<1>b. Remembers(p) /\ Keeps(p)
  BY DEF Orderly
<1>1. ASSUME pc'[p] \in {"p_seal", "p_spot", "a_prop", "a_chain", "a_load"} PROVE Remembers(p)'
  BY <1>1 DEF Remembers
<1>2. ASSUME pc'[p] = "idle", prop'[p] = None PROVE Remembers(p)'
  BY <1>2 DEF Remembers
<1>e. ASSUME End(p) PROVE Remembers(p)'
  <2>1. pc'[p] = "idle" /\ prop'[p] = None
    BY <1>e, <1>a
  <2> QED BY <2>1, <1>2
<1>3. ASSUME NEW c \in Chains, NEW i \in RunIds, NEW s \in BOOLEAN, ProposeLoad(p, c, i, s) PROVE Remembers(p)'
  <2>1. pc'[p] = "p_seal" BY <1>3, <1>a DEF ProposeLoad
  <2> QED BY <2>1, <1>1
<1>4. CASE ProposeSeal(p)
  <2>1. pc'[p] = "p_spot" \/ End(p) BY <1>4, <1>a DEF ProposeSeal
  <2> QED BY <2>1, <1>1, <1>e
<1>5. CASE ProposeSpot(p)
  <2> DEFINE old == spots[arg[p]]
             q == [chain |-> arg[p], run |-> rec[p].id, digest |-> rec[p].body.content,
                   supersede |-> super[p], replaces |-> IF old = None THEN None ELSE old.run]
  <2>1. CASE old = Torn \/ (old # None /\ ~super[p])
    <3>1. End(p) BY <1>5, <2>1 DEF ProposeSpot
    <3> QED BY <3>1, <1>e
  <2>2. CASE ~(old = Torn \/ (old # None /\ ~super[p]))
    <3>1. prop' = [prop EXCEPT ![p] = q] /\ pc' = [pc EXCEPT ![p] = "p_report"] /\ UNCHANGED <<arg, spots>>
      BY <1>5, <2>2 DEF ProposeSpot
    <3>2. q.replaces = IF old = None THEN None ELSE old.run
      OBVIOUS
    <3> HIDE DEF q
    <3>3. /\ pc'[p] = "p_report" /\ prop'[p].replaces = IF old = None THEN None ELSE old.run
          /\ arg'[p] = arg[p] /\ spots'[arg[p]] = old
      BY <3>1, <3>2, <1>a
    <3>4. old = None \/ old \in Spots
      BY <2>2, <1>a DEF FileOf
    <3>5. old \in Spots => old.run # None
      BY Sentinels DEF Spots
    <3>6. InPlace(arg[p], prop[p].replaces)'
      BY <3>3, <3>4, <3>5, Sentinels DEF InPlace, Readable
    <3> QED BY <3>3, <3>6 DEF Remembers
  <2> QED BY <2>1, <2>2
<1>6. CASE ProposeReport(p)
  <2>1. /\ pc[p] = "p_report" /\ pc'[p] = "p_open" /\ report'[arg[p]] = prop[p].run
        /\ UNCHANGED <<arg, prop, spots>>
    BY <1>6, <1>a DEF ProposeReport
  <2> QED BY <2>1, <1>b DEF Remembers, InPlace, Readable
<1>7. CASE ProposeOpen(p)
  <2>1. /\ pc[p] = "p_open" /\ pc'[p] = "p_fill" /\ pending'[arg[p]] = Torn
        /\ UNCHANGED <<arg, prop, spots, report>>
    BY <1>7, <1>a DEF ProposeOpen
  <2> QED BY <2>1, <1>b DEF Remembers, InPlace, Readable
<1>8. CASE ProposeFill(p)
  BY <1>8, <1>e DEF ProposeFill
<1>9. ASSUME NEW c \in Chains, ApproveStart(p, c) PROVE Remembers(p)'
  <2>1. pc'[p] = "a_prop" BY <1>9, <1>a DEF ApproveStart
  <2> QED BY <2>1, <1>1
<1>24. CASE ApproveProposal(p)
  <2>1. CASE Readable(pending[arg[p]])
    <3>1. pc'[p] \in {"a_chain", "a_load"} BY <1>24, <2>1, <1>a DEF ApproveProposal
    <3> QED BY <3>1, <1>1
  <2>2. CASE ~Readable(pending[arg[p]])
    <3>1. End(p) BY <1>24, <2>2 DEF ApproveProposal
    <3> QED BY <3>1, <1>e
  <2> QED BY <2>1, <2>2
<1>25. CASE ApproveMatch(p)
  <2>1. pc'[p] = "a_load" \/ End(p) BY <1>25, <1>a DEF ApproveMatch
  <2> QED BY <2>1, <1>1, <1>e
<1>10. ASSUME NEW c \in Chains, Reject(p, c) PROVE Remembers(p)'
  <2>1. pc[p] = "idle" /\ pc'[p] = "drop" /\ prop' = prop BY <1>10, <1>a DEF Reject
  <2> QED BY <2>1, <1>b DEF Remembers
<1>11. CASE ApproveLoad(p)
  <2> DEFINE q == pending[arg[p]]
             ok == Readable(q) /\ Loadable(q.chain, q.run)
                    /\ runs[q.chain][q.run].body.content = q.digest
  <2>1. CASE ok
    <3>1. /\ rec' = [rec EXCEPT ![p] = runs[q.chain][q.run]]
          /\ prop' = [prop EXCEPT ![p] = q] /\ pc' = [pc EXCEPT ![p] = "a_seal"]
          /\ UNCHANGED <<arg, pending>>
      BY <1>11, <2>1 DEF ApproveLoad
    <3>2. q \in Proposals
      BY <2>1, <1>a DEF FileOf, Readable
    <3>3. runs[q.chain][q.run].id = q.run
      <4>1. q.chain \in Chains /\ q.run \in RunIds BY <3>2 DEF Proposals
      <4>2. runs[q.chain][q.run] # None BY <2>1 DEF Loadable, Readable
      <4>3. RunsSealed BY DEF IInv, Safe
      <4> HIDE DEF q
      <4> QED BY <4>1, <4>2, <4>3 DEF RunsSealed
    <3>4. /\ pc'[p] = "a_seal" /\ prop'[p] = pending'[arg'[p]] /\ Readable(prop'[p]) /\ rec'[p].id = prop'[p].run
      BY <2>1, <3>1, <3>3, <1>a
    <3> QED BY <3>4 DEF Remembers, Readable
  <2>2. CASE ~ok
    <3>1. End(p) BY <1>11, <2>2 DEF ApproveLoad
    <3> QED BY <3>1, <1>e
  <2> QED BY <2>1, <2>2
<1>12. CASE ApproveSeal(p)
  <2>1. CASE Sealed(rec[p]) /\ rec[p].body.passed
    <3>1. pc[p] = "a_seal" /\ pc'[p] = "a_spot" /\ UNCHANGED <<arg, prop, rec, pending>>
      BY <1>12, <2>1, <1>a DEF ApproveSeal
    <3> QED BY <3>1, <1>b DEF Remembers, Readable
  <2>2. CASE ~(Sealed(rec[p]) /\ rec[p].body.passed)
    <3>1. End(p) BY <1>12, <2>2 DEF ApproveSeal
    <3> QED BY <3>1, <1>e
  <2> QED BY <2>1, <2>2
<1>13. CASE PromoteArchive(p)
  <2> DEFINE refused == spots[arg[p]] = Torn \/ (spots[arg[p]] # None /\ ~prop[p].supersede)
  <2>1. CASE refused
    <3>1. End(p) BY <1>13, <2>1 DEF PromoteArchive
    <3> QED BY <3>1, <1>e
  <2>2. CASE ~refused
    <3>1. pc[p] = "a_spot" /\ pc'[p] = "a_open" /\ UNCHANGED <<arg, prop, rec, pending>>
      BY <1>13, <2>2, <1>a DEF PromoteArchive
    <3> QED BY <3>1, <1>b DEF Remembers, Readable
  <2> QED BY <2>1, <2>2
<1>14. CASE PromoteOpen(p)
  <2>1. pc[p] = "a_open" /\ pc'[p] = "a_fill" /\ UNCHANGED <<arg, prop, rec, pending>>
    BY <1>14, <1>a DEF PromoteOpen
  <2> QED BY <2>1, <1>b DEF Remembers, Readable
<1>15. CASE PromoteFill(p)
  <2>1. pc[p] = "a_fill" /\ spots[arg[p]] = Torn
    BY <1>15, <1>b DEF PromoteFill, Keeps
  <2>2. /\ spots' = [spots EXCEPT ![arg[p]] = NewSpot(p)]
        /\ pc'[p] = "drop" /\ UNCHANGED <<arg, prop, rec, pending>>
    BY <1>15, <2>1, <1>a, Sentinels DEF PromoteFill, Filled
  <2>3. NewSpot(p) \in Spots /\ NewSpot(p).run = rec[p].id
    BY <2>1, <1>a, NewSpotType DEF IInv, NewSpot
  <2>4. Readable(spots'[arg[p]]) /\ spots'[arg[p]].run = prop[p].run
    BY <2>1, <2>2, <2>3, <1>a, <1>b, Sentinels DEF Readable, Remembers
  <2> QED BY <2>1, <2>2, <2>4, <1>b DEF Remembers, Readable
<1>16. CASE DropProposal(p)
  <2>1. pc'[p] = "dropmd" /\ pending'[arg[p]] = None /\ arg' = arg
    BY <1>16, <1>a DEF DropProposal
  <2> QED BY <2>1 DEF Remembers
<1>17. CASE DropReport(p)
  BY <1>17, <1>e DEF DropReport
<1>18. ASSUME NEW from \in Chains, NEW to \in Chains, RenameCheck(p, from, to) PROVE Remembers(p)'
  <2>1. /\ pc'[p] = "r_kept" /\ arg'[p] = from /\ dest'[p] = to /\ from # to
        /\ pending'[from] = None /\ pending'[to] = None
    BY <1>18, <1>a DEF RenameCheck
  <2> QED BY <2>1 DEF Remembers
<1>26. CASE RenameKept(p)
  <2>1. CASE NotKeptRed(dest[p])
    <3>1. pc[p] = "r_kept" /\ pc'[p] = "r_load" /\ UNCHANGED <<arg, dest, pending>>
      BY <1>26, <2>1, <1>a DEF RenameKept
    <3> QED BY <3>1, <1>b DEF Remembers
  <2>2. CASE ~NotKeptRed(dest[p])
    <3>1. End(p) BY <1>26, <2>2 DEF RenameKept
    <3> QED BY <3>1, <1>e
  <2> QED BY <2>1, <2>2
<1>19. CASE RenameLoad(p)
  <2> DEFINE ok == Readable(spots[arg[p]]) /\ DigestCurrent(spots[arg[p]]) /\ spots[dest[p]] = None
  <2>1. CASE ok
    <3>1. pc[p] = "r_load" /\ pc'[p] = "r_open" /\ UNCHANGED <<arg, dest, pending>>
      BY <1>19, <2>1, <1>a DEF RenameLoad
    <3> QED BY <3>1, <1>b DEF Remembers
  <2>2. CASE ~ok
    <3>1. End(p) BY <1>19, <2>2 DEF RenameLoad
    <3> QED BY <3>1, <1>e
  <2> QED BY <2>1, <2>2
<1>20. CASE RenameOpen(p)
  <2>1. pc[p] = "r_open" /\ pc'[p] = "r_fill" /\ UNCHANGED <<arg, dest, pending>>
    BY <1>20, <1>a DEF RenameOpen
  <2> QED BY <2>1, <1>b DEF Remembers
<1>21. CASE RenameFill(p)
  <2>1. pc[p] = "r_fill" /\ pc'[p] = "r_remove" /\ UNCHANGED <<arg, dest, pending>>
    BY <1>21, <1>a DEF RenameFill
  <2> QED BY <2>1, <1>b DEF Remembers
<1>22. CASE RenameRemove(p)
  BY <1>22, <1>e DEF RenameRemove
<1>23. CASE Crash(p)
  BY <1>23, <1>e DEF Crash
<1> QED BY <1>3, <1>4, <1>5, <1>6, <1>7, <1>8, <1>9, <1>10, <1>11, <1>12, <1>13, <1>14, <1>15,
           <1>16, <1>17, <1>18, <1>19, <1>20, <1>21, <1>22, <1>23, <1>24, <1>25, <1>26 DEF Step

\* What is written over is in the archive first, and a rename writes before it
\* removes.
LEMMA KeepsStep ==
  ASSUME IInv, Orderly, NEW p \in Procs, Step(p)
  PROVE  Keeps(p)'
<1> USE DEF At, Goto, Keep, End, disk, ghosts
<1>a. /\ pc \in [Procs -> Labels] /\ arg \in [Procs -> Chains] /\ dest \in [Procs -> Chains]
      /\ prev \in [Procs -> Spots \cup {None}] /\ archive \in [Chains -> SUBSET Spots]
      /\ spots \in [Chains -> FileOf(Spots)] /\ arg[p] \in Chains /\ dest[p] \in Chains
  BY DEF IInv, Shape, TypeOK
<1>b. Remembers(p) /\ Keeps(p)
  BY DEF Orderly
<1>1. ASSUME pc'[p] \notin {"a_open", "a_fill", "r_open", "r_fill", "r_remove"} PROVE Keeps(p)'
  BY <1>1 DEF Keeps
<1>e. ASSUME End(p) PROVE Keeps(p)'
  <2>1. pc'[p] = "idle" BY <1>e, <1>a
  <2> QED BY <2>1, <1>1
<1>2. CASE PromoteArchive(p)
  <2> DEFINE old == spots[arg[p]]
             refused == old = Torn \/ (old # None /\ ~prop[p].supersede)
  <2>1. CASE refused
    <3>1. End(p) BY <1>2, <2>1 DEF PromoteArchive
    <3> QED BY <3>1, <1>e
  <2>2. CASE ~refused
    <3>1. /\ pc'[p] = "a_open" /\ UNCHANGED <<arg, spots>>
          /\ archive' = IF old = None THEN archive
                        ELSE [archive EXCEPT ![arg[p]] = archive[arg[p]] \cup {old}]
      BY <1>2, <2>2, <1>a DEF PromoteArchive
    <3>2. Readable(old) => old \in archive'[arg[p]]
      BY <3>1, <1>a DEF Readable
    <3> QED BY <3>1, <3>2 DEF Keeps, Readable
  <2> QED BY <2>1, <2>2
<1>3. CASE PromoteOpen(p)
  <2>1. pc'[p] = "a_fill" /\ spots'[arg[p]] = Torn /\ arg' = arg
    BY <1>3, <1>a DEF PromoteOpen
  <2> QED BY <2>1 DEF Keeps
<1>4. CASE RenameLoad(p)
  <2> DEFINE s == spots[arg[p]]
             ok == Readable(s) /\ DigestCurrent(s) /\ spots[dest[p]] = None
  <2>1. CASE ok
    <3>1. pc'[p] = "r_open" /\ prev'[p] = s /\ UNCHANGED <<arg, dest, spots>>
      BY <1>4, <2>1, <1>a DEF RenameLoad
    <3> QED BY <2>1, <3>1 DEF Keeps, Readable
  <2>2. CASE ~ok
    <3>1. End(p) BY <1>4, <2>2 DEF RenameLoad
    <3> QED BY <3>1, <1>e
  <2> QED BY <2>1, <2>2
<1>5. CASE RenameOpen(p)
  <2>1. /\ pc[p] = "r_open" /\ pc'[p] = "r_fill" /\ UNCHANGED <<arg, dest, prev>>
        /\ spots'[dest[p]] = Torn
        /\ arg[p] # dest[p] /\ spots'[arg[p]] = spots[arg[p]]
    BY <1>5, <1>a, <1>b DEF RenameOpen, Remembers, Renaming
  <2> QED BY <2>1, <1>b DEF Keeps, Readable
<1>6. CASE RenameFill(p)
  <2> DEFINE s == [prev[p] EXCEPT !.chain = dest[p]]
  <2>1. pc[p] = "r_fill" /\ arg[p] # dest[p] /\ spots[dest[p]] = Torn /\ prev[p] \in Spots
    BY <1>6, <1>b DEF RenameFill, Keeps, Remembers, Renaming, IInv, Shape, MemoryOK
  <2>2. s \in Spots /\ s.at = prev[p].at
    BY <2>1, <1>a DEF Spots
  <2>3. spots' = [spots EXCEPT ![dest[p]] = s] /\ pc'[p] = "r_remove" /\ UNCHANGED <<arg, dest, prev>>
    BY <1>6, <2>1, <1>a, Sentinels DEF RenameFill, Filled
  <2> HIDE DEF s
  <2>4. /\ spots'[dest[p]] = s /\ spots'[arg[p]] = spots[arg[p]] /\ s \notin {None, Torn}
    BY <2>1, <2>2, <2>3, <1>a, Sentinels
  <2> QED BY <2>1, <2>2, <2>3, <2>4, <1>b DEF Keeps, Readable
<1>7. ASSUME ~PromoteArchive(p), ~PromoteOpen(p), ~RenameLoad(p), ~RenameOpen(p), ~RenameFill(p)
      PROVE  pc'[p] \notin {"a_open", "a_fill", "r_open", "r_fill", "r_remove"}
  <2>1. ASSUME End(p) PROVE pc'[p] = "idle" BY <2>1, <1>a
  <2>2. CASE ProposeSeal(p) \/ ApproveSeal(p) \/ ProposeSpot(p) \/ ApproveLoad(p)
    BY <2>2, <1>a DEF ProposeSeal, ApproveSeal, ProposeSpot, ApproveLoad
  <2>8. CASE ApproveProposal(p) \/ ApproveMatch(p) \/ RenameKept(p)
    BY <2>8, <1>a DEF ApproveProposal, ApproveMatch, RenameKept
  <2>3. CASE ProposeFill(p) \/ DropReport(p) \/ RenameRemove(p) \/ Crash(p)
    <3>1. End(p) BY <2>3 DEF ProposeFill, DropReport, RenameRemove, Crash
    <3> QED BY <2>1, <3>1
  <2>4. CASE ProposeReport(p) \/ ProposeOpen(p) \/ PromoteFill(p) \/ DropProposal(p)
    BY <2>4, <1>a DEF ProposeReport, ProposeOpen, PromoteFill, DropProposal
  <2>5. ASSUME NEW c \in Chains, NEW i \in RunIds, NEW s \in BOOLEAN, ProposeLoad(p, c, i, s)
        PROVE  pc'[p] = "p_seal"
    BY <2>5, <1>a DEF ProposeLoad
  <2>6. ASSUME NEW c \in Chains, ApproveStart(p, c) \/ Reject(p, c)
        PROVE  pc'[p] \in {"a_prop", "drop"}
    BY <2>6, <1>a DEF ApproveStart, Reject
  <2>7. ASSUME NEW c \in Chains, NEW d \in Chains, RenameCheck(p, c, d)
        PROVE  pc'[p] = "r_kept"
    BY <2>7, <1>a DEF RenameCheck
  <2> HIDE DEF At, Goto, Keep, End
  <2> QED BY <1>7, <2>2, <2>3, <2>4, <2>5, <2>6, <2>7, <2>8 DEF Step
<1> QED BY <1>1, <1>2, <1>3, <1>4, <1>5, <1>6, <1>7

\* A proposal names what is in place and has its report until it is decided.
LEMMA ProposedStep ==
  ASSUME IInv, Orderly, NEW p \in Procs, Step(p)
  PROVE  Proposed(p)'
<1> USE DEF At, Goto, Keep, End, Renaming, disk, ghosts
<1>a. /\ pc \in [Procs -> Labels] /\ arg \in [Procs -> Chains] /\ dest \in [Procs -> Chains]
      /\ prop \in [Procs -> Proposals \cup {None}] /\ spots \in [Chains -> FileOf(Spots)]
      /\ pending \in [Chains -> FileOf(Proposals)] /\ report \in [Chains -> RunIds \cup {None}]
      /\ crashes \in Nat /\ arg[p] \in Chains /\ dest[p] \in Chains
  BY DEF IInv, Shape, TypeOK
<1>b. Remembers(p) /\ Keeps(p) /\ Proposed(p)
  BY DEF Orderly
<1>1. ASSUME UNCHANGED <<spots, pending, report>>,
             (crashes' = crashes /\ pc[p] \notin {"drop", "p_open"}) \/ crashes' > 0
      PROVE  Proposed(p)'
  BY <1>1, <1>a, <1>b DEF Proposed, Named, Reported, InPlace, Readable
<1>2. CASE ProposeReport(p)
  <2>1. /\ pc[p] = "p_report" /\ pc'[p] = "p_open" /\ report' = [report EXCEPT ![arg[p]] = prop[p].run]
        /\ UNCHANGED <<arg, spots, pending, crashes>>
    BY <1>2, <1>a DEF ProposeReport
  <2> SUFFICES ASSUME NEW c \in Chains, Readable(pending[c])
               PROVE  Named(p, c)' /\ Reported(p, c)'
    BY <2>1 DEF Proposed, Readable
  <2>2. Named(p, c) /\ Reported(p, c)
    BY <1>b DEF Proposed
  <2>3. Named(p, c)'
    BY <2>1, <2>2 DEF Named, InPlace, Readable
  <2>4. Reported(p, c)'
    BY <2>1, <2>2, <1>a DEF Reported
  <2> QED BY <2>3, <2>4
<1>3. CASE ProposeOpen(p)
  <2>1. /\ pc[p] = "p_open" /\ pending' = [pending EXCEPT ![arg[p]] = Torn]
        /\ UNCHANGED <<spots, report, crashes>>
    BY <1>3 DEF ProposeOpen
  <2> SUFFICES ASSUME NEW c \in Chains, Readable(pending'[c])
               PROVE  Named(p, c)' /\ Reported(p, c)'
    BY DEF Proposed, Readable
  <2>2. c # arg[p] /\ pending'[c] = pending[c]
    BY <2>1, <1>a DEF Readable
  <2>3. Named(p, c) /\ Reported(p, c)
    BY <2>2, <1>b DEF Proposed, Readable
  <2>4. Named(p, c)' BY <2>1, <2>2, <2>3 DEF Named, InPlace, Readable
  <2>5. Reported(p, c)' BY <2>1, <2>2, <2>3 DEF Reported
  <2> QED BY <2>4, <2>5
<1>4. CASE ProposeFill(p)
  <2>1. pc[p] = "p_fill" /\ pending[arg[p]] = Torn
    BY <1>4, <1>b DEF ProposeFill, Remembers
  <2>2. /\ pending' = [pending EXCEPT ![arg[p]] = prop[p]] /\ UNCHANGED <<spots, report, crashes>>
    BY <1>4, <2>1, Sentinels DEF ProposeFill, Filled
  <2> SUFFICES ASSUME NEW c \in Chains, Readable(pending'[c])
               PROVE  Named(p, c)' /\ Reported(p, c)'
    BY DEF Proposed, Readable
  <2>3. CASE c = arg[p]
    <3>1. pending'[c] = prop[p] BY <2>2, <2>3, <1>a
    <3>2. InPlace(c, prop[p].replaces) /\ report[c] = prop[p].run
      BY <2>1, <2>3, <1>b DEF Remembers
    <3>3. InPlace(c, pending[c].replaces)'
      BY <2>2, <3>1, <3>2 DEF InPlace, Readable
    <3>4. report'[c] = pending'[c].run BY <2>2, <3>1, <3>2
    <3> QED BY <3>3, <3>4 DEF Named, Reported
  <2>4. CASE c # arg[p]
    <3>1. pending'[c] = pending[c] BY <2>2, <2>4, <1>a
    <3>2. Named(p, c) /\ Reported(p, c) BY <3>1, <1>b DEF Proposed, Readable
    <3>3. Named(p, c)' BY <2>1, <2>2, <3>1, <3>2 DEF Named, InPlace, Readable
    <3>4. Reported(p, c)' BY <2>1, <2>2, <3>1, <3>2 DEF Reported
    <3> QED BY <3>3, <3>4
  <2> QED BY <2>3, <2>4
<1>5. CASE PromoteOpen(p)
  <2>1. /\ pc[p] = "a_open" /\ spots' = [spots EXCEPT ![arg[p]] = Torn]
        /\ UNCHANGED <<pending, report, crashes>>
    BY <1>5 DEF PromoteOpen
  <2> SUFFICES ASSUME NEW c \in Chains, Readable(pending[c])
               PROVE  Named(p, c)' /\ Reported(p, c)'
    BY <2>1 DEF Proposed, Readable
  <2>2. Named(p, c) /\ Reported(p, c) BY <1>b DEF Proposed
  <2>3. Reported(p, c)' BY <2>1, <2>2 DEF Reported
  <2>4. CASE c = arg[p]
    <3>1. spots'[c] = Torn BY <2>1, <2>4, <1>a
    <3> QED BY <3>1, <2>3 DEF Named
  <2>5. CASE c # arg[p]
    <3>1. spots'[c] = spots[c] BY <2>1, <2>5, <1>a
    <3>2. Named(p, c)' BY <2>1, <2>2, <3>1 DEF Named, InPlace, Readable
    <3> QED BY <3>2, <2>3
  <2> QED BY <2>4, <2>5
<1>6. CASE PromoteFill(p)
  <2>1. pc[p] = "a_fill" /\ spots[arg[p]] = Torn /\ prop[p] = pending[arg[p]] /\ rec[p].id = prop[p].run
    BY <1>6, <1>b DEF PromoteFill, Keeps, Remembers
  <2>2. /\ spots' = [spots EXCEPT ![arg[p]] = NewSpot(p)]
        /\ pc'[p] = "drop" /\ UNCHANGED <<arg, prop, rec, pending, report, crashes>>
    BY <1>6, <2>1, <1>a, Sentinels DEF PromoteFill, Filled
  <2>3. NewSpot(p) \in Spots /\ NewSpot(p).run = rec[p].id
    <3>1. prev[p] \in Spots \cup {None} BY DEF IInv, Shape, TypeOK
    <3> QED BY <2>1, <3>1, NewSpotType DEF IInv, NewSpot
  <2> SUFFICES ASSUME NEW c \in Chains, Readable(pending[c])
               PROVE  Named(p, c)' /\ Reported(p, c)'
    BY <2>2 DEF Proposed, Readable
  <2>4. Named(p, c) /\ Reported(p, c) BY <1>b DEF Proposed
  <2>5. Reported(p, c)' BY <2>1, <2>2, <2>4 DEF Reported
  <2>6. CASE c = arg[p]
    <3>1. Readable(spots'[c]) /\ spots'[c].run = pending'[c].run
      BY <2>1, <2>2, <2>3, <2>6, <1>a, Sentinels DEF Readable
    <3>2. pc'[p] = "drop" /\ arg'[p] = c BY <2>2, <2>6
    <3> QED BY <3>1, <3>2, <2>5 DEF Named, Readable
  <2>7. CASE c # arg[p]
    <3>1. spots'[c] = spots[c] BY <2>2, <2>7, <1>a
    <3>2. Named(p, c)' BY <2>1, <2>2, <2>4, <3>1 DEF Named, InPlace, Readable
    <3> QED BY <3>2, <2>5
  <2> QED BY <2>6, <2>7
<1>7. CASE DropProposal(p)
  <2>1. /\ pc[p] = "drop" /\ pending' = [pending EXCEPT ![arg[p]] = None]
        /\ UNCHANGED <<spots, report, crashes>>
    BY <1>7 DEF DropProposal
  <2> SUFFICES ASSUME NEW c \in Chains, Readable(pending'[c])
               PROVE  Named(p, c)' /\ Reported(p, c)'
    BY DEF Proposed, Readable
  <2>2. c # arg[p] /\ pending'[c] = pending[c]
    BY <2>1, <1>a DEF Readable
  <2>3. Named(p, c) /\ Reported(p, c)
    BY <2>2, <1>b DEF Proposed, Readable
  <2>4. Named(p, c)' BY <2>1, <2>2, <2>3 DEF Named, InPlace, Readable
  <2>5. Reported(p, c)' BY <2>1, <2>2, <2>3 DEF Reported
  <2> QED BY <2>4, <2>5
<1>8. CASE DropReport(p)
  <2>1. /\ pc[p] = "dropmd" /\ report' = [report EXCEPT ![arg[p]] = None] /\ pending[arg[p]] = None
        /\ UNCHANGED <<spots, pending, crashes>>
    BY <1>8, <1>b DEF DropReport, Remembers
  <2> SUFFICES ASSUME NEW c \in Chains, Readable(pending[c])
               PROVE  Named(p, c)' /\ Reported(p, c)'
    BY <2>1 DEF Proposed, Readable
  <2>2. c # arg[p] /\ report'[c] = report[c]
    BY <2>1, <1>a DEF Readable
  <2>3. Named(p, c) /\ Reported(p, c) BY <1>b DEF Proposed
  <2>4. Named(p, c)' BY <2>1, <2>2, <2>3 DEF Named, InPlace, Readable
  <2>5. Reported(p, c)' BY <2>1, <2>2, <2>3 DEF Reported
  <2> QED BY <2>4, <2>5
<1>9. ASSUME NEW x \in {arg[p], dest[p]}, NEW f, pending[x] = None, spots' = [spots EXCEPT ![x] = f],
             UNCHANGED <<pending, report, crashes>>, pc[p] \in Renaming
      PROVE  Proposed(p)'
  <2> SUFFICES ASSUME NEW c \in Chains, Readable(pending[c])
               PROVE  Named(p, c)' /\ Reported(p, c)'
    BY <1>9 DEF Proposed, Readable
  <2>1. c # x /\ spots'[c] = spots[c]
    BY <1>9, <1>a DEF Readable
  <2>2. Named(p, c) /\ Reported(p, c) BY <1>b DEF Proposed
  <2>3. Named(p, c)' BY <1>9, <2>1, <2>2 DEF Named, InPlace, Readable
  <2>4. Reported(p, c)' BY <1>9, <2>2 DEF Reported
  <2> QED BY <2>3, <2>4
<1>10. CASE RenameOpen(p)
  <2>1. /\ pc[p] \in Renaming /\ pending[dest[p]] = None
        /\ spots' = [spots EXCEPT ![dest[p]] = Torn] /\ UNCHANGED <<pending, report, crashes>>
    BY <1>10, <1>b DEF RenameOpen, Remembers
  <2> QED BY <2>1, <1>9
<1>11. CASE RenameFill(p)
  <2>1. /\ pc[p] \in Renaming /\ pending[dest[p]] = None /\ UNCHANGED <<pending, report, crashes>>
    BY <1>11, <1>b DEF RenameFill, Remembers
  <2>2. PICK f \in Filled(spots[dest[p]], [prev[p] EXCEPT !.chain = dest[p]]) : spots' = [spots EXCEPT ![dest[p]] = f]
    BY <1>11 DEF RenameFill
  <2> QED BY <2>1, <2>2, <1>9
<1>12. CASE RenameRemove(p)
  <2>1. /\ pc[p] \in Renaming /\ pending[arg[p]] = None
        /\ spots' = [spots EXCEPT ![arg[p]] = None] /\ UNCHANGED <<pending, report, crashes>>
    BY <1>12, <1>b DEF RenameRemove, Remembers
  <2> QED BY <2>1, <1>9
<1>13. CASE Crash(p)
  <2>1. crashes' = crashes + 1 /\ UNCHANGED <<spots, pending, report>>
    BY <1>13 DEF Crash
  <2>2. crashes' > 0 BY <2>1, <1>a
  <2> QED BY <2>1, <2>2, <1>1
<1>14. ASSUME ~ProposeReport(p), ~ProposeOpen(p), ~ProposeFill(p), ~PromoteOpen(p), ~PromoteFill(p),
              ~DropProposal(p), ~DropReport(p), ~RenameOpen(p), ~RenameFill(p), ~RenameRemove(p), ~Crash(p)
       PROVE  Proposed(p)'
  <2>1. UNCHANGED <<spots, pending, report, crashes>> /\ pc[p] \notin {"drop", "p_open"}
    BY <1>14 DEF Step, ProposeLoad, ProposeSeal, ProposeSpot, ApproveStart, ApproveProposal, ApproveMatch, Reject, ApproveLoad, ApproveSeal,
       PromoteArchive, RenameCheck, RenameKept, RenameLoad
  <2> QED BY <2>1, <1>1
<1> QED BY <1>2, <1>3, <1>4, <1>5, <1>6, <1>7, <1>8, <1>10, <1>11, <1>12, <1>13, <1>14

(***************************************************************************)
(* What people and other tools do around the commands                      *)
(***************************************************************************)
\* A run recorded or edited, a safe spot edited and a chain file changed touch
\* neither the proposals nor which runs and approvals are in place.
LEMMA OrderlyEnvironment ==
  ASSUME IInv, Orderly, Environment
  PROVE  Orderly'
<1>a. spots \in [Chains -> FileOf(Spots)] /\ arg \in [Procs -> Chains] /\ dest \in [Procs -> Chains]
  BY DEF IInv, Shape, TypeOK
<1>b. UNCHANGED <<archive, pending, report, cmd, approvals, crashes>>
  BY ZenonT(30) DEF Environment, SaveRun, EditRun, EditSpot, EditChain, Edited, cmd
<1>c. \A c \in Chains : /\ Readable(spots'[c]) <=> Readable(spots[c])
                        /\ spots'[c] = Torn <=> spots[c] = Torn
                        /\ spots'[c] = None <=> spots[c] = None
                        /\ spots'[c].run = spots[c].run /\ spots'[c].at = spots[c].at
  <2>1. ASSUME NEW c \in Chains, NEW x \in Contents, EditSpot(c, x), NEW d \in Chains
        PROVE  /\ Readable(spots'[d]) <=> Readable(spots[d])
               /\ spots'[d] = Torn <=> spots[d] = Torn
               /\ spots'[d] = None <=> spots[d] = None
               /\ spots'[d].run = spots[d].run /\ spots'[d].at = spots[d].at
    <3> DEFINE t == [spots[c] EXCEPT !.content = x]
    <3>1. spots[c] \in Spots /\ Readable(spots[c]) /\ spots' = [spots EXCEPT ![c] = t]
      BY <2>1, <1>a DEF EditSpot, FileOf, Readable
    <3>2. t \in Spots /\ t.run = spots[c].run /\ t.at = spots[c].at
      BY <3>1 DEF Spots
    <3> HIDE DEF t
    <3> QED BY <3>1, <3>2, <1>a, Sentinels DEF Readable
  <2>2. ASSUME ~\E c \in Chains, x \in Contents : EditSpot(c, x)
        PROVE  UNCHANGED spots
    BY <2>2 DEF Environment, SaveRun, EditRun, EditChain
  <2> QED BY <2>1, <2>2 DEF Readable
<1>1. NothingLost'
  <2>1. \A n : Stored(n) => Stored(n)' BY <1>b, <1>c DEF Stored, Readable
  <2> QED BY <2>1, <1>b, StoredStays DEF Orderly
<1> SUFFICES ASSUME NEW p \in Procs PROVE Remembers(p)' /\ Keeps(p)' /\ Proposed(p)'
  BY <1>1 DEF Orderly
<1>2. Remembers(p) /\ Keeps(p) /\ Proposed(p) /\ arg[p] \in Chains /\ dest[p] \in Chains
  BY <1>a DEF Orderly
<1>3. /\ pc'[p] = pc[p] /\ arg'[p] = arg[p] /\ dest'[p] = dest[p]
      /\ rec'[p] = rec[p] /\ prop'[p] = prop[p] /\ prev'[p] = prev[p]
  BY <1>b DEF cmd
<1>4. Remembers(p)'
  BY <1>b, <1>c, <1>2, <1>3 DEF Remembers, InPlace, Readable, Renaming
<1>5. Keeps(p)'
  BY <1>b, <1>c, <1>2, <1>3 DEF Keeps, Readable
<1>6. Proposed(p)'
  BY <1>b, <1>c, <1>2, <1>3 DEF Proposed, Named, Reported, InPlace, Readable
<1> QED BY <1>4, <1>5, <1>6

\* The invariant of a process alone holds in every state.
LEMMA OrderlyHolds ==
  ASSUME Alone
  PROVE  Spec => [](IInv /\ Orderly)
<1>1. IInv /\ Orderly /\ [Next]_vars => Orderly'
  <2> SUFFICES ASSUME IInv, Orderly, [Next]_vars PROVE Orderly'
    OBVIOUS
  <2>1. CASE Environment
    BY <2>1, OrderlyEnvironment
  <2>2. ASSUME NEW p \in Procs, Step(p) PROVE Orderly'
    <3>1. NothingLost' /\ Remembers(p)' /\ Keeps(p)' /\ Proposed(p)'
      BY <2>2, NothingLostStep, RemembersStep, KeepsStep, ProposedStep
    <3>2. \A q \in Procs : q = p
      BY DEF Alone
    <3> QED BY <3>1, <3>2 DEF Orderly
  <2>3. CASE UNCHANGED vars
    BY <2>3 DEF vars, disk, cmd, ghosts, Orderly, NothingLost, Remembers, Keeps, Proposed, Named, Reported,
       InPlace, Readable, Renaming
  <2> QED BY <2>1, <2>2, <2>3 DEF Next
<1> QED BY <1>1, InitOrderly, Invariance, PTL DEF Spec

\* Only PromoteArchive promotes.
LEMMA PromotesArchives ==
  ASSUME IInv, [Next]_vars, NEW p \in Procs, Promotes(p)
  PROVE  PromoteArchive(p)
<1> USE DEF At, Goto, Keep, End, disk, ghosts
<1>a. pc \in [Procs -> Labels] BY DEF IInv, Shape, TypeOK
<1>b. pc[p] = "a_spot" /\ pc'[p] = "a_open" BY DEF Promotes
<1>1. PICK q \in Procs : Step(q)
  BY <1>b, ZenonT(30) DEF Next, Environment, SaveRun, EditRun, EditSpot, EditChain, Edited, vars, cmd
<1>2. q = p \/ pc'[p] = pc[p]
  BY <1>1, <1>a DEF Step, ProposeLoad, ProposeSeal, ProposeSpot, ProposeReport, ProposeOpen, ProposeFill,
     ApproveStart, ApproveProposal, ApproveMatch, Reject, ApproveLoad, ApproveSeal, PromoteArchive, PromoteOpen, PromoteFill,
     DropProposal, DropReport, RenameCheck, RenameKept, RenameLoad, RenameOpen, RenameFill, RenameRemove, Crash
<1>3. Step(p) BY <1>1, <1>2, <1>b
<1>4. CASE Crash(p) BY <1>4, <1>a, <1>b DEF Crash
<1>5. CASE ~Crash(p)
  BY <1>3, <1>5, <1>b DEF Step, ProposeLoad, ProposeSeal, ProposeSpot, ProposeReport, ProposeOpen, ProposeFill,
     ApproveStart, ApproveProposal, ApproveMatch, Reject, ApproveLoad, ApproveSeal, PromoteOpen, PromoteFill,
     DropProposal, DropReport, RenameCheck, RenameKept, RenameLoad, RenameOpen, RenameFill, RenameRemove
<1> QED BY <1>4, <1>5

\* Only DropProposal takes a proposal out of pending/.
LEMMA DropsPending ==
  ASSUME IInv, Orderly, NEW p \in Procs, Step(p), NEW c \in Chains, Readable(pending[c]), pending'[c] = None
  PROVE  DropProposal(p)
<1>a. pending \in [Chains -> FileOf(Proposals)] BY DEF IInv, Shape, TypeOK
<1>1. SUFFICES ASSUME ~DropProposal(p) PROVE FALSE OBVIOUS
<1>2. CASE ProposeOpen(p)
  BY <1>2, <1>a, Sentinels DEF ProposeOpen, Readable
<1>3. CASE ProposeFill(p)
  <2>1. PICK f \in Filled(pending[arg[p]], prop[p]) : pending' = [pending EXCEPT ![arg[p]] = f]
    BY <1>3 DEF ProposeFill
  <2>2. arg[p] = c /\ f = None BY <2>1, <1>a DEF Readable
  <2>3. prop[p] \in Proposals BY <1>3 DEF ProposeFill, At, IInv, Shape, MemoryOK
  <2> QED BY <2>1, <2>2, <2>3, Sentinels DEF Filled, Readable
<1>4. ASSUME ~ProposeOpen(p), ~ProposeFill(p) PROVE UNCHANGED pending
  BY <1>1, <1>4 DEF disk, Step, ProposeLoad, ProposeSeal, ProposeSpot, ProposeReport,
     ApproveStart, ApproveProposal, ApproveMatch, Reject, ApproveLoad, ApproveSeal, PromoteArchive, PromoteOpen, PromoteFill,
     DropReport, RenameCheck, RenameKept, RenameLoad, RenameOpen, RenameFill, RenameRemove, Crash
<1> QED BY <1>2, <1>3, <1>4 DEF Readable

(***************************************************************************)
(* A chain kept red                                                        *)
(***************************************************************************)
\* The run i of c, if it loads, is not of a version kept red.
Fine(c, i) == Loadable(c, i) => runs[c][i].body.version \notin KeptRed

\* What an approval has made sure of, step by step, while nobody edits a file:
\* the chain file it will compare with is not kept red, the run it compares is
\* the one pending, and the run it loads for good is the one it compared.
Checked(p) ==
  /\ pc[p] \in Approving => NotKeptRed(arg[p])
  /\ pc[p] = "a_chain" =>
       /\ prop[p] = pending[arg[p]] /\ Readable(prop[p])
       /\ rec[p] = runs[arg[p]][prop[p].run] /\ rec[p] # None
  /\ pc[p] = "a_load" => Readable(pending[arg[p]]) /\ Fine(arg[p], pending[arg[p]].run)
  /\ pc[p] \in {"a_seal", "a_spot", "a_open", "a_fill"} => rec[p].body.version \notin KeptRed

Unmeddled == ~meddled => KeptRedNeverConfirmed /\ \A p \in Procs : Checked(p)

\* An approval keeps what it made sure of from one step to the next.
LEMMA CheckedStep ==
  ASSUME IInv, KeptRedNeverConfirmed, NEW p \in Procs, Checked(p), Step(p), ~meddled
  PROVE  KeptRedNeverConfirmed' /\ Checked(p)'
<1> USE DEF At, Goto, Keep, End, disk, ghosts, Approving
<1>a. /\ pc \in [Procs -> Labels] /\ arg \in [Procs -> Chains]
      /\ rec \in [Procs -> Records \cup {None}] /\ prop \in [Procs -> Proposals \cup {None}]
      /\ runs \in [Chains -> [RunIds -> Records \cup {None}]]
      /\ pending \in [Chains -> FileOf(Proposals)] /\ arg[p] \in Chains
  BY DEF IInv, Shape, TypeOK
<1>b. UNCHANGED runs
  BY CommandRuns
<1>c. Readable(pending[arg[p]]) =>
        /\ pending[arg[p]] \in Proposals /\ pending[arg[p]].chain = arg[p] /\ pending[arg[p]].run \in RunIds
  BY <1>a DEF IInv, Shape, ProposalsFiled, FileOf, Readable, Proposals
<1>1. ASSUME UNCHANGED approvals, UNCHANGED meddled PROVE KeptRedNeverConfirmed'
  BY <1>1 DEF KeptRedNeverConfirmed
<1>2. ASSUME pc'[p] \notin {"a_prop", "a_chain", "a_load", "a_seal", "a_spot", "a_open", "a_fill"}
      PROVE  Checked(p)'
  BY <1>2 DEF Checked
<1>e. ASSUME End(p) PROVE Checked(p)'
  <2>1. pc'[p] = "idle" BY <1>e, <1>a
  <2> QED BY <2>1, <1>2
<1>3. ASSUME NEW c \in Chains, ApproveStart(p, c) PROVE KeptRedNeverConfirmed' /\ Checked(p)'
  <2>1. /\ pc'[p] = "a_prop" /\ arg'[p] = c /\ NotKeptRed(c) /\ UNCHANGED <<chainFile, approvals, meddled>>
    BY <1>3, <1>a DEF ApproveStart
  <2> QED BY <2>1, <1>1 DEF Checked, NotKeptRed
<1>4. CASE ApproveProposal(p)
  <2> DEFINE q == pending[arg[p]]
  <2>0. UNCHANGED <<chainFile, pending, approvals, meddled>> /\ pc[p] = "a_prop"
    BY <1>4 DEF ApproveProposal
  <2>1. CASE Readable(q) /\ Loadable(arg[p], q.run)
    <3>1. /\ pc'[p] = "a_chain" /\ arg' = arg /\ prop'[p] = q /\ rec'[p] = runs[arg[p]][q.run]
      BY <1>4, <2>1, <1>a, <1>c DEF ApproveProposal
    <3>2. runs[arg[p]][q.run] # None BY <2>1 DEF Loadable, Readable
    <3> QED BY <2>0, <2>1, <3>1, <3>2, <1>1, <1>b DEF Checked, NotKeptRed, Readable
  <2>2. CASE Readable(q) /\ ~Loadable(arg[p], q.run)
    <3>1. pc'[p] = "a_load" /\ arg' = arg
      BY <1>4, <2>2, <1>a, <1>c DEF ApproveProposal
    <3>2. Fine(arg[p], q.run)'
      BY <2>0, <2>2, <3>1, <1>b DEF Fine, Loadable, Readable
    <3> QED BY <2>0, <2>2, <3>1, <3>2, <1>1 DEF Checked, NotKeptRed, Readable
  <2>3. CASE ~Readable(q)
    <3>1. End(p) BY <1>4, <2>3 DEF ApproveProposal
    <3> QED BY <2>0, <3>1, <1>1, <1>e
  <2> QED BY <2>1, <2>2, <2>3
<1>5. CASE ApproveMatch(p)
  <2>0. UNCHANGED <<chainFile, pending, approvals, meddled>> /\ pc[p] = "a_chain"
    BY <1>5 DEF ApproveMatch
  <2>1. CASE ChainMatches(prop[p].chain, rec[p])
    <3>1. pc'[p] = "a_load" /\ arg' = arg
      BY <1>5, <2>1, <1>a DEF ApproveMatch
    <3>2. /\ Readable(pending[arg[p]]) /\ prop[p] = pending[arg[p]]
          /\ runs[arg[p]][prop[p].run].body.version = chainFile[arg[p]] /\ NotKeptRed(arg[p])
      BY <2>0, <2>1, <1>c DEF Checked, ChainMatches
    <3>3. Fine(arg[p], pending[arg[p]].run)'
      BY <2>0, <3>1, <3>2, <1>b DEF Fine, NotKeptRed
    <3> QED BY <2>0, <3>1, <3>2, <3>3, <1>1 DEF Checked, NotKeptRed, Readable
  <2>2. CASE ~ChainMatches(prop[p].chain, rec[p])
    <3>1. End(p) BY <1>5, <2>2 DEF ApproveMatch
    <3> QED BY <2>0, <3>1, <1>1, <1>e
  <2> QED BY <2>1, <2>2
<1>6. CASE ApproveLoad(p)
  <2> DEFINE q == pending[arg[p]]
             ok == Readable(q) /\ Loadable(q.chain, q.run) /\ runs[q.chain][q.run].body.content = q.digest
  <2>0. UNCHANGED <<chainFile, approvals, meddled>> /\ pc[p] = "a_load"
    BY <1>6 DEF ApproveLoad
  <2>1. CASE ok
    <3>1. /\ pc'[p] = "a_seal" /\ arg' = arg /\ rec'[p] = runs[arg[p]][q.run]
      BY <1>6, <2>1, <1>a, <1>c DEF ApproveLoad
    <3>2. runs[arg[p]][q.run].body.version \notin KeptRed
      BY <2>0, <2>1, <1>c DEF Checked, Fine
    <3> QED BY <2>0, <3>1, <3>2, <1>1 DEF Checked, NotKeptRed
  <2>2. CASE ~ok
    <3>1. End(p) BY <1>6, <2>2 DEF ApproveLoad
    <3> QED BY <2>0, <3>1, <1>1, <1>e
  <2> QED BY <2>1, <2>2
<1>7. CASE ApproveSeal(p)
  <2>1. UNCHANGED <<approvals, meddled>> /\ pc[p] = "a_seal"
    BY <1>7 DEF ApproveSeal
  <2>2. CASE Sealed(rec[p]) /\ rec[p].body.passed
    <3>1. pc'[p] = "a_spot" /\ rec' = rec BY <1>7, <2>2, <1>a DEF ApproveSeal
    <3> QED BY <2>1, <3>1, <1>1 DEF Checked
  <2>3. CASE ~(Sealed(rec[p]) /\ rec[p].body.passed)
    <3>1. End(p) BY <1>7, <2>3 DEF ApproveSeal
    <3> QED BY <2>1, <3>1, <1>1, <1>e
  <2> QED BY <2>2, <2>3
<1>8. CASE PromoteArchive(p)
  <2>1. UNCHANGED <<approvals, meddled>> /\ pc[p] = "a_spot"
    BY <1>8 DEF PromoteArchive
  <2>2. End(p) \/ (pc'[p] = "a_open" /\ rec' = rec)
    BY <1>8, <1>a DEF PromoteArchive
  <2> QED BY <2>1, <2>2, <1>1, <1>e DEF Checked
<1>9. CASE PromoteOpen(p)
  <2>1. UNCHANGED <<approvals, meddled, rec>> /\ pc[p] = "a_open" /\ pc'[p] = "a_fill"
    BY <1>9, <1>a DEF PromoteOpen
  <2> QED BY <2>1, <1>1 DEF Checked
<1>10. CASE PromoteFill(p)
  <2>1. pc[p] = "a_fill" /\ pc'[p] = "drop" /\ approvals' \subseteq approvals \cup {NewSpot(p)}
    BY <1>10, <1>a DEF PromoteFill
  <2>2. NewSpot(p).version \notin KeptRed
    BY <2>1 DEF Checked, NewSpot
  <2>3. meddled' = meddled
    BY <1>10 DEF PromoteFill
  <2> QED BY <2>1, <2>2, <2>3, <1>2 DEF KeptRedNeverConfirmed
<1>11. ASSUME ~ApproveProposal(p), ~ApproveMatch(p), ~ApproveLoad(p), ~ApproveSeal(p), ~PromoteArchive(p),
              ~PromoteOpen(p), ~PromoteFill(p), ~\E c \in Chains : ApproveStart(p, c)
       PROVE  KeptRedNeverConfirmed' /\ Checked(p)'
  <2>1. UNCHANGED <<approvals, meddled>>
    BY <1>11 DEF Step, ProposeLoad, ProposeSeal, ProposeSpot, ProposeReport, ProposeOpen, ProposeFill,
       Reject, DropProposal, DropReport, RenameCheck, RenameKept, RenameLoad, RenameOpen, RenameFill,
       RenameRemove, Crash
  <2>2. CASE Crash(p) \/ ProposeFill(p) \/ DropReport(p) \/ RenameRemove(p)
    BY <2>1, <2>2, <1>1, <1>e DEF Crash, ProposeFill, DropReport, RenameRemove
  <2>3. CASE ~(Crash(p) \/ ProposeFill(p) \/ DropReport(p) \/ RenameRemove(p))
    <3>1. pc'[p] \notin {"a_prop", "a_chain", "a_load", "a_seal", "a_spot", "a_open", "a_fill"}
      BY <1>11, <2>3, <1>a DEF Step, ProposeLoad, ProposeSeal, ProposeSpot, ProposeReport, ProposeOpen,
         Reject, DropProposal, RenameCheck, RenameKept, RenameLoad, RenameOpen, RenameFill
    <3> QED BY <2>1, <3>1, <1>1, <1>2
  <2> QED BY <2>2, <2>3
<1> QED BY <1>3, <1>4, <1>5, <1>6, <1>7, <1>8, <1>9, <1>10, <1>11

\* A run recorded meanwhile is of the chain file as it is; an edit is noticed.
LEMMA CheckedEnvironment ==
  ASSUME IInv, NEW p \in Procs, Checked(p), Environment, ~meddled'
  PROVE  Checked(p)'
<1> USE DEF Approving
<1>a. /\ runs \in [Chains -> [RunIds -> Records \cup {None}]] /\ arg[p] \in Chains
      /\ chainFile \in [Chains -> Versions \cup {None}]
  BY DEF IInv, Shape, TypeOK
<1>b. UNCHANGED <<pending, cmd>>
  BY DEF Environment, SaveRun, EditRun, EditSpot, EditChain, Edited
<1>c. /\ pc'[p] = pc[p] /\ arg'[p] = arg[p] /\ prop'[p] = prop[p] /\ rec'[p] = rec[p]
  BY <1>b DEF cmd
<1>1. ASSUME NEW d \in Chains, NEW j \in RunIds, NEW x \in Contents, NEW ok \in BOOLEAN, SaveRun(d, j, x, ok)
      PROVE  Checked(p)'
  <2> DEFINE b == [content |-> x, passed |-> ok, version |-> chainFile[d]]
             r == [id |-> j, chain |-> d, body |-> b, seal |-> b, format |-> TRUE]
  <2>1. /\ runs' = [runs EXCEPT ![d][j] = r] /\ runs[d][j] = None /\ UNCHANGED chainFile
    BY <1>1 DEF SaveRun
  <2>2. r.body.version = chainFile[d]
    OBVIOUS
  <2> HIDE DEF r
  <2>3. ASSUME NEW i \in RunIds
        PROVE  runs'[arg[p]][i] = runs[arg[p]][i] \/ (runs[arg[p]][i] = None /\ runs'[arg[p]][i].body.version = chainFile[arg[p]])
    BY <2>1, <2>2, <2>3, <1>a
  <2>4. ASSUME NEW i \in RunIds, Fine(arg[p], i), NotKeptRed(arg[p])
        PROVE  /\ Readable(runs'[arg[p]][i]) /\ runs'[arg[p]][i].chain = arg[p] /\ Vouched(runs'[arg[p]][i])
               => runs'[arg[p]][i].body.version \notin KeptRed
    <3>1. CASE runs'[arg[p]][i] = runs[arg[p]][i]
      BY <2>4, <3>1 DEF Fine, Loadable
    <3>2. CASE runs'[arg[p]][i].body.version = chainFile[arg[p]]
      BY <2>4, <3>2 DEF NotKeptRed
    <3> QED BY <2>3, <3>1, <3>2
  <2>5. ASSUME pc[p] = "a_chain" PROVE rec[p] = runs'[arg[p]][prop[p].run]
    <3>1. prop[p] = pending[arg[p]] /\ Readable(prop[p]) /\ rec[p] = runs[arg[p]][prop[p].run] /\ rec[p] # None
      BY <2>5 DEF Checked
    <3>2. prop[p].run \in RunIds
      BY <3>1, <1>a DEF IInv, Shape, TypeOK, FileOf, Readable, Proposals
    <3> QED BY <2>3, <3>1, <3>2
  <2>6. UNCHANGED <<chainFile, pending>>
    BY <2>1, <1>b
  <2> HIDE DEF r, b
  <2>7. pc'[p] \in Approving => NotKeptRed(arg[p])'
    BY <2>6, <1>c DEF Checked, NotKeptRed
  <2>8. pc'[p] = "a_chain" =>
          /\ prop'[p] = pending'[arg'[p]] /\ Readable(prop'[p])
          /\ rec'[p] = runs'[arg'[p]][prop'[p].run] /\ rec'[p] # None
    BY <2>5, <2>6, <1>c DEF Checked
  <2>9. pc'[p] = "a_load" => (Readable(pending[arg[p]]) /\ Fine(arg[p], pending[arg[p]].run))'
    <3> SUFFICES ASSUME pc'[p] = "a_load" PROVE (Readable(pending[arg[p]]) /\ Fine(arg[p], pending[arg[p]].run))'
      OBVIOUS
    <3>1. Readable(pending[arg[p]]) /\ Fine(arg[p], pending[arg[p]].run) /\ NotKeptRed(arg[p])
      BY <1>c DEF Checked
    <3>2. pending[arg[p]].run \in RunIds
      BY <3>1, <1>a DEF IInv, Shape, TypeOK, FileOf, Readable, Proposals
    <3>3. pending'[arg'[p]] = pending[arg[p]] /\ arg'[p] = arg[p]
      BY <2>6, <1>c
    <3>4. Readable(pending[arg[p]])'
      BY <3>1, <3>3 DEF Readable
    <3>5. Fine(arg[p], pending[arg[p]].run)'
      BY <3>1, <3>2, <3>3, <2>4 DEF Fine, Loadable, Readable, Vouched
    <3> QED BY <3>4, <3>5
  <2>10. pc'[p] \in {"a_seal", "a_spot", "a_open", "a_fill"} => rec'[p].body.version \notin KeptRed
    BY <1>c DEF Checked
  <2> QED BY <2>7, <2>8, <2>9, <2>10 DEF Checked, Readable
<1>2. ASSUME Edited PROVE Checked(p)'
  <2>1. pc[p] \notin Approving BY <1>2 DEF Edited
  <2> QED BY <2>1, <1>c DEF Checked
<1> QED BY <1>1, <1>2 DEF Environment, EditRun, EditSpot, EditChain

\* What an approval made sure of holds in every state of a process alone.
LEMMA UnmeddledHolds ==
  ASSUME Alone
  PROVE  Spec => []Unmeddled
<1>1. Init => Unmeddled
  BY DEF Init, Unmeddled, KeptRedNeverConfirmed, Checked, Approving
<1>2. IInv /\ Unmeddled /\ [Next]_vars => Unmeddled'
  <2> SUFFICES ASSUME IInv, Unmeddled, [Next]_vars, ~meddled' PROVE KeptRedNeverConfirmed' /\ \A p \in Procs : Checked(p)'
    BY DEF Unmeddled
  <2>1. CASE UNCHANGED vars
    BY <2>1 DEF vars, disk, cmd, ghosts, Unmeddled, KeptRedNeverConfirmed, Checked, NotKeptRed, Fine, Loadable,
       Readable
  <2>2. CASE Environment
    <3>1. ~meddled /\ UNCHANGED approvals
      <4>1. UNCHANGED meddled \/ meddled' = (meddled \/ \E p \in Procs : pc[p] \in Approving)
        BY <2>2, ZenonT(30) DEF Environment, SaveRun, EditRun, EditSpot, EditChain, Edited
      <4>2. ~meddled
        BY <4>1, Zenon
      <4>3. UNCHANGED approvals
        BY <2>2, ZenonT(30) DEF Environment, SaveRun, EditRun, EditSpot, EditChain, Edited
      <4> QED BY <4>2, <4>3
    <3> QED BY <2>2, <3>1, CheckedEnvironment DEF Unmeddled, KeptRedNeverConfirmed
  <2>3. ASSUME NEW p \in Procs, Step(p) PROVE KeptRedNeverConfirmed' /\ \A q \in Procs : Checked(q)'
    <3>1. \A q \in Procs : q = p BY DEF Alone
    <3>2. UNCHANGED meddled
      BY <2>3, Zenon DEF ghosts, Step, ProposeLoad, ProposeSeal, ProposeSpot, ProposeReport, ProposeOpen, ProposeFill,
         ApproveStart, ApproveProposal, ApproveMatch, Reject, ApproveLoad, ApproveSeal, PromoteArchive, PromoteOpen, PromoteFill,
         DropProposal, DropReport, RenameCheck, RenameKept, RenameLoad, RenameOpen, RenameFill, RenameRemove, Crash
    <3> QED BY <2>3, <3>1, <3>2, CheckedStep DEF Unmeddled
  <2> QED BY <2>1, <2>2, <2>3 DEF Next
<1> QED BY <1>1, <1>2, Invariance, PTL DEF Spec

(***************************************************************************)
(* The store implements the register                                       *)
(***************************************************************************)
\* What a rename carries is still in place under its old name.
Carries(p) ==
  pc[p] \in {"r_open", "r_fill"} =>
    /\ Readable(spots[arg[p]]) /\ spots[arg[p]].run = prev[p].run
    /\ spots[arg[p]].at = prev[p].at /\ spots[arg[p]].digest = prev[p].digest

\* A rename read what it carries from the old name and writes the new one first.
LEMMA CarriesStep ==
  ASSUME IInv, Orderly, NEW p \in Procs, Carries(p), Step(p)
  PROVE  Carries(p)'
<1> USE DEF At, Goto, Keep, End, disk, ghosts
<1>a. /\ pc \in [Procs -> Labels] /\ arg \in [Procs -> Chains] /\ prev \in [Procs -> Spots \cup {None}]
      /\ spots \in [Chains -> FileOf(Spots)] /\ arg[p] \in Chains /\ dest[p] \in Chains
  BY DEF IInv, Shape, TypeOK
<1>b. Remembers(p) BY DEF Orderly
<1>1. ASSUME pc'[p] \notin {"r_open", "r_fill"} PROVE Carries(p)'
  BY <1>1 DEF Carries
<1>2. CASE RenameLoad(p)
  <2> DEFINE s == spots[arg[p]]
             ok == Readable(s) /\ DigestCurrent(s) /\ spots[dest[p]] = None
  <2>1. CASE ok
    <3>1. pc'[p] = "r_open" /\ prev'[p] = s /\ UNCHANGED <<arg, spots>>
      BY <1>2, <2>1, <1>a DEF RenameLoad
    <3> QED BY <2>1, <3>1 DEF Carries, Readable
  <2>2. CASE ~ok
    <3>1. pc'[p] = "idle" BY <1>2, <2>2, <1>a DEF RenameLoad
    <3> QED BY <3>1, <1>1
  <2> QED BY <2>1, <2>2
<1>3. CASE RenameOpen(p)
  <2>1. /\ pc[p] = "r_open" /\ pc'[p] = "r_fill" /\ UNCHANGED <<arg, dest, prev>>
        /\ arg[p] # dest[p] /\ spots'[arg[p]] = spots[arg[p]]
    BY <1>3, <1>a, <1>b DEF RenameOpen, Remembers, Renaming
  <2> QED BY <2>1 DEF Carries, Readable
<1>4. CASE RenameFill(p)
  <2>1. pc'[p] = "r_remove" BY <1>4, <1>a DEF RenameFill
  <2> QED BY <2>1, <1>1
<1>5. CASE Crash(p) \/ ProposeFill(p) \/ DropReport(p) \/ RenameRemove(p)
  <2>1. pc'[p] = "idle" BY <1>5, <1>a DEF Crash, ProposeFill, DropReport, RenameRemove
  <2> QED BY <2>1, <1>1
<1>6. ASSUME ~RenameLoad(p), ~RenameOpen(p), ~RenameFill(p),
             ~(Crash(p) \/ ProposeFill(p) \/ DropReport(p) \/ RenameRemove(p))
      PROVE  Carries(p)'
  <2>1. pc'[p] \notin {"r_open", "r_fill"}
    BY <1>6, <1>a DEF Step, ProposeLoad, ProposeSeal, ProposeSpot, ProposeReport, ProposeOpen,
       ApproveStart, ApproveProposal, ApproveMatch, Reject, ApproveLoad, ApproveSeal, PromoteArchive,
       PromoteOpen, PromoteFill, DropProposal, RenameCheck, RenameKept
  <2> QED BY <2>1, <1>1
<1> QED BY <1>2, <1>3, <1>4, <1>5, <1>6

\* An edit by hand changes what a safe spot says, and nothing else of it.
LEMMA EditedSpot ==
  ASSUME IInv, NEW c \in Chains, NEW x \in Contents, EditSpot(c, x)
  PROVE  \E t \in Spots :
           /\ Readable(spots[c]) /\ spots' = [spots EXCEPT ![c] = t]
           /\ t.run = spots[c].run /\ t.at = spots[c].at /\ t.digest = spots[c].digest /\ t.content = x
<1> DEFINE t == [spots[c] EXCEPT !.content = x]
<1>1. spots[c] \in Spots /\ Readable(spots[c]) /\ spots' = [spots EXCEPT ![c] = t]
  BY DEF EditSpot, FileOf, Readable, IInv, Shape, TypeOK
<1>2. t \in Spots /\ t.run = spots[c].run /\ t.at = spots[c].at /\ t.digest = spots[c].digest /\ t.content = x
  BY <1>1 DEF Spots
<1> HIDE DEF t
<1> QED BY <1>1, <1>2

\* People edit what a carried safe spot says, not which approval it is.
LEMMA CarriesEnvironment ==
  ASSUME IInv, NEW p \in Procs, Carries(p), Environment
  PROVE  Carries(p)'
<1>a. UNCHANGED cmd /\ spots \in [Chains -> FileOf(Spots)] /\ arg[p] \in Chains
  BY ZenonT(30) DEF Environment, SaveRun, EditRun, EditSpot, EditChain, Edited, IInv, Shape, TypeOK
<1>1. ASSUME NEW c \in Chains, NEW x \in Contents, EditSpot(c, x)
      PROVE  Carries(p)'
  <2>1. PICK t \in Spots :
           /\ Readable(spots[c]) /\ spots' = [spots EXCEPT ![c] = t]
           /\ t.run = spots[c].run /\ t.at = spots[c].at /\ t.digest = spots[c].digest
    BY <1>1, EditedSpot
  <2>2. Readable(t) BY Sentinels DEF Readable
  <2> QED BY <1>a, <2>1, <2>2 DEF Carries, cmd, Readable
<1>2. ASSUME UNCHANGED spots PROVE Carries(p)'
  BY <1>2, <1>a DEF Carries, cmd, Readable
<1>3. (\E c \in Chains, x \in Contents : EditSpot(c, x)) \/ UNCHANGED spots
  BY DEF Environment, SaveRun, EditRun, EditChain
<1> QED BY <1>1, <1>2, <1>3

\* The three invariants of a process alone.
LEMMA CarriesHolds ==
  ASSUME Alone
  PROVE  Spec => [](\A p \in Procs : Carries(p))
<1>1. Init => \A p \in Procs : Carries(p)
  BY DEF Init, Carries
<1>2. IInv /\ Orderly /\ (\A p \in Procs : Carries(p)) /\ [Next]_vars => (\A p \in Procs : Carries(p))'
  <2> SUFFICES ASSUME IInv, Orderly, \A p \in Procs : Carries(p), [Next]_vars, NEW q \in Procs
               PROVE  Carries(q)'
    OBVIOUS
  <2>1. CASE Environment
    BY <2>1, CarriesEnvironment
  <2>2. ASSUME NEW p \in Procs, Step(p) PROVE Carries(q)'
    <3>1. q = p BY DEF Alone
    <3> QED BY <2>2, <3>1, CarriesStep
  <2>3. CASE UNCHANGED vars
    BY <2>3 DEF vars, disk, cmd, Carries, Readable
  <2> QED BY <2>1, <2>2, <2>3 DEF Next
<1> QED BY <1>1, <1>2, OrderlyHolds, PTL DEF Spec

\* Writing one safe spot file writes one baseline.
LEMMA BaselineWritten ==
  ASSUME IInv, NEW c \in Chains, NEW f, spots' = [spots EXCEPT ![c] = f]
  PROVE  baselines' = [baselines EXCEPT ![c] = BaselineOf(f)]
<1>1. spots \in [Chains -> FileOf(Spots)]
  BY DEF IInv, Shape, TypeOK
<1> QED BY <1>1 DEF baselines, BaselineOf, Readable

\* What the register remembers follows from the runs, the archive and the clock.
LEMMA RestSame ==
  /\ UNCHANGED ran => UNCHANGED recordedRuns
  /\ UNCHANGED archive => UNCHANGED archivedAt
  /\ UNCHANGED spots => UNCHANGED baselines
<1>1. UNCHANGED ran => UNCHANGED recordedRuns BY DEF recordedRuns
<1>2. UNCHANGED archive => UNCHANGED archivedAt BY DEF archivedAt
<1>3. UNCHANGED spots => UNCHANGED baselines BY DEF baselines, BaselineOf, Readable
<1> QED BY <1>1, <1>2, <1>3

\* A step that leaves all of them alone is a stutter of the register.
LEMMA RegisterStutter ==
  ASSUME UNCHANGED <<spots, ran, archive, clock>>
  PROVE  UNCHANGED Register!vars
  BY RestSame DEF Register!vars

\* A file written where nothing readable was, with nothing readable, is a stutter.
LEMMA BlankStutter ==
  ASSUME IInv, NEW c \in Chains, NEW f, spots' = [spots EXCEPT ![c] = f], ~Readable(spots[c]), ~Readable(f),
         UNCHANGED <<ran, archive, clock>>
  PROVE  UNCHANGED Register!vars
<1>1. baselines' = [baselines EXCEPT ![c] = BaselineOf(f)]
  BY BaselineWritten
<1>2. BaselineOf(f) = baselines[c] /\ baselines = [baselines EXCEPT ![c] = baselines[c]]
  BY DEF BaselineOf, baselines
<1>3. UNCHANGED baselines BY <1>1, <1>2
<1> QED BY <1>3, RestSame DEF Register!vars

\* A readable safe spot is an entry of the register, which is not None.
LEMMA EntriesReal ==
  ASSUME IInv, NEW c \in Chains, Readable(spots[c])
  PROVE  /\ baselines[c] # None
         /\ baselines[c] = [run |-> spots[c].run, content |-> spots[c].content,
                            digest |-> spots[c].digest, at |-> spots[c].at]
<1>1. spots[c] \in Spots
  BY DEF IInv, Shape, TypeOK, FileOf, Readable
<1>2. spots[c].run \in RunIds /\ spots[c].content \in Contents /\ spots[c].digest \in Contents /\ spots[c].at \in Nat
  BY <1>1 DEF Spots
<1>3. baselines[c] = [run |-> spots[c].run, content |-> spots[c].content,
                      digest |-> spots[c].digest, at |-> spots[c].at]
  BY DEF baselines, BaselineOf
<1>4. baselines[c] \in Entries
  BY <1>2, <1>3 DEF Entries
<1>5. None \notin Entries
  BY FilesAssumption
<1> QED BY <1>3, <1>4, <1>5

\* A baseline taken away that the archive or another name keeps.
LEMMA Withdrawn ==
  ASSUME IInv, NEW c \in Chains, NEW f, spots' = [spots EXCEPT ![c] = f], ~Readable(f),
         UNCHANGED <<ran, archive, clock>>,
         Readable(spots[c]) => \/ spots[c].at \in archivedAt
                               \/ \E d \in Chains \ {c} : Readable(spots[d]) /\ spots[d].at = spots[c].at
  PROVE  Register!Next \/ UNCHANGED Register!vars
<1>1. CASE ~Readable(spots[c])
  BY <1>1, BlankStutter
<1>2. CASE Readable(spots[c])
  <2>1. baselines' = [baselines EXCEPT ![c] = None] /\ UNCHANGED <<recordedRuns, archivedAt>>
    BY BaselineWritten, RestSame DEF BaselineOf
  <2>2. \A d \in Chains : Readable(spots[d]) => baselines[d].at = spots[d].at /\ baselines[d] # None
    <3> SUFFICES ASSUME NEW d \in Chains, Readable(spots[d]) PROVE baselines[d].at = spots[d].at /\ baselines[d] # None
      OBVIOUS
    <3>1. /\ baselines[d] # None
          /\ baselines[d] = [run |-> spots[d].run, content |-> spots[d].content,
                             digest |-> spots[d].digest, at |-> spots[d].at]
      BY EntriesReal
    <3> QED BY <3>1
  <2>3. Register!Kept(c) /\ baselines[c] # None
    BY <1>2, <2>2 DEF Register!Kept
  <2> QED BY <2>1, <2>3 DEF Register!Next, Register!Withdraw
<1> QED BY <1>1, <1>2


\* The register's steps, one at a time.
LEMMA RegisterArchive ==
  ASSUME IInv, NEW c \in Chains, Readable(spots[c]), archive' = [archive EXCEPT ![c] = @ \cup {spots[c]}],
         UNCHANGED <<spots, ran, clock>>
  PROVE  Register!Next
<1>1. archive \in [Chains -> SUBSET Spots] BY DEF IInv, Shape, TypeOK
<1>2. archivedAt' = archivedAt \cup {spots[c].at}
  <2>1. \A n : n \in archivedAt <=> \E d \in Chains : \E s \in archive[d] : s.at = n
    BY Zenon DEF archivedAt
  <2>2. \A n : n \in archivedAt' <=> \E d \in Chains : \E s \in archive'[d] : s.at = n
    BY Zenon DEF archivedAt
  <2>3. \A d \in Chains : archive'[d] = archive[d] \cup (IF d = c THEN {spots[c]} ELSE {})
    BY <1>1
  <2>4. \A n : n \in archivedAt' <=> n \in archivedAt \/ n = spots[c].at
    BY <2>1, <2>2, <2>3
  <2> QED BY <2>4
<1>3. baselines[c] # None /\ baselines[c].at = spots[c].at
  <2>1. /\ baselines[c] # None
        /\ baselines[c] = [run |-> spots[c].run, content |-> spots[c].content,
                           digest |-> spots[c].digest, at |-> spots[c].at]
    BY EntriesReal
  <2> QED BY <2>1
<1> QED BY <1>2, <1>3, RestSame DEF Register!Next, Register!Archive

\* Promote's last write sets the baseline, with the number of the approval.
LEMMA RegisterConfirm ==
  ASSUME IInv, NEW p \in Procs, PromoteFill(p), spots[arg[p]] = Torn
  PROVE  Register!Next
<1> DEFINE c == arg[p]
           t == NewSpot(p)
           e == <<rec[p].id, rec[p].body.content>>
<1>a. c \in Chains /\ pc[p] = "a_fill" BY DEF PromoteFill, At, IInv, Shape, TypeOK
<1>b. prev[p] \in Spots \cup {None} BY DEF IInv, Shape, TypeOK
<1>1. t \in Spots BY <1>a, <1>b, NewSpotType DEF IInv
<1>2. t.run = e[1] /\ t.content = e[2] /\ t.digest = e[2] /\ t.at = clock BY DEF NewSpot
<1>3. e \in recordedRuns
  <2>1. rec[p] \in Records /\ <<rec[p].chain, rec[p].id, rec[p].body.content>> \in ran
    BY <1>a DEF IInv, Shape, MemoryOK, Safe, SealedInMemory
  <2> QED BY <2>1 DEF recordedRuns
<1>4. spots' = [spots EXCEPT ![c] = t] /\ clock' = clock + 1 /\ UNCHANGED <<ran, archive>>
  BY Sentinels DEF PromoteFill, Filled
<1>5. BaselineOf(t) = [run |-> e[1], content |-> e[2], digest |-> e[2], at |-> clock]
  BY <1>1, <1>2, Sentinels DEF BaselineOf, Readable
<1>6. baselines[c] = None
  BY <1>a DEF baselines, BaselineOf, Readable
<1> HIDE DEF t, c, e
<1>7. baselines' = [baselines EXCEPT ![c] = BaselineOf(t)]
  BY <1>a, <1>4, BaselineWritten
<1> QED BY <1>a, <1>3, <1>4, <1>5, <1>6, <1>7, RestSame DEF Register!Next, Register!Confirm

\* RenameSafeSpot carries what was approved, not what the file says by then.
LEMMA RegisterCarry ==
  ASSUME IInv, NEW p \in Procs, RenameFill(p), spots[dest[p]] = Torn, Carries(p)
  PROVE  Register!Next
<1> DEFINE c == arg[p]
           d == dest[p]
           s == prev[p]
           t == [prev[p] EXCEPT !.chain = dest[p]]
<1>a. c \in Chains /\ d \in Chains /\ pc[p] = "r_fill" BY DEF RenameFill, At, IInv, Shape, TypeOK
<1>b. s \in Spots BY <1>a DEF IInv, Shape, MemoryOK
<1>1. DigestCurrent(s) BY <1>a DEF IInv, Safe, RenamesBacked
<1>2. t \in Spots /\ t.run = s.run /\ t.content = s.digest /\ t.digest = s.digest /\ t.at = s.at
  BY <1>a, <1>b, <1>1 DEF Spots, DigestCurrent
<1>3. Readable(spots[c]) /\ spots[c].run = s.run /\ spots[c].at = s.at /\ spots[c].digest = s.digest
  BY <1>a DEF Carries
<1>4. spots' = [spots EXCEPT ![d] = t] /\ UNCHANGED <<ran, archive, clock>>
  BY Sentinels DEF RenameFill, Filled, ghosts
<1> HIDE DEF t, s
<1>5. BaselineOf(t) = [run |-> s.run, content |-> s.digest, digest |-> s.digest, at |-> s.at]
  BY <1>2, Sentinels DEF BaselineOf, Readable
<1>6. baselines[d] = None
  BY <1>a DEF baselines, BaselineOf, Readable
<1> HIDE DEF c, d
<1>7. baselines' = [baselines EXCEPT ![d] = BaselineOf(t)]
  BY <1>a, <1>4, BaselineWritten
<1>8. /\ baselines[c] # None
      /\ baselines[c] = [run |-> s.run, content |-> spots[c].content, digest |-> s.digest, at |-> s.at]
  BY <1>a, <1>3, EntriesReal
<1>9. BaselineOf(t) = [baselines[c] EXCEPT !.content = baselines[c].digest]
  BY <1>5, <1>8
<1>10. Register!Carry(c, d)
  BY <1>4, <1>6, <1>7, <1>8, <1>9, RestSame DEF Register!Carry
<1> QED BY <1>a, <1>10 DEF Register!Next

\* What an approval is about to write over is archived, what a rename is about
\* to remove is in place under the other name.
LEMMA RegisterWithdraw ==
  ASSUME IInv, Orderly, NEW p \in Procs, PromoteOpen(p) \/ RenameOpen(p) \/ RenameRemove(p)
  PROVE  Register!Next \/ UNCHANGED Register!vars
<1> USE DEF At
<1>a. /\ arg[p] \in Chains /\ dest[p] \in Chains /\ archive \in [Chains -> SUBSET Spots]
      /\ Keeps(p) /\ Remembers(p)
  BY DEF Orderly, IInv, Shape, TypeOK
<1>b. ~Readable(Torn) /\ ~Readable(None) BY DEF Readable
<1>1. CASE PromoteOpen(p)
  <2>1. /\ pc[p] = "a_open" /\ spots' = [spots EXCEPT ![arg[p]] = Torn] /\ UNCHANGED <<ran, archive, clock>>
    BY <1>1 DEF PromoteOpen, ghosts
  <2>2. Readable(spots[arg[p]]) => spots[arg[p]].at \in archivedAt
    BY <2>1, <1>a DEF Keeps, archivedAt
  <2> QED BY <1>a, <1>b, <2>1, <2>2, Withdrawn
<1>2. CASE RenameOpen(p)
  <2>1. /\ ~Readable(spots[dest[p]]) /\ spots' = [spots EXCEPT ![dest[p]] = Torn]
        /\ UNCHANGED <<ran, archive, clock>>
    BY <1>2, <1>a, <1>b DEF RenameOpen, ghosts, Keeps
  <2> QED BY <1>a, <1>b, <2>1, BlankStutter
<1>3. CASE RenameRemove(p)
  <2>1. /\ pc[p] = "r_remove" /\ spots' = [spots EXCEPT ![arg[p]] = None] /\ UNCHANGED <<ran, archive, clock>>
    BY <1>3 DEF RenameRemove, ghosts
  <2>2. Readable(spots[arg[p]]) =>
          \E d \in Chains \ {arg[p]} : Readable(spots[d]) /\ spots[d].at = spots[arg[p]].at
    BY <2>1, <1>a DEF Keeps, Remembers, Renaming
  <2> QED BY <1>a, <1>b, <2>1, <2>2, Withdrawn
<1> QED BY <1>1, <1>2, <1>3

\* Every step of a command is a step of the register, or none.
LEMMA RegisterStep ==
  ASSUME IInv, Orderly, NEW p \in Procs, Carries(p), Step(p)
  PROVE  Register!Next \/ UNCHANGED Register!vars
<1>a. Keeps(p) /\ arg[p] \in Chains /\ spots \in [Chains -> FileOf(Spots)]
  BY DEF Orderly, IInv, Shape, TypeOK
<1>1. CASE PromoteArchive(p)
  <2>1. CASE Readable(spots[arg[p]]) /\ ~(spots[arg[p]] # None /\ ~prop[p].supersede)
    <3>1. archive' = [archive EXCEPT ![arg[p]] = @ \cup {spots[arg[p]]}] /\ UNCHANGED <<spots, ran, clock>>
      BY <1>1, <2>1 DEF PromoteArchive, Readable, ghosts
    <3> QED BY <1>a, <2>1, <3>1, RegisterArchive
  <2>2. CASE ~(Readable(spots[arg[p]]) /\ ~(spots[arg[p]] # None /\ ~prop[p].supersede))
    <3>1. UNCHANGED <<spots, ran, archive, clock>>
      BY <1>1, <2>2 DEF PromoteArchive, Readable, ghosts
    <3> QED BY <3>1, RegisterStutter
  <2> QED BY <2>1, <2>2
<1>2. CASE PromoteFill(p)
  <2>1. spots[arg[p]] = Torn BY <1>2, <1>a DEF PromoteFill, At, Keeps
  <2> QED BY <1>2, <2>1, RegisterConfirm
<1>3. CASE RenameFill(p)
  <2>1. spots[dest[p]] = Torn BY <1>3, <1>a DEF RenameFill, At, Keeps
  <2> QED BY <1>3, <2>1, RegisterCarry
<1>4. CASE PromoteOpen(p) \/ RenameOpen(p) \/ RenameRemove(p)
  BY <1>4, RegisterWithdraw
<1>5. ASSUME ~PromoteArchive(p), ~PromoteFill(p), ~RenameFill(p),
             ~(PromoteOpen(p) \/ RenameOpen(p) \/ RenameRemove(p))
      PROVE  UNCHANGED Register!vars
  <2>1. UNCHANGED <<spots, ran, archive, clock>>
    BY <1>5 DEF disk, ghosts, Step, ProposeLoad, ProposeSeal, ProposeSpot, ProposeReport, ProposeOpen, ProposeFill,
       ApproveStart, ApproveProposal, ApproveMatch, Reject, ApproveLoad, ApproveSeal, DropProposal, DropReport,
       RenameCheck, RenameKept, RenameLoad, Crash
  <2> QED BY <2>1, RegisterStutter
<1> QED BY <1>1, <1>2, <1>3, <1>4, <1>5

\* A run recorded and a safe spot edited are steps of the register; it does not
\* see run records and chain files change.
LEMMA RegisterEnvironment ==
  ASSUME IInv, Environment
  PROVE  Register!Next \/ UNCHANGED Register!vars
<1>1. ASSUME NEW c \in Chains, NEW i \in RunIds, NEW x \in Contents, NEW ok \in BOOLEAN, SaveRun(c, i, x, ok)
      PROVE  Register!Next
  <2>1. ran' = ran \cup {<<c, i, x>>} /\ UNCHANGED <<spots, archive, clock>>
    BY <1>1 DEF SaveRun
  <2>2. recordedRuns' = recordedRuns \cup {<<i, x>>}
    <3> DEFINE Of(r) == <<r[2], r[3]>>
    <3>1. recordedRuns = {Of(r) : r \in ran} /\ recordedRuns' = {Of(r) : r \in ran'}
      BY DEF recordedRuns
    <3>2. Of(<<c, i, x>>) = <<i, x>> OBVIOUS
    <3> HIDE DEF Of
    <3> QED BY <2>1, <3>1, <3>2
  <2> QED BY <2>1, <2>2, RestSame DEF Register!Next, Register!Record
<1>2. ASSUME NEW c \in Chains, NEW x \in Contents, EditSpot(c, x)
      PROVE  Register!Next
  <2>1. PICK t \in Spots :
           /\ Readable(spots[c]) /\ spots' = [spots EXCEPT ![c] = t]
           /\ t.run = spots[c].run /\ t.at = spots[c].at /\ t.digest = spots[c].digest /\ t.content = x
    BY <1>2, EditedSpot
  <2>2. UNCHANGED <<ran, archive, clock>>
    BY <1>2 DEF EditSpot, Edited
  <2>3. BaselineOf(t) = [run |-> spots[c].run, content |-> x, digest |-> spots[c].digest, at |-> spots[c].at]
    BY <2>1, Sentinels DEF BaselineOf, Readable
  <2>4. /\ baselines[c] # None
        /\ baselines[c] = [run |-> spots[c].run, content |-> spots[c].content,
                           digest |-> spots[c].digest, at |-> spots[c].at]
    BY <2>1, EntriesReal
  <2>5. BaselineOf(t) = [baselines[c] EXCEPT !.content = x]
    BY <2>3, <2>4
  <2>6. baselines' = [baselines EXCEPT ![c] = BaselineOf(t)]
    BY <2>1, BaselineWritten
  <2>7. Register!Edit(c, x)
    BY <2>2, <2>4, <2>5, <2>6, RestSame DEF Register!Edit
  <2> QED BY <2>7 DEF Register!Next
<1>3. ASSUME ~(\E c \in Chains, i \in RunIds, x \in Contents, ok \in BOOLEAN : SaveRun(c, i, x, ok)),
             ~(\E c \in Chains, x \in Contents : EditSpot(c, x))
      PROVE  UNCHANGED Register!vars
  <2>1. UNCHANGED <<spots, ran, archive, clock>>
    BY <1>3 DEF Environment, EditRun, EditChain, Edited
  <2> QED BY <2>1, RegisterStutter
<1> QED BY <1>1, <1>2, <1>3

\* Nothing in place and nothing recorded is how the register begins.
LEMMA RegisterInit == Init => Register!Init
<1> SUFFICES ASSUME Init PROVE Register!Init OBVIOUS
<1>1. recordedRuns = {} BY DEF Init, recordedRuns
<1>2. archivedAt = {} BY DEF Init, archivedAt
<1>3. baselines = [c \in Chains |-> None] BY DEF Init, baselines, BaselineOf, Readable
<1>4. clock = 0 BY DEF Init
<1> QED BY <1>1, <1>2, <1>3, <1>4 DEF Register!Init

(***************************************************************************)
(* Theorems                                                                *)
(***************************************************************************)
\* No approval is lost, whatever is edited by hand and wherever a command is
\* killed: Promote archives before it writes and RenameSafeSpot writes before it
\* removes (safespot.go).
THEOREM ApprovalsKept ==
  ASSUME Alone
  PROVE  Spec => []NothingLost
<1>1. Orderly => NothingLost BY DEF Orderly
<1> QED BY <1>1, OrderlyHolds, PTL

\* An approval writes over what its proposal says it replaces, or over itself
\* when a kill left the proposal in place.
THEOREM ReplacesWhatItNames ==
  ASSUME Alone
  PROVE  Spec => ReplacesNamed
<1> DEFINE A == \A p \in Procs : Promotes(p) =>
                  \/ prop[p].replaces = IF prev'[p] = None THEN None ELSE prev'[p].run
                  \/ crashes > 0 /\ prev'[p] # None /\ prev'[p].run = prop[p].run
<1>1. ASSUME IInv, Orderly, NEW p \in Procs, Promotes(p), [Next]_vars
      PROVE  \/ prop[p].replaces = IF prev'[p] = None THEN None ELSE prev'[p].run
             \/ crashes > 0 /\ prev'[p] # None /\ prev'[p].run = prop[p].run
  <2> DEFINE old == spots[arg[p]]
  <2>1. PromoteArchive(p)
    BY <1>1, PromotesArchives
  <2>2. pc[p] = "a_spot" /\ old # Torn /\ prev'[p] = old
    <3>1. prev \in [Procs -> Spots \cup {None}] /\ pc \in [Procs -> Labels] BY <1>1 DEF IInv, Shape, TypeOK
    <3> QED BY <1>1, <2>1, <3>1 DEF PromoteArchive, At, End, Goto, Promotes
  <2>3. prop[p] = pending[arg[p]] /\ Readable(pending[arg[p]]) /\ arg[p] \in Chains
    BY <1>1, <2>2 DEF Orderly, Remembers, IInv, Shape, TypeOK
  <2>4. Named(p, arg[p])
    BY <1>1, <2>3 DEF Orderly, Proposed
  <2>5. CASE InPlace(arg[p], prop[p].replaces)
    BY <2>2, <2>5 DEF InPlace, Readable
  <2>6. CASE ~InPlace(arg[p], prop[p].replaces)
    BY <2>2, <2>3, <2>4, <2>6 DEF Named, Readable
  <2> QED BY <2>5, <2>6
<1>2. IInv /\ Orderly /\ [Next]_vars => A BY <1>1
<1>3. Spec => [][A]_vars
  BY <1>2, OrderlyHolds, PTL DEF Spec
<1> QED BY <1>3 DEF ReplacesNamed

\* The report that a person approves by shows the run that the approval promotes,
\* as long as no command was killed.
THEOREM ReportsTrue ==
  ASSUME Alone
  PROVE  Spec => ReportShowsPromoted
<1> DEFINE A == \A p \in Procs : Promotes(p) /\ crashes = 0 => report[arg[p]] = rec[p].id
<1>1. ASSUME IInv, Orderly, NEW p \in Procs, Promotes(p), crashes = 0
      PROVE  report[arg[p]] = rec[p].id
  <2>1. pc[p] = "a_spot" BY <1>1 DEF Promotes, At
  <2>2. /\ prop[p] = pending[arg[p]] /\ Readable(pending[arg[p]]) /\ rec[p].id = prop[p].run
        /\ arg[p] \in Chains
    BY <1>1, <2>1 DEF Orderly, Remembers, IInv, Shape, TypeOK
  <2>3. Reported(p, arg[p])
    BY <1>1, <2>2 DEF Orderly, Proposed
  <2> QED BY <1>1, <2>1, <2>2, <2>3 DEF Reported
<1>2. IInv /\ Orderly => A BY <1>1
<1>3. Spec => [][A]_vars
  BY <1>2, OrderlyHolds, PTL DEF Spec
<1> QED BY <1>3 DEF ReportShowsPromoted

\* A proposal leaves pending/ by a rejection, or when what it proposed is in
\* place.
THEOREM ProposalsDecided ==
  ASSUME Alone
  PROVE  Spec => ProposalDecided
<1> DEFINE B(c) == \E p \in Procs :
                     /\ At(p, "drop") /\ arg[p] = c
                     /\ \/ prop[p] = None
                        \/ prop[p] = pending[c] /\ Readable(spots[c]) /\ spots[c].run = pending[c].run
           A == \A c \in Chains : Readable(pending[c]) /\ pending'[c] = None => B(c)
<1>1. ASSUME IInv, Orderly, NEW c \in Chains, Readable(pending[c]), pending'[c] = None, [Next]_vars
      PROVE  B(c)
  <2>1. PICK p \in Procs : Step(p)
    BY <1>1 DEF Next, Environment, SaveRun, EditRun, EditSpot, EditChain, vars, disk, Readable
  <2>2. DropProposal(p)
    BY <1>1, <2>1, DropsPending
  <2>3. pc[p] = "drop" /\ arg[p] = c
    <3>1. pending \in [Chains -> FileOf(Proposals)] BY <1>1 DEF IInv, Shape, TypeOK
    <3> QED BY <1>1, <2>2, <3>1 DEF DropProposal, At, Readable
  <2> QED BY <1>1, <2>3 DEF Orderly, Remembers, At
<1>2. IInv /\ Orderly /\ [Next]_vars => A BY <1>1
<1>3. Spec => [][A]_vars
  BY <1>2, OrderlyHolds, PTL DEF Spec
<1> QED BY <1>3 DEF ProposalDecided

\* A chain kept red is never confirmed, through any number of edits by hand made
\* between the commands and of kills: only an edit made while an approval is
\* between its reads can defeat it (cmd_confirm.go:96, proposalchain.go:31-45,
\* proposal.go:134-145).
THEOREM KeptRedUnconfirmed ==
  ASSUME Alone
  PROVE  Spec => []KeptRedNeverConfirmed
<1>1. Unmeddled => KeptRedNeverConfirmed BY DEF Unmeddled, KeptRedNeverConfirmed
<1> QED BY <1>1, UnmeddledHolds, PTL

\* The store of a process alone implements the register: through any edits by
\* hand and kills, a baseline is set only where none is in place, and is taken
\* away only when the same approval is archived or in place under another name
\* (Promote, safespot.go:67-109; RenameSafeSpot).
THEOREM Implements ==
  ASSUME Alone
  PROVE  Spec => ImplementsRegister
<1>1. /\ IInv /\ Orderly /\ (\A p \in Procs : Carries(p)) /\ [Next]_vars
      => [Register!Next]_(Register!vars)
  <2> SUFFICES ASSUME IInv, Orderly, \A p \in Procs : Carries(p), [Next]_vars
               PROVE  Register!Next \/ UNCHANGED Register!vars
    OBVIOUS
  <2>1. CASE Environment BY <2>1, RegisterEnvironment
  <2>2. ASSUME NEW p \in Procs, Step(p) PROVE Register!Next \/ UNCHANGED Register!vars
    BY <2>2, RegisterStep
  <2>3. CASE UNCHANGED vars
    BY <2>3, RegisterStutter DEF vars, disk, ghosts
  <2> QED BY <2>1, <2>2, <2>3 DEF Next
<1> QED BY <1>1, RegisterInit, OrderlyHolds, CarriesHolds, PTL DEF Spec, Register!Spec, ImplementsRegister
=============================================================================
