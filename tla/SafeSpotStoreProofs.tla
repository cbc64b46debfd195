------------------------ MODULE SafeSpotStoreProofs ------------------------
(***************************************************************************)
(* For any number of processes, chains, runs, edits and crashes: what is   *)
(* in place as a safe spot goes back to an approval of content that shrt   *)
(* recorded.                                                               *)
(***************************************************************************)
EXTENDS SafeSpotStore, TLAPS

(***************************************************************************)
(* The inductive invariant                                                 *)
(***************************************************************************)
\* What a command holds in memory at each of its steps.
MemoryOK ==
  \A p \in Procs :
    /\ pc[p] \in {"p_seal", "p_spot", "p_report", "p_open", "p_fill", "a_seal", "a_spot",
                  "a_open", "a_fill"}
         => rec[p] \in Records /\ rec[p].chain = arg[p]
    /\ pc[p] \in {"p_report", "p_open", "p_fill", "a_seal", "a_spot"}
         => prop[p] \in Proposals /\ prop[p].chain = arg[p]
    /\ pc[p] \in {"r_open", "r_fill"} => prev[p] \in Spots

\* A record is of the chain and id it is filed under, and a seal is on what
\* shrt recorded.
RunsSealed ==
  \A c \in Chains, i \in RunIds : runs[c][i] # None =>
    /\ runs[c][i].id = i /\ runs[c][i].chain = c
    /\ runs[c][i].seal # None => <<c, i, runs[c][i].seal.content>> \in ran

ProposalsFiled == \A c \in Chains : Readable(pending[c]) => pending[c].chain = c

\* A record past checkSealed holds what shrt recorded.
SealedInMemory ==
  \A p \in Procs : pc[p] \in {"p_spot", "p_report", "p_open", "p_fill", "a_spot", "a_open", "a_fill"}
    => <<rec[p].chain, rec[p].id, rec[p].body.content>> \in ran

\* s goes back to an approval, of content that shrt recorded.
Backed(s) == \E a \in approvals : ApprovalOf(s, a) /\ <<a.chain, a.run, a.content>> \in ran

RenamesBacked == \A p \in Procs : pc[p] \in {"r_open", "r_fill"} =>
                   Backed(prev[p]) /\ DigestCurrent(prev[p])

Shape == TypeOK /\ MemoryOK /\ ProposalsFiled
Safe == RunsSealed /\ SealedInMemory /\ SpotsApproved /\ RenamesBacked
IInv == Shape /\ Safe

\* The two sentinels are no file contents.
LEMMA Sentinels ==
  /\ None # Torn
  /\ None \notin Records /\ Torn \notin Records
  /\ None \notin Proposals /\ Torn \notin Proposals
  /\ None \notin Spots /\ Torn \notin Spots
  /\ None \notin Bodies /\ None \notin RunIds
  BY FilesAssumption

(***************************************************************************)
(* Every file and every command's memory keeps its shape.                  *)
(***************************************************************************)
\* The files are empty at the start, so they have their shape.
LEMMA InitShape == Init => Shape
<1>1. Init => TypeOK
  <2>1. Init => meddled \in BOOLEAN
    BY Zenon DEF Init
  <2> QED BY <2>1, SMTT(60) DEF Init, TypeOK, FileOf, Labels
<1>2. Init => MemoryOK /\ ProposalsFiled
  BY DEF Init, MemoryOK, ProposalsFiled, Readable
<1> QED BY <1>1, <1>2 DEF Shape

USE DEF Labels

\* A command that ends without touching a file keeps the shape.
LEMMA EndShape ==
  ASSUME Shape, NEW p \in Procs, End(p), UNCHANGED <<disk, ghosts>>
  PROVE  Shape'
  BY Sentinels DEF Shape, TypeOK, MemoryOK, ProposalsFiled, FileOf, Readable, Labels,
     Goto, End, disk, cmd, ghosts

\* Shape is preserved by every step of a command ...
LEMMA ShapeCommand ==
  ASSUME Shape, NEW p \in Procs, Step(p)
  PROVE  Shape'
<1> USE Sentinels DEF Shape, TypeOK, MemoryOK, ProposalsFiled, FileOf, Readable, Labels, At, Goto, Keep, End, disk, cmd, ghosts
<1>1. ASSUME NEW c \in Chains, NEW i \in RunIds, NEW s \in BOOLEAN, ProposeLoad(p, c, i, s) PROVE Shape'
  BY <1>1 DEF ProposeLoad, Loadable, Records
<1>2. CASE ProposeSeal(p)
  <2>1. CASE Sealed(rec[p])
    <3>1. /\ pc[p] = "p_seal" /\ pc' = [pc EXCEPT ![p] = "p_spot"]
          /\ UNCHANGED <<arg, dest, super, rec, prop, prev, disk, ghosts>>
      BY <1>2, <2>1 DEF ProposeSeal
    <3> QED BY <3>1
  <2>2. CASE ~Sealed(rec[p])
    <3>1. End(p) /\ UNCHANGED <<disk, ghosts>>
      BY <1>2, <2>2 DEF ProposeSeal
    <3> QED BY <3>1, EndShape
  <2> QED BY <2>1, <2>2
<1>3. CASE ProposeSpot(p)
  <2> DEFINE old == spots[arg[p]]
              q == [chain |-> arg[p], run |-> rec[p].id, digest |-> rec[p].body.content,
                    supersede |-> super[p],
                    replaces |-> IF old = None THEN None ELSE old.run]
  <2>1. CASE old = Torn \/ (old # None /\ ~super[p])
    <3>1. End(p) /\ UNCHANGED <<disk, ghosts>>
      BY <1>3, <2>1 DEF ProposeSpot
    <3> QED BY <3>1, EndShape
  <2>2. CASE ~(old = Torn \/ (old # None /\ ~super[p]))
    <3>1. q \in Proposals /\ q.chain = arg[p]
      BY <1>3, <2>2 DEF ProposeSpot, Proposals, Spots, Records, Bodies
    <3>2. /\ prop' = [prop EXCEPT ![p] = q] /\ pc' = [pc EXCEPT ![p] = "p_report"]
          /\ UNCHANGED <<arg, dest, super, rec, prev, disk, ghosts>>
      BY <1>3, <2>2 DEF ProposeSpot
    <3> HIDE DEF q
    <3> QED BY <1>3, <3>1, <3>2 DEF ProposeSpot
  <2> QED BY <2>1, <2>2
<1>4. CASE ProposeReport(p)
  BY <1>4 DEF ProposeReport, Proposals
<1>5. CASE ProposeOpen(p)
  BY <1>5 DEF ProposeOpen
<1>6. CASE ProposeFill(p)
  BY <1>6 DEF ProposeFill, Filled
<1>7. ASSUME NEW c \in Chains, ApproveStart(p, c) PROVE Shape'
  BY <1>7 DEF ApproveStart
<1>22. CASE ApproveProposal(p)
  <2> DEFINE q == pending[arg[p]]
  <2>1. CASE Readable(q) /\ Loadable(q.chain, q.run)
    <3>1. q \in Proposals /\ q.chain = arg[p]
      BY <1>22, <2>1
    <3>2. runs[q.chain][q.run] \in Records /\ runs[q.chain][q.run].chain = arg[p]
      BY <2>1, <3>1 DEF Loadable, Proposals
    <3>3. /\ rec' = [rec EXCEPT ![p] = runs[q.chain][q.run]]
          /\ prop' = [prop EXCEPT ![p] = q] /\ pc' = [pc EXCEPT ![p] = "a_chain"]
          /\ UNCHANGED <<arg, dest, super, prev, disk, ghosts>>
      BY <1>22, <2>1 DEF ApproveProposal
    <3> HIDE DEF q
    <3> QED BY <3>1, <3>2, <3>3
  <2>2. CASE Readable(q) /\ ~Loadable(q.chain, q.run)
    <3>1. q \in Proposals /\ q.chain = arg[p]
      BY <1>22, <2>2
    <3>2. /\ prop' = [prop EXCEPT ![p] = q] /\ pc' = [pc EXCEPT ![p] = "a_load"]
          /\ UNCHANGED <<arg, dest, super, rec, prev, disk, ghosts>>
      BY <1>22, <2>2 DEF ApproveProposal
    <3> HIDE DEF q
    <3> QED BY <3>1, <3>2
  <2>3. CASE ~Readable(q)
    <3>1. End(p) /\ UNCHANGED <<disk, ghosts>>
      BY <1>22, <2>3 DEF ApproveProposal
    <3> QED BY <3>1, EndShape
  <2> QED BY <2>1, <2>2, <2>3
<1>23. CASE ApproveMatch(p)
  <2>1. CASE ChainMatches(prop[p].chain, rec[p])
    <3>1. At(p, "a_chain") /\ Keep(p, "a_load") /\ UNCHANGED <<disk, ghosts>>
      BY <1>23, <2>1 DEF ApproveMatch
    <3> QED BY <3>1
  <2>2. CASE ~ChainMatches(prop[p].chain, rec[p])
    <3>1. End(p) /\ UNCHANGED <<disk, ghosts>>
      BY <1>23, <2>2 DEF ApproveMatch
    <3> QED BY <3>1, EndShape
  <2> QED BY <2>1, <2>2
<1>8. ASSUME NEW c \in Chains, Reject(p, c) PROVE Shape'
  BY <1>8 DEF Reject
<1>9. CASE ApproveLoad(p)
  <2> DEFINE q == pending[arg[p]]
              ok == Readable(q) /\ Loadable(q.chain, q.run)
                    /\ runs[q.chain][q.run].body.content = q.digest
  <2>1. CASE ok
    <3>1. q \in Proposals /\ q.chain = arg[p]
      BY <1>9, <2>1
    <3>2. runs[q.chain][q.run] \in Records /\ runs[q.chain][q.run].chain = arg[p]
      BY <2>1, <3>1 DEF Loadable, Proposals
    <3>3. /\ rec' = [rec EXCEPT ![p] = runs[q.chain][q.run]]
          /\ prop' = [prop EXCEPT ![p] = q] /\ pc' = [pc EXCEPT ![p] = "a_seal"]
          /\ UNCHANGED <<arg, dest, super, prev, disk, ghosts>>
      BY <1>9, <2>1 DEF ApproveLoad
    <3> HIDE DEF q
    <3> QED BY <3>1, <3>2, <3>3
  <2>2. CASE ~ok
    <3>1. End(p) /\ UNCHANGED <<disk, ghosts>>
      BY <1>9, <2>2 DEF ApproveLoad
    <3> QED BY <3>1, EndShape
  <2> QED BY <2>1, <2>2
<1>10. CASE ApproveSeal(p)
  <2>1. CASE Sealed(rec[p]) /\ rec[p].body.passed
    <3>1. At(p, "a_seal") /\ Keep(p, "a_spot") /\ UNCHANGED <<disk, ghosts>>
      BY <1>10, <2>1 DEF ApproveSeal
    <3> QED BY <3>1
  <2>2. CASE ~(Sealed(rec[p]) /\ rec[p].body.passed)
    <3>1. End(p) /\ UNCHANGED <<disk, ghosts>>
      BY <1>10, <2>2 DEF ApproveSeal
    <3> QED BY <3>1, EndShape
  <2> QED BY <2>1, <2>2
<1>11. CASE PromoteArchive(p)
  <2> DEFINE old == spots[arg[p]]
              refused == old = Torn \/ (old # None /\ ~prop[p].supersede)
  <2>1. CASE refused
    <3>1. End(p) /\ UNCHANGED <<disk, ghosts>>
      BY <1>11, <2>1 DEF PromoteArchive
    <3> QED BY <3>1, EndShape
  <2>2. CASE ~refused
    <3>1. old \in Spots \cup {None}
      BY <1>11, <2>2
    <3>2. /\ At(p, "a_spot")
          /\ prev' = [prev EXCEPT ![p] = old] /\ pc' = [pc EXCEPT ![p] = "a_open"]
          /\ archive' = IF old = None THEN archive
                        ELSE [archive EXCEPT ![arg[p]] = archive[arg[p]] \cup {old}]
          /\ UNCHANGED <<arg, dest, super, rec, prop, runs, spots, pending, report, chainFile, ghosts>>
      BY <1>11, <2>2 DEF PromoteArchive
    <3>3. archive' \in [Chains -> SUBSET Spots]
      <4>1. CASE old = None
        BY <3>2, <4>1
      <4>2. CASE old \in Spots
        <5>1. archive[arg[p]] \cup {old} \in SUBSET Spots
          BY <4>2
        <5> QED BY <3>2, <4>2, <5>1
      <4> QED BY <3>1, <4>1, <4>2
    <3> HIDE DEF old
    <3> QED BY <3>1, <3>2, <3>3
  <2> QED BY <2>1, <2>2
<1>12. CASE PromoteOpen(p)
  BY <1>12 DEF PromoteOpen
<1>13. CASE PromoteFill(p)
  BY <1>13 DEF PromoteFill, Filled, NewSpot, Spots, Records, Bodies
<1>14. CASE DropProposal(p)
  BY <1>14 DEF DropProposal
<1>15. CASE DropReport(p)
  BY <1>15 DEF DropReport
<1>16. ASSUME NEW from \in Chains, NEW to \in Chains, RenameCheck(p, from, to) PROVE Shape'
  BY <1>16 DEF RenameCheck
<1>24. CASE RenameKept(p)
  <2>1. CASE NotKeptRed(dest[p])
    <3>1. At(p, "r_kept") /\ Keep(p, "r_load") /\ UNCHANGED <<disk, ghosts>>
      BY <1>24, <2>1 DEF RenameKept
    <3> QED BY <3>1
  <2>2. CASE ~NotKeptRed(dest[p])
    <3>1. End(p) /\ UNCHANGED <<disk, ghosts>>
      BY <1>24, <2>2 DEF RenameKept
    <3> QED BY <3>1, EndShape
  <2> QED BY <2>1, <2>2
<1>17. CASE RenameLoad(p)
  <2> DEFINE s == spots[arg[p]]
              ok == Readable(s) /\ DigestCurrent(s) /\ spots[dest[p]] = None
  <2>1. CASE ok
    <3>1. /\ s \in Spots /\ prev' = [prev EXCEPT ![p] = s] /\ pc' = [pc EXCEPT ![p] = "r_open"]
          /\ UNCHANGED <<arg, dest, super, rec, prop, disk, ghosts>>
      BY <1>17, <2>1 DEF RenameLoad
    <3> QED BY <3>1
  <2>2. CASE ~ok
    <3>1. End(p) /\ UNCHANGED <<disk, ghosts>>
      BY <1>17, <2>2 DEF RenameLoad
    <3> QED BY <3>1, EndShape
  <2> QED BY <2>1, <2>2
<1>18. CASE RenameOpen(p)
  BY <1>18 DEF RenameOpen
<1>19. CASE RenameFill(p)
  <2> DEFINE s == [prev[p] EXCEPT !.chain = dest[p]]
  <2>1. s \in Spots
    <3>1. prev[p] \in Spots /\ dest[p] \in Chains
      BY <1>19 DEF RenameFill
    <3> QED BY <3>1 DEF Spots
  <2>2. PICK f \in {None, Torn, s} : spots' = [spots EXCEPT ![dest[p]] = f]
    BY <1>19 DEF RenameFill, Filled
  <2>3. /\ At(p, "r_fill") /\ Keep(p, "r_remove")
        /\ UNCHANGED <<runs, archive, pending, report, chainFile, ghosts>>
    BY <1>19 DEF RenameFill
  <2> HIDE DEF s
  <2> QED BY <2>1, <2>2, <2>3
<1>20. CASE RenameRemove(p)
  BY <1>20 DEF RenameRemove
<1>21. CASE Crash(p)
  BY <1>21 DEF Crash
<1> HIDE DEF Shape, At, Goto, Keep, End, TypeOK
<1> QED BY <1>1, <1>2, <1>3, <1>4, <1>5, <1>6, <1>7, <1>8, <1>9, <1>10, <1>11, <1>12, <1>13, <1>14, <1>15, <1>16, <1>17, <1>18, <1>19, <1>20, <1>21, <1>22, <1>23, <1>24 DEF Step

\* ... and by what people and other tools do around the commands.
LEMMA ShapeEnvironment ==
  ASSUME Shape, Environment
  PROVE  Shape'
<1> USE Sentinels DEF Shape, TypeOK, MemoryOK, ProposalsFiled, FileOf, Readable, Labels, cmd, ghosts
<1>1. ASSUME NEW c \in Chains, NEW i \in RunIds, NEW x \in Contents, NEW ok \in BOOLEAN,
             SaveRun(c, i, x, ok)
      PROVE  Shape'
  <2> DEFINE b == [content |-> x, passed |-> ok, version |-> chainFile[c]]
             r == [id |-> i, chain |-> c, body |-> b, seal |-> b, format |-> TRUE]
  <2>1. r \in Records
    BY <1>1 DEF SaveRun, Records, Bodies
  <2>2. /\ runs' = [runs EXCEPT ![c][i] = r] /\ ran' = ran \cup {<<c, i, x>>}
        /\ UNCHANGED <<spots, archive, pending, report, chainFile, cmd, approvals, meddled, clock, edits, crashes>>
    BY <1>1 DEF SaveRun
  <2> HIDE DEF r
  <2>3. runs' \in [Chains -> [RunIds -> Records \cup {None}]]
    BY <2>1, <2>2
  <2>4. ran' \subseteq Chains \X RunIds \X Contents
    BY <2>2
  <2> QED BY <2>2, <2>3, <2>4
<1>2. ASSUME NEW c \in Chains, NEW i \in RunIds, NEW b \in Bodies, NEW keep \in BOOLEAN,
             NEW fmt \in BOOLEAN, EditRun(c, i, b, keep, fmt)
      PROVE  Shape'
  <2> DEFINE r == IF keep THEN [runs[c][i] EXCEPT !.body = b]
                  ELSE [runs[c][i] EXCEPT !.body = b, !.seal = None, !.format = fmt]
  <2>1. r \in Records
    <3>1. runs[c][i] \in Records
      BY <1>2 DEF EditRun
    <3> QED BY <3>1 DEF Records
  <2>2. runs' = [runs EXCEPT ![c][i] = r]
    BY <1>2 DEF EditRun
  <2> HIDE DEF r
  <2>3. runs' \in [Chains -> [RunIds -> Records \cup {None}]]
    BY <2>1, <2>2
  <2> QED BY <1>2, <2>3 DEF EditRun, Edited
<1>3. ASSUME NEW c \in Chains, NEW x \in Contents, EditSpot(c, x)
      PROVE  Shape'
  <2>1. [spots[c] EXCEPT !.content = x] \in Spots
    <3>1. spots[c] \in Spots
      BY <1>3 DEF EditSpot
    <3> QED BY <3>1 DEF Spots
  <2>2. spots' = [spots EXCEPT ![c] = [spots[c] EXCEPT !.content = x]]
    BY <1>3, <2>1 DEF EditSpot
  <2> QED BY <1>3, <2>1, <2>2 DEF EditSpot, Edited
<1>4. ASSUME NEW c \in Chains, NEW v \in Versions \cup {None}, EditChain(c, v)
      PROVE  Shape'
  BY <1>4 DEF EditChain, Edited
<1> HIDE DEF Shape, TypeOK
<1> QED BY <1>1, <1>2, <1>3, <1>4 DEF Environment

\* Both together: every step keeps the shape.
LEMMA ShapeStep == Shape /\ [Next]_vars => Shape'
<1> SUFFICES ASSUME Shape, [Next]_vars PROVE Shape'
  OBVIOUS
<1>1. CASE Environment
  BY <1>1, ShapeEnvironment
<1>2. CASE \E p \in Procs : Step(p)
  BY <1>2, ShapeCommand
<1>3. CASE UNCHANGED vars
  BY <1>3 DEF vars, disk, cmd, ghosts, Shape, TypeOK, MemoryOK, ProposalsFiled, Readable
<1> QED BY <1>1, <1>2, <1>3 DEF Next

\* Every file keeps its shape under any interleaving.
THEOREM TypeCorrect == Spec => []TypeOK
<1>1. Shape => TypeOK
  BY DEF Shape
<1> QED BY InitShape, ShapeStep, <1>1, PTL DEF Spec

(***************************************************************************)
(* What is in place was approved, and what was approved was recorded.      *)
(***************************************************************************)

\* With no run and no safe spot there is nothing to back.
LEMMA InitSafe == Init => Safe
  BY Sentinels DEF Init, Safe, RunsSealed, SealedInMemory, SpotsApproved, RenamesBacked, Readable

\* The history only grows.
LEMMA Grows ==
  ASSUME [Next]_vars
  PROVE  ran \subseteq ran' /\ approvals \subseteq approvals'
<1> USE DEF ghosts, Edited
<1>1. CASE Environment
  BY <1>1 DEF Environment, SaveRun, EditRun, EditSpot, EditChain
<1>2. ASSUME NEW p \in Procs, Step(p)
      PROVE  ran \subseteq ran' /\ approvals \subseteq approvals'
  BY <1>2 DEF Step, ProposeLoad, ProposeSeal, ProposeSpot, ProposeReport, ProposeOpen, ProposeFill,
     ApproveStart, ApproveProposal, ApproveMatch, Reject, ApproveLoad, ApproveSeal, PromoteArchive, PromoteOpen, PromoteFill,
     DropProposal, DropReport, RenameCheck, RenameKept, RenameLoad, RenameOpen, RenameFill, RenameRemove, Crash
<1>3. CASE UNCHANGED vars
  BY <1>3 DEF vars
<1> QED BY <1>1, <1>2, <1>3 DEF Next

\* The files of run records are written by no command.
LEMMA CommandRuns ==
  ASSUME NEW p \in Procs, Step(p)
  PROVE  UNCHANGED <<runs, ran>>
  BY DEF ghosts, disk, Step, ProposeLoad, ProposeSeal, ProposeSpot, ProposeReport, ProposeOpen, ProposeFill,
     ApproveStart, ApproveProposal, ApproveMatch, Reject, ApproveLoad, ApproveSeal, PromoteArchive, PromoteOpen, PromoteFill,
     DropProposal, DropReport, RenameCheck, RenameKept, RenameLoad, RenameOpen, RenameFill, RenameRemove, Crash

\* A record that passes checkSealed holds what shrt recorded.
LEMMA SealedRan ==
  ASSUME Shape, RunsSealed, NEW r \in Records, Sealed(r)
  PROVE  <<r.chain, r.id, r.body.content>> \in ran
<1>1. r.chain \in Chains /\ r.id \in RunIds
  BY DEF Records
<1> DEFINE d == runs[r.chain][r.id]
<1>2. d \in Records /\ d # None
  BY <1>1, Sentinels DEF Sealed, Readable, Shape, TypeOK
<1>3. d.body \in Bodies /\ d.seal = d.body /\ d.body.content = r.body.content
  BY <1>2 DEF Sealed, Records
<1>4. d.seal # None
  BY <1>3, Sentinels
<1> QED BY <1>1, <1>2, <1>3, <1>4 DEF RunsSealed

\* A command at a step past checkSealed came there from checkSealed.
LEMMA SealedInMemoryStep ==
  ASSUME Shape, RunsSealed, SealedInMemory, NEW p \in Procs, Step(p)
  PROVE  SealedInMemory'
<1> DEFINE S == {"p_spot", "p_report", "p_open", "p_fill", "a_spot", "a_open", "a_fill"}
<1>a. UNCHANGED <<runs, ran>>
  BY CommandRuns
<1>b. pc \in [Procs -> Labels] /\ DOMAIN rec = Procs
  BY DEF Shape, TypeOK
<1>c. SUFFICES \/ pc'[p] \notin S
               \/ pc[p] \in S /\ rec'[p] = rec[p]
               \/ Sealed(rec[p]) /\ rec[p] \in Records /\ rec'[p] = rec[p]
  <2>1. \A q \in Procs \ {p} : pc'[q] = pc[q] /\ rec'[q] = rec[q]
    BY <1>b, ZenonT(60) DEF disk, ghosts, Goto, Keep, End, Shape, TypeOK, Step, ProposeLoad, ProposeSeal, ProposeSpot,
       ProposeReport, ProposeOpen, ProposeFill, ApproveStart, ApproveProposal, ApproveMatch, Reject, ApproveLoad, ApproveSeal, PromoteArchive,
       PromoteOpen, PromoteFill, DropProposal, DropReport, RenameCheck, RenameKept, RenameLoad, RenameOpen, RenameFill,
       RenameRemove, Crash
  <2> QED BY <1>a, <1>c, <2>1, SealedRan DEF SealedInMemory
<1> USE <1>b DEF At, Goto, Keep, End, Labels, disk, ghosts
<1>1. ASSUME NEW c \in Chains, NEW i \in RunIds, NEW s \in BOOLEAN, ProposeLoad(p, c, i, s) PROVE pc'[p] \notin S \/ (pc[p] \in S /\ rec'[p] = rec[p])
  BY <1>1 DEF ProposeLoad
<1>2. CASE ProposeSeal(p)
  BY <1>2 DEF ProposeSeal, Shape, MemoryOK
<1>3. CASE ProposeSpot(p)
  BY <1>3 DEF ProposeSpot
<1>4. CASE ProposeReport(p)
  BY <1>4 DEF ProposeReport
<1>5. CASE ProposeOpen(p)
  BY <1>5 DEF ProposeOpen
<1>6. CASE ProposeFill(p)
  BY <1>6 DEF ProposeFill
<1>7. ASSUME NEW c \in Chains, ApproveStart(p, c) PROVE pc'[p] \notin S \/ (pc[p] \in S /\ rec'[p] = rec[p])
  BY <1>7 DEF ApproveStart
<1>22. CASE ApproveProposal(p)
  BY <1>22 DEF ApproveProposal
<1>23. CASE ApproveMatch(p)
  BY <1>23 DEF ApproveMatch
<1>24. CASE RenameKept(p)
  BY <1>24 DEF RenameKept
<1>8. ASSUME NEW c \in Chains, Reject(p, c) PROVE pc'[p] \notin S \/ (pc[p] \in S /\ rec'[p] = rec[p])
  BY <1>8 DEF Reject
<1>9. CASE ApproveLoad(p)
  BY <1>9 DEF ApproveLoad
<1>10. CASE ApproveSeal(p)
  BY <1>10 DEF ApproveSeal, Shape, MemoryOK
<1>11. CASE PromoteArchive(p)
  BY <1>11 DEF PromoteArchive
<1>12. CASE PromoteOpen(p)
  BY <1>12 DEF PromoteOpen
<1>13. CASE PromoteFill(p)
  BY <1>13 DEF PromoteFill
<1>14. CASE DropProposal(p)
  BY <1>14 DEF DropProposal
<1>15. CASE DropReport(p)
  BY <1>15 DEF DropReport
<1>16. ASSUME NEW from \in Chains, NEW to \in Chains, RenameCheck(p, from, to) PROVE pc'[p] \notin S \/ (pc[p] \in S /\ rec'[p] = rec[p])
  BY <1>16 DEF RenameCheck
<1>17. CASE RenameLoad(p)
  BY <1>17 DEF RenameLoad
<1>18. CASE RenameOpen(p)
  BY <1>18 DEF RenameOpen
<1>19. CASE RenameFill(p)
  BY <1>19 DEF RenameFill
<1>20. CASE RenameRemove(p)
  BY <1>20 DEF RenameRemove
<1>21. CASE Crash(p)
  BY <1>21 DEF Crash
<1> HIDE DEF S, At, Goto, Keep, End
<1> QED BY <1>1, <1>2, <1>3, <1>4, <1>5, <1>6, <1>7, <1>8, <1>9, <1>10, <1>11, <1>12, <1>13, <1>14, <1>15, <1>16, <1>17, <1>18, <1>19, <1>20, <1>21, <1>22, <1>23, <1>24 DEF Step

\* Backing survives every step: the history only grows.
LEMMA BackedGrows ==
  ASSUME NEW s, Backed(s), ran \subseteq ran', approvals \subseteq approvals'
  PROVE  \E a \in approvals' : ApprovalOf(s, a) /\ <<a.chain, a.run, a.content>> \in ran'
  BY DEF Backed

\* A rename carries a safe spot that was backed when it was read.
LEMMA RenamesBackedStep ==
  ASSUME Shape, SpotsApproved, RenamesBacked, NEW p \in Procs, Step(p),
         ran \subseteq ran', approvals \subseteq approvals'
  PROVE  RenamesBacked'
<1> DEFINE S == {"r_open", "r_fill"}
<1>a. pc \in [Procs -> Labels] /\ DOMAIN prev = Procs
  BY DEF Shape, TypeOK
<1>b. \A q \in Procs \ {p} : pc'[q] = pc[q] /\ prev'[q] = prev[q]
  BY <1>a DEF disk, ghosts, Goto, Keep, End, Step, ProposeLoad, ProposeSeal, ProposeSpot,
       ProposeReport, ProposeOpen, ProposeFill, ApproveStart, ApproveProposal, ApproveMatch, Reject, ApproveLoad, ApproveSeal, PromoteArchive,
       PromoteOpen, PromoteFill, DropProposal, DropReport, RenameCheck, RenameKept, RenameLoad, RenameOpen, RenameFill,
       RenameRemove, Crash
<1>c. \/ pc'[p] \notin S
      \/ pc[p] \in S /\ prev'[p] = prev[p]
      \/ /\ Readable(spots[arg[p]]) /\ DigestCurrent(spots[arg[p]])
         /\ prev'[p] = spots[arg[p]] /\ arg[p] \in Chains
  BY <1>a, ZenonT(60) DEF disk, ghosts, At, Goto, Keep, End, Labels, Shape, TypeOK, Step, ProposeLoad, ProposeSeal, ProposeSpot,
       ProposeReport, ProposeOpen, ProposeFill, ApproveStart, ApproveProposal, ApproveMatch, Reject, ApproveLoad, ApproveSeal, PromoteArchive,
       PromoteOpen, PromoteFill, DropProposal, DropReport, RenameCheck, RenameKept, RenameLoad, RenameOpen, RenameFill,
       RenameRemove, Crash
<1>d. \A q \in Procs : pc'[q] \in S => Backed(prev'[q]) /\ DigestCurrent(prev'[q])
  BY <1>b, <1>c DEF RenamesBacked, SpotsApproved, Backed
<1>e. SUFFICES ASSUME NEW q \in Procs, pc'[q] \in S
               PROVE  Backed(prev[q])' /\ DigestCurrent(prev[q])'
  BY DEF RenamesBacked
<1> QED BY <1>d, <1>e, BackedGrows DEF Backed, DigestCurrent

\* What a command may write into a safe spot file: nothing readable, the safe
\* spot it promotes, or the one it carries to another name.
Writable(p, c) ==
  {None, Torn}
  \cup {f \in {NewSpot(p)} : pc[p] = "a_fill" /\ c = arg[p] /\ f \in approvals'}
  \cup {f \in {[prev[p] EXCEPT !.chain = dest[p]]} : pc[p] = "r_fill"}

\* A step of a command leaves the safe spots alone, or writes one file: with
\* what Filled leaves of its new spot or its carried spot, torn, or removed.
LEMMA SpotsEffect ==
  ASSUME Shape, NEW p \in Procs, Step(p)
  PROVE  \/ UNCHANGED spots
         \/ \E c \in Chains : \E f \in Writable(p, c) : spots' = [spots EXCEPT ![c] = f]
<1>a. arg[p] \in Chains /\ dest[p] \in Chains
  BY DEF Shape, TypeOK
<1>1. CASE PromoteOpen(p)
  BY <1>1, <1>a DEF PromoteOpen, Writable
<1>2. CASE PromoteFill(p)
  <2>1. PICK f \in Filled(spots[arg[p]], NewSpot(p)) :
           /\ spots' = [spots EXCEPT ![arg[p]] = f]
           /\ approvals' = IF f = NewSpot(p) THEN approvals \cup {f} ELSE approvals
    BY <1>2 DEF PromoteFill
  <2>2. f \in {None, Torn} \/ (f = NewSpot(p) /\ f \in approvals')
    BY <2>1 DEF Filled
  <2>3. pc[p] = "a_fill"
    BY <1>2 DEF PromoteFill, At
  <2> QED BY <1>a, <2>1, <2>2, <2>3 DEF Writable
<1>3. CASE RenameOpen(p)
  BY <1>3, <1>a DEF RenameOpen, Writable
<1>4. CASE RenameFill(p)
  <2>1. PICK f \in Filled(spots[dest[p]], [prev[p] EXCEPT !.chain = dest[p]]) :
           spots' = [spots EXCEPT ![dest[p]] = f]
    BY <1>4 DEF RenameFill
  <2>2. f \in {None, Torn, [prev[p] EXCEPT !.chain = dest[p]]}
    BY <2>1 DEF Filled
  <2>3. pc[p] = "r_fill"
    BY <1>4 DEF RenameFill, At
  <2> QED BY <1>a, <2>1, <2>2, <2>3 DEF Writable
<1>5. CASE RenameRemove(p)
  BY <1>5, <1>a DEF RenameRemove, Writable
<1>6. ASSUME ~PromoteOpen(p), ~PromoteFill(p), ~RenameOpen(p), ~RenameFill(p), ~RenameRemove(p)
      PROVE  UNCHANGED spots
  BY <1>6 DEF disk, Step, ProposeLoad, ProposeSeal, ProposeSpot, ProposeReport, ProposeOpen, ProposeFill,
     ApproveStart, ApproveProposal, ApproveMatch, Reject, ApproveLoad, ApproveSeal, PromoteArchive, DropProposal, DropReport,
     RenameCheck, RenameKept, RenameLoad, Crash
<1> QED BY <1>1, <1>2, <1>3, <1>4, <1>5, <1>6

\* Whatever a command may write is backed.
LEMMA WritableBacked ==
  ASSUME Shape, Safe, NEW p \in Procs, NEW c \in Chains, NEW f \in Writable(p, c), Readable(f),
         UNCHANGED ran, approvals \subseteq approvals'
  PROVE  /\ \E a \in approvals' : ApprovalOf(f, a) /\ <<a.chain, a.run, a.content>> \in ran
         /\ DigestCurrent(f)
<1>1. CASE pc[p] = "a_fill" /\ f = NewSpot(p) /\ f \in approvals'
  <2>1. <<rec[p].chain, rec[p].id, rec[p].body.content>> \in ran /\ rec[p].chain = arg[p]
    BY <1>1 DEF Safe, SealedInMemory, Shape, MemoryOK
  <2> QED BY <1>1, <2>1 DEF NewSpot, ApprovalOf, DigestCurrent
<1>2. CASE pc[p] = "r_fill" /\ f = [prev[p] EXCEPT !.chain = dest[p]]
  <2>1. prev[p] \in Spots /\ Backed(prev[p]) /\ DigestCurrent(prev[p])
    BY <1>2 DEF Shape, MemoryOK, Safe, RenamesBacked
  <2>2. /\ f.run = prev[p].run /\ f.at = prev[p].at /\ f.digest = prev[p].digest
        /\ f.supersedes = prev[p].supersedes /\ f.content = prev[p].content
    BY <1>2, <2>1 DEF Spots
  <2> QED BY <2>1, <2>2 DEF Backed, ApprovalOf, DigestCurrent
<1> QED BY <1>1, <1>2 DEF Writable, Readable

\* So no command puts anything in place that is not backed.
LEMMA SpotsApprovedStep ==
  ASSUME Shape, Safe, NEW p \in Procs, Step(p), approvals \subseteq approvals'
  PROVE  SpotsApproved'
<1>a. UNCHANGED ran
  BY CommandRuns
<1>b. \A c \in Chains : Readable(spots[c]) => Backed(spots[c])
  BY DEF Safe, SpotsApproved, Backed
<1> SUFFICES ASSUME NEW c \in Chains, Readable(spots'[c])
             PROVE  \E a \in approvals' : ApprovalOf(spots'[c], a) /\ <<a.chain, a.run, a.content>> \in ran
  BY <1>a DEF SpotsApproved, Readable, ApprovalOf
<1>1. CASE spots'[c] = spots[c]
  BY <1>1, <1>b DEF Backed
<1>2. CASE spots'[c] # spots[c]
  <2>1. spots \in [Chains -> FileOf(Spots)]
    BY DEF Shape, TypeOK
  <2>2. spots'[c] \in Writable(p, c)
    BY <1>2, <2>1, SpotsEffect
  <2> QED BY <1>a, <2>2, WritableBacked
<1> QED BY <1>1, <1>2

\* Edits by hand change no seal, no digest and no command's memory.
LEMMA SafeEnvironment ==
  ASSUME Shape, Safe, Environment
  PROVE  Safe'
<1> USE DEF Safe, cmd
<1>a. ran \subseteq ran' /\ approvals \subseteq approvals'
  BY Grows DEF Next
<1>b. UNCHANGED cmd
  BY DEF Environment, SaveRun, EditRun, EditSpot, EditChain, Edited
<1>1. SealedInMemory'
  BY <1>a, <1>b DEF SealedInMemory
<1>2. RenamesBacked'
  <2> SUFFICES ASSUME NEW q \in Procs, pc'[q] \in {"r_open", "r_fill"}
               PROVE  Backed(prev[q])' /\ DigestCurrent(prev[q])'
    BY DEF RenamesBacked
  <2>1. Backed(prev[q]) /\ DigestCurrent(prev[q]) /\ prev'[q] = prev[q]
    BY <1>b DEF RenamesBacked
  <2> QED BY <1>a, <2>1, BackedGrows DEF Backed, DigestCurrent
<1>3. RunsSealed'
  <2>1. ASSUME NEW c \in Chains, NEW i \in RunIds, NEW x \in Contents, NEW ok \in BOOLEAN,
               SaveRun(c, i, x, ok)
        PROVE  RunsSealed'
    BY <2>1 DEF SaveRun, RunsSealed, Shape, TypeOK
  <2>2. ASSUME NEW c \in Chains, NEW i \in RunIds, NEW b \in Bodies, NEW keep \in BOOLEAN,
               NEW fmt \in BOOLEAN, EditRun(c, i, b, keep, fmt)
        PROVE  RunsSealed'
    <3> DEFINE r == IF keep THEN [runs[c][i] EXCEPT !.body = b]
                    ELSE [runs[c][i] EXCEPT !.body = b, !.seal = None, !.format = fmt]
    <3>1. runs[c][i] \in Records /\ runs[c][i] # None
      BY <2>2, Sentinels DEF EditRun, Readable, Shape, TypeOK
    <3>2. r.id = runs[c][i].id /\ r.chain = runs[c][i].chain /\ r.seal \in {runs[c][i].seal, None}
      BY <3>1 DEF Records
    <3>3. runs' = [runs EXCEPT ![c][i] = r] /\ UNCHANGED ran
      BY <2>2 DEF EditRun, Edited
    <3>4. runs \in [Chains -> [RunIds -> Records \cup {None}]]
      BY DEF Shape, TypeOK
    <3> HIDE DEF r
    <3> QED BY <3>1, <3>2, <3>3, <3>4, ZenonT(60) DEF RunsSealed
  <2>3. ASSUME NEW c \in Chains, NEW x \in Contents, EditSpot(c, x)
        PROVE  RunsSealed'
    BY <2>3 DEF EditSpot, Edited, RunsSealed
  <2>4. ASSUME NEW c \in Chains, NEW v \in Versions \cup {None}, EditChain(c, v)
        PROVE  RunsSealed'
    BY <2>4 DEF EditChain, Edited, RunsSealed
  <2> QED BY <2>1, <2>2, <2>3, <2>4 DEF Environment
<1>4. SpotsApproved'
  <2>1. \A c \in Chains : Readable(spots'[c]) =>
          /\ Readable(spots[c])
          /\ spots'[c].run = spots[c].run /\ spots'[c].at = spots[c].at
          /\ spots'[c].digest = spots[c].digest /\ spots'[c].supersedes = spots[c].supersedes
    <3>1. ASSUME NEW c \in Chains, NEW x \in Contents, EditSpot(c, x), NEW d \in Chains,
                 Readable(spots'[d])
          PROVE  /\ Readable(spots[d])
                 /\ spots'[d].run = spots[d].run /\ spots'[d].at = spots[d].at
                 /\ spots'[d].digest = spots[d].digest /\ spots'[d].supersedes = spots[d].supersedes
      <4>1. spots[c] \in Spots /\ Readable(spots[c])
        BY <3>1 DEF EditSpot, Readable, Shape, TypeOK, FileOf
      <4> DEFINE t == [spots[c] EXCEPT !.content = x]
      <4>2. /\ t.run = spots[c].run /\ t.at = spots[c].at
            /\ t.digest = spots[c].digest /\ t.supersedes = spots[c].supersedes
        BY <4>1 DEF Spots
      <4>3. spots' = [spots EXCEPT ![c] = t] /\ spots \in [Chains -> FileOf(Spots)]
        BY <3>1 DEF EditSpot, Shape, TypeOK
      <4> HIDE DEF t
      <4> QED BY <3>1, <4>1, <4>2, <4>3
    <3>2. ASSUME ~\E c \in Chains, x \in Contents : EditSpot(c, x)
          PROVE  UNCHANGED spots
      BY <3>2 DEF Environment, SaveRun, EditRun, EditChain
    <3> QED BY <3>1, <3>2 DEF Readable
  <2>2. SUFFICES ASSUME NEW c \in Chains, Readable(spots'[c])
                 PROVE  \E a \in approvals' : ApprovalOf(spots'[c], a) /\ <<a.chain, a.run, a.content>> \in ran'
    BY DEF SpotsApproved, Readable, ApprovalOf
  <2> QED BY <1>a, <2>1, <2>2 DEF SpotsApproved, ApprovalOf
<1> QED BY <1>1, <1>2, <1>3, <1>4

\* Every step keeps what is held in files and in memory backed by recorded runs.
LEMMA SafeStep == Shape /\ Safe /\ [Next]_vars => Safe'
<1> SUFFICES ASSUME Shape, Safe, [Next]_vars PROVE Safe'
  OBVIOUS
<1>a. ran \subseteq ran' /\ approvals \subseteq approvals'
  BY Grows
<1>1. CASE Environment
  BY <1>1, SafeEnvironment
<1>2. ASSUME NEW p \in Procs, Step(p)
      PROVE  Safe'
  <2>1. RunsSealed'
    BY <1>2, CommandRuns DEF Safe, RunsSealed
  <2>2. SealedInMemory'
    BY <1>2, SealedInMemoryStep DEF Safe
  <2>3. SpotsApproved'
    BY <1>2, <1>a, SpotsApprovedStep
  <2>4. RenamesBacked'
    BY <1>2, <1>a, RenamesBackedStep DEF Safe
  <2> QED BY <2>1, <2>2, <2>3, <2>4 DEF Safe
<1>3. CASE UNCHANGED vars
  BY <1>3 DEF vars, disk, cmd, ghosts, Safe, RunsSealed, SealedInMemory, SpotsApproved, RenamesBacked,
     Backed, Readable, ApprovalOf, DigestCurrent
<1> QED BY <1>1, <1>2, <1>3 DEF Next

\* The inductive invariant holds in every reachable state.
LEMMA Invariance == Spec => []IInv
<1>1. Init => IInv
  BY InitShape, InitSafe DEF IInv
<1>2. IInv /\ [Next]_vars => IInv'
  BY ShapeStep, SafeStep DEF IInv
<1> QED BY <1>1, <1>2, PTL DEF Spec

\* Whatever is in place as a safe spot goes back to an approval, of content
\* that a run of shrt recorded, for any number of processes and crashes.
THEOREM ApprovedOnly == Spec => []SpotsApproved
<1>1. IInv => SpotsApproved
  BY DEF IInv, Safe
<1> QED BY Invariance, <1>1, PTL
=============================================================================
