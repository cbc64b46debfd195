--------------------------- MODULE SafeSpotStore ---------------------------
(***************************************************************************)
(* The store of approved baselines: run records, pending proposals, safe   *)
(* spots and their archive, as the `shrt confirm` commands of several      *)
(* processes read and write them.  A command is a sequence of steps, one   *)
(* per file it reads for a decision or writes; a file that is read twice   *)
(* is read in two steps, and reads of different files in a row, which      *)
(* commute with each other and with whatever is written in between, are    *)
(* one.  Processes interleave, and one may be killed between any two       *)
(* steps.  People and other tools edit run records, safe spots and chain   *)
(* files in the meantime.                                                  *)
(*                                                                         *)
(* A file is None when it does not exist and Torn when it holds no JSON    *)
(* (truncated by os.WriteFile and not yet filled, or merge markers).       *)
(***************************************************************************)
EXTENDS Integers, FiniteSets

CONSTANTS Chains,      \* names of chains
          RunIds,      \* ids of run records
          Contents,    \* what a run recorded: its steps, vars, target, build
          Versions,    \* digests of a chain file
          KeptRed,     \* the versions that declare kept_red
          Procs,       \* shrt processes
          MaxClock,    \* bound: approvals
          MaxEdits,    \* bound: edits by hand
          MaxCrashes,  \* bound: killed processes
          None, Torn

ASSUME BoundsAssumption == MaxClock \in Nat /\ MaxEdits \in Nat /\ MaxCrashes \in Nat
ASSUME KeptRedAssumption == KeptRed \subseteq Versions

Bodies == [content : Contents, passed : BOOLEAN, version : Versions]
\* A record on disk.  seal is the body shrt wrote; None is a record without a
\* seal, and format says whether it shows it was written by a sealing build.
Records == [id : RunIds, chain : Chains, body : Bodies,
            seal : Bodies \cup {None}, format : BOOLEAN]
Proposals == [chain : Chains, run : RunIds, digest : Contents,
              supersede : BOOLEAN, replaces : RunIds \cup {None}]
Spots == [chain : Chains, run : RunIds, content : Contents, version : Versions,
          at : Nat, supersedes : RunIds \cup {None}, digest : Contents]
\* What a readable safe spot says, for the register.
Entries == [run : RunIds, content : Contents, digest : Contents, at : Nat]

ASSUME FilesAssumption ==
  /\ None # Torn
  /\ {None, Torn} \cap (Records \cup Proposals \cup Spots \cup Entries) = {}
  /\ {None, Torn} \cap (RunIds \cup Chains \cup Bodies \cup Versions \cup Contents) = {}

VARIABLES
  runs,       \* runs[c][id]: .shrt/runs/<chain>/<id>.json
  spots,      \* spots[c]: .shrt/safespots/<chain>.json
  archive,    \* archive[c]: the spots under .shrt/safespots/archive/<chain>
  pending,    \* pending[c]: .shrt/safespots/pending/<chain>.json
  report,     \* report[c]: the run the pending/<chain>.md shows
  chainFile,  \* chainFile[c]: digest of the file that declares name c
  pc, arg, dest, super, rec, prop, prev,   \* the command of each process
  ran,        \* history: <<chain, id, content>> of every run shrt recorded
  approvals,  \* history: every spot written by Promote
  meddled,    \* history: an edit by hand while an approval was at work
  clock, edits, crashes

disk == <<runs, spots, archive, pending, report, chainFile>>
cmd == <<pc, arg, dest, super, rec, prop, prev>>
ghosts == <<ran, approvals, meddled, clock, edits, crashes>>
vars == <<disk, cmd, ghosts>>

Labels == {"idle", "p_seal", "p_spot", "p_report", "p_open", "p_fill",
           "a_prop", "a_chain", "a_load", "a_seal", "a_spot", "a_open", "a_fill",
           "drop", "dropmd", "r_kept", "r_load", "r_open", "r_fill", "r_remove"}
\* The reads of an approval, before it writes.
Approving == {"a_prop", "a_chain", "a_load", "a_seal"}

Init ==
  /\ runs = [c \in Chains |-> [i \in RunIds |-> None]]
  /\ spots = [c \in Chains |-> None]
  /\ archive = [c \in Chains |-> {}]
  /\ pending = [c \in Chains |-> None]
  /\ report = [c \in Chains |-> None]
  /\ chainFile \in [Chains -> Versions \cup {None}]
  /\ pc = [p \in Procs |-> "idle"]
  /\ arg \in [Procs -> Chains] /\ dest = arg
  /\ super = [p \in Procs |-> FALSE]
  /\ rec = [p \in Procs |-> None]
  /\ prop = [p \in Procs |-> None]
  /\ prev = [p \in Procs |-> None]
  /\ ran = {} /\ approvals = {} /\ meddled = FALSE
  /\ clock = 0 /\ edits = 0 /\ crashes = 0

(***************************************************************************)
(* Helpers.  One that a plausible slip of the code would change has that   *)
(* slip beside it as a definition ending in Slip, used by no action.       *)
(***************************************************************************)
Readable(f) == f \notin {None, Torn}

\* The outcome of writing v to a file opened with O_TRUNC a step earlier: a
\* file removed in between stays removed, one filled in between by another
\* process may keep a tail of the other's bytes.
Filled(f, v) == IF f = None THEN {None} ELSE IF f = Torn THEN {v} ELSE {v, Torn}

\* vouch: LoadRun refuses a record whose seal does not match, or was removed
\* from a record that shows it had one; one without a seal is used as it is.
Vouched(r) == IF r.seal = None THEN ~r.format ELSE r.seal = r.body

Loadable(c, i) == Readable(runs[c][i]) /\ runs[c][i].chain = c /\ Vouched(runs[c][i])

\* checkSealed without the comparison of the seal.
SealedSlip(r) ==
  /\ Readable(runs[r.chain][r.id])
  /\ runs[r.chain][r.id].body.content = r.body.content

\* checkSealed: the record now on disk is sealed, unedited, and holds the
\* content of the one in memory.
Sealed(r) ==
  LET d == runs[r.chain][r.id]
  IN  /\ Readable(d)
      /\ d.seal = d.body
      /\ d.body.content = r.body.content

\* ComputeDigest covers the content a person approved.
DigestCurrent(s) == s.digest = s.content

NotKeptRed(c) == chainFile[c] \notin KeptRed

\* proposalChainMatches, for the run r that it loaded: a chain file that does
\* not load now, or is not the one that r ran, refuses.
ChainMatches(c, r) == chainFile[c] = r.body.version

At(p, from) == pc[p] = from
Goto(p, to) == pc' = [pc EXCEPT ![p] = to]
\* The command ends, with an error message or without; its memory is gone.
End(p) == /\ Goto(p, "idle")
          /\ rec' = [rec EXCEPT ![p] = None]
          /\ prop' = [prop EXCEPT ![p] = None]
          /\ prev' = [prev EXCEPT ![p] = None]
          /\ dest' = [dest EXCEPT ![p] = arg[p]]
          /\ super' = [super EXCEPT ![p] = FALSE]
          /\ UNCHANGED arg
Keep(p, to) == Goto(p, to) /\ UNCHANGED <<arg, dest, super, rec, prop, prev>>

(***************************************************************************)
(* shrt run records a run of the chain file as it is now                   *)
(***************************************************************************)
SaveRun(c, i, x, ok) ==
  /\ chainFile[c] # None
  /\ \A d \in Chains : runs[d][i] = None
  /\ LET b == [content |-> x, passed |-> ok, version |-> chainFile[c]]
     IN  runs' = [runs EXCEPT ![c][i] =
                    [id |-> i, chain |-> c, body |-> b, seal |-> b, format |-> TRUE]]
  /\ ran' = ran \cup {<<c, i, x>>}
  /\ UNCHANGED <<spots, archive, pending, report, chainFile, cmd,
                 approvals, meddled, clock, edits, crashes>>

(***************************************************************************)
(* shrt confirm <chain> -note: propose                                     *)
(***************************************************************************)
ProposeLoad(p, c, i, s) ==
  /\ At(p, "idle")
  /\ NotKeptRed(c) /\ Loadable(c, i) /\ runs[c][i].body.passed
  /\ Goto(p, "p_seal")
  /\ arg' = [arg EXCEPT ![p] = c]
  /\ super' = [super EXCEPT ![p] = s]
  /\ rec' = [rec EXCEPT ![p] = runs[c][i]]
  /\ UNCHANGED <<disk, ghosts, dest, prop, prev>>

ProposeSeal(p) ==
  /\ At(p, "p_seal")
  /\ IF Sealed(rec[p]) THEN Keep(p, "p_spot") ELSE End(p)
  /\ UNCHANGED <<disk, ghosts>>

\* An unreadable safe spot, or one without -supersede, refuses the proposal.
ProposeSpot(p) ==
  /\ At(p, "p_spot")
  /\ LET old == spots[arg[p]] IN
     IF old = Torn \/ (old # None /\ ~super[p])
     THEN End(p)
     ELSE /\ prop' = [prop EXCEPT ![p] =
                        [chain |-> arg[p], run |-> rec[p].id, digest |-> rec[p].body.content,
                         supersede |-> super[p],
                         replaces |-> IF old = None THEN None ELSE old.run]]
          /\ Goto(p, "p_report")
          /\ UNCHANGED <<arg, dest, super, rec, prev>>
  /\ UNCHANGED <<disk, ghosts>>

\* A report left by an earlier proposal is kept.
ProposeReportSlip(p) ==
  /\ At(p, "p_report")
  /\ report' = [report EXCEPT ![arg[p]] = IF @ = None THEN prop[p].run ELSE @]
  /\ Keep(p, "p_open")
  /\ UNCHANGED <<runs, spots, archive, pending, chainFile, ghosts>>

ProposeReport(p) ==
  /\ At(p, "p_report")
  /\ report' = [report EXCEPT ![arg[p]] = prop[p].run]
  /\ Keep(p, "p_open")
  /\ UNCHANGED <<runs, spots, archive, pending, chainFile, ghosts>>

ProposeOpen(p) ==
  /\ At(p, "p_open")
  /\ pending' = [pending EXCEPT ![arg[p]] = Torn]
  /\ Keep(p, "p_fill")
  /\ UNCHANGED <<runs, spots, archive, report, chainFile, ghosts>>

ProposeFill(p) ==
  /\ At(p, "p_fill")
  /\ \E f \in Filled(pending[arg[p]], prop[p]) :
        pending' = [pending EXCEPT ![arg[p]] = f]
  /\ End(p)
  /\ UNCHANGED <<runs, spots, archive, report, chainFile, ghosts>>

(***************************************************************************)
(* shrt confirm <chain> -approve -by <email>: Approve, Promote             *)
(***************************************************************************)
\* keptRedNeverConfirmed reads the chain file before anything else is read.
ApproveStart(p, c) ==
  /\ At(p, "idle") /\ clock < MaxClock /\ NotKeptRed(c)
  /\ Goto(p, "a_prop")
  /\ arg' = [arg EXCEPT ![p] = c]
  /\ UNCHANGED <<disk, ghosts, dest, super, rec, prop, prev>>

\* LoadProposal, and the run that proposalChainMatches loads: one that does not
\* load is not compared here, store.Approve refuses it.
ApproveProposal(p) ==
  /\ At(p, "a_prop")
  /\ LET q == pending[arg[p]] IN
     \/ /\ Readable(q)
        /\ prop' = [prop EXCEPT ![p] = q]
        /\ IF Loadable(q.chain, q.run)
           THEN Goto(p, "a_chain") /\ rec' = [rec EXCEPT ![p] = runs[q.chain][q.run]]
           ELSE Goto(p, "a_load") /\ UNCHANGED rec
        /\ UNCHANGED <<arg, dest, super, prev>>
     \/ ~Readable(q) /\ End(p)
  /\ UNCHANGED <<disk, ghosts>>

\* Another chain file is only warned of, as when the run was proposed.
ApproveMatchSlip(p) ==
  /\ At(p, "a_chain")
  /\ Keep(p, "a_load")
  /\ UNCHANGED <<disk, ghosts>>

\* proposalChainMatches reads the chain file a second time.
ApproveMatch(p) ==
  /\ At(p, "a_chain")
  /\ IF ChainMatches(prop[p].chain, rec[p]) THEN Keep(p, "a_load") ELSE End(p)
  /\ UNCHANGED <<disk, ghosts>>

\* store.Approve loads the proposal again, and the run it names.
ApproveLoad(p) ==
  /\ At(p, "a_load")
  /\ LET q == pending[arg[p]] IN
     IF Readable(q) /\ Loadable(q.chain, q.run)
        /\ runs[q.chain][q.run].body.content = q.digest
     THEN /\ rec' = [rec EXCEPT ![p] = runs[q.chain][q.run]]
          /\ prop' = [prop EXCEPT ![p] = q]
          /\ Goto(p, "a_seal")
          /\ UNCHANGED <<arg, dest, super, prev>>
     ELSE End(p)
  /\ UNCHANGED <<disk, ghosts>>

\* The proposal is dropped although its run is refused.
ApproveSealSlip(p) ==
  /\ At(p, "a_seal")
  /\ Keep(p, IF Sealed(rec[p]) /\ rec[p].body.passed THEN "a_spot" ELSE "drop")
  /\ UNCHANGED <<disk, ghosts>>

ApproveSeal(p) ==
  /\ At(p, "a_seal")
  /\ IF Sealed(rec[p]) /\ rec[p].body.passed THEN Keep(p, "a_spot") ELSE End(p)
  /\ UNCHANGED <<disk, ghosts>>

\* Nothing is archived when the proposal carries -supersede.
PromoteArchiveSlip(p) ==
  /\ At(p, "a_spot")
  /\ LET old == spots[arg[p]] IN
     IF old = Torn \/ (old # None /\ ~prop[p].supersede)
     THEN End(p)
     ELSE /\ prev' = [prev EXCEPT ![p] = old]
          /\ Goto(p, "a_open")
          /\ UNCHANGED <<arg, dest, super, rec, prop>>
  /\ UNCHANGED <<disk, ghosts>>

\* Promote: what is in place is archived before it is written over.
PromoteArchive(p) ==
  /\ At(p, "a_spot")
  /\ LET old == spots[arg[p]] IN
     IF old = Torn \/ (old # None /\ ~prop[p].supersede)
     THEN End(p) /\ UNCHANGED archive
     ELSE /\ prev' = [prev EXCEPT ![p] = old]
          /\ archive' = IF old = None THEN archive
                        ELSE [archive EXCEPT ![arg[p]] = @ \cup {old}]
          /\ Goto(p, "a_open")
          /\ UNCHANGED <<arg, dest, super, rec, prop>>
  /\ UNCHANGED <<runs, spots, pending, report, chainFile, ghosts>>

PromoteOpen(p) ==
  /\ At(p, "a_open")
  /\ spots' = [spots EXCEPT ![arg[p]] = Torn]
  /\ Keep(p, "a_fill")
  /\ UNCHANGED <<runs, archive, pending, report, chainFile, ghosts>>

\* The whole safe spot where its run id belongs.
NewSpotSlip(p) ==
  [chain |-> arg[p], run |-> rec[p].id, content |-> rec[p].body.content,
   version |-> rec[p].body.version, at |-> clock,
   supersedes |-> prev[p], digest |-> rec[p].body.content]

NewSpot(p) ==
  [chain |-> arg[p], run |-> rec[p].id, content |-> rec[p].body.content,
   version |-> rec[p].body.version, at |-> clock,
   supersedes |-> IF prev[p] = None THEN None ELSE prev[p].run,
   digest |-> rec[p].body.content]

PromoteFill(p) ==
  /\ At(p, "a_fill")
  /\ \E f \in Filled(spots[arg[p]], NewSpot(p)) :
        /\ spots' = [spots EXCEPT ![arg[p]] = f]
        /\ approvals' = IF f = NewSpot(p) THEN approvals \cup {f} ELSE approvals
  /\ clock' = clock + 1
  /\ Keep(p, "drop")
  /\ UNCHANGED <<runs, archive, pending, report, chainFile, ran, meddled, edits, crashes>>

(***************************************************************************)
(* DropProposal: the end of Approve, and the whole of -reject, which       *)
(* removes the report even when nothing is pending                         *)
(***************************************************************************)
Reject(p, c) ==
  /\ At(p, "idle")
  /\ Goto(p, "drop")
  /\ arg' = [arg EXCEPT ![p] = c]
  /\ UNCHANGED <<disk, ghosts, dest, super, rec, prop, prev>>

DropProposal(p) ==
  /\ At(p, "drop")
  /\ pending' = [pending EXCEPT ![arg[p]] = None]
  /\ Keep(p, "dropmd")
  /\ UNCHANGED <<runs, spots, archive, report, chainFile, ghosts>>

DropReport(p) ==
  /\ At(p, "dropmd")
  /\ report' = [report EXCEPT ![arg[p]] = None]
  /\ End(p)
  /\ UNCHANGED <<runs, spots, archive, pending, chainFile, ghosts>>

(***************************************************************************)
(* shrt confirm <to> -rename-from <from> -by <email>                       *)
(***************************************************************************)
\* renameDifference: the chain is, apart from its name, the one that was confirmed.
PureRename(from, to) == spots[from].version = chainFile[to]

\* Pending proposals of the two names are not looked for.
RenameCheckSlip(p, from, to) ==
  /\ At(p, "idle") /\ from # to
  /\ chainFile[to] # None /\ chainFile[from] = None
  /\ Readable(spots[from]) /\ spots[to] = None
  /\ PureRename(from, to)
  /\ Goto(p, "r_kept")
  /\ arg' = [arg EXCEPT ![p] = from]
  /\ dest' = [dest EXCEPT ![p] = to]
  /\ UNCHANGED <<disk, ghosts, super, rec, prop, prev>>

RenameCheck(p, from, to) ==
  /\ At(p, "idle") /\ from # to
  /\ chainFile[to] # None /\ chainFile[from] = None
  /\ Readable(spots[from]) /\ spots[to] = None
  /\ pending[from] = None /\ pending[to] = None
  /\ PureRename(from, to)
  /\ Goto(p, "r_kept")
  /\ arg' = [arg EXCEPT ![p] = from]
  /\ dest' = [dest EXCEPT ![p] = to]
  /\ UNCHANGED <<disk, ghosts, super, rec, prop, prev>>

\* keptRedNeverConfirmed reads the file of the new name once more.
RenameKept(p) ==
  /\ At(p, "r_kept")
  /\ IF NotKeptRed(dest[p]) THEN Keep(p, "r_load") ELSE End(p)
  /\ UNCHANGED <<disk, ghosts>>

RenameLoad(p) ==
  /\ At(p, "r_load")
  /\ LET s == spots[arg[p]] IN
     IF Readable(s) /\ DigestCurrent(s) /\ spots[dest[p]] = None
     THEN /\ prev' = [prev EXCEPT ![p] = s]
          /\ Goto(p, "r_open")
          /\ UNCHANGED <<arg, dest, super, rec, prop>>
     ELSE End(p)
  /\ UNCHANGED <<disk, ghosts>>

\* The old name is removed before the new one is written.
RenameOpenSlip(p) ==
  /\ At(p, "r_open")
  /\ spots' = [spots EXCEPT ![dest[p]] = Torn, ![arg[p]] = None]
  /\ Keep(p, "r_fill")
  /\ UNCHANGED <<runs, archive, pending, report, chainFile, ghosts>>

RenameOpen(p) ==
  /\ At(p, "r_open")
  /\ spots' = [spots EXCEPT ![dest[p]] = Torn]
  /\ Keep(p, "r_fill")
  /\ UNCHANGED <<runs, archive, pending, report, chainFile, ghosts>>

RenameFill(p) ==
  /\ At(p, "r_fill")
  /\ \E f \in Filled(spots[dest[p]], [prev[p] EXCEPT !.chain = dest[p]]) :
        spots' = [spots EXCEPT ![dest[p]] = f]
  /\ Keep(p, "r_remove")
  /\ UNCHANGED <<runs, archive, pending, report, chainFile, ghosts>>

RenameRemove(p) ==
  /\ At(p, "r_remove")
  /\ spots' = [spots EXCEPT ![arg[p]] = None]
  /\ End(p)
  /\ UNCHANGED <<runs, archive, pending, report, chainFile, ghosts>>

(***************************************************************************)
(* What happens around the commands                                        *)
(***************************************************************************)
\* A killed process leaves the files as they are.
Crash(p) ==
  /\ ~At(p, "idle") /\ crashes < MaxCrashes
  /\ crashes' = crashes + 1
  /\ End(p)
  /\ UNCHANGED <<disk, ran, approvals, meddled, clock, edits>>

Edited == /\ edits < MaxEdits /\ edits' = edits + 1
          /\ meddled' = (meddled \/ \E p \in Procs : pc[p] \in Approving)
          /\ UNCHANGED <<cmd, ran, approvals, clock, crashes>>

\* A run record is changed by hand, one part of its body at a time: with its seal
\* kept, or taken out of a record that still shows it was written by a sealing
\* build (fmt) or no longer does.
EditRun(c, i, b, keep, fmt) ==
  /\ Edited /\ Readable(runs[c][i])
  /\ Cardinality({f \in DOMAIN b : b[f] # runs[c][i].body[f]}) <= 1
  /\ runs' = [runs EXCEPT ![c][i] =
                IF keep THEN [runs[c][i] EXCEPT !.body = b]
                ELSE [runs[c][i] EXCEPT !.body = b, !.seal = None, !.format = fmt]]
  /\ runs' # runs
  /\ UNCHANGED <<spots, archive, pending, report, chainFile>>

\* A safe spot is changed by hand: its digest is the one it had.
EditSpot(c, x) ==
  /\ Edited /\ Readable(spots[c])
  /\ spots' = [spots EXCEPT ![c] = [spots[c] EXCEPT !.content = x]]
  /\ UNCHANGED <<runs, archive, pending, report, chainFile>>

\* A chain file is edited, added, deleted or renamed, or another branch is
\* checked out.
EditChain(c, v) ==
  /\ Edited /\ chainFile' = [chainFile EXCEPT ![c] = v]
  /\ UNCHANGED <<runs, spots, archive, pending, report>>

Step(p) ==
  \/ \E c \in Chains, i \in RunIds, s \in BOOLEAN : ProposeLoad(p, c, i, s)
  \/ ProposeSeal(p) \/ ProposeSpot(p) \/ ProposeReport(p) \/ ProposeOpen(p) \/ ProposeFill(p)
  \/ \E c \in Chains : ApproveStart(p, c) \/ Reject(p, c)
  \/ ApproveProposal(p) \/ ApproveMatch(p) \/ ApproveLoad(p) \/ ApproveSeal(p)
  \/ PromoteArchive(p) \/ PromoteOpen(p) \/ PromoteFill(p)
  \/ DropProposal(p) \/ DropReport(p)
  \/ \E from, to \in Chains : RenameCheck(p, from, to)
  \/ RenameKept(p) \/ RenameLoad(p) \/ RenameOpen(p) \/ RenameFill(p) \/ RenameRemove(p)
  \/ Crash(p)

Environment ==
  \/ \E c \in Chains, i \in RunIds, x \in Contents, ok \in BOOLEAN : SaveRun(c, i, x, ok)
  \/ \E c \in Chains, i \in RunIds, b \in Bodies, keep, fmt \in BOOLEAN :
        EditRun(c, i, b, keep, fmt)
  \/ \E c \in Chains, x \in Contents : EditSpot(c, x)
  \/ \E c \in Chains, v \in Versions \cup {None} : EditChain(c, v)

Next == Environment \/ \E p \in Procs : Step(p)

Spec == Init /\ [][Next]_vars

\* What the promise is about: what the readable safe spots say, and which
\* approvals, by their number, are in an archive.
recordedRuns == {<<r[2], r[3]>> : r \in ran}
BaselineOf(f) ==
  IF Readable(f) THEN [run |-> f.run, content |-> f.content, digest |-> f.digest, at |-> f.at]
  ELSE None
baselines == [c \in Chains |-> BaselineOf(spots[c])]
archivedAt == {s.at : s \in UNION {archive[c] : c \in Chains}}
Register == INSTANCE BaselineRegister WITH
              recorded <- recordedRuns, baseline <- baselines, archived <- archivedAt, count <- clock

(***************************************************************************)
(* Properties                                                              *)
(***************************************************************************)
FileOf(S) == S \cup {None, Torn}

\* Every file, and every command's memory, has the shape the code gives it.
TypeOK ==
  /\ runs \in [Chains -> [RunIds -> Records \cup {None}]]
  /\ spots \in [Chains -> FileOf(Spots)]
  /\ archive \in [Chains -> SUBSET Spots]
  /\ pending \in [Chains -> FileOf(Proposals)]
  /\ report \in [Chains -> RunIds \cup {None}]
  /\ chainFile \in [Chains -> Versions \cup {None}]
  /\ pc \in [Procs -> Labels]
  /\ arg \in [Procs -> Chains] /\ dest \in [Procs -> Chains]
  /\ super \in [Procs -> BOOLEAN]
  /\ rec \in [Procs -> Records \cup {None}]
  /\ prop \in [Procs -> Proposals \cup {None}]
  /\ prev \in [Procs -> Spots \cup {None}]
  /\ ran \subseteq Chains \X RunIds \X Contents
  /\ approvals \subseteq Spots
  /\ meddled \in BOOLEAN
  /\ clock \in Nat /\ edits \in Nat /\ crashes \in Nat

\* An approval is the one s came from: a rename changes only the chain it is
\* kept under, an edit by hand only the content, never what its digest covers.
ApprovalOf(s, a) ==
  a.run = s.run /\ a.at = s.at /\ a.content = s.digest /\ a.supersedes = s.supersedes

\* Whatever is in place as a safe spot goes back to an approval, and what was
\* approved is content that a run of shrt recorded, whoever edited the run
\* record, the proposal or the chain in between (Propose, Approve: checkSealed
\* and the digest comparison, proposal.go:81 and :147).
SpotsApproved ==
  \A c \in Chains : Readable(spots[c]) =>
    \E a \in approvals :
       ApprovalOf(spots[c], a) /\ <<a.chain, a.run, a.content>> \in ran

\* Commands that run one at a time implement the register: whatever is killed
\* and edited, a baseline is set only where none is in place, carried only with
\* the content that was approved, and goes away only when the same approval is
\* in the archive or under another chain.
ImplementsRegister == Register!Spec

\* No approval is lost: each is in place under some chain, or in an archive
\* (Promote archives before it writes, RenameSafeSpot writes before it removes).
NothingLost ==
  \A a \in approvals : \E c \in Chains :
     \/ Readable(spots[c]) /\ spots[c].at = a.at
     \/ \E s \in archive[c] : s.at = a.at

\* A chain kept red is never confirmed: the chain file is read, then the proposal
\* and its run, then the chain file again, then the proposal and its run again
\* (cmd_confirm.go:96, proposalchain.go:32 and :36, proposal.go:135 and :139), and
\* still no run of a version that declares kept_red is promoted, however the files
\* were edited before -approve began; an edit in between defeats the check.
KeptRedNeverConfirmed == \A a \in approvals : a.version \in KeptRed => meddled

\* A command that promotes: Promote has read what is in place.
Promotes(p) == At(p, "a_spot") /\ pc'[p] = "a_open"

\* What an approval archives and writes over is the safe spot its proposal says
\* it replaces, and nothing when it names none (the report's row "replaces"); an
\* approval killed before it dropped its proposal may be repeated over itself.
ReplacesNamed ==
  [][\A p \in Procs : Promotes(p) =>
       \/ prop[p].replaces = IF prev'[p] = None THEN None ELSE prev'[p].run
       \/ crashes > 0 /\ prev'[p] # None /\ prev'[p].run = prop[p].run]_vars

\* The report under pending/ that ends in "approve:" shows the run which that
\* approval promotes, unless a propose was killed after it wrote its report.
ReportShowsPromoted ==
  [][\A p \in Procs : Promotes(p) /\ crashes = 0 => report[arg[p]] = rec[p].id]_vars

\* A proposal leaves pending/ only when it is rejected, or when Approve ends
\* with the safe spot it proposed in place.
ProposalDecided ==
  [][\A c \in Chains : Readable(pending[c]) /\ pending'[c] = None =>
       \E p \in Procs :
          /\ At(p, "drop") /\ arg[p] = c
          /\ \/ prop[p] = None
             \/ prop[p] = pending[c] /\ Readable(spots[c])
                /\ spots[c].run = pending[c].run]_vars
=============================================================================
