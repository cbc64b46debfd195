------------------------------ MODULE ChainPin ------------------------------
(***************************************************************************)
(* shrt chain slice -write and shrt chain pin in one working copy: the     *)
(* chain file, the slice files next to it and the newest run record.       *)
(* slice cuts a chain down to what one step needs, and with -verify runs   *)
(* the result three times and records the verdict in it.  pin takes a red  *)
(* chain apart: it slices the first failing step, keeps the defect red in  *)
(* the slice, cuts the step and what reads it from the chain, and runs the *)
(* chain again, until it passes.  A person runs the chain, may slice it    *)
(* herself, and any command may be killed between two of its writes.       *)
(***************************************************************************)
EXTENDS SliceVerdict

CONSTANTS Programs,    \* chains with their backends, as module SliceVerdict has them
          Values,      \* fresh values a person passes with -var
          Repeats,     \* how often -verify runs the slice
          MaxCommands, \* bound: commands a person gives
          MaxOutages,  \* bound: runs that the backend goes down in
          MaxKills     \* bound: commands killed

\* What the description of a slice file says of it.
Words == {"HYPOTHESIS", "VERIFIED", "NOT REPRODUCED", "INCONCLUSIVE", "INTERMITTENT"}

\* A step reads earlier steps only, and no slice file is None.
ASSUME ProgramsAssumption == \A q \in Programs : q.n \in Nat /\ \A s \in 1 .. q.n : Refs(q, s) \subseteq 1 .. s - 1
ASSUME NoneAssumption == None \notin [steps : SUBSET Nat, relaxed : SUBSET Nat, pins : SUBSET Nat, says : Words]
ASSUME BoundsAssumption == {MaxCommands, MaxOutages, MaxKills} \subseteq Nat /\ Repeats \in Nat \ {0}

VARIABLES
  p,        \* the program
  chain,    \* the steps the chain file has
  notes,    \* lines pin added to its description: what is kept red where
  files,    \* files[t]: the slice file for step t, or None
  newest,   \* the newest run record of the chain that is no replay, or None; own: of
            \* the chain file, not of a slice that is the whole chain
  seen,     \* fresh values the backend has records under
  cmd,      \* the command: its kind, -verify, and the fresh value given
  pc, exit, \* its next step, and how the last one ended
  round, size,      \* pin: rounds so far, and the steps of the chain it last loaded
  rec,      \* the run record the command works from
  group,    \* the failing steps that are kept red together, the first is the target
  keep, attempt,    \* steps to keep beside them, and how often pin tried
  now,      \* the results of the run in progress
  created,  \* the slice file was not there before
  verdicts, \* of the runs of the slice so far
  verdict,  \* the combined one
  had, shown,       \* history: slice files before the command; slices seen to reproduce
  commands, outages, kills

world == <<newest, seen, outages>>
disk == <<chain, notes, files>>
memory == <<round, size, rec, group, keep, attempt, now, created, verdicts, verdict>>
counts == <<commands, kills>>
vars == <<p, disk, world, cmd, pc, exit, memory, had, shown, counts>>

Steps == 1 .. p.n
NoCommand == [kind |-> "none", verify |-> FALSE, value |-> None]

Init ==
  /\ p \in Programs
  /\ chain = Steps /\ notes = {} /\ files = [t \in Steps |-> None]
  /\ newest = None /\ seen = {}
  /\ cmd = NoCommand /\ pc = "idle" /\ exit = "none"
  /\ round = 0 /\ size = 0 /\ rec = None /\ group = {} /\ keep = {} /\ attempt = 0 /\ now = <<>>
  /\ created = FALSE /\ verdicts = <<>> /\ verdict = None
  /\ had = {} /\ shown = {} /\ commands = 0 /\ outages = 0 /\ kills = 0

Goto(l) == pc' = l /\ UNCHANGED <<cmd, exit, counts>>
Ends(e) == pc' = "idle" /\ exit' = e /\ UNCHANGED <<cmd, counts>>

(***************************************************************************)
(* The backend, and a person                                               *)
(***************************************************************************)
May == pc = "idle" /\ commands < MaxCommands /\ commands' = commands + 1

\* shrt run of the chain, which leaves a record.
RunChain ==
  /\ May /\ cmd' = [NoCommand EXCEPT !.kind = "run"] /\ pc' = "run" /\ exit' = "none" /\ now' = <<>>
  /\ UNCHANGED <<p, disk, world, round, size, rec, group, keep, attempt, created, verdicts, verdict, had, shown, kills>>

StartSlice ==
  /\ May /\ newest # None
  /\ \E t \in chain, k \in {{}, p.write}, v \in BOOLEAN,
        x \in {None} \cup IF p.fresh = {} THEN {} ELSE Values :
       /\ cmd' = [kind |-> "slice", verify |-> v, value |-> x]
       /\ group' = {t} /\ keep' = {w \in chain \cap k : w < t}
  /\ rec' = newest /\ pc' = "slice" /\ exit' = "none" /\ had' = {t \in Steps : files[t] # None}
  /\ verdicts' = <<>> /\ verdict' = None
  /\ UNCHANGED <<p, disk, world, round, size, attempt, now, created, shown, kills>>

StartPin ==
  /\ May
  /\ cmd' = [NoCommand EXCEPT !.kind = "pin", !.verify = TRUE]
  /\ pc' = "round" /\ exit' = "none" /\ had' = {t \in Steps : files[t] # None}
  /\ round' = 0 /\ size' = Cardinality(chain)
  /\ verdicts' = <<>> /\ verdict' = None
  /\ UNCHANGED <<p, disk, world, rec, group, keep, attempt, now, created, shown, kills>>

\* A checkout brings back the chain file that was there before pin.
Checkout ==
  /\ pc = "idle" /\ chain # Steps /\ chain' = Steps /\ notes' = {}
  /\ UNCHANGED <<p, files, world, cmd, pc, exit, memory, had, shown, counts>>

(***************************************************************************)
(* chain slice                                                             *)
(***************************************************************************)
target == First(group)
kept == Kept(p, group \cup keep)
red == cmd.kind = "pin"

\* keptStepPins: failing steps before or beside the target that the run goes past.
StepPins == IF red THEN (kept \ {target}) \cap (group \cup Relaxable(p, rec.res)) ELSE {}
\* relaxIn: without -keep-red they are run without their expectations.
Relaxed == IF red THEN {} ELSE (kept \ {target}) \cap Relaxable(p, rec.res)

\* freshVarsError: a kept write creates with a value that was not given anew.
ReusesValue == kept \cap p.fresh # {} /\ cmd.value = None

\* A slice of the same step is there: its verdict is kept whatever it holds.
MayOverwriteSlip == [says |-> IF files[target] = None THEN "HYPOTHESIS" ELSE files[target].says, ok |-> TRUE]

\* mayOverwriteSlice: what the new file says, and whether it may be written.
MayOverwrite ==
  LET old == files[target]
      same == old # None /\ old.steps = kept /\ old.relaxed = Relaxed /\ old.pins = {}
  IN  IF cmd.verify \/ old = None \/ old.says # "VERIFIED" THEN [says |-> "HYPOTHESIS", ok |-> TRUE]
      ELSE [says |-> old.says, ok |-> same]

\* A slice that keeps the whole chain is the chain: no file is written.
whole == ~red /\ kept = chain

File(pins, says) == [steps |-> kept, relaxed |-> Relaxed, pins |-> pins, says |-> says]
Write(f) == files' = [files EXCEPT ![target] = f] /\ UNCHANGED <<chain, notes>>

Refused == \/ cmd.verify /\ (~Reached(rec.res, target) \/ ReusesValue)
           \/ ~whole /\ ~MayOverwrite.ok

Slice ==
  /\ pc = "slice"
  /\ IF Refused THEN Ends(IF red THEN "not_pinned" ELSE "refused")
     ELSE IF cmd.verify THEN Goto("repeat") ELSE Ends("written")
  /\ IF Refused \/ whole THEN UNCHANGED disk ELSE Write(File(StepPins, MayOverwrite.says))
  /\ created' = (~whole /\ files[target] = None)
  /\ now' = <<>> /\ verdicts' = <<>> /\ verdict' = None
  /\ UNCHANGED <<p, world, round, size, rec, group, keep, attempt, had, shown>>

\* Each run creates with the value given.
RepeatValueSlip(i) == <<cmd.value, 1>>

\* repeatVars: each run creates with a value of its own.
RepeatValue(i) == <<cmd.value, i>>

\* No more runs when the first did not reach the step.
LastRun(vs) == Len(vs) = Repeats \/ (Len(vs) = 1 /\ vs[1].outcome = "did_not_run")

\* The run in progress: of the chain, or of the slice.
running == IF pc = "run" THEN chain ELSE kept
manner == [going |-> IF pc = "run" THEN red ELSE StepPins # {},
           relaxed |-> IF pc = "run" THEN {} ELSE Relaxed,
           stale |-> pc = "repeat" /\ RepeatValue(Len(verdicts) + 1) \in seen,
           down |-> outages < MaxOutages]
toRun == ToRun(running, manner, now)

\* The value under which the run of the slice created a record.
Created == IF pc = "repeat" /\ \E s \in p.fresh \cap DOMAIN now : now[s] \in {"passed", "failed", "held"}
           THEN {RepeatValue(Len(verdicts) + 1)} ELSE {}

Kill ==
  /\ pc # "idle" /\ kills < MaxKills /\ kills' = kills + 1
  /\ pc' = "idle" /\ exit' = "killed" /\ seen' = seen \cup Created
  /\ UNCHANGED <<p, disk, newest, outages, cmd, memory, had, shown, commands>>

RunStep ==
  /\ pc \in {"run", "repeat"} /\ toRun # {}
  /\ LET s == First(toRun) IN
     \E r \in StepResults(p, manner, now, s) :
       /\ now' = [q \in DOMAIN now \cup {s} |-> IF q = s THEN r ELSE now[q]]
       /\ outages' = IF r = "error" THEN outages + 1 ELSE outages
  /\ UNCHANGED <<p, disk, newest, seen, cmd, pc, exit, round, size, rec, group, keep, attempt, created, verdicts, verdict, had, shown, counts>>

\* The run of the chain is saved.
RunEnds ==
  /\ pc = "run" /\ toRun = {}
  /\ newest' = [chain |-> chain, res |-> now, own |-> TRUE]
  /\ IF red THEN rec' = newest' /\ Goto("look") ELSE Ends("ran") /\ UNCHANGED rec
  /\ UNCHANGED <<p, disk, seen, outages, round, size, group, keep, attempt, now, created, verdicts, verdict, had, shown>>

\* A run of a slice that is the whole chain is saved as one of the chain.  It is not
\* taken for the chain's own: what ran has the description of a slice.
Saved == IF whole THEN [chain |-> chain, res |-> now, own |-> FALSE] ELSE newest

\* A run that did not reach the step is taken again.
RepeatSlip ==
  /\ pc = "repeat" /\ toRun = {}
  /\ \E v \in {RunVerdict(p, chain, rec.res, kept, target, group, keep, now, ~manner.stale)} :
       IF v.outcome = "did_not_run" THEN Goto("repeat") /\ UNCHANGED <<verdicts, shown>>
       ELSE /\ verdicts' = Append(verdicts, v)
            /\ shown' = shown \cup {<<target, kept, Relaxed>>}
            /\ IF LastRun(Append(verdicts, v)) THEN Goto("record") ELSE Goto("repeat")
  /\ now' = <<>> /\ seen' = seen \cup Created /\ newest' = Saved
  /\ UNCHANGED <<p, disk, outages, round, size, rec, group, keep, attempt, created, verdict, had>>

\* A run of the slice is saved, and compared with the source run.
Repeat ==
  /\ pc = "repeat" /\ toRun = {}
  /\ \E v \in {RunVerdict(p, chain, rec.res, kept, target, group, keep, now, ~manner.stale)} :
       /\ verdicts' = Append(verdicts, v)
       /\ shown' = IF Answer(p, now, target) = Answer(p, rec.res, target) /\ ~v.broke
                   THEN shown \cup {<<target, kept, Relaxed>>} ELSE shown
       /\ IF LastRun(Append(verdicts, v)) THEN Goto("record") ELSE Goto("repeat")
  /\ now' = <<>> /\ seen' = seen \cup Created /\ newest' = Saved
  /\ UNCHANGED <<p, disk, outages, round, size, rec, group, keep, attempt, created, verdict, had>>

Says == [reproduced |-> "VERIFIED", not_reproduced |-> "NOT REPRODUCED",
         inconclusive |-> "INCONCLUSIVE", intermittent |-> "INTERMITTENT"]

\* A slice that was not reproduced stays.
RecordedSlip(v) ==
  IF whole \/ v.outcome = "did_not_run" THEN files[target]
  ELSE File(IF red /\ v.outcome = "reproduced" THEN kept \cap Failures(v.res) ELSE StepPins, Says[v.outcome])

\* recordSliceVerdict and what follows it: a slice kept red pins what the run
\* that speaks for all failed on, and is removed when it did not reproduce and
\* was not there before.
Recorded(v) ==
  IF red /\ v.outcome # "reproduced" /\ created THEN None
  ELSE IF whole \/ v.outcome = "did_not_run" THEN files[target]
  ELSE File(IF red /\ v.outcome = "reproduced" THEN kept \cap Failures(v.res) ELSE StepPins, Says[v.outcome])

Record ==
  /\ pc = "record"
  /\ LET v == Combined(verdicts) IN
     /\ verdict' = v
     /\ Write(Recorded(v))
     /\ IF red THEN Goto("after") ELSE Ends(v.outcome)
  /\ UNCHANGED <<p, world, round, size, rec, group, keep, attempt, now, created, verdicts, had, shown>>

(***************************************************************************)
(* chain pin                                                               *)
(***************************************************************************)
\* The bound is the length of the chain that the round before this one loaded.
More == round <= size

\* The newest record is trusted until pin has cut something itself.
StaleSlip == newest = None \/ (round > 0 /\ newest.chain # chain)

\* The newest record is of another chain, or did not run every step.
Stale == newest = None \/ newest.chain # chain \/ ~newest.own \/ DOMAIN newest.res # chain

Round ==
  /\ pc = "round"
  /\ IF ~More
     THEN Ends("still_red") /\ UNCHANGED <<size, rec>>
     ELSE /\ size' = Cardinality(chain) /\ rec' = newest
          /\ IF Stale THEN Goto("run") ELSE Goto("look")
  /\ now' = <<>>
  /\ UNCHANGED <<p, disk, world, round, group, keep, attempt, created, verdicts, verdict, had, shown>>

failing == Failures(rec.res)
otherwise == {s \in DOMAIN rec.res : rec.res[s] \in Broken} \ failing

\* pinBlocker: what shrt run reports may explain the run, as an intermittent
\* failure when an earlier run of the same request passed.  Its other reasons
\* are left out: here a run of the chain creates with values of its own, and no
\* token is refused.
Explained == IF failing \cap p.flaky # {} THEN BOOLEAN ELSE {FALSE}

\* pinGroup: with the first failing step the failing steps that read it, that
\* fail as it does, or that read after a write of the group with none between.
Group ==
  LET f == First(failing)
      base == {f} \cup {s \in failing : s \in Gone(p, chain, {f}) \/ p.shape[s] = p.shape[f]}
      lastWrite(s) == {w \in chain \cap p.write : w < s /\ \A v \in chain \cap p.write : v < s => v <= w}
  IN  base \cup {s \in failing \ p.write : lastWrite(s) # {} /\ lastWrite(s) \subseteq base}

Look ==
  /\ pc = "look"
  /\ IF Passed(rec.res, rec.chain)
     THEN Ends(IF round = 0 THEN "nothing_to_pin" ELSE "pinned") /\ UNCHANGED <<group, keep, attempt>>
     ELSE \E explained \in Explained :
            IF explained \/ failing = {} \/ otherwise # {}
            THEN Ends("not_pinned") /\ UNCHANGED <<group, keep, attempt>>
            ELSE group' = Group /\ keep' = {} /\ attempt' = 1 /\ Goto("slice")
  /\ UNCHANGED <<p, disk, world, round, size, rec, now, created, verdicts, verdict, had, shown>>

\* The slice ran the step, so the defect is kept red.
KeptRedSlip == verdict.outcome # "did_not_run"

\* keepRedSliceVerdict: the slice reproduces, and pins what failed.  That its file
\* is another than before the attempt goes without saying: the line that says
\* VERIFIED names the runs of this verification.
KeptRed == verdict.outcome = "reproduced" /\ files[target].pins # {}

\* The slice again, with the writes it asks for, at most three times.
After ==
  /\ pc = "after"
  /\ IF KeptRed
     THEN Goto("cut") /\ UNCHANGED <<keep, attempt>>
     ELSE IF verdict.next \in {None, keep} \/ attempt = 3
     THEN Ends("not_pinned") /\ UNCHANGED <<keep, attempt>>
     ELSE keep' = verdict.next /\ attempt' = attempt + 1 /\ Goto("slice")
  /\ UNCHANGED <<p, disk, world, round, size, rec, group, now, created, verdicts, verdict, had, shown>>

\* sliceWithout, onto the chain file itself.
Cut ==
  /\ pc = "cut"
  /\ LET gone == Gone(p, chain, group) IN
     IF gone = chain
     THEN Ends("not_rewritten") /\ UNCHANGED chain
     ELSE chain' = chain \ gone /\ Goto("note")
  /\ UNCHANGED <<p, world, notes, files, memory, had, shown>>

\* movedSteps, of the chain as it is when the line is written.
MovedSlip == Gone(p, chain, group)

\* movedSteps, of the chain as it was before it was cut.
Moved == Gone(p, rec.chain, group)

\* noteMovedSteps.
Note ==
  /\ pc = "note"
  /\ notes' = notes \cup {[slice |-> target, held |-> Moved \cap kept, lost |-> Moved \ kept]}
  /\ round' = round + 1 /\ Goto("round")
  /\ UNCHANGED <<p, chain, files, world, size, rec, group, keep, attempt, now, created, verdicts, verdict, had, shown>>

Command == RunStep \/ RunEnds \/ Slice \/ Repeat \/ Record \/ Round \/ Look \/ After \/ Cut \/ Note
Next == RunChain \/ Checkout \/ StartSlice \/ StartPin \/ Kill \/ Command

Spec == Init /\ [][Next]_vars

\* A command runs on by itself: every call of it has a timeout.
FairSpec == Spec /\ WF_vars(Command)

(***************************************************************************)
(* Properties                                                              *)
(***************************************************************************)

\* A slice file says VERIFIED only of steps that ran, broke nothing that passed
\* in the source run and gave the step the verdict it had there, whatever was
\* sliced, verified, refused or killed since (mayOverwriteSlice keeps the line).
VerifiedTrue ==
  \A t \in Steps : files[t] # None /\ files[t].says = "VERIFIED" => <<t, files[t].steps, files[t].relaxed>> \in shown

\* "NOT REPRODUCED" and "intermittent" name the slice or the backend: some run
\* of it answered the step with another verdict while nothing else was broken.
BlameTrue ==
  verdict # None =>
    (verdict.outcome \in {"not_reproduced", "intermittent"} =>
       \E i \in DOMAIN verdicts : Reached(verdicts[i].res, target) /\ ~verdicts[i].broke
                                  /\ Answer(p, verdicts[i].res, target) # Answer(p, rec.res, target))

\* "the backend answers it differently to the same input" is said only of a
\* defect that comes and goes, never because the runs of one verification
\* disturb each other or the backend was down for one of them; but a fresh value
\* that an earlier, killed verification was given already does make it say so.
IntermittentTrue ==
  verdict # None /\ verdict.outcome = "intermittent" => p.flaky # {} \/ ~verdicts[1].fresh

\* What pin cut from the chain it did not lose: a slice that says VERIFIED, has
\* every step the cut one needs and pins a failure of the step it is named for.
CutIsPinned ==
  \A n \in notes : LET f == files[n.slice] IN
    f # None /\ f.says = "VERIFIED" /\ n.slice \in f.pins /\ Kept(p, {n.slice}) \subseteq f.steps

\* Every step is in the chain, or a line says which slice has it or that none
\* does; a kill may cost the line, but not the slice: it has the step, or one
\* that was cut and that the step reads.
NoStepVanishes ==
  \A s \in Steps \ chain :
    \/ \E n \in notes : s \in n.held \cup n.lost
    \/ (pc = "note" \/ kills > 0)
       /\ \E t \in Steps : files[t] # None /\ files[t].says = "VERIFIED" /\ s \in files[t].steps \cup Gone(p, Steps, files[t].steps \ chain)

\* pin ends well only when the chain as it is now ran and passed.
PinnedIsGreen ==
  [][exit' \in {"pinned", "nothing_to_pin"} /\ pc # "idle" /\ pc' = "idle" =>
       newest.own /\ newest.chain = chain /\ Passed(newest.res, chain)]_vars

\* A pin that ended by itself leaves no new slice that is not VERIFIED: the suite
\* would run it red.
NoUnprovenRed ==
  pc = "idle" /\ cmd.kind = "pin" /\ exit # "killed" =>
    \A t \in Steps \ had : files[t] # None => files[t].says = "VERIFIED"

\* Every command ends.
Ended == pc # "idle" ~> pc = "idle"

\* PLAYBOOK: pin "re-runs until it passes": what it says is still red is red.
StillRedIsRed ==
  pc = "idle" /\ exit = "still_red" => newest.chain = chain /\ ~Passed(newest.res, chain)
=============================================================================
