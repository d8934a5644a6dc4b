---------------------------- MODULE DriverProofs ----------------------------
(***************************************************************************)
(* Theorems about runs of the compiler, for any number of them at a time,  *)
(* of edits and of runs.                                                   *)
(***************************************************************************)
EXTENDS Driver, TLAPS

(* What the phases have let pass: what has been parsed, checked, and       *)
(* handed to the emission of code.                                         *)
Parsed   == Kind \ {"badSyntax", "loneBar", "endless"}
Checked  == Parsed \ {"badTypes"}
Compiled == Unrecorded \union {"good", "badModule"}

Phase == {"idle", "performParseOnly", "performSema", "perform", "open", "emit", "main",
          "format", "ended"}

RunRecord ==
    [at : Phase, tool : {"duskc", "dusk-format"}, c : BOOLEAN, consumer : BOOLEAN,
     text : {None} \union Text, error : BOOLEAN, told : BOOLEAN, emitted : BOOLEAN,
     alone : BOOLEAN, linked : BOOLEAN, status : {"none", "0", "1", "crashed", "killed"}]

(* What is known of the text and of the error of a run in each phase *)
Filtered(r) ==
    /\ r.at = "performParseOnly" => r.text # None /\ ~r.error
    /\ r.at \in {"performSema", "format"} => r.text # None /\ r.text.kind \in Parsed /\ ~r.error
    /\ r.at = "perform" => r.text # None /\ r.text.kind \in Checked /\ ~r.error
    /\ r.at \in {"open", "emit"} => r.text # None /\ r.text.kind \in Compiled /\ ~r.error
    /\ r.at = "main" /\ ~r.error => r.text # None /\ r.text.kind \in Compiled

Knows(r) == r.told \/ ~r.consumer \/ r.text.kind = "loneBar"

(* What is known of what it has told and of its history *)
Honest(r) ==
    /\ r.at # "ended" => ~r.linked
    /\ r.emitted => r.at = "main"
    /\ r.at \in {"performSema", "perform", "open", "emit"} => r.tool = "duskc"
    /\ r.tool = "dusk-format" => ~r.c
    /\ r.at = "main" => r.tool = "duskc" \/ r.error
    /\ r.at = "main" /\ r.error => Knows(r)
    /\ r.at = "ended" /\ r.status = "0" => ~r.error
    /\ r.at = "ended" /\ r.status = "1" /\ ~r.c => Knows(r)

Good(r) == r \in RunRecord /\ Filtered(r) /\ Honest(r)

AllPassed(file) == \A x \in file : x.of.kind \in Compiled

Clean(file) == file # None => AllPassed(file)

PassInv ==
    /\ source \in {None} \union Text
    /\ edits \in 0 .. MaxEdits
    /\ run \in [Proc -> RunRecord]
    /\ \A p \in Proc : Good(run[p])
    /\ Clean(object) /\ Clean(binary)
    /\ \A p \in Proc : run[p].at = "emit" => AllPassed(object)

NoneOpens == \A q \in Proc : run'[q].at = "emit" => run[q].at = "emit"

-----------------------------------------------------------------------------
(* A step of one run leaves the others as they were. *)
LEMMA OneRun ==
  ASSUME NEW f \in [Proc -> RunRecord], \A q \in Proc : Good(f[q]),
         NEW p \in Proc, NEW r, Good(r)
  PROVE  /\ [f EXCEPT ![p] = r] \in [Proc -> RunRecord]
         /\ \A q \in Proc : Good([f EXCEPT ![p] = r][q])
         /\ r.at # "emit" =>
               \A q \in Proc : [f EXCEPT ![p] = r][q].at = "emit" => f[q].at = "emit"
<1>1. r \in RunRecord
  BY DEF Good
<1>2. [f EXCEPT ![p] = r] \in [Proc -> RunRecord]
  BY <1>1
<1>3. \A q \in Proc : [f EXCEPT ![p] = r][q] = r \/ [f EXCEPT ![p] = r][q] = f[q]
  OBVIOUS
<1> QED
  BY <1>2, <1>3

(* What the invariant needs when nothing but run[p] changes *)
LEMMA RunStep ==
  ASSUME PassInv, NEW p \in Proc, UNCHANGED <<source, edits>>,
         run' \in [Proc -> RunRecord], \A q \in Proc : Good(run'[q]),
         Clean(object'), Clean(binary'), AllPassed(object') \/ (object' = object /\ NoneOpens)
  PROVE  PassInv'
  BY DEF PassInv, NoneOpens

LEMMA KindSets ==
  /\ Compiled \subseteq Checked /\ Checked \subseteq Parsed /\ Parsed \subseteq Kind
  /\ \A k \in Kind : k \notin {"badSyntax", "loneBar", "endless"} => k \in Parsed
  /\ \A k \in Parsed : k # "badTypes" => k \in Checked
  /\ \A k \in Checked : k # "stops" => k \in Compiled
  /\ \A k \in Compiled : k \in Unrecorded \union {"good", "badModule"}
  BY DEF Compiled, Checked, Parsed, Kind, Unrecorded, Refused

LEMMA Fresh ==
  ASSUME NEW tool \in {"duskc", "dusk-format"}, NEW c \in BOOLEAN, NEW consumer \in BOOLEAN,
         tool = "dusk-format" => ~c, source \in {None} \union Text
  PROVE  \A p : Good(Input(p, [Idle EXCEPT !.tool = tool, !.c = c, !.consumer = consumer]))
<1> DEFINE r0 == [Idle EXCEPT !.tool = tool, !.c = c, !.consumer = consumer]
<1>1. r0 \in RunRecord
  BY DEF Idle, RunRecord, Phase
<1>2. r0.at = "idle" /\ r0.tool = tool /\ r0.c = c /\ ~r0.error /\ ~r0.emitted /\ ~r0.linked
  BY DEF Idle
<1> HIDE DEF r0
<1>3. ASSUME NEW p, source = None PROVE Good(Input(p, r0))
  <2> DEFINE r == [r0 EXCEPT !.at = "ended", !.told = TRUE, !.status = "1"]
  <2>1. Input(p, r0) = r
    BY <1>3 DEF Input
  <2>2. r \in RunRecord
    BY <1>1 DEF RunRecord, Phase
  <2>3. /\ r.at = "ended" /\ r.told /\ r.status = "1" /\ r.tool = tool /\ r.c = c
        /\ ~r.error /\ ~r.emitted /\ ~r.linked
    BY <1>1, <1>2 DEF RunRecord
  <2> HIDE DEF r
  <2> QED
    BY <2>1, <2>2, <2>3 DEF Good, Filtered, Honest, Knows
<1>4. ASSUME NEW p, source # None PROVE Good(Input(p, r0))
  <2> DEFINE r == [r0 EXCEPT !.at = "performParseOnly", !.text = source]
  <2>1. Input(p, r0) = r
    BY <1>4 DEF Input
  <2>2. r \in RunRecord
    BY <1>1 DEF RunRecord, Phase
  <2>3. /\ r.at = "performParseOnly" /\ r.text # None /\ r.tool = tool /\ r.c = c
        /\ ~r.error /\ ~r.emitted /\ ~r.linked
    BY <1>1, <1>2, <1>4 DEF RunRecord
  <2> HIDE DEF r
  <2> QED
    BY <2>1, <2>2, <2>3 DEF Good, Filtered, Honest
<1> QED
  BY <1>3, <1>4 DEF r0

LEMMA Death ==
  ASSUME NEW status \in {"crashed", "killed"}
  PROVE  Good([Idle EXCEPT !.at = "ended", !.status = status])
  BY DEF Good, Idle, RunRecord, Filtered, Honest, Knows, Phase

LEMMA InitPass == Init => PassInv
<1> SUFFICES ASSUME Init PROVE PassInv
  OBVIOUS
<1>1. Good(Idle) /\ Idle.at = "idle"
  BY DEF Good, Idle, RunRecord, Filtered, Honest, Knows, Phase
<1>2. /\ run \in [Proc -> RunRecord]
      /\ \A p \in Proc : Good(run[p]) /\ run[p].at = "idle"
  BY <1>1 DEF Init, Good
<1> QED
  BY <1>2, DriverAssumption DEF Init, PassInv, Clean

LEMMA ConstructorPass ==
  ASSUME PassInv, NEW p \in Proc, CompilerInstance(p) PROVE PassInv'
<1>1. PICK tool \in {"duskc", "dusk-format"}, c \in BOOLEAN, consumer \in BOOLEAN :
        /\ tool = "dusk-format" => ~c
        /\ Goes(p, Input(p, [Idle EXCEPT !.tool = tool, !.c = c, !.consumer = consumer]))
  BY DEF CompilerInstance
<1> DEFINE r == Input(p, [Idle EXCEPT !.tool = tool, !.c = c, !.consumer = consumer])
<1>2. Good(r) /\ r.at # "emit"
  BY <1>1, Fresh DEF PassInv, Input, Idle
<1>3. run' = [run EXCEPT ![p] = r]
  BY <1>1 DEF Goes
<1> HIDE DEF r
<1>4. run' \in [Proc -> RunRecord] /\ (\A q \in Proc : Good(run'[q])) /\ NoneOpens
  BY <1>2, <1>3, OneRun DEF PassInv, NoneOpens
<1> QED
  BY <1>4, RunStep DEF CompilerInstance, PassInv

(* A run that stops, whatever it was doing *)
LEMMA DeathPass ==
  ASSUME PassInv, NEW p \in Proc, NEW status \in {"crashed", "killed"}, Dies(p, status)
  PROVE  run' \in [Proc -> RunRecord] /\ (\A q \in Proc : Good(run'[q])) /\ NoneOpens
<1> DEFINE r == [Idle EXCEPT !.at = "ended", !.status = status]
<1>1. run' = [run EXCEPT ![p] = r]
  BY DEF Dies, Goes
<1>2. Good(r) /\ r.at = "ended"
  BY Death DEF Idle
<1> HIDE DEF r
<1> QED
  BY <1>1, <1>2, OneRun DEF PassInv, NoneOpens

LEMMA ParsePass ==
  ASSUME PassInv, NEW p \in Proc, performParseOnly(p) PROVE PassInv'
<1> DEFINE error == KindOf(p) \in {"badSyntax", "loneBar"}
           told == IF KindOf(p) \in {"badSyntax", "openComment"}
                   THEN emitDiagnostic(p) ELSE run[p].told
           r == [run[p] EXCEPT !.error = error, !.at = AfterParse(p, error), !.told = told]
<1>1. run' = [run EXCEPT ![p] = r] /\ Files
  BY DEF performParseOnly, Goes
<1>2. Good(run[p]) /\ run[p].at = "performParseOnly" /\ KindOf(p) # "endless"
  BY DEF PassInv, performParseOnly, At
<1>3. run[p].text \in Text /\ KindOf(p) \in Kind
  BY <1>2 DEF Good, RunRecord, Filtered, Text, KindOf
<1>4. told \in BOOLEAN /\ error \in BOOLEAN
  BY <1>2 DEF Good, RunRecord, emitDiagnostic
<1>5. r \in RunRecord
  BY <1>2, <1>4 DEF Good, RunRecord, AfterParse, Phase
<1>6. /\ r.at = AfterParse(p, error) /\ r.error = error /\ r.told = told
      /\ r.text = run[p].text /\ r.tool = run[p].tool /\ r.c = run[p].c
      /\ r.consumer = run[p].consumer /\ r.emitted = run[p].emitted
      /\ r.linked = run[p].linked
  BY <1>2 DEF Good, RunRecord
<1> HIDE DEF r
<1>7. r.text # None /\ (~error => r.text.kind \in Parsed)
  BY <1>2, <1>3, <1>6, KindSets DEF Good, Filtered, KindOf
<1>8. Filtered(r)
  BY <1>2, <1>6, <1>7 DEF Good, Filtered, AfterParse
<1>9. error => Knows(r)
  BY <1>2, <1>6 DEF emitDiagnostic, Knows, KindOf
<1>10. Honest(r)
  BY <1>2, <1>6, <1>9 DEF Good, Honest, AfterParse
<1>11. r.at # "emit"
  BY <1>6 DEF AfterParse
<1>12. run' \in [Proc -> RunRecord] /\ (\A q \in Proc : Good(run'[q])) /\ NoneOpens
  BY <1>1, <1>5, <1>8, <1>10, <1>11, OneRun DEF PassInv, Good, NoneOpens
<1> QED
  BY <1>1, <1>12, RunStep DEF Files, PassInv

LEMMA SemaPass ==
  ASSUME PassInv, NEW p \in Proc, performSema(p) PROVE PassInv'
<1>1. CASE Stops(p)
  BY <1>1, DeathPass, RunStep DEF Stops, Files, PassInv
<1>2. CASE ~Stops(p)
  <2> DEFINE error == KindOf(p) = "badTypes"
             told == IF error \/ KindOf(p) = "redefined"
                     THEN emitDiagnostic(p) ELSE run[p].told
             r == [run[p] EXCEPT !.error = error,
                                 !.at = IF error THEN "main" ELSE "perform", !.told = told]
  <2>1. run' = [run EXCEPT ![p] = r] /\ Files
    BY <1>2 DEF performSema, Goes
  <2>2. Good(run[p]) /\ run[p].at = "performSema"
    BY DEF PassInv, performSema, At
  <2>3. told \in BOOLEAN /\ error \in BOOLEAN
    BY <2>2 DEF Good, RunRecord, emitDiagnostic
  <2>4. r \in RunRecord
    BY <2>2, <2>3 DEF Good, RunRecord, Phase
  <2>5. /\ r.at = (IF error THEN "main" ELSE "perform") /\ r.error = error /\ r.told = told
        /\ r.text = run[p].text /\ r.tool = run[p].tool /\ r.c = run[p].c
        /\ r.consumer = run[p].consumer /\ r.emitted = run[p].emitted
        /\ r.linked = run[p].linked
    BY <2>2 DEF Good, RunRecord
  <2> HIDE DEF r
  <2>6. r.text # None /\ (~error => r.text.kind \in Checked)
    BY <2>2, <2>5, KindSets DEF Good, Filtered, KindOf
  <2>7. Filtered(r)
    BY <2>5, <2>6 DEF Filtered
  <2>8. error => Knows(r)
    BY <2>2, <2>5 DEF emitDiagnostic, Knows, KindOf
  <2>9. Honest(r)
    BY <2>2, <2>5, <2>8 DEF Good, Honest
  <2>10. run' \in [Proc -> RunRecord] /\ (\A q \in Proc : Good(run'[q])) /\ NoneOpens
    BY <2>1, <2>4, <2>5, <2>7, <2>9, OneRun DEF PassInv, Good, NoneOpens
  <2> QED
    BY <2>1, <2>10, RunStep DEF Files, PassInv
<1> QED
  BY <1>1, <1>2

LEMMA PerformPass ==
  ASSUME PassInv, NEW p \in Proc, perform(p) PROVE PassInv'
<1>1. CASE KindOf(p) = "stops"
  BY <1>1, DeathPass, RunStep DEF perform, Stops, Files, PassInv
<1>2. CASE KindOf(p) # "stops"
  <2> DEFINE r == [run[p] EXCEPT !.at = "open"]
  <2>1. run' = [run EXCEPT ![p] = r] /\ Files
    BY <1>2 DEF perform, Goes
  <2>2. Good(run[p]) /\ run[p].at = "perform"
    BY DEF PassInv, perform, At
  <2>3. r \in RunRecord
    BY <2>2 DEF Good, RunRecord, Phase
  <2>4. /\ r.at = "open" /\ r.error = run[p].error /\ r.text = run[p].text
        /\ r.tool = run[p].tool /\ r.c = run[p].c /\ r.emitted = run[p].emitted
        /\ r.linked = run[p].linked
    BY <2>2 DEF Good, RunRecord
  <2> HIDE DEF r
  <2>5. Filtered(r)
    BY <1>2, <2>2, <2>4, KindSets DEF Good, Filtered, KindOf
  <2>6. Honest(r)
    BY <2>2, <2>4 DEF Good, Honest
  <2>7. run' \in [Proc -> RunRecord] /\ (\A q \in Proc : Good(run'[q])) /\ NoneOpens
    BY <2>1, <2>3, <2>4, <2>5, <2>6, OneRun DEF PassInv, Good, NoneOpens
  <2> QED
    BY <2>1, <2>7, RunStep DEF Files, PassInv
<1> QED
  BY <1>1, <1>2

(* A run returns to main() from emitObjectFile(), with more told or with   *)
(* all of the file written.                                                *)
LEMMA ToMain ==
  ASSUME NEW s, Good(s), s.at \in {"open", "emit"}, NEW told \in {s.told, TRUE},
         NEW emitted \in BOOLEAN
  PROVE  Good([s EXCEPT !.at = "main", !.told = told, !.emitted = emitted])
<1> DEFINE r == [s EXCEPT !.at = "main", !.told = told, !.emitted = emitted]
<1>1. r \in RunRecord
  BY DEF Good, RunRecord, Phase
<1>2. /\ r.at = "main" /\ r.error = s.error /\ r.text = s.text /\ r.tool = s.tool
      /\ r.c = s.c /\ r.linked = s.linked /\ r.emitted = emitted
  BY DEF Good, RunRecord
<1> HIDE DEF r
<1>3. Filtered(r)
  BY <1>2 DEF Good, Filtered
<1>4. Honest(r)
  BY <1>2 DEF Good, Honest, Filtered
<1> QED
  BY <1>1, <1>3, <1>4 DEF Good, r

LEMMA GivesUpPass ==
  ASSUME PassInv, NEW p \in Proc, run[p].at \in {"open", "emit"}, GivesUp(p) PROVE PassInv'
<1> DEFINE r == [run[p] EXCEPT !.at = "main", !.told = TRUE, !.emitted = FALSE]
<1>1. Good(run[p])
  BY DEF PassInv
<1>2. Good(r)
  BY <1>1, ToMain
<1>3. ~run[p].emitted /\ run[p] \in RunRecord
  BY <1>1 DEF Good, Honest
<1>4. r = [run[p] EXCEPT !.at = "main", !.told = TRUE]
  BY <1>3 DEF RunRecord
<1>5. r.at = "main" /\ run' = [run EXCEPT ![p] = r] /\ Files
  BY <1>3, <1>4 DEF GivesUp, Goes, RunRecord
<1> HIDE DEF r
<1>6. run' \in [Proc -> RunRecord] /\ (\A q \in Proc : Good(run'[q])) /\ NoneOpens
  BY <1>2, <1>5, OneRun DEF PassInv, NoneOpens
<1> QED
  BY <1>5, <1>6, RunStep DEF Files, PassInv

(* Whether a run has been alone with the file is nothing the others rely   *)
(* on.                                                                     *)
LEMMA NotAlone ==
  ASSUME NEW s, Good(s), NEW alone \in BOOLEAN
  PROVE  /\ Good([s EXCEPT !.alone = alone])
         /\ s.at = "open" => Good([s EXCEPT !.at = "emit", !.alone = alone])
<1>1. Good([s EXCEPT !.alone = alone])
  <2> DEFINE r == [s EXCEPT !.alone = alone]
  <2>1. r \in RunRecord
    BY DEF Good, RunRecord
  <2>2. /\ r.at = s.at /\ r.error = s.error /\ r.text = s.text /\ r.tool = s.tool
        /\ r.c = s.c /\ r.linked = s.linked /\ r.emitted = s.emitted
        /\ r.status = s.status /\ r.told = s.told /\ r.consumer = s.consumer
    BY DEF Good, RunRecord
  <2> HIDE DEF r
  <2>3. Filtered(r)
    BY <2>2 DEF Good, Filtered
  <2>4. Honest(r)
    BY <2>2 DEF Good, Honest, Knows
  <2> QED
    BY <2>1, <2>3, <2>4 DEF Good, r
<1>2. ASSUME s.at = "open" PROVE Good([s EXCEPT !.at = "emit", !.alone = alone])
  <2> DEFINE r == [s EXCEPT !.at = "emit", !.alone = alone]
  <2>1. r \in RunRecord
    BY DEF Good, RunRecord, Phase
  <2>2. /\ r.at = "emit" /\ r.error = s.error /\ r.text = s.text /\ r.tool = s.tool
        /\ r.c = s.c /\ r.linked = s.linked /\ r.emitted = s.emitted
    BY DEF Good, RunRecord
  <2> HIDE DEF r
  <2>3. Filtered(r)
    BY <1>2, <2>2 DEF Good, Filtered
  <2>4. Honest(r)
    BY <1>2, <2>2 DEF Good, Honest
  <2> QED
    BY <2>1, <2>3, <2>4 DEF Good, r
<1> QED
  BY <1>1, <1>2

LEMMA OpenPass ==
  ASSUME PassInv, NEW p \in Proc, open(p) PROVE PassInv'
<1>1. run[p].at = "open"
  BY DEF open, At
<1>2. CASE GivesUp(p)
  BY <1>1, <1>2, GivesUpPass
<1>3. CASE OpenObject(p)
  <2> DEFINE alone == \A r \in Proc \ {p} : ~HasOpen(r)
             r(q) == IF q = p THEN [run[p] EXCEPT !.at = "emit", !.alone = alone]
                     ELSE [run[q] EXCEPT !.alone = FALSE]
  <2>1. run' = [q \in Proc |-> r(q)]
    BY <1>3 DEF OpenObject
  <2>2. alone \in BOOLEAN
    OBVIOUS
  <2> HIDE DEF alone
  <2>3. \A q \in Proc : Good(r(q))
    BY <1>1, <2>2, NotAlone DEF PassInv
  <2> HIDE DEF r
  <2>4. run' \in [Proc -> RunRecord] /\ \A q \in Proc : Good(run'[q])
    BY <2>1, <2>3 DEF Good
  <2>5. Clean(object') /\ Clean(binary') /\ AllPassed(object') /\ UNCHANGED <<source, edits>>
    BY <1>3 DEF OpenObject, Clean, AllPassed, PassInv
  <2> QED
    BY <2>4, <2>5 DEF PassInv
<1> QED
  BY <1>2, <1>3 DEF open

(* What a run writes is of a text that was let pass. *)
LEMMA WrittenClean ==
  ASSUME PassInv, NEW p \in Proc, run[p].at = "emit",
         NEW piece \in {Code(p), Torn(p)}, NEW file \in Written(p, piece)
  PROVE  AllPassed(file)
<1>1. piece.of.kind \in Compiled
  BY DEF PassInv, Good, Filtered, Code, Torn
<1> QED
  BY <1>1 DEF Written, AllPassed, PassInv

LEMMA EmitPass ==
  ASSUME PassInv, NEW p \in Proc, emitObjectFile(p) PROVE PassInv'
<1>1. run[p].at = "emit" /\ Good(run[p])
  BY DEF emitObjectFile, At, PassInv
<1>2. CASE GivesUp(p)
  BY <1>1, <1>2, GivesUpPass
<1>3. CASE /\ object' \in Written(p, Code(p))
           /\ Goes(p, [run[p] EXCEPT !.at = "main", !.emitted = TRUE])
           /\ UNCHANGED <<source, binary, edits, runs>>
  <2> DEFINE r == [run[p] EXCEPT !.at = "main", !.told = run[p].told, !.emitted = TRUE]
  <2>1. Good(r)
    BY <1>1, ToMain
  <2>2. r = [run[p] EXCEPT !.at = "main", !.emitted = TRUE]
    BY <1>1 DEF Good, RunRecord
  <2>3. run' = [run EXCEPT ![p] = r]
    BY <1>3, <2>2 DEF Goes
  <2> HIDE DEF r
  <2>4. run' \in [Proc -> RunRecord] /\ \A q \in Proc : Good(run'[q])
    BY <2>1, <2>3, OneRun DEF PassInv
  <2>5. AllPassed(object')
    BY <1>1, <1>3, WrittenClean
  <2> QED
    BY <1>3, <2>4, <2>5 DEF PassInv, Clean
<1>4. CASE /\ object' \in Written(p, Torn(p))
           /\ Goes(p, [run[p] EXCEPT !.at = "ended", !.told = TRUE, !.status = "1"])
           /\ UNCHANGED <<source, binary, edits, runs>>
  <2> DEFINE r == [run[p] EXCEPT !.at = "ended", !.told = TRUE, !.status = "1"]
  <2>1. run' = [run EXCEPT ![p] = r]
    BY <1>4 DEF Goes
  <2>2. r \in RunRecord
    BY <1>1 DEF Good, RunRecord, Phase
  <2>3. /\ r.at = "ended" /\ r.told /\ r.status = "1" /\ r.emitted = run[p].emitted
        /\ r.tool = run[p].tool /\ r.c = run[p].c
    BY <1>1 DEF Good, RunRecord
  <2> HIDE DEF r
  <2>4. Good(r)
    BY <1>1, <2>2, <2>3 DEF Good, Filtered, Honest, Knows
  <2>5. run' \in [Proc -> RunRecord] /\ \A q \in Proc : Good(run'[q])
    BY <2>1, <2>4, OneRun DEF PassInv
  <2>6. AllPassed(object')
    BY <1>1, <1>4, WrittenClean
  <2> QED
    BY <1>4, <2>5, <2>6 DEF PassInv, Clean
<1>5. CASE /\ object' \in Written(p, Torn(p)) /\ Dies(p, "crashed")
           /\ UNCHANGED <<source, binary, edits, runs>>
  <2>1. AllPassed(object')
    BY <1>1, <1>5, WrittenClean
  <2>2. run' \in [Proc -> RunRecord] /\ \A q \in Proc : Good(run'[q])
    BY <1>5, DeathPass
  <2> QED
    BY <1>5, <2>1, <2>2 DEF PassInv, Clean
<1> QED
  BY <1>2, <1>3, <1>4, <1>5 DEF emitObjectFile

(* The end of a run that leaves with a status *)
LEMMA LeavesGood ==
  ASSUME NEW s, Good(s), NEW linked \in BOOLEAN, NEW status \in {"0", "1"},
         status = "0" => ~s.error, status = "1" /\ ~s.c => Knows(s)
  PROVE  Good([s EXCEPT !.at = "ended", !.status = status, !.emitted = FALSE,
                        !.alone = FALSE, !.linked = linked])
<1> DEFINE r == [s EXCEPT !.at = "ended", !.status = status, !.emitted = FALSE,
                          !.alone = FALSE, !.linked = linked]
<1>1. r \in RunRecord
  BY DEF Good, RunRecord, Phase
<1>2. /\ r.at = "ended" /\ r.status = status /\ ~r.emitted /\ r.error = s.error
      /\ r.tool = s.tool /\ r.c = s.c /\ r.told = s.told /\ r.consumer = s.consumer
      /\ r.text = s.text
  BY DEF Good, RunRecord
<1> HIDE DEF r
<1>3. Filtered(r) /\ Honest(r)
  BY <1>2 DEF Good, Filtered, Honest, Knows
<1> QED
  BY <1>1, <1>3 DEF Good, r

(* now is what the run leaves behind but for how it ended. *)
LEMMA LeavesPass ==
  ASSUME PassInv, NEW p \in Proc, NEW linked \in BOOLEAN, NEW status \in {"0", "1"},
         Leaves(p, [run[p] EXCEPT !.linked = linked], status),
         status = "0" => ~run[p].error, status = "1" /\ ~run[p].c => Knows(run[p])
  PROVE  run' \in [Proc -> RunRecord] /\ (\A q \in Proc : Good(run'[q])) /\ NoneOpens
<1> DEFINE r == [run[p] EXCEPT !.at = "ended", !.status = status, !.emitted = FALSE,
                               !.alone = FALSE, !.linked = linked]
<1>1. Good(r)
  BY LeavesGood DEF PassInv
<1>2. run' = [run EXCEPT ![p] = r]
  BY DEF Leaves, Goes, PassInv, RunRecord
<1>3. r.at = "ended"
  BY DEF PassInv, RunRecord
<1> HIDE DEF r
<1> QED
  BY <1>1, <1>2, <1>3, OneRun DEF PassInv, NoneOpens

LEMMA ReturnPass ==
  ASSUME PassInv, NEW p \in Proc, NEW status \in {"0", "1"}, Return(p, status),
         status = "0" => ~run[p].error, status = "1" /\ ~run[p].c => Knows(run[p])
  PROVE  run' \in [Proc -> RunRecord] /\ (\A q \in Proc : Good(run'[q])) /\ NoneOpens
<1>1. run[p] = [run[p] EXCEPT !.linked = run[p].linked] /\ run[p].linked \in BOOLEAN
  BY DEF PassInv, RunRecord
<1> QED
  BY <1>1, LeavesPass DEF Return

LEMMA MainPass ==
  ASSUME PassInv, NEW p \in Proc, main(p) PROVE PassInv'
<1>1. run[p].at = "main" /\ Good(run[p]) /\ UNCHANGED <<source, object, edits, runs>>
  BY DEF main, At, PassInv
<1>2. CASE run[p].tool = "duskc" /\ ~run[p].c /\ ~run[p].error
  <2>1. link(p)
    BY <1>2 DEF main
  <2>2. CASE Linkable /\ binary' = object
             /\ Leaves(p, [run[p] EXCEPT !.linked = TRUE], "0")
    <3>1. run' \in [Proc -> RunRecord] /\ (\A q \in Proc : Good(run'[q])) /\ NoneOpens
      BY <1>2, <2>2, LeavesPass
    <3> QED
      BY <1>1, <2>2, <3>1 DEF PassInv, Clean, NoneOpens
  <2>3. CASE binary' \in {binary, None} /\ Return(p, "0")
    <3>1. run' \in [Proc -> RunRecord] /\ (\A q \in Proc : Good(run'[q])) /\ NoneOpens
      BY <1>2, <2>3, ReturnPass
    <3> QED
      BY <1>1, <2>3, <3>1 DEF PassInv, Clean, NoneOpens
  <2> QED
    BY <2>1, <2>2, <2>3 DEF link
<1>3. CASE ~(run[p].tool = "duskc" /\ ~run[p].c /\ ~run[p].error)
  <2>1. Return(p, "1") /\ UNCHANGED binary
    BY <1>3 DEF main
  <2>2. ~run[p].c => Knows(run[p])
    BY <1>1, <1>3 DEF Good, RunRecord, Honest
  <2>3. run' \in [Proc -> RunRecord] /\ (\A q \in Proc : Good(run'[q])) /\ NoneOpens
    BY <2>1, <2>2, ReturnPass
  <2> QED
    BY <1>1, <2>1, <2>3 DEF PassInv, NoneOpens
<1> QED
  BY <1>2, <1>3

LEMMA FormatPass ==
  ASSUME PassInv, NEW p \in Proc, format(p) PROVE PassInv'
<1>1. CASE Return(p, "0") /\ Files
  <2>1. ~run[p].error
    BY DEF format, At, PassInv, Good, Filtered
  <2>2. run' \in [Proc -> RunRecord] /\ (\A q \in Proc : Good(run'[q])) /\ NoneOpens
    BY <1>1, <2>1, ReturnPass
  <2> QED
    BY <1>1, <2>2, RunStep DEF Files, PassInv
<1>2. CASE Stops(p)
  BY <1>2, DeathPass, RunStep DEF Stops, Files, PassInv
<1> QED
  BY <1>1, <1>2 DEF format

LEMMA EditPass ==
  ASSUME PassInv, Edit PROVE PassInv'
<1>1. edits' \in 0 .. MaxEdits
  BY DriverAssumption DEF Edit, PassInv
<1>2. source' \in Text
  BY <1>1 DEF Edit, Text
<1> QED
  BY <1>1, <1>2 DEF Edit, PassInv, Clean

LEMMA KillPass ==
  ASSUME PassInv, NEW p \in Proc, Kill(p) PROVE PassInv'
<1>1. run' \in [Proc -> RunRecord] /\ (\A q \in Proc : Good(run'[q])) /\ NoneOpens
  BY DeathPass DEF Kill
<1>2. CASE object' = object
  BY <1>1, <1>2, RunStep DEF Kill, PassInv
<1>3. CASE object' # object
  <2>1. run[p].at = "emit" /\ object' \in Written(p, Torn(p))
    BY <1>3 DEF Kill, HasOpen, At
  <2>2. AllPassed(object')
    BY <2>1, WrittenClean
  <2> QED
    BY <1>1, <2>2, RunStep DEF Kill, PassInv, Clean
<1> QED
  BY <1>2, <1>3

(* Every step keeps the invariant. *)
LEMMA StepPass ==
  ASSUME PassInv, [Next]_vars PROVE PassInv'
<1>1. CASE UNCHANGED vars
  BY <1>1 DEF vars, PassInv, Clean, AllPassed
<1>2. CASE Next
  BY <1>2, EditPass, ConstructorPass, ParsePass, SemaPass, PerformPass, OpenPass, EmitPass,
     MainPass, FormatPass, KillPass DEF Next, Runs
<1> QED
  BY <1>1, <1>2

LEMMA AlwaysPass == Spec => []PassInv
  BY InitPass, StepPass, PTL DEF Spec

-----------------------------------------------------------------------------
(* Whatever runs overlap, are killed or see the text change, the object    *)
(* file and the binary hold no code of a text in which an error was        *)
(* recorded: the phases guard each other.                                  *)
THEOREM NoCodeOfRefusedTexts == Spec => []NoRefusedCode
<1>1. PassInv => NoRefusedCode
  BY KindSets DEF PassInv, NoRefusedCode, Clean, AllPassed
<1> QED
  BY <1>1, AlwaysPass, PTL

(* Whoever is told 1 has been shown why, and a recorded error is never     *)
(* answered with 0.                                                        *)
THEOREM FailuresAreTold == Spec => []FailureTold
<1>1. PassInv => FailureTold
  BY DEF PassInv, FailureTold, Good, Honest, Knows, At, KindOf
<1> QED
  BY <1>1, AlwaysPass, PTL

-----------------------------------------------------------------------------
(* A run that has been alone with the object file since it opened it finds *)
(* there what it has written, and nobody else is writing.                  *)
Holds(p) == run[p].alone /\ (At(p, "emit") \/ (At(p, "main") /\ run[p].emitted))

OnlyMine ==
    \A p \in Proc : Holds(p) =>
       /\ \A q \in Proc \ {p} : ~HasOpen(q)
       /\ At(p, "emit") => object = {}
       /\ At(p, "main") => object = {Code(p)}

(* A step of p that leaves the object file alone and does not hold it      *)
Harmless(p) ==
    /\ object' = object
    /\ \A q \in Proc \ {p} : run'[q] = run[q]
    /\ run'[p].at # "emit" /\ ~run'[p].emitted

LEMMA HarmlessKeeps ==
  ASSUME OnlyMine, NEW p \in Proc, Harmless(p) PROVE OnlyMine'
<1> SUFFICES ASSUME NEW q \in Proc, Holds(q)'
             PROVE  /\ \A r \in Proc \ {q} : ~HasOpen(r)'
                    /\ At(q, "emit")' => object' = {}
                    /\ At(q, "main")' => object' = {Code(q)'}
  BY DEF OnlyMine
<1>1. q # p /\ run'[q] = run[q]
  BY DEF Harmless, Holds, At
<1>2. Holds(q)
  BY <1>1 DEF Holds, At
<1>3. \A r \in Proc \ {q} : ~HasOpen(r)'
  BY <1>2 DEF OnlyMine, Harmless, HasOpen, At
<1> QED
  BY <1>1, <1>2, <1>3 DEF OnlyMine, Harmless, At, Code

LEMMA HarmlessSteps ==
  ASSUME PassInv, NEW p \in Proc,
         \/ CompilerInstance(p) \/ performParseOnly(p) \/ performSema(p) \/ perform(p)
         \/ main(p) \/ format(p) \/ (run[p].at \in {"open", "emit"} /\ GivesUp(p))
  PROVE  Harmless(p)
<1>1. run[p] \in RunRecord /\ run \in [Proc -> RunRecord]
      /\ (run[p].at # "main" => ~run[p].emitted)
  BY DEF PassInv, Good, Honest
<1>2. ASSUME NEW r, run' = [run EXCEPT ![p] = r], r.at # "emit", ~r.emitted,
             object' = object
      PROVE  Harmless(p)
  BY <1>1, <1>2 DEF Harmless
<1>3. ASSUME NEW status, Dies(p, status), object' = object PROVE Harmless(p)
  <2> DEFINE r == [Idle EXCEPT !.at = "ended", !.status = status]
  <2>1. r.at # "emit" /\ ~r.emitted
    BY DEF Idle
  <2>2. run' = [run EXCEPT ![p] = r]
    BY <1>3 DEF Dies, Goes
  <2> HIDE DEF r
  <2> QED
    BY <1>2, <1>3, <2>1, <2>2
<1>4. ASSUME NEW s \in RunRecord, NEW status, Leaves(p, s, status), object' = object
      PROVE  Harmless(p)
  <2> DEFINE r == [s EXCEPT !.at = "ended", !.status = status, !.emitted = FALSE,
                            !.alone = FALSE]
  <2>1. r.at # "emit" /\ ~r.emitted
    BY DEF RunRecord
  <2>2. run' = [run EXCEPT ![p] = r]
    BY <1>4 DEF Leaves, Goes
  <2> HIDE DEF r
  <2> QED
    BY <1>2, <1>4, <2>1, <2>2
<1>5. CASE CompilerInstance(p)
  <2>1. PICK tool \in {"duskc", "dusk-format"}, c \in BOOLEAN, consumer \in BOOLEAN :
          Goes(p, Input(p, [Idle EXCEPT !.tool = tool, !.c = c, !.consumer = consumer]))
    BY <1>5 DEF CompilerInstance
  <2> DEFINE r == Input(p, [Idle EXCEPT !.tool = tool, !.c = c, !.consumer = consumer])
  <2>2. r.at # "emit" /\ ~r.emitted
    BY DEF Input, Idle
  <2> HIDE DEF r
  <2>3. run' = [run EXCEPT ![p] = r]
    BY <2>1 DEF Goes, r
  <2> QED
    BY <1>2, <1>5, <2>2, <2>3 DEF CompilerInstance
<1>6. CASE performParseOnly(p)
  <2>1. PICK error, told :
          run' = [run EXCEPT ![p] = [run[p] EXCEPT !.error = error,
                                        !.at = AfterParse(p, error), !.told = told]]
    BY <1>6 DEF performParseOnly, Goes
  <2> DEFINE r == [run[p] EXCEPT !.error = error, !.at = AfterParse(p, error), !.told = told]
  <2>2. r.at # "emit" /\ ~r.emitted
    BY <1>1, <1>6 DEF RunRecord, AfterParse, performParseOnly, At
  <2> HIDE DEF r
  <2> QED
    BY <1>2, <1>6, <2>1, <2>2 DEF performParseOnly, Files, r
<1>7. CASE performSema(p)
  <2>1. CASE Stops(p)
    BY <1>3, <2>1 DEF Stops, Files
  <2>2. CASE ~Stops(p)
    <3>1. PICK error, told :
            run' = [run EXCEPT ![p] =
                     [run[p] EXCEPT !.error = error,
                                    !.at = IF error THEN "main" ELSE "perform",
                                    !.told = told]]
      BY <1>7, <2>2 DEF performSema, Goes
    <3> DEFINE r == [run[p] EXCEPT !.error = error,
                                   !.at = IF error THEN "main" ELSE "perform",
                                   !.told = told]
    <3>2. r.at # "emit" /\ ~r.emitted
      BY <1>1, <1>7 DEF RunRecord, performSema, At
    <3> HIDE DEF r
    <3> QED
      BY <1>2, <1>7, <2>2, <3>1, <3>2 DEF performSema, Files, r
  <2> QED
    BY <2>1, <2>2
<1>8. CASE perform(p)
  <2>1. CASE Stops(p)
    BY <1>3, <2>1 DEF Stops, Files
  <2>2. CASE ~Stops(p)
    <3> DEFINE r == [run[p] EXCEPT !.at = "open"]
    <3>1. r.at # "emit" /\ ~r.emitted
      BY <1>1, <1>8 DEF RunRecord, perform, At
    <3>2. run' = [run EXCEPT ![p] = r] /\ object' = object
      BY <1>8, <2>2 DEF perform, Goes, Files
    <3> HIDE DEF r
    <3> QED
      BY <1>2, <3>1, <3>2
  <2> QED
    BY <2>1, <2>2
<1>9. CASE main(p)
  <2>1. object' = object
    BY <1>9 DEF main
  <2>2. [run[p] EXCEPT !.linked = TRUE] \in RunRecord
    BY <1>1 DEF RunRecord
  <2> QED
    BY <1>1, <1>4, <1>9, <2>1, <2>2 DEF main, link, Return
<1>10. CASE format(p)
  BY <1>1, <1>3, <1>4, <1>10 DEF format, Stops, Return, Files
<1>11. CASE run[p].at \in {"open", "emit"} /\ GivesUp(p)
  <2> DEFINE r == [run[p] EXCEPT !.at = "main", !.told = TRUE]
  <2>1. r.at # "emit" /\ ~r.emitted
    BY <1>1, <1>11 DEF RunRecord
  <2>2. run' = [run EXCEPT ![p] = r] /\ object' = object
    BY <1>11 DEF GivesUp, Goes, Files
  <2> HIDE DEF r
  <2> QED
    BY <1>2, <2>1, <2>2
<1> QED
  BY <1>5, <1>6, <1>7, <1>8, <1>9, <1>10, <1>11

(* Whoever opens the file takes it from all the others. *)
LEMMA OpenMine ==
  ASSUME PassInv, OnlyMine, NEW p \in Proc, open(p) PROVE OnlyMine'
<1>1. CASE GivesUp(p)
  BY <1>1, HarmlessSteps, HarmlessKeeps DEF open, At
<1>2. CASE OpenObject(p)
  <2>1. run \in [Proc -> RunRecord]
    BY DEF PassInv
  <2>2. /\ object' = {}
        /\ run'[p].at = "emit"
        /\ run'[p].alone => \A q \in Proc \ {p} : ~HasOpen(q)
    BY <1>2, <2>1 DEF OpenObject, RunRecord
  <2>3. \A q \in Proc \ {p} : ~run'[q].alone /\ run'[q].at = run[q].at
    BY <1>2, <2>1 DEF OpenObject, RunRecord
  <2> QED
    BY <2>2, <2>3 DEF OnlyMine, Holds, HasOpen, At
<1> QED
  BY <1>1, <1>2 DEF open

(* While p has it open no other run relies on what is in it. *)
LEMMA WriteMine ==
  ASSUME PassInv, OnlyMine, NEW p \in Proc, run[p].at = "emit",
         \A q \in Proc \ {p} : run'[q] = run[q], run'[p].at # "emit",
         \/ ~run'[p].emitted
         \/ /\ run'[p].at = "main" /\ run'[p].alone = run[p].alone
            /\ run'[p].text = run[p].text /\ object' \in Written(p, Code(p))
  PROVE  OnlyMine'
<1>1. \A q \in Proc \ {p} : ~Holds(q)
  BY DEF OnlyMine, HasOpen, At
<1>2. \A q \in Proc \ {p} : ~Holds(q)'
  BY <1>1 DEF Holds, At
<1>3. ASSUME Holds(p)' PROVE (\A q \in Proc \ {p} : ~HasOpen(q)') /\ object' = {Code(p)'}
  <2>1. Holds(p) /\ object' \in Written(p, Code(p)) /\ run'[p].text = run[p].text
    BY <1>3 DEF Holds, At
  <2>2. object = {} /\ \A q \in Proc \ {p} : ~HasOpen(q)
    BY <2>1 DEF OnlyMine, At
  <2>3. object' = {Code(p)} /\ Code(p)' = Code(p)
    BY <2>1, <2>2 DEF Written, Code
  <2> QED
    BY <2>2, <2>3 DEF HasOpen, At
<1> QED
  BY <1>2, <1>3 DEF OnlyMine, At

LEMMA EmitMine ==
  ASSUME PassInv, OnlyMine, NEW p \in Proc, emitObjectFile(p) PROVE OnlyMine'
<1>1. run[p].at = "emit" /\ run[p] \in RunRecord /\ run \in [Proc -> RunRecord]
      /\ ~run[p].emitted
  BY DEF emitObjectFile, At, PassInv, Good, Honest
<1>2. CASE GivesUp(p)
  BY <1>1, <1>2, HarmlessSteps, HarmlessKeeps
<1>3. CASE /\ object' \in Written(p, Code(p))
           /\ Goes(p, [run[p] EXCEPT !.at = "main", !.emitted = TRUE])
  <2>1. /\ \A q \in Proc \ {p} : run'[q] = run[q]
        /\ run'[p].at = "main" /\ run'[p].alone = run[p].alone
        /\ run'[p].text = run[p].text
    BY <1>1, <1>3 DEF Goes, RunRecord
  <2> QED
    BY <1>1, <1>3, <2>1, WriteMine
<1>4. CASE Goes(p, [run[p] EXCEPT !.at = "ended", !.told = TRUE, !.status = "1"])
  <2>1. /\ \A q \in Proc \ {p} : run'[q] = run[q]
        /\ run'[p].at = "ended" /\ ~run'[p].emitted
    BY <1>1, <1>4 DEF Goes, RunRecord
  <2> QED
    BY <1>1, <2>1, WriteMine
<1>5. CASE Dies(p, "crashed")
  <2>1. /\ \A q \in Proc \ {p} : run'[q] = run[q]
        /\ run'[p].at = "ended" /\ ~run'[p].emitted
    BY <1>1, <1>5 DEF Dies, Goes, Idle
  <2> QED
    BY <1>1, <2>1, WriteMine
<1> QED
  BY <1>2, <1>3, <1>4, <1>5 DEF emitObjectFile

LEMMA KillMine ==
  ASSUME PassInv, OnlyMine, NEW p \in Proc, Kill(p) PROVE OnlyMine'
<1>1. /\ \A q \in Proc \ {p} : run'[q] = run[q]
      /\ run'[p].at = "ended" /\ ~run'[p].emitted
  BY DEF Kill, Dies, Goes, Idle, PassInv
<1>2. CASE object' = object
  BY <1>1, <1>2, HarmlessKeeps DEF Harmless
<1>3. CASE object' # object
  BY <1>1, <1>3, WriteMine DEF Kill, HasOpen, At
<1> QED
  BY <1>2, <1>3

LEMMA StepMine ==
  ASSUME PassInv, OnlyMine, [Next]_vars PROVE OnlyMine'
<1>1. CASE UNCHANGED <<object, run>>
  BY <1>1 DEF OnlyMine, Holds, HasOpen, At, Code
<1>2. ASSUME NEW p \in Proc, CompilerInstance(p) \/ Runs(p) \/ Kill(p) PROVE OnlyMine'
  BY <1>2, HarmlessSteps, HarmlessKeeps, OpenMine, EmitMine, KillMine DEF Runs
<1> QED
  BY <1>1, <1>2 DEF Next, Edit, vars

(* What a run has linked when main() returns 0 is the code of the text it  *)
(* has read, if the emission was finished and nobody else had the object   *)
(* file open meanwhile.                                                    *)
THEOREM BinariesAreOfTheTextRead == Spec => BuildsWhatItRead
<1>1. Init => OnlyMine
  BY DEF Init, OnlyMine, Holds, Idle
<1>2. ASSUME PassInv, OnlyMine, [Next]_vars, NEW p \in Proc, At(p, "main"), run'[p].linked,
             run[p].emitted, run[p].alone
      PROVE  binary' = {Code(p)}
  <2>1. object = {Code(p)}
    BY <1>2 DEF OnlyMine, Holds
  <2>2. ~run[p].linked /\ run \in [Proc -> RunRecord]
    BY <1>2 DEF PassInv, Good, Honest, At
  <2>3. ~UNCHANGED run
    BY <1>2, <2>2
  <2>4. PICK q \in Proc : CompilerInstance(q) \/ Runs(q) \/ Kill(q)
    BY <1>2, <2>3 DEF Next, Edit, vars
  <2>5. q = p
    <3>1. SUFFICES ASSUME q # p PROVE run'[p].linked = run[p].linked
      BY <1>2, <2>2
    <3>2. CASE OpenObject(q)
      BY <2>2, <3>1, <3>2 DEF OpenObject, RunRecord
    <3>3. CASE emitObjectFile(q) /\ ~GivesUp(q)
      BY <2>2, <3>1, <3>3 DEF emitObjectFile, Goes, Dies
    <3>4. CASE Kill(q)
      BY <2>2, <3>1, <3>4 DEF Kill, Goes, Dies
    <3> QED
      BY <1>2, <2>4, <3>1, <3>2, <3>3, <3>4, HarmlessSteps
      DEF Runs, open, emitObjectFile, At, Harmless
  <2>6. main(p) \/ Kill(p)
    BY <1>2, <2>4, <2>5 DEF Runs, CompilerInstance, performParseOnly, performSema, perform,
                            open, emitObjectFile, format, At
  <2>7. ~Kill(p)
    BY <1>2, <2>2 DEF Kill, Dies, Goes, Idle
  <2>8. ASSUME NEW status, Return(p, status) PROVE FALSE
    BY <1>2, <2>2, <2>8 DEF Return, Leaves, Goes, RunRecord
  <2>9. binary' = object
    BY <2>6, <2>7, <2>8 DEF main, link
  <2> QED
    BY <2>1, <2>9
<1>3. PassInv /\ OnlyMine /\ [Next]_vars =>
        [\A p \in Proc : (At(p, "main") /\ run'[p].linked) =>
             \/ ~run[p].emitted \/ ~run[p].alone
             \/ binary' = {Code(p)}]_vars
  BY <1>2
<1> QED
  BY <1>1, <1>3, StepMine, AlwaysPass, PTL DEF Spec, BuildsWhatItRead

=============================================================================
