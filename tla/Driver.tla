------------------------------- MODULE Driver -------------------------------
(***************************************************************************)
(* Runs of duskc and dusk-format on one input file in one directory.  A    *)
(* run goes through the phases of CompilerInstance and main(); what they   *)
(* find depends on the kind of text it has read.  Runs may overlap, be     *)
(* killed, and have the text edited behind them; what they share are the   *)
(* input, its object file (`<input>.o', whatever -o says) and a.out.       *)
(***************************************************************************)
EXTENDS Naturals

CONSTANTS
    Proc,      \* the runs there may be at a time
    MaxEdits,  \* bound: how often the text is edited
    MaxRuns,   \* bound: how many runs are started
    None       \* no such file

ASSUME DriverAssumption == MaxEdits \in Nat /\ MaxRuns \in Nat

VARIABLES
    source,  \* the input file: a text, or None
    object,  \* its object file: the pieces of code in it, or None
    binary,  \* a.out: the pieces it was linked from, or None
    edits,   \* how often the text was edited
    runs,    \* how many runs were started
    run      \* what each run is doing

vars == <<source, object, binary, edits, runs, run>>

-----------------------------------------------------------------------------
(* The kinds of texts.  The compiler tells of the Unrecorded ones, a       *)
(* comment without an end and a function defined twice, that they are      *)
(* wrong, and compiles them; a lone bar it refuses without a word.  Some   *)
(* texts the parser reads forever, others stop the checker or the code    *)
(* generator.                                                              *)
Refused    == {"badSyntax", "loneBar", "badTypes"}
Unrecorded == {"openComment", "redefined"}
Kind == Refused \union Unrecorded \union
        {"good", "badModule", "endless", "stops"}

Text  == [id : 0 .. MaxEdits, kind : Kind]
Piece == [of : Text, whole : BOOLEAN]

Code(p) == [of |-> run[p].text, whole |-> TRUE]
Torn(p) == [of |-> run[p].text, whole |-> FALSE]

(* What a run knows: consumer, that Diag has one; error, of its context;   *)
(* and as history: told, that it has written to stderr; emitted, that all  *)
(* of its object file is written; alone, that no other run has had it open *)
(* since this run opened it; linked, that clang++ has made a binary.       *)
Idle ==
    [at |-> "idle", tool |-> "duskc", c |-> FALSE, consumer |-> FALSE,
     text |-> None, error |-> FALSE, told |-> FALSE, emitted |-> FALSE, alone |-> FALSE,
     linked |-> FALSE, status |-> "none"]

At(p, phase) == run[p].at = phase
KindOf(p) == run[p].text.kind

Goes(p, now) == run' = [run EXCEPT ![p] = now]

Files == UNCHANGED <<source, object, binary, edits, runs>>

(* What is of no use any more is forgotten. *)
Leaves(p, now, status) ==
    Goes(p, [now EXCEPT !.at = "ended", !.status = status,
                        !.emitted = FALSE, !.alone = FALSE])

Return(p, status) == Leaves(p, run[p], status)

Dies(p, status) == Goes(p, [Idle EXCEPT !.at = "ended", !.status = status])

(* The diagnostic engine gives a diagnostic to all of its consumers. *)
emitDiagnostic(p) == run[p].told \/ run[p].consumer

(* The process stops at a failed assertion or a null. *)
Stops(p) == Dies(p, "crashed") /\ Files

-----------------------------------------------------------------------------
(* initCompilerInstance(): setArgs() reads the file. *)
Input(p, fresh) ==
    IF source = None THEN [fresh EXCEPT !.at = "ended", !.told = TRUE, !.status = "1"]
    ELSE [fresh EXCEPT !.at = "performParseOnly", !.text = source]

(* CompilerInstance() asks its invocation, in which nothing is set yet,    *)
(* whether to be quiet, before it adds itself to the consumers.            *)
CompilerInstance(p) ==
    /\ run[p].at \in {"idle", "ended"} /\ runs < MaxRuns
    /\ \E tool \in {"duskc", "dusk-format"}, c, consumer \in BOOLEAN :
          /\ tool = "dusk-format" => ~c
          /\ Goes(p, Input(p, [Idle EXCEPT !.tool = tool, !.c = c, !.consumer = consumer]))
    /\ runs' = runs + 1
    /\ UNCHANGED <<source, object, binary, edits>>

(* A mutant: performSema() does not ask whether there was an error. *)
AfterParseUnasked(p, error) ==
    IF run[p].tool = "duskc" THEN "performSema" ELSE IF error THEN "main" ELSE "format"

(* Where performParseOnly() returns to *)
AfterParse(p, error) ==
    IF error THEN "main" ELSE IF run[p].tool = "duskc" THEN "performSema" ELSE "format"

performParseOnly(p) ==
    /\ At(p, "performParseOnly") /\ KindOf(p) # "endless"
    /\ LET error == KindOf(p) \in {"badSyntax", "loneBar"}
       IN  Goes(p, [run[p] EXCEPT
                    !.error = error, !.at = AfterParse(p, error),
                    !.told = IF KindOf(p) \in {"badSyntax", "openComment"}
                             THEN emitDiagnostic(p) ELSE run[p].told])
    /\ Files

(* A mutant: what the checker finds is recorded and not shown. *)
performSemaSilent(p) ==
    /\ At(p, "performSema")
    /\ LET error == KindOf(p) = "badTypes"
       IN  Goes(p, [run[p] EXCEPT !.error = error,
                                  !.at = IF error THEN "main" ELSE "perform"])
    /\ Files

performSema(p) ==
    /\ At(p, "performSema")
    /\ \/ /\ LET error == KindOf(p) = "badTypes"
             IN  Goes(p, [run[p] EXCEPT
                          !.error = error, !.at = IF error THEN "main" ELSE "perform",
                          !.told = IF error \/ KindOf(p) = "redefined"
                                   THEN emitDiagnostic(p) ELSE run[p].told])
          /\ Files
       \/ KindOf(p) \in {"stops", "redefined"} /\ Stops(p)

(* IRGenerator::perform() *)
perform(p) ==
    /\ At(p, "perform")
    /\ IF KindOf(p) = "stops" THEN Stops(p)
       ELSE Goes(p, [run[p] EXCEPT !.at = "open"]) /\ Files

(* emitObjectFile() returns, which records no error. *)
GivesUp(p) == Goes(p, [run[p] EXCEPT !.at = "main", !.told = TRUE]) /\ Files

HasOpen(q) == At(q, "emit")

(* Opening the object file empties it. *)
OpenObject(p) ==
    /\ object' = {}
    /\ run' = [q \in Proc |->
                 IF q = p
                 THEN [run[p] EXCEPT !.at = "emit",
                                     !.alone = \A r \in Proc \ {p} : ~HasOpen(r)]
                 ELSE [run[q] EXCEPT !.alone = FALSE]]
    /\ UNCHANGED <<source, binary, edits, runs>>

(* A mutant: an object file that is there is taken for up to date. *)
openUnlessThere(p) ==
    /\ At(p, "open")
    /\ \/ object = None /\ OpenObject(p)
       \/ /\ object # None
          /\ Goes(p, [run[p] EXCEPT !.at = "main", !.emitted = TRUE, !.alone = TRUE])
          /\ Files

(* No target, or the object file cannot be opened *)
open(p) ==
    /\ At(p, "open")
    /\ OpenObject(p) \/ GivesUp(p)

(* Behind the code of this run the file may keep the end of what another   *)
(* run, which opened it as well, has written.                              *)
Written(p, piece) == {{piece}, object \union {piece}}

(* The pass manager runs on the module.  A failed write is fatal when the  *)
(* stream goes out of scope; a module that is not well-formed may stop the *)
(* code generator, as nobody looks at the answer of verifyModule().        *)
emitObjectFile(p) ==
    /\ At(p, "emit")
    /\ \/ GivesUp(p)
       \/ /\ object' \in Written(p, Code(p))
          /\ Goes(p, [run[p] EXCEPT !.at = "main", !.emitted = TRUE])
          /\ UNCHANGED <<source, binary, edits, runs>>
       \/ /\ object' \in Written(p, Torn(p))
          /\ \/ Goes(p, [run[p] EXCEPT !.at = "ended", !.told = TRUE, !.status = "1"])
             \/ KindOf(p) = "badModule" /\ Dies(p, "crashed")
          /\ UNCHANGED <<source, binary, edits, runs>>

Linkable == object \notin {None, {}}

(* A mutant: the linker waits for an object file. *)
linkWhenThere(p) ==
    /\ object # None
    /\ \/ /\ Linkable /\ binary' = object
          /\ Leaves(p, [run[p] EXCEPT !.linked = TRUE], "0")
       \/ /\ binary' \in {binary, None}
          /\ Return(p, "0")

(* The call of clang++.  What it answers is ignored. *)
link(p) ==
    \/ /\ Linkable /\ binary' = object
       /\ Leaves(p, [run[p] EXCEPT !.linked = TRUE], "0")
    \/ /\ binary' \in {binary, None}
       /\ Return(p, "0")

(* The end of main().  A run with -c returns 1 whatever happened. *)
main(p) ==
    /\ At(p, "main")
    /\ IF run[p].tool = "duskc" /\ ~run[p].c /\ ~run[p].error
       THEN link(p)
       ELSE Return(p, "1") /\ UNCHANGED binary
    /\ UNCHANGED <<source, object, edits, runs>>

(* Formatter::format(), to the standard output; some texts stop it. *)
format(p) ==
    /\ At(p, "format")
    /\ \/ Return(p, "0") /\ Files
       \/ Stops(p)

-----------------------------------------------------------------------------
(* The user edits the text, or interrupts a run. *)
Edit ==
    /\ edits < MaxEdits
    /\ edits' = edits + 1
    /\ \E kind \in Kind : source' = [id |-> edits', kind |-> kind]
    /\ UNCHANGED <<object, binary, runs, run>>

Kill(p) ==
    /\ run[p].at \notin {"idle", "ended"}
    /\ Dies(p, "killed")
    /\ object' \in {object} \union IF HasOpen(p) THEN Written(p, Torn(p)) ELSE {}
    /\ UNCHANGED <<source, binary, edits, runs>>

Init ==
    /\ source \in {None} \union {t \in Text : t.id = 0}
    /\ object = None /\ binary = None
    /\ edits = 0 /\ runs = 0
    /\ run = [p \in Proc |-> Idle]

(* What a run does once it is started *)
Runs(p) ==
    \/ performParseOnly(p) \/ performSema(p) \/ perform(p)
    \/ open(p) \/ emitObjectFile(p) \/ main(p) \/ format(p)

Next == Edit \/ \E p \in Proc : CompilerInstance(p) \/ Runs(p) \/ Kill(p)

(* The system goes on with every process. *)
Spec == Init /\ [][Next]_vars /\ \A p \in Proc : WF_vars(Runs(p))

-----------------------------------------------------------------------------
(* The files hold no code of a text in which an error was found, whoever   *)
(* wrote them and whatever was there before, unless the error was only     *)
(* told of: each phase runs only if those before it recorded no error      *)
(* (CompilerInstance::performSema, performCompilation).                    *)
NoRefusedCode ==
    \A file \in {object, binary} \ {None} :
       \A x \in file : x.of.kind \in Unrecorded \union {"good", "badModule"}

(* When main() returns 0 and a binary was linked, it is linked from the    *)
(* text that this run has read, all of it and nothing else: unless         *)
(* emitObjectFile() gave up, after which main() links what is there, or    *)
(* another run has had the object file open meanwhile.                     *)
BuildsWhatItRead ==
    [][\A p \in Proc : (At(p, "main") /\ run'[p].linked) =>
          \/ ~run[p].emitted \/ ~run[p].alone
          \/ binary' = {Code(p)}]_vars

(* Whoever gets a 1 without -c has been told something and gets no 0 for   *)
(* what was recorded as an error; but a lone bar is no diagnostic, and if  *)
(* the unset member said quiet there are none.                             *)
FailureTold ==
    \A p \in Proc : At(p, "ended") =>
       /\ run[p].status = "0" => ~run[p].error
       /\ (run[p].status = "1" /\ ~run[p].c) =>
             run[p].told \/ ~run[p].consumer \/ KindOf(p) = "loneBar"

(* A run ends, in whatever state it finds the files, unless its text is    *)
(* one that the parser never gets to the end of.                           *)
RunsEnd ==
    \A p \in Proc :
       run[p].at \notin {"idle", "ended"} ~>
          \/ At(p, "ended")
          \/ At(p, "performParseOnly") /\ KindOf(p) = "endless"

=============================================================================
