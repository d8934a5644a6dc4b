----------------------------- MODULE GenFuncRun -----------------------------
(***************************************************************************)
(* Does the emitted code do what the function says?  When GenFunc is done, *)
(* the code is executed beside the statements of the function: `at' walks  *)
(* the basic blocks and `expect' is where the structured program is, by    *)
(* the language reference (docs/Language reference/Statements.md).         *)
(***************************************************************************)
EXTENDS GenFunc, FiniteSetsExt

VARIABLES
    at,        \* the instruction to execute: <<block, index>>
    expect,    \* what the function does next
    halted     \* the function has returned

runVars == <<at, expect, halted>>

-----------------------------------------------------------------------------
(* The structured program: what is done next *)

Exit == <<"exit", 0>>

Nested(s, branch) ==
    {t \in 1 .. Len(prog) : prog[t].parent = s /\ prog[t].branch = branch}

IsLoop(s) == prog[s].kind \in {"while", "for"}

(* Statement s is in a block of l: the statements in its blocks come right *)
(* behind a statement.                                                     *)
Encloses(l, s) == l < s /\ \A t \in l + 1 .. s : prog[t].parent >= l

LoopOf(s) == Max({l \in 1 .. s - 1 : IsLoop(l) /\ Encloses(l, s)})

(* Control comes to the end of a block of statement s, where after[t] is *)
(* what follows t. *)
EndOfBlock(after, s) ==
    IF s = 0 THEN Exit
    ELSE CASE prog[s].kind = "while" -> <<"test", s>>
           [] prog[s].kind = "for" -> <<"next", s>>
           [] OTHER -> after[s]

StartOf(after, s) ==
    CASE prog[s].kind = "eval" -> <<"eval", s>>
      [] prog[s].kind = "break" -> after[LoopOf(s)]
      [] prog[s].kind = "return" -> IF void THEN Exit ELSE <<"value", s>>
      [] prog[s].kind = "for" -> <<"setup", s>>
      [] OTHER -> <<"test", s>>

FirstOf(after, s, stmts) ==
    IF stmts = {} THEN EndOfBlock(after, s) ELSE StartOf(after, Min(stmts))

Later(s) == {t \in Nested(prog[s].parent, prog[s].branch) : t > s}

After[s \in 1 .. Len(prog)] == FirstOf(After, prog[s].parent, Later(s))

BranchOf(s, taken) ==
    IF ~taken THEN "else" ELSE IF IsLoop(s) THEN "body" ELSE "then"

(* What follows a step, and a test with its outcome *)
Step(what) ==
    CASE what[1] = "eval" -> After[what[2]]
      [] what[1] = "value" -> Exit
      [] OTHER -> <<"test", what[2]>>

Test(s, taken) ==
    IF taken \/ prog[s].kind = "ifelse"
    THEN FirstOf(After, s, Nested(s, BranchOf(s, taken)))
    ELSE After[s]

-----------------------------------------------------------------------------
RunInit ==
    /\ Init
    /\ at = <<<<"header", 0>>, 1>>
    /\ expect = Exit
    /\ halted = FALSE

instr == code[at[1]][at[2]]

Running == phase = "done" /\ ~halted

(* The code is out: the function is called. *)
Call ==
    /\ EmitRet
    /\ expect' = FirstOf(After, 0, Nested(0, "body"))
    /\ UNCHANGED <<at, halted>>

ExecBr ==
    /\ Running /\ instr.op = "br"
    /\ at' = <<instr.to, 1>>
    /\ UNCHANGED <<vars, expect, halted>>

ExecDo ==
    /\ Running /\ instr.op = "do"
    /\ at' = <<at[1], at[2] + 1>>
    /\ expect' = Step(instr.what)
    /\ UNCHANGED <<vars, halted>>

ExecCondBr ==
    /\ Running /\ instr.op = "condbr"
    /\ \E taken \in BOOLEAN :
        /\ at' = <<IF taken THEN instr.then ELSE instr.else, 1>>
        /\ expect' = Test(instr.what[2], taken)
    /\ UNCHANGED <<vars, halted>>

ExecRet ==
    /\ Running /\ instr.op = "ret"
    /\ halted' = TRUE
    /\ UNCHANGED <<vars, at, expect>>

Emission == Visit /\ UNCHANGED runVars

RunNext == Emission \/ Call \/ ExecBr \/ ExecDo \/ ExecCondBr \/ ExecRet

RunSpec == RunInit /\ [][RunNext]_<<vars, runVars>>

-----------------------------------------------------------------------------
(* The emitted code evaluates, tests and returns exactly what the function  *)
(* does next, whichever way its conditions go: break leaves the innermost   *)
(* loop, return the function, an if joins after both branches.              *)
InSync ==
    Running =>
        CASE instr.op \in {"do", "condbr"} -> instr.what = expect
          [] instr.op = "ret" -> expect = Exit
          [] OTHER -> TRUE

=============================================================================
