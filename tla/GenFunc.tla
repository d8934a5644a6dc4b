------------------------------- MODULE GenFunc -------------------------------
(***************************************************************************)
(* Emission of the basic blocks of one function: the visitor GenFunc       *)
(* (lib/IRGen/GenFunc.cpp) walking the body of a function, and the         *)
(* constructor and destructor of IRGenFunc around it.                      *)
(*                                                                         *)
(* The function being compiled is not a parameter: the next statement of   *)
(* the innermost open block is chosen when the visitor comes to it, so a   *)
(* run of the specification is the compilation of some function body, and  *)
(* `prog' records which one.  Expressions are abstracted to an instruction *)
(* that stands for their evaluation.                                       *)
(***************************************************************************)
EXTENDS Integers, Sequences

CONSTANTS
    MaxStmts,  \* bound: statements in the function
    Untidy     \* which of the functions that break verification are compiled:
               \* "after jump": statements follow a break or return in its block
               \* "for tail": the block of a for body ends in a break or return

ASSUME BoundAssumption ==
    MaxStmts \in Nat /\ Untidy \subseteq {"after jump", "for tail"}

VARIABLES
    void,    \* the function returns nothing
    prog,    \* the statements visited so far: [kind, parent, branch]
    open,    \* the visitor's calls: blocks being visited, innermost last
    code,    \* instructions of each basic block
    placed,  \* the blocks in the function's block list
    cur,     \* Builder's insertion block
    loops,   \* LoopStack
    phase    \* "emit" until the IRGenFunc is destroyed, then "done"

vars == <<void, prog, open, code, placed, cur, loops, phase>>

-----------------------------------------------------------------------------
Stmt == 1 .. MaxStmts

Jumps == {"break", "return"}

Kinds == {"eval", "if", "ifelse", "while", "for"} \union Jumps

Parts == {"if.then", "if.else", "if.cont", "loop.header", "loop.body", "loop.end"}

(* A block is named by its part and the statement it was made for. *)
Block == (Parts \X Stmt) \union {<<p, 0>> : p \in {"header", "body", "ret"}}

RetBlock == <<"ret", 0>>

Do(what, s) == [op |-> "do", what |-> <<what, s>>]

Br(b) == [op |-> "br", to |-> b]

CondBr(s, t, e) == [op |-> "condbr", what |-> <<"test", s>>, then |-> t, else |-> e]

Ret == [op |-> "ret"]

IsTerminator(i) == i.op \in {"br", "condbr", "ret"}

(* BasicBlock::getTerminator() # nullptr: the last instruction is one *)
Terminated(c, b) == c[b] # <<>> /\ IsTerminator(c[b][Len(c[b])])

Emit(c, b, i) == [c EXCEPT ![b] = Append(@, i)]

(* Mutant: the terminator is not looked at *)
EmitAlways(c, b, i) == Emit(c, b, i)

EmitUnlessTerminated(c, b, i) == IF Terminated(c, b) THEN c ELSE Emit(c, b, i)

-----------------------------------------------------------------------------
top == open[Len(open)]

new == Len(prog) + 1

(* The innermost block has just seen a break or return. *)
Jumped ==
    /\ prog # <<>>
    /\ LET last == prog[Len(prog)]
       IN  /\ last.kind \in Jumps
           /\ last.parent = top.stmt /\ last.branch = top.branch

(* The innermost open block has one more statement, of this kind. *)
NextStmt(kind) ==
    /\ phase = "emit"
    /\ Len(prog) < MaxStmts
    /\ Jumped => "after jump" \in Untidy
    /\ kind \in Jumps /\ top.kind = "for" => "for tail" \in Untidy
    /\ prog' = Append(prog, [kind |-> kind, parent |-> top.stmt, branch |-> top.branch])

PushFrame(kind, branch) ==
    open' = Append(open, [stmt |-> new, kind |-> kind, branch |-> branch])

PopFrame == open' = SubSeq(open, 1, Len(open) - 1)

(* LoopInfo of the loop that is statement s *)
Loop(s) == [header |-> <<"loop.header", s>>, end |-> <<"loop.end", s>>]

(* LoopInfoRAII *)
PushLoop == loops' = Append(loops, Loop(new))

(* Mutant: the loop stays on the stack *)
KeepLoop == loops' = loops

PopLoop == loops' = SubSeq(loops, 1, Len(loops) - 1)

-----------------------------------------------------------------------------
(* IRGenFunc's constructor has run: the header falls into the body. *)
Init ==
    /\ void \in BOOLEAN
    /\ prog = <<>>
    /\ open = <<[stmt |-> 0, kind |-> "func", branch |-> "body"]>>
    /\ code = [b \in Block |-> IF b = <<"header", 0>> THEN <<Br(<<"body", 0>>)>>
                               ELSE <<>>]
    /\ placed = {<<"header", 0>>, <<"body", 0>>}
    /\ cur = <<"body", 0>>
    /\ loops = <<>>
    /\ phase = "emit"

(* visitVarDecl, the expressions: straight-line code *)
VisitSimple ==
    /\ NextStmt("eval")
    /\ code' = Emit(code, cur, Do("eval", new))
    /\ UNCHANGED <<void, open, placed, cur, loops, phase>>

(* Mutant: a break goes on with the loop *)
ContinueTarget == loops[Len(loops)].header

BreakTarget == loops[Len(loops)].end

(* Sema lets a break through only inside a loop. *)
VisitBreak ==
    /\ loops # <<>>
    /\ NextStmt("break")
    /\ code' = Emit(code, cur, Br(BreakTarget))
    /\ UNCHANGED <<void, open, placed, cur, loops, phase>>

VisitReturn ==
    /\ NextStmt("return")
    /\ code' = Emit(IF void THEN code ELSE Emit(code, cur, Do("value", new)),
                    cur, Br(RetBlock))
    /\ UNCHANGED <<void, open, placed, cur, loops, phase>>

IfBlocks(s) == {<<"if.then", s>>, <<"if.else", s>>, <<"if.cont", s>>}

(* Mutant: a false condition goes to the else block, be there one or not *)
AlwaysElse(kind, s) == <<"if.else", s>>

(* Where a false condition goes *)
IfNot(kind, s) == IF kind = "ifelse" THEN <<"if.else", s>> ELSE <<"if.cont", s>>

VisitIf(kind) ==
    /\ kind \in {"if", "ifelse"}
    /\ NextStmt(kind)
    /\ placed' = placed \union IfBlocks(new)
    /\ code' = Emit(code, cur, CondBr(new, <<"if.then", new>>, IfNot(kind, new)))
    /\ cur' = <<"if.then", new>>
    /\ PushFrame(kind, "then")
    /\ UNCHANGED <<void, loops, phase>>

(* The then block is visited; without an else its block is taken back. *)
EndThen ==
    LET s == top.stmt
    IN  /\ phase = "emit" /\ top.branch = "then"
        /\ code' = EmitUnlessTerminated(code, cur, Br(<<"if.cont", s>>))
        /\ IF top.kind = "ifelse"
           THEN /\ cur' = <<"if.else", s>>
                /\ open' = [open EXCEPT ![Len(open)].branch = "else"]
                /\ UNCHANGED placed
           ELSE /\ cur' = <<"if.cont", s>>
                /\ placed' = placed \ {<<"if.else", s>>}
                /\ PopFrame
        /\ UNCHANGED <<void, prog, loops, phase>>

EndElse ==
    LET s == top.stmt
    IN  /\ phase = "emit" /\ top.branch = "else"
        /\ code' = EmitUnlessTerminated(code, cur, Br(<<"if.cont", s>>))
        /\ cur' = <<"if.cont", s>>
        /\ PopFrame
        /\ UNCHANGED <<void, prog, placed, loops, phase>>

(* The blocks of a while or for statement; c is the code in front of it *)
OpenLoop(kind, c) ==
    LET header == <<"loop.header", new>>
        body == <<"loop.body", new>>
        end == <<"loop.end", new>>
    IN  /\ NextStmt(kind)
        /\ placed' = placed \union {header, body, end}
        /\ code' = Emit(Emit(c, cur, Br(header)), header, CondBr(new, body, end))
        /\ cur' = body
        /\ PushLoop
        /\ PushFrame(kind, "body")
        /\ UNCHANGED <<void, phase>>

CloseLoop(c) ==
    /\ code' = c
    /\ cur' = <<"loop.end", top.stmt>>
    /\ PopLoop
    /\ PopFrame
    /\ UNCHANGED <<void, prog, placed, phase>>

VisitWhile == OpenLoop("while", code)

EndWhile ==
    /\ phase = "emit" /\ top.kind = "while"
    /\ CloseLoop(EmitUnlessTerminated(code, cur, Br(<<"loop.header", top.stmt>>)))

(* RangeIterator's set-up goes in front of the loop. *)
VisitFor == OpenLoop("for", Emit(code, cur, Do("setup", new)))

(* Unlike the other statements, the end of a for body is emitted whether *)
(* or not the block is terminated already.                               *)
EndFor ==
    /\ phase = "emit" /\ top.kind = "for"
    /\ CloseLoop(Emit(Emit(code, cur, Do("next", top.stmt)),
                      cur, Br(<<"loop.header", top.stmt>>)))

(* IRGenFunc's destructor, emitRet: every open block returns *)
EmitRet ==
    /\ phase = "emit" /\ Len(open) = 1
    /\ placed' = placed \union {RetBlock}
    /\ code' = [b \in Block |->
                    IF b = RetBlock THEN <<Ret>>
                    ELSE IF b \in placed /\ ~Terminated(code, b)
                    THEN Append(code[b], Br(RetBlock))
                    ELSE code[b]]
    /\ phase' = "done"
    /\ UNCHANGED <<void, prog, open, cur, loops>>

Visit ==
    \/ VisitSimple \/ VisitBreak \/ VisitReturn
    \/ VisitIf("if") \/ VisitIf("ifelse") \/ EndThen \/ EndElse
    \/ VisitWhile \/ EndWhile
    \/ VisitFor \/ EndFor

Next == Visit \/ EmitRet

Spec == Init /\ [][Next]_vars

-----------------------------------------------------------------------------
(* Every name the emitter uses is one it has made. *)
Instr ==
    [op : {"do"}, what : {"eval", "value", "setup", "next"} \X Stmt]
    \union [op : {"br"}, to : Block]
    \union [op : {"condbr"}, what : {"test"} \X Stmt, then : Block, else : Block]
    \union {Ret}

Frame == [stmt : 0 .. MaxStmts, kind : Kinds \union {"func"},
          branch : {"body", "then", "else"}]

TypeOK ==
    /\ void \in BOOLEAN
    /\ prog \in Seq([kind : Kinds, parent : 0 .. MaxStmts,
                     branch : {"body", "then", "else"}])
    /\ Len(prog) <= MaxStmts
    /\ open \in Seq(Frame) /\ open # <<>>
    /\ code \in [Block -> Seq(Instr)]
    /\ placed \subseteq Block
    /\ cur \in placed
    /\ loops \in Seq([header : Block, end : Block])
    /\ phase \in {"emit", "done"}

(* LoopStack holds the loops whose bodies are being visited, the outer ones *)
(* first (a statement has a smaller number than those in its blocks), so    *)
(* that a break goes to the end of the innermost one; and all that is       *)
(* emitted is emitted into blocks of the function (TypeOK).                 *)
OpenLoops ==
    {open[i].stmt : i \in {j \in 1 .. Len(open) : open[j].kind \in {"while", "for"}}}

LoopsMatch ==
    /\ TypeOK
    /\ \A i, j \in 1 .. Len(open) : i < j => open[i].stmt < open[j].stmt
    /\ {loops[i] : i \in 1 .. Len(loops)} = {Loop(s) : s \in OpenLoops}
    /\ \A i, j \in 1 .. Len(loops) :
          i < j => loops[i].header[2] < loops[j].header[2]

(* Basic blocks are well formed, as llvm::verifyModule asks                 *)
(* (CompilerInstance.cpp:138): a terminator is the last instruction of its  *)
(* block.                                                                   *)
OneTerminator ==
    \A b \in placed : \A i \in 1 .. Len(code[b]) - 1 : ~IsTerminator(code[b][i])

(* While statements are visited, the blocks that still lack a terminator    *)
(* are the insertion block and the ones an open statement will come to.     *)
(* So emitRet closes the function's last block and no other: nothing that   *)
(* should go on elsewhere is made to return.                                *)
Pending(f) ==
    CASE f.kind \in {"while", "for"} -> {<<"loop.end", f.stmt>>}
      [] f.kind \in {"if", "ifelse"} /\ f.branch = "then" ->
            {<<"if.cont", f.stmt>>, <<"if.else", f.stmt>>}
      [] f.branch = "else" -> {<<"if.cont", f.stmt>>}
      [] OTHER -> {}

OnlyPendingOpen ==
    phase = "emit" =>
        LET unterminated == {b \in placed : ~Terminated(code, b)}
            pending == UNION {Pending(open[i]) : i \in 1 .. Len(open)}
        IN  pending \subseteq unterminated /\ unterminated \subseteq pending \union {cur}

(* The finished function is closed: each of its blocks is terminated and    *)
(* goes to blocks of the function only (the removed if.else included), and  *)
(* emitRet had nothing to close but the last one.                           *)
Closed ==
    /\ OnlyPendingOpen
    /\ phase = "done" =>
          \A b \in placed :
             /\ Terminated(code, b)
             /\ \A i \in 1 .. Len(code[b]) :
                   LET instr == code[b][i]
                   IN  CASE instr.op = "br" -> instr.to \in placed
                         [] instr.op = "condbr" -> {instr.then, instr.else} \subseteq placed
                         [] OTHER -> TRUE

=============================================================================
