----------------------------- MODULE RangeLoop -----------------------------
(***************************************************************************)
(* The code IRGen emits for a for-in loop (class RangeIterator and         *)
(* GenFunc::visitForStmt) together with the two runtime functions it       *)
(* calls, __iter_range and __iter_step.  One action per basic block.       *)
(*                                                                         *)
(* The loop is counted by a hidden counter `counter' (the alloca __iter)   *)
(* against `size', both machine integers; the iterator the body reads is a *)
(* second alloca, `iter', stepped in parallel.  Sema rejects assignments   *)
(* to the iterator (a Let ParamDecl), so the body does not change it.      *)
(***************************************************************************)
EXTENDS Int64, Sequences

CONSTANT Requests  \* the values [start, end, inclusive] loops are run with

ASSUME RequestsAssumption ==
    Requests \subseteq [start : Int64, end : Int64, inclusive : BOOLEAN]

VARIABLES
    range,    \* the operands of the range statement, evaluated
    pc,       \* the basic block to be executed
    iter,     \* *Iter
    counter,  \* *__iter
    size,     \* __size
    step,     \* Step
    visited,  \* history: the iterator values the body saw
    broke     \* history: the body left the loop by break or return

loopVars == <<range, pc, iter, counter, size, step, visited, broke>>

-----------------------------------------------------------------------------
(* The runtime library *)

OppositeSigns(x, y) == (x > 0 /\ y < 0) \/ (x < 0 /\ y > 0)

(* Mutant: the sum is taken for equal signs as well *)
iter_range_sum(s, e) == Abs(Add(Abs(s), Abs(e)))

iter_range(s, e) ==
    Abs(IF OppositeSigns(s, e) THEN Add(Abs(s), Abs(e)) ELSE Sub(s, e))

iter_step(s, e) == IF s < e THEN 1 ELSE -1

(* Mutant: one less for an exclusive range, as the comment at           *)
(* GenFunc.cpp:84 says, instead of one more for an inclusive one        *)
LoopSizeSubtract(r) ==
    LET n == iter_range(r.start, r.end)
    IN  IF r.inclusive THEN n ELSE Sub(n, 1)

LoopSize(r) ==
    LET n == iter_range(r.start, r.end)
    IN  IF r.inclusive THEN Add(n, 1) ELSE n

-----------------------------------------------------------------------------
(* The allocas hold nothing until emitHeader's stores; 0 stands for that. *)
LoopInit ==
    /\ range \in Requests
    /\ pc = "entry"
    /\ iter = 0 /\ counter = 0 /\ size = 0 /\ step = 0
    /\ visited = <<>>
    /\ broke = FALSE

(* The block that holds the for statement: iterator set up, br header *)
Enter ==
    /\ pc = "entry"
    /\ size' = LoopSize(range)
    /\ step' = iter_step(range.start, range.end)
    /\ counter' = 0
    /\ iter' = range.start
    /\ pc' = "header"
    /\ UNCHANGED <<range, visited, broke>>

(* Mutant: emitCond branches to the header where it should to loop.end *)
HeaderToHeader ==
    /\ pc = "header"
    /\ pc' = IF counter < size THEN "body" ELSE "header"
    /\ UNCHANGED <<range, iter, counter, size, step, visited, broke>>

(* loop.header: the signed comparison of the counter with the size *)
Header ==
    /\ pc = "header"
    /\ pc' = IF counter < size THEN "body" ELSE "end"
    /\ UNCHANGED <<range, iter, counter, size, step, visited, broke>>

(* loop.body: the statements of the body run to their end *)
Body ==
    /\ pc = "body"
    /\ visited' = Append(visited, iter)
    /\ pc' = "next"
    /\ UNCHANGED <<range, iter, counter, size, step, broke>>

(* loop.body leaves the loop under some condition: br loop.end or br ret *)
Leave ==
    /\ pc = "next"
    /\ broke' = TRUE
    /\ pc' = "end"
    /\ UNCHANGED <<range, iter, counter, size, step, visited>>

(* the rest of the body's last block: emitNext, br header *)
Advance ==
    /\ pc = "next"
    /\ counter' = Add(counter, 1)
    /\ iter' = Add(iter, step)
    /\ pc' = "header"
    /\ UNCHANGED <<range, size, step, visited, broke>>

LoopNext == Enter \/ Header \/ Body \/ Leave \/ Advance

(* A compiled program runs on: some next step is always taken. *)
Fairness == WF_loopVars(LoopNext)

LoopSpec == LoopInit /\ [][LoopNext]_loopVars /\ Fairness

-----------------------------------------------------------------------------
(* All variables, and the values the body sees, are machine integers in *)
(* every block.                                                         *)
LoopTypeOK ==
    /\ range \in Requests
    /\ pc \in {"entry", "header", "body", "next", "end"}
    /\ iter \in Int64
    /\ counter \in Int64
    /\ size \in Int64
    /\ step \in {-1, 0, 1}
    /\ visited \in Seq(Int64)
    /\ broke \in BOOLEAN

status == IF pc # "end" THEN "running"
          ELSE IF broke THEN "left" ELSE "exhausted"

Walk == INSTANCE RangeWalk WITH status <- status, Limit <- MaxInt

(* The range has a size that a machine integer can hold. *)
Fits(r) == Walk!Size(r) <= MaxInt

-----------------------------------------------------------------------------
(* The two counters of the loop agree: inside the loop the iterator is the *)
(* value that follows the `counter' values counted so far, and size is the *)
(* real size of the range, whatever the signs of its ends, or less than it *)
(* where no machine integer can hold it.  This is the inductive            *)
(* strengthening the refinement proof rests on.                            *)
Parallel ==
    pc \in {"header", "body", "next"} =>
        /\ size <= Walk!Size(range)
        /\ Fits(range) => size = Walk!Size(range)
        /\ step = iter_step(range.start, range.end)
        /\ counter \in Nat
        /\ Fits(range) => counter <= size
        /\ pc = "header" => counter = Len(visited)
        /\ pc = "body" => counter = Len(visited) /\ counter < size
        /\ pc = "next" => counter + 1 = Len(visited) /\ counter < size
        /\ counter < size => iter = Walk!ValueAfter(range, counter)

(* Outside the loop: nothing is visited before it; it is left after the *)
(* whole range, if it fits, or by its body.                             *)
Outside ==
    /\ pc = "entry" => visited = <<>>
    /\ pc = "end" /\ ~broke /\ Fits(range) => Len(visited) = Walk!Size(range)
    /\ broke => pc = "end" /\ visited # <<>>

LoopInv == Parallel /\ Outside

(* The loop walks its range as the language reference says: every emitted  *)
(* block is a step of RangeWalk or changes nothing visible.  Of a range    *)
(* that is too large it may visit less, but nothing outside of it, nothing *)
(* twice and nothing out of order.                                         *)
Implements == Walk!Spec

(* A loop whose body always comes to its end is left: the counter reaches  *)
(* any size a machine integer can hold, even a wrapped one.                *)
Terminates == <>(pc = "end")

=============================================================================
