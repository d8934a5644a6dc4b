---------------------------- MODULE GenFuncProofs ----------------------------
(***************************************************************************)
(* For functions of any length: the emitter's stack of loops is that of    *)
(* the statements being visited and all it names exists (LoopsMatch), no   *)
(* block is left without an end (Closed), and, unless statements follow a  *)
(* jump, none has two (OneTerminator); and the code, when it runs, does    *)
(* what the statements say (InSync).  And for the loop emitted for a for   *)
(* statement: RangeLoop implements RangeWalk.                              *)
(***************************************************************************)
EXTENDS GenFuncRun, RangeLoop, WellFoundedInduction, TLAPS

-----------------------------------------------------------------------------
(* Type correctness and the stack of loops *)

LoopKinds == {"while", "for"}

(* What a call of the visitor is visiting *)
FrameShape(f) ==
    \/ f.kind \in LoopKinds /\ f.branch = "body"
    \/ f.kind = "if" /\ f.branch = "then"
    \/ f.kind = "ifelse" /\ f.branch \in {"then", "else"}

Shape ==
    /\ open[1] = [stmt |-> 0, kind |-> "func", branch |-> "body"]
    /\ \A i \in 2 .. Len(open) :
          open[i].stmt \in 1 .. Len(prog) /\ FrameShape(open[i])

(* What an open statement goes on with is in the function already. *)
TargetsPlaced ==
    \A i \in 1 .. Len(open) :
        /\ Pending(open[i]) \subseteq placed
        /\ open[i].kind \in LoopKinds => <<"loop.header", open[i].stmt>> \in placed

(* The inductive invariant of LoopsMatch: an open statement will place the  *)
(* insertion point in a block that is there, and a loop that is closed is   *)
(* the one that was opened last.                                            *)
VisitInv == LoopsMatch /\ Shape /\ TargetsPlaced

StmtRecord == [kind : Kinds, parent : 0 .. MaxStmts, branch : {"body", "then", "else"}]

LEMMA BlockParts ==
    /\ \A p \in Parts, s \in Stmt : <<p, s>> \in Block
    /\ RetBlock \in Block /\ <<"header", 0>> \in Block /\ <<"body", 0>> \in Block
BY DEF Block, RetBlock

LEMMA InstrTypes ==
    /\ \A w \in {"eval", "value", "setup", "next"}, s \in Stmt : Do(w, s) \in Instr
    /\ \A b \in Block : Br(b) \in Instr
    /\ \A s \in Stmt, t, e \in Block : CondBr(s, t, e) \in Instr
    /\ Ret \in Instr
<1>1. \A w \in {"eval", "value", "setup", "next"}, s \in Stmt : Do(w, s) \in Instr
  BY DEF Do, Instr
<1>2. \A b \in Block : Br(b) \in Instr
  BY DEF Br, Instr
<1>3. \A s \in Stmt, t, e \in Block : CondBr(s, t, e) \in Instr
  BY DEF CondBr, Instr
<1>4. Ret \in Instr
  BY DEF Instr
<1> QED
  BY <1>1, <1>2, <1>3, <1>4

(* An instruction is added at the end of one block. *)
LEMMA EmitOK ==
    ASSUME NEW c \in [Block -> Seq(Instr)], NEW b \in Block, NEW i \in Instr
    PROVE  /\ Emit(c, b, i) \in [Block -> Seq(Instr)]
           /\ Emit(c, b, i)[b] = Append(c[b], i)
           /\ \A x \in Block \ {b} : Emit(c, b, i)[x] = c[x]
BY DEF Emit

LEMMA EmitUnlessOK ==
    ASSUME NEW c \in [Block -> Seq(Instr)], NEW b \in Block, NEW i \in Instr
    PROVE  /\ EmitUnlessTerminated(c, b, i) \in [Block -> Seq(Instr)]
           /\ \A x \in Block \ {b} : EmitUnlessTerminated(c, b, i)[x] = c[x]
BY EmitOK DEF EmitUnlessTerminated

LEMMA BeyondOne == \A k \in Nat \ {0} : k # 1 => k > 1 /\ k \in 2 .. k
OBVIOUS

LEMMA ReplaceOK ==
    ASSUME NEW S, NEW s \in Seq(S), NEW i \in 1 .. Len(s), NEW e \in S,
           NEW t, t = [s EXCEPT ![i] = e]
    PROVE  /\ t \in Seq(S) /\ Len(t) = Len(s) /\ t[i] = e
           /\ \A j \in 1 .. Len(s) : j # i => t[j] = s[j]
OBVIOUS

LEMMA FrameStmt == \A f \in Frame : f.stmt \in Nat
<1>1. MaxStmts \in Nat
  BY BoundAssumption
<1> QED
  BY <1>1 DEF Frame

LEMMA TopFacts ==
    ASSUME VisitInv
    PROVE  /\ open \in Seq(Frame) /\ Len(open) \in Nat \ {0} /\ top \in Frame
           /\ prog \in Seq(StmtRecord) /\ Len(prog) \in 0 .. MaxStmts
           /\ MaxStmts \in Nat
           /\ cur \in Block /\ placed \subseteq Block /\ cur \in placed
           /\ code \in [Block -> Seq(Instr)]
           /\ top.kind # "func" => top.stmt \in Stmt /\ FrameShape(top) /\ Len(open) > 1
<1>1. /\ open \in Seq(Frame) /\ Len(open) \in Nat \ {0}
      /\ prog \in Seq(StmtRecord) /\ Len(prog) \in 0 .. MaxStmts
      /\ MaxStmts \in Nat
      /\ cur \in Block /\ placed \subseteq Block /\ cur \in placed
      /\ code \in [Block -> Seq(Instr)]
  <2>1. TypeOK /\ MaxStmts \in Nat
    BY BoundAssumption DEF VisitInv, LoopsMatch
  <2>2. /\ prog \in Seq(StmtRecord) /\ Len(prog) <= MaxStmts
        /\ open \in Seq(Frame) /\ open # <<>>
        /\ cur \in placed /\ placed \subseteq Block
        /\ code \in [Block -> Seq(Instr)]
    BY <2>1 DEF TypeOK, StmtRecord
  <2>3. Len(open) \in Nat \ {0} /\ Len(prog) \in Nat
    BY <2>2
  <2> QED
    BY <2>1, <2>2, <2>3
<1>2. top \in Frame
  BY <1>1 DEF top
<1>3. ASSUME top.kind # "func"
      PROVE  top.stmt \in Stmt /\ FrameShape(top) /\ Len(open) > 1
  <2>1. Len(open) # 1
    BY <1>3 DEF VisitInv, Shape, top
  <2>2. Len(open) \in 2 .. Len(open) /\ Len(open) > 1
    <3>1. Len(open) \in Nat \ {0}
      BY <1>1
    <3> QED
      BY <2>1, <3>1
  <2>3. top.stmt \in 1 .. Len(prog) /\ FrameShape(top)
    BY <2>2 DEF VisitInv, Shape, top
  <2> QED
    BY <1>1, <2>2, <2>3 DEF Stmt
<1> QED
  BY <1>1, <1>2, <1>3

(* A statement is visited that opens no block. *)
LEMMA NextStmtOK ==
    ASSUME VisitInv, NEW kind \in Kinds, NextStmt(kind)
    PROVE  /\ prog' \in Seq(StmtRecord) /\ Len(prog') = Len(prog) + 1
           /\ Len(prog') <= MaxStmts /\ new \in Stmt /\ new = Len(prog')
           /\ new > Len(prog)
<1> DEFINE r == [kind |-> kind, parent |-> top.stmt, branch |-> top.branch]
<1>1. r \in StmtRecord
  BY TopFacts DEF StmtRecord, Frame
<1>2. prog' = Append(prog, r) /\ Len(prog) < MaxStmts
  BY DEF NextStmt
<1> HIDE DEF r
<1> QED
  BY <1>1, <1>2, TopFacts DEF new, Stmt

(* The visitor goes into a block of the statement it has come to ... *)
LEMMA PushFrameOK ==
    ASSUME VisitInv, NEW kind \in Kinds, NEW branch \in {"body", "then", "else"},
           NextStmt(kind), PushFrame(kind, branch),
           FrameShape([stmt |-> new, kind |-> kind, branch |-> branch])
    PROVE  /\ open' \in Seq(Frame) /\ open' # <<>>
           /\ Len(open') = Len(open) + 1
           /\ \A i \in 1 .. Len(open) : open'[i] = open[i] /\ open[i].stmt < new
           /\ open'[Len(open) + 1] = [stmt |-> new, kind |-> kind, branch |-> branch]
           /\ \A i, j \in 1 .. Len(open') : i < j => open'[i].stmt < open'[j].stmt
           /\ Shape'
<1> DEFINE f == [stmt |-> new, kind |-> kind, branch |-> branch]
<1>1. f \in Frame /\ f.stmt = new /\ FrameShape(f)
  BY NextStmtOK DEF Frame, Stmt
<1>2. /\ open \in Seq(Frame) /\ Len(open) \in Nat \ {0}
      /\ Len(prog) \in Nat /\ new \in Nat /\ new > Len(prog) /\ new = Len(prog')
  BY TopFacts, NextStmtOK DEF Stmt
<1>3. open' = Append(open, f)
  BY DEF PushFrame
<1> HIDE DEF f
<1>4. /\ open' \in Seq(Frame) /\ Len(open') = Len(open) + 1
      /\ \A i \in 1 .. Len(open) : open'[i] = open[i]
      /\ open'[Len(open) + 1] = f
  BY <1>1, <1>2, <1>3
<1>5. \A i \in 1 .. Len(open) : open[i].stmt \in Nat /\ open[i].stmt < new
  <2> SUFFICES ASSUME NEW i \in 1 .. Len(open)
               PROVE  open[i].stmt \in Nat /\ open[i].stmt < new
    OBVIOUS
  <2>1. CASE i = 1
    BY <1>2, <2>1 DEF VisitInv, Shape
  <2>2. CASE i # 1
    <3>1. i \in 2 .. Len(open)
      BY <1>2, <2>2
    <3>2. open[i].stmt \in 1 .. Len(prog)
      BY <3>1 DEF VisitInv, Shape
    <3> QED
      BY <1>2, <3>2
  <2> QED
    BY <2>1, <2>2
<1>6. \A i, j \in 1 .. Len(open') : i < j => open'[i].stmt < open'[j].stmt
  <2> SUFFICES ASSUME NEW i \in 1 .. Len(open'), NEW j \in 1 .. Len(open'), i < j
               PROVE  open'[i].stmt < open'[j].stmt
    OBVIOUS
  <2>1. CASE j = Len(open) + 1
    BY <1>1, <1>2, <1>4, <1>5, <2>1
  <2>2. CASE j # Len(open) + 1
    <3>1. i \in 1 .. Len(open) /\ j \in 1 .. Len(open)
      BY <1>2, <1>4, <2>2
    <3> QED
      BY <1>4, <3>1 DEF VisitInv, LoopsMatch
  <2> QED
    BY <2>1, <2>2
<1>7. Shape'
  <2>1. open'[1] = [stmt |-> 0, kind |-> "func", branch |-> "body"]
    BY <1>2, <1>4 DEF VisitInv, Shape
  <2>2. ASSUME NEW i \in 2 .. Len(open')
        PROVE  open'[i].stmt \in 1 .. Len(prog') /\ FrameShape(open'[i])
    <3>1. CASE i = Len(open) + 1
      BY <1>1, <1>2, <1>4, <3>1
    <3>2. CASE i # Len(open) + 1
      <4>1. i \in 2 .. Len(open)
        BY <1>2, <1>4, <3>2
      <4>2. open[i].stmt \in 1 .. Len(prog) /\ FrameShape(open[i])
        BY <4>1 DEF VisitInv, Shape
      <4>3. open'[i] = open[i]
        BY <1>4, <4>1
      <4> QED
        BY <1>2, <4>2, <4>3
    <3> QED
      BY <3>1, <3>2
  <2> QED
    BY <2>1, <2>2 DEF Shape
<1> QED
  BY <1>1, <1>2, <1>4, <1>5, <1>6, <1>7 DEF f

(* ... and leaves the statement whose last block it has visited. *)
LEMMA PopFrameOK ==
    ASSUME VisitInv, Len(open) > 1, PopFrame, prog' = prog
    PROVE  /\ open' \in Seq(Frame) /\ open' # <<>>
           /\ Len(open') = Len(open) - 1
           /\ \A i \in 1 .. Len(open') : open'[i] = open[i] /\ open[i].stmt < top.stmt
           /\ \A i, j \in 1 .. Len(open') : i < j => open'[i].stmt < open'[j].stmt
           /\ Shape'
<1>1. open \in Seq(Frame) /\ Len(open) \in Nat \ {0}
  BY TopFacts
<1>2. open' = SubSeq(open, 1, Len(open) - 1)
  BY DEF PopFrame
<1>3. /\ open' \in Seq(Frame) /\ Len(open') = Len(open) - 1
      /\ \A i \in 1 .. Len(open') : open'[i] = open[i]
  BY <1>1, <1>2
<1>4. \A i, j \in 1 .. Len(open) : i < j => open[i].stmt < open[j].stmt
  BY DEF VisitInv, LoopsMatch
<1>5. \A i \in 1 .. Len(open') : open[i].stmt < top.stmt
  BY <1>1, <1>3, <1>4 DEF top
<1>6. Shape'
  BY <1>1, <1>3 DEF VisitInv, Shape
<1>7. open' # <<>>
  BY <1>1, <1>3
<1>8. \A i, j \in 1 .. Len(open') : i < j => open'[i].stmt < open'[j].stmt
  BY <1>1, <1>3, <1>4
<1> QED
  BY <1>3, <1>5, <1>6, <1>7, <1>8

-----------------------------------------------------------------------------
(* LoopStack *)

LoopInfo == [header : Block, end : Block]

(* The stack l holds the loops of the statements in S, the first one first. *)
StackOf(l, S) ==
    /\ {l[i] : i \in 1 .. Len(l)} = {Loop(s) : s \in S}
    /\ \A i, j \in 1 .. Len(l) : i < j => l[i].header[2] < l[j].header[2]

LEMMA LoopIs ==
    /\ \A s : Loop(s).header = <<"loop.header", s>> /\ Loop(s).end = <<"loop.end", s>>
    /\ \A s : Loop(s).header[2] = s
    /\ \A s \in Stmt : Loop(s) \in LoopInfo
<1>1. \A s : Loop(s).header = <<"loop.header", s>> /\ Loop(s).end = <<"loop.end", s>>
  BY DEF Loop
<1>2. \A s : Loop(s).header[2] = s
  BY <1>1
<1>3. \A s \in Stmt : Loop(s) \in LoopInfo
  BY BlockParts DEF Loop, LoopInfo, Parts
<1> QED
  BY <1>1, <1>2, <1>3

LEMMA StackPush ==
    ASSUME NEW l \in Seq(LoopInfo), NEW S \in SUBSET Nat, StackOf(l, S),
           NEW n \in Stmt, n \in Nat, \A s \in S : s < n
    PROVE  /\ Append(l, Loop(n)) \in Seq(LoopInfo)
           /\ StackOf(Append(l, Loop(n)), S \union {n})
<1> DEFINE k == Append(l, Loop(n))
<1>1. /\ k \in Seq(LoopInfo) /\ Len(l) \in Nat /\ Len(k) = Len(l) + 1
      /\ \A i \in 1 .. Len(l) : k[i] = l[i]
      /\ k[Len(l) + 1] = Loop(n)
  BY LoopIs
<1> HIDE DEF k
<1>2. {k[i] : i \in 1 .. Len(k)} = {l[i] : i \in 1 .. Len(l)} \union {Loop(n)}
  BY <1>1
<1>3. {Loop(s) : s \in S \union {n}} = {Loop(s) : s \in S} \union {Loop(n)}
  OBVIOUS
<1>4. \A i \in 1 .. Len(l) : l[i].header[2] < n
  <2> SUFFICES ASSUME NEW i \in 1 .. Len(l)
               PROVE  l[i].header[2] < n
    OBVIOUS
  <2>1. PICK s \in S : l[i] = Loop(s)
    BY DEF StackOf
  <2> QED
    BY <2>1, LoopIs
<1>5. \A i, j \in 1 .. Len(k) : i < j => k[i].header[2] < k[j].header[2]
  <2> SUFFICES ASSUME NEW i \in 1 .. Len(k), NEW j \in 1 .. Len(k), i < j
               PROVE  k[i].header[2] < k[j].header[2]
    OBVIOUS
  <2>1. CASE j = Len(l) + 1
    BY <1>1, <1>4, <2>1, LoopIs
  <2>2. CASE j # Len(l) + 1
    <3>1. i \in 1 .. Len(l) /\ j \in 1 .. Len(l)
      BY <1>1, <2>2
    <3>2. l[i].header[2] < l[j].header[2]
      BY <3>1 DEF StackOf
    <3>3. k[i] = l[i] /\ k[j] = l[j]
      BY <1>1, <3>1
    <3> QED
      BY <3>2, <3>3
  <2> QED
    BY <2>1, <2>2
<1> QED
  BY <1>1, <1>2, <1>3, <1>5 DEF StackOf, k

(* The loop on top is that of the last statement. *)
LEMMA StackTop ==
    ASSUME NEW l \in Seq(LoopInfo), NEW S \in SUBSET Nat, StackOf(l, S),
           NEW n \in S, \A s \in S : s <= n
    PROVE  Len(l) > 0 /\ l[Len(l)] = Loop(n)
<1>1. Len(l) \in Nat
  OBVIOUS
<1>2. PICK i \in 1 .. Len(l) : l[i] = Loop(n)
  BY DEF StackOf
<1>3. PICK s \in S : l[Len(l)] = Loop(s)
  <2>1. Len(l) \in 1 .. Len(l)
    BY <1>1, <1>2
  <2> QED
    BY <2>1 DEF StackOf
<1>4. i = Len(l)
  <2> SUFFICES ASSUME i < Len(l)
               PROVE  FALSE
    BY <1>1, <1>2
  <2>1. l[i].header[2] < l[Len(l)].header[2]
    BY <1>1, <1>2 DEF StackOf
  <2>2. n < s
    BY <1>2, <1>3, <2>1, LoopIs
  <2> QED
    BY <2>2
<1> QED
  BY <1>1, <1>2, <1>4

LEMMA StackPop ==
    ASSUME NEW l \in Seq(LoopInfo), NEW S \in SUBSET Nat, StackOf(l, S),
           NEW n \in S, \A s \in S : s <= n
    PROVE  /\ SubSeq(l, 1, Len(l) - 1) \in Seq(LoopInfo)
           /\ StackOf(SubSeq(l, 1, Len(l) - 1), S \ {n})
<1> DEFINE k == SubSeq(l, 1, Len(l) - 1)
<1>1. Len(l) \in Nat \ {0} /\ l[Len(l)] = Loop(n)
  BY StackTop
<1>2. /\ k \in Seq(LoopInfo) /\ Len(k) = Len(l) - 1
      /\ \A i \in 1 .. Len(k) : k[i] = l[i]
  <2>1. Len(l) \in Nat \ {0}
    BY <1>1
  <2>2. k \in Seq(LoopInfo) /\ Len(k) = Len(l) - 1
    <3>1. CASE Len(l) = 1
      BY <3>1
    <3>2. CASE Len(l) > 1
      BY <3>2
    <3> QED
      BY <2>1, <3>1, <3>2
  <2>3. \A i \in 1 .. Len(k) : k[i] = l[i]
    BY <2>1, <2>2
  <2> QED
    BY <2>2, <2>3
<1> HIDE DEF k
<1>3. \A i \in 1 .. Len(k) : k[i] \in {Loop(s) : s \in S \ {n}}
  <2> SUFFICES ASSUME NEW i \in 1 .. Len(k)
               PROVE  k[i] \in {Loop(s) : s \in S \ {n}}
    OBVIOUS
  <2>1. i \in 1 .. Len(l) /\ i < Len(l) /\ k[i] = l[i]
    BY <1>1, <1>2
  <2>2. PICK s \in S : l[i] = Loop(s)
    BY <2>1 DEF StackOf
  <2>3. l[i].header[2] < l[Len(l)].header[2]
    BY <1>1, <2>1 DEF StackOf
  <2>4. s < n
    BY <1>1, <2>2, <2>3, LoopIs
  <2> QED
    BY <2>1, <2>2, <2>4
<1>4. \A s \in S \ {n} : \E i \in 1 .. Len(k) : k[i] = Loop(s)
  <2> SUFFICES ASSUME NEW s \in S \ {n}
               PROVE  \E i \in 1 .. Len(k) : k[i] = Loop(s)
    OBVIOUS
  <2>1. PICK i \in 1 .. Len(l) : l[i] = Loop(s)
    BY DEF StackOf
  <2>2. i # Len(l)
    <3>1. Loop(s) # Loop(n)
      BY LoopIs
    <3> QED
      BY <1>1, <2>1, <3>1
  <2>3. i \in 1 .. Len(k)
    BY <1>1, <1>2, <2>2
  <2> QED
    BY <1>2, <2>1, <2>3
<1>5. \A i, j \in 1 .. Len(k) : i < j => k[i].header[2] < k[j].header[2]
  BY <1>1, <1>2 DEF StackOf
<1> QED
  BY <1>2, <1>3, <1>4, <1>5 DEF StackOf, k

(* The loops that are open, when a statement is opened and closed *)
LEMMA OpenLoopsOK ==
    ASSUME VisitInv
    PROVE  /\ OpenLoops \in SUBSET Nat
           /\ \A s \in OpenLoops : s <= top.stmt /\ s <= Len(prog)
           /\ top.kind \in LoopKinds => top.stmt \in OpenLoops
           /\ loops \in Seq(LoopInfo)
           /\ StackOf(loops, OpenLoops)
<1>1. Len(open) \in Nat \ {0} /\ Len(prog) \in Nat
  BY TopFacts
<1>2. ASSUME NEW i \in 1 .. Len(open)
      PROVE  open[i].stmt \in Nat /\ open[i].stmt <= Len(prog)
  <2>1. CASE i = 1
    BY <1>1, <2>1 DEF VisitInv, Shape
  <2>2. CASE i # 1
    <3>1. i \in 2 .. Len(open)
      BY <1>1, <2>2
    <3>2. open[i].stmt \in 1 .. Len(prog)
      BY <3>1 DEF VisitInv, Shape
    <3> QED
      BY <1>1, <3>2
  <2> QED
    BY <2>1, <2>2
<1>3. ASSUME NEW i \in 1 .. Len(open)
      PROVE  open[i].stmt <= top.stmt
  <2>1. CASE i = Len(open)
    BY <1>2, <2>1 DEF top
  <2>2. CASE i # Len(open)
    <3>1. i < Len(open) /\ Len(open) \in 1 .. Len(open)
      BY <1>1, <2>2
    <3>2. open[i].stmt < open[Len(open)].stmt
      BY <3>1 DEF VisitInv, LoopsMatch
    <3> QED
      BY <1>2, <3>1, <3>2 DEF top
  <2> QED
    BY <2>1, <2>2
<1>4. Len(open) \in 1 .. Len(open)
  BY <1>1
<1>5. OpenLoops \in SUBSET Nat /\ \A s \in OpenLoops : s <= top.stmt /\ s <= Len(prog)
  BY <1>2, <1>3 DEF OpenLoops
<1>6. top.kind \in LoopKinds => top.stmt \in OpenLoops
  BY <1>4 DEF OpenLoops, top, LoopKinds
<1>7. loops \in Seq(LoopInfo) /\ StackOf(loops, OpenLoops)
  BY DEF VisitInv, LoopsMatch, TypeOK, StackOf, LoopInfo
<1> QED
  BY <1>5, <1>6, <1>7

LEMMA OpenLoopsPush ==
    ASSUME VisitInv, NEW f, Len(open') = Len(open) + 1,
           \A i \in 1 .. Len(open) : open'[i] = open[i],
           open'[Len(open) + 1] = f
    PROVE  OpenLoops' = IF f.kind \in LoopKinds THEN OpenLoops \union {f.stmt} ELSE OpenLoops
<1>1. Len(open) \in Nat \ {0}
  BY TopFacts
<1>2. 1 .. Len(open') = (1 .. Len(open)) \union {Len(open) + 1}
  BY <1>1
<1> QED
  BY <1>1, <1>2 DEF OpenLoops, LoopKinds

LEMMA OpenLoopsPop ==
    ASSUME VisitInv, Len(open') = Len(open) - 1,
           \A i \in 1 .. Len(open') : open'[i] = open[i] /\ open[i].stmt < top.stmt
    PROVE  OpenLoops' = IF top.kind \in LoopKinds THEN OpenLoops \ {top.stmt} ELSE OpenLoops
<1>1. Len(open) \in Nat \ {0} /\ open[Len(open)] = top
  BY TopFacts DEF top
<1>2. 1 .. Len(open) = (1 .. Len(open')) \union {Len(open)}
  BY <1>1
<1>3. \A i \in 1 .. Len(open') : open[i].stmt # top.stmt
  <2>1. \A i \in 1 .. Len(open') : open[i].stmt \in Nat
    <3> SUFFICES ASSUME NEW i \in 1 .. Len(open')
                 PROVE  open[i].stmt \in Nat
      OBVIOUS
    <3>1. open \in Seq(Frame) /\ i \in 1 .. Len(open)
      BY <1>1, <1>2, TopFacts
    <3> QED
      BY <3>1, FrameStmt
  <2>2. top.stmt \in Nat
    BY TopFacts DEF Frame
  <2> QED
    BY <2>1, <2>2
<1>4. OpenLoops' = {open[i].stmt : i \in {j \in 1 .. Len(open') : open[j].kind \in LoopKinds}}
  BY DEF OpenLoops, LoopKinds
<1>5. OpenLoops = {open[i].stmt : i \in {j \in 1 .. Len(open) : open[j].kind \in LoopKinds}}
  BY DEF OpenLoops, LoopKinds
<1> QED
  BY <1>1, <1>2, <1>3, <1>4, <1>5

(* The blocks that a statement still goes on with *)
LEMMA PendingIs ==
    ASSUME NEW f
    PROVE  /\ f.kind \in LoopKinds /\ f.branch = "body"
                => Pending(f) = {<<"loop.end", f.stmt>>}
           /\ f.kind \in {"if", "ifelse"} /\ f.branch = "then"
                => Pending(f) = {<<"if.cont", f.stmt>>, <<"if.else", f.stmt>>}
           /\ f.kind \in {"if", "ifelse"} /\ f.branch = "else"
                => Pending(f) = {<<"if.cont", f.stmt>>}
           /\ f.kind = "func" /\ f.branch = "body" => Pending(f) = {}
BY DEF Pending, LoopKinds

(* A statement that opens no block *)
LEMMA StraightOK ==
    ASSUME VisitInv, NEW kind \in Kinds, NextStmt(kind),
           code' \in [Block -> Seq(Instr)],
           UNCHANGED <<void, open, placed, cur, loops, phase>>
    PROVE  VisitInv'
<1>1. /\ prog' \in Seq(StmtRecord) /\ Len(prog') <= MaxStmts
      /\ Len(prog') \in Nat /\ Len(prog) \in Nat /\ Len(prog') = Len(prog) + 1
  BY NextStmtOK, TopFacts
<1>2. TypeOK'
  BY <1>1 DEF VisitInv, LoopsMatch, TypeOK, StmtRecord
<1>3. LoopsMatch'
  BY <1>2 DEF VisitInv, LoopsMatch, OpenLoops
<1>4. Shape'
  BY <1>1 DEF VisitInv, Shape
<1>5. TargetsPlaced'
  BY DEF VisitInv, TargetsPlaced
<1> QED
  BY <1>3, <1>4, <1>5 DEF VisitInv

(* A statement with blocks, the first of which is visited now *)
LEMMA EnterOK ==
    ASSUME VisitInv, NEW kind \in Kinds, NEW branch \in {"body", "then", "else"},
           NextStmt(kind), PushFrame(kind, branch),
           FrameShape([stmt |-> new, kind |-> kind, branch |-> branch]),
           NEW blocks \in SUBSET Block, placed' = placed \union blocks, cur' \in blocks,
           Pending([stmt |-> new, kind |-> kind, branch |-> branch]) \subseteq blocks,
           kind \in LoopKinds => <<"loop.header", new>> \in blocks,
           code' \in [Block -> Seq(Instr)],
           loops' = IF kind \in LoopKinds THEN Append(loops, Loop(new)) ELSE loops,
           UNCHANGED <<void, phase>>
    PROVE  VisitInv'
<1> DEFINE f == [stmt |-> new, kind |-> kind, branch |-> branch]
<1>1. /\ prog' \in Seq(StmtRecord) /\ Len(prog') <= MaxStmts
      /\ Len(prog) \in Nat /\ Len(open) \in Nat \ {0}
      /\ new \in Stmt /\ new \in Nat /\ new > Len(prog)
  BY NextStmtOK, TopFacts DEF Stmt
<1>2. /\ open' \in Seq(Frame) /\ open' # <<>>
      /\ Len(open') = Len(open) + 1
      /\ \A i \in 1 .. Len(open) : open'[i] = open[i]
      /\ open'[Len(open) + 1] = f
  BY PushFrameOK
<1>3. (\A i, j \in 1 .. Len(open') : i < j => open'[i].stmt < open'[j].stmt) /\ Shape'
  BY PushFrameOK
<1>4. f.kind = kind /\ f.stmt = new
  OBVIOUS
<1> HIDE DEF f
<1>5. OpenLoops' = IF kind \in LoopKinds THEN OpenLoops \union {new} ELSE OpenLoops
  BY <1>2, <1>4, OpenLoopsPush
<1>6. loops' \in Seq(LoopInfo) /\ StackOf(loops', OpenLoops')
  <2>1. /\ OpenLoops \in SUBSET Nat /\ \A s \in OpenLoops : s < new
        /\ loops \in Seq(LoopInfo) /\ StackOf(loops, OpenLoops)
    BY <1>1, OpenLoopsOK
  <2>2. CASE kind \in LoopKinds
    <3>1. /\ Append(loops, Loop(new)) \in Seq(LoopInfo)
          /\ StackOf(Append(loops, Loop(new)), OpenLoops \union {new})
      BY <1>1, <2>1, StackPush
    <3> QED
      BY <1>5, <2>2, <3>1
  <2>3. CASE kind \notin LoopKinds
    BY <1>5, <2>1, <2>3
  <2> QED
    BY <2>2, <2>3
<1>7. TypeOK'
  BY <1>1, <1>2, <1>6 DEF VisitInv, LoopsMatch, TypeOK, StmtRecord, LoopInfo
<1>8. LoopsMatch'
  BY <1>3, <1>6, <1>7 DEF LoopsMatch, StackOf
<1>9. TargetsPlaced'
  <2> SUFFICES ASSUME NEW i \in 1 .. Len(open')
               PROVE  /\ Pending(open'[i]) \subseteq placed'
                      /\ open'[i].kind \in LoopKinds
                            => <<"loop.header", open'[i].stmt>> \in placed'
    BY DEF TargetsPlaced, Pending
  <2>1. CASE i = Len(open) + 1
    <3>1. open'[i] = f
      BY <1>2, <2>1
    <3>2. Pending(f) \subseteq blocks
      BY DEF f
    <3> QED
      BY <1>4, <3>1, <3>2
  <2>2. CASE i # Len(open) + 1
    <3>1. i \in 1 .. Len(open) /\ open'[i] = open[i]
      BY <1>1, <1>2, <2>2
    <3> QED
      BY <3>1 DEF VisitInv, TargetsPlaced
  <2> QED
    BY <2>1, <2>2
<1> QED
  BY <1>3, <1>8, <1>9 DEF VisitInv

(* The last block of a statement has been visited. *)
LEMMA LeaveOK ==
    ASSUME VisitInv, Len(open) > 1, PopFrame,
           code' \in [Block -> Seq(Instr)],
           placed' \subseteq placed, cur' \in placed',
           \A b \in placed \ placed' : b = <<"if.else", top.stmt>>,
           loops' = IF top.kind \in LoopKinds THEN SubSeq(loops, 1, Len(loops) - 1) ELSE loops,
           UNCHANGED <<void, prog, phase>>
    PROVE  VisitInv'
<1>1. Len(open) \in Nat \ {0} /\ Len(prog) \in Nat /\ placed \subseteq Block
  BY TopFacts
<1>2. /\ open' \in Seq(Frame) /\ open' # <<>>
      /\ Len(open') = Len(open) - 1
      /\ \A i \in 1 .. Len(open') : open'[i] = open[i] /\ open[i].stmt < top.stmt
  BY PopFrameOK
<1>3. (\A i, j \in 1 .. Len(open') : i < j => open'[i].stmt < open'[j].stmt) /\ Shape'
  BY PopFrameOK
<1>4. OpenLoops' = IF top.kind \in LoopKinds THEN OpenLoops \ {top.stmt} ELSE OpenLoops
  BY <1>2, OpenLoopsPop
<1>5. loops' \in Seq(LoopInfo) /\ StackOf(loops', OpenLoops')
  <2>1. /\ OpenLoops \in SUBSET Nat /\ \A s \in OpenLoops : s <= top.stmt
        /\ top.kind \in LoopKinds => top.stmt \in OpenLoops
        /\ loops \in Seq(LoopInfo) /\ StackOf(loops, OpenLoops)
    BY OpenLoopsOK
  <2>2. CASE top.kind \in LoopKinds
    <3>1. /\ SubSeq(loops, 1, Len(loops) - 1) \in Seq(LoopInfo)
          /\ StackOf(SubSeq(loops, 1, Len(loops) - 1), OpenLoops \ {top.stmt})
      BY <2>1, <2>2, StackPop
    <3> QED
      BY <1>4, <2>2, <3>1
  <2>3. CASE top.kind \notin LoopKinds
    BY <1>4, <2>1, <2>3
  <2> QED
    BY <2>2, <2>3
<1>6. TypeOK'
  BY <1>1, <1>2, <1>5 DEF VisitInv, LoopsMatch, TypeOK, LoopInfo
<1>7. LoopsMatch'
  BY <1>3, <1>5, <1>6 DEF LoopsMatch, StackOf
<1>8. TargetsPlaced'
  <2> SUFFICES ASSUME NEW i \in 1 .. Len(open')
               PROVE  /\ Pending(open'[i]) \subseteq placed'
                      /\ open'[i].kind \in LoopKinds
                            => <<"loop.header", open'[i].stmt>> \in placed'
    BY DEF TargetsPlaced, Pending
  <2>1. i \in 1 .. Len(open) /\ open'[i] = open[i] /\ open[i].stmt < top.stmt
    BY <1>1, <1>2
  <2>2. open[i].stmt # top.stmt
    <3>1. open[i] \in Frame /\ top \in Frame
      BY <2>1, TopFacts
    <3>2. open[i].stmt \in Nat /\ top.stmt \in Nat
      BY <3>1, FrameStmt
    <3> QED
      BY <2>1, <3>2
  <2>3. /\ Pending(open[i]) \subseteq placed
        /\ open[i].kind \in LoopKinds => <<"loop.header", open[i].stmt>> \in placed
    BY <2>1 DEF VisitInv, TargetsPlaced
  <2>4. Pending(open[i]) \subseteq placed'
    <3> SUFFICES ASSUME NEW b \in Pending(open[i])
                 PROVE  b # <<"if.else", top.stmt>>
      BY <2>3
    <3>1. b[2] = open[i].stmt
      BY DEF Pending
    <3> QED
      BY <2>2, <3>1
  <2>5. <<"loop.header", open[i].stmt>> # <<"if.else", top.stmt>>
    OBVIOUS
  <2> QED
    BY <2>1, <2>3, <2>4, <2>5
<1> QED
  BY <1>3, <1>7, <1>8 DEF VisitInv

(* What a plain if leaves behind stays: the block for its else is not needed. *)
LEMMA ElseOK ==
    ASSUME VisitInv, EndThen, top.kind = "ifelse", top.branch = "then",
           code' \in [Block -> Seq(Instr)]
    PROVE  VisitInv'
<1> DEFINE f == [top EXCEPT !.branch = "else"]
<1>0. cur' = <<"if.else", top.stmt>> /\ UNCHANGED <<void, prog, placed, loops, phase>>
  BY DEF EndThen
<1>1. /\ open \in Seq(Frame) /\ Len(open) \in Nat \ {0} /\ top \in Frame
      /\ top.stmt \in Stmt /\ FrameShape(top) /\ Len(open) > 1
  BY TopFacts
<1>2. /\ f \in Frame /\ f.stmt = top.stmt /\ f.kind = "ifelse" /\ f.branch = "else"
  BY <1>1 DEF Frame
<1>3. open' = [open EXCEPT ![Len(open)] = f]
  <2>1. open' = [open EXCEPT ![Len(open)].branch = "else"]
    BY DEF EndThen
  <2> QED
    BY <2>1 DEF top
<1> HIDE DEF f
<1>4. /\ open' \in Seq(Frame) /\ Len(open') = Len(open)
      /\ \A i \in 1 .. Len(open) : i # Len(open) => open'[i] = open[i]
      /\ open'[Len(open)] = f
  <2>1. open \in Seq(Frame) /\ Len(open) \in 1 .. Len(open) /\ f \in Frame
    BY <1>1, <1>2
  <2> QED
    BY <1>3, <2>1, ReplaceOK
<1>5. \A i \in 1 .. Len(open) :
        /\ open'[i].stmt = open[i].stmt /\ open'[i].kind = open[i].kind
        /\ Pending(open'[i]) \subseteq Pending(open[i])
  <2> SUFFICES ASSUME NEW i \in 1 .. Len(open)
               PROVE  /\ open'[i].stmt = open[i].stmt /\ open'[i].kind = open[i].kind
                      /\ Pending(open'[i]) \subseteq Pending(open[i])
    OBVIOUS
  <2>1. CASE i = Len(open)
    <3>1. open[i] = top /\ open'[i] = f
      BY <1>4, <2>1 DEF top
    <3>2. Pending(f) \subseteq Pending(top)
      BY <1>2, PendingIs
    <3> QED
      BY <1>2, <3>1, <3>2
  <2>2. CASE i # Len(open)
    BY <1>4, <2>2
  <2> QED
    BY <2>1, <2>2
<1>6. open' # <<>>
  BY <1>1, <1>4
<1>7. <<"if.else", top.stmt>> \in placed
  <2>0. Len(open) \in 1 .. Len(open)
    BY <1>1
  <2>1. Pending(top) \subseteq placed
    BY <2>0 DEF VisitInv, TargetsPlaced, top
  <2> QED
    BY <2>1, PendingIs
<1>8. TypeOK'
  BY <1>0, <1>4, <1>6, <1>7 DEF VisitInv, LoopsMatch, TypeOK
<1>9. OpenLoops' = OpenLoops
  BY <1>4, <1>5 DEF OpenLoops
<1>10. LoopsMatch'
  <2>1. \A i, j \in 1 .. Len(open') : i < j => open'[i].stmt < open'[j].stmt
    BY <1>4, <1>5 DEF VisitInv, LoopsMatch
  <2> QED
    BY <1>0, <1>8, <1>9, <2>1 DEF VisitInv, LoopsMatch
<1>11. Shape'
  <2>1. open'[1] = open[1]
    BY <1>1, <1>4
  <2>2. ASSUME NEW i \in 2 .. Len(open')
        PROVE  open'[i].stmt \in 1 .. Len(prog') /\ FrameShape(open'[i])
    <3>1. i \in 1 .. Len(open) /\ i \in 2 .. Len(open)
      BY <1>1, <1>4
    <3>2. open[i].stmt \in 1 .. Len(prog) /\ FrameShape(open[i])
      BY <3>1 DEF VisitInv, Shape
    <3>3. FrameShape(f)
      BY <1>2 DEF FrameShape
    <3> QED
      BY <1>0, <1>4, <1>5, <3>1, <3>2, <3>3
  <2> QED
    BY <2>1, <2>2 DEF VisitInv, Shape
<1>12. TargetsPlaced'
  <2>1. \A i \in 1 .. Len(open) :
            /\ Pending(open'[i]) \subseteq placed
            /\ open'[i].kind \in LoopKinds => <<"loop.header", open'[i].stmt>> \in placed
    BY <1>5 DEF VisitInv, TargetsPlaced
  <2> QED
    BY <1>0, <1>4, <2>1 DEF TargetsPlaced, Pending
<1> QED
  BY <1>10, <1>11, <1>12 DEF VisitInv

LEMMA TargetsOfTop ==
    ASSUME VisitInv
    PROVE  /\ Pending(top) \subseteq placed
           /\ top.kind \in LoopKinds => <<"loop.header", top.stmt>> \in placed
<1>1. Len(open) \in 1 .. Len(open)
  BY TopFacts
<1> QED
  BY <1>1 DEF VisitInv, TargetsPlaced, top

(* Every visit keeps the invariant. *)
LEMMA VisitSimpleOK == VisitInv /\ VisitSimple => VisitInv'
<1> SUFFICES ASSUME VisitInv, VisitSimple
             PROVE  VisitInv'
  OBVIOUS
<1>1. NextStmt("eval") /\ "eval" \in Kinds
  BY DEF VisitSimple, Kinds
<1>2. new \in Stmt /\ cur \in Block /\ code \in [Block -> Seq(Instr)]
  BY <1>1, NextStmtOK, TopFacts
<1>3. code' \in [Block -> Seq(Instr)]
  BY <1>2, InstrTypes, EmitOK DEF VisitSimple
<1> QED
  BY <1>1, <1>3, StraightOK DEF VisitSimple

LEMMA VisitBreakOK == VisitInv /\ VisitBreak => VisitInv'
<1> SUFFICES ASSUME VisitInv, VisitBreak
             PROVE  VisitInv'
  OBVIOUS
<1>1. NextStmt("break") /\ "break" \in Kinds
  BY DEF VisitBreak, Kinds, Jumps
<1>2. cur \in Block /\ code \in [Block -> Seq(Instr)]
  BY TopFacts
<1>3. BreakTarget \in Block
  <2>1. loops \in Seq(LoopInfo) /\ loops # <<>>
    BY OpenLoopsOK DEF VisitBreak
  <2>2. loops[Len(loops)] \in LoopInfo
    BY <2>1
  <2> QED
    BY <2>2 DEF BreakTarget, LoopInfo
<1>4. code' \in [Block -> Seq(Instr)]
  BY <1>2, <1>3, InstrTypes, EmitOK DEF VisitBreak
<1> QED
  BY <1>1, <1>4, StraightOK DEF VisitBreak

LEMMA VisitReturnOK == VisitInv /\ VisitReturn => VisitInv'
<1> SUFFICES ASSUME VisitInv, VisitReturn
             PROVE  VisitInv'
  OBVIOUS
<1>1. NextStmt("return") /\ "return" \in Kinds
  BY DEF VisitReturn, Kinds, Jumps
<1>2. new \in Stmt /\ cur \in Block /\ code \in [Block -> Seq(Instr)]
  BY <1>1, NextStmtOK, TopFacts
<1>3. /\ Do("value", new) \in Instr /\ Br(RetBlock) \in Instr
  BY <1>2, BlockParts, InstrTypes
<1>4. Emit(code, cur, Do("value", new)) \in [Block -> Seq(Instr)]
  BY <1>2, <1>3, EmitOK
<1>5. code' \in [Block -> Seq(Instr)]
  BY <1>2, <1>3, <1>4, EmitOK DEF VisitReturn
<1> QED
  BY <1>1, <1>5, StraightOK DEF VisitReturn

LEMMA VisitIfOK == ASSUME NEW kind, VisitInv, VisitIf(kind) PROVE VisitInv'
<1> DEFINE f == [stmt |-> new, kind |-> kind, branch |-> "then"]
<1>1. /\ kind \in {"if", "ifelse"} /\ kind \in Kinds /\ NextStmt(kind)
      /\ kind \notin LoopKinds
  BY DEF VisitIf, Kinds, LoopKinds
<1>2. new \in Stmt /\ cur \in Block /\ code \in [Block -> Seq(Instr)]
  BY <1>1, NextStmtOK, TopFacts
<1>3. FrameShape(f)
  BY <1>1 DEF FrameShape
<1>4. /\ IfBlocks(new) \in SUBSET Block /\ <<"if.then", new>> \in IfBlocks(new)
      /\ IfNot(kind, new) \in Block
  BY <1>1, <1>2, BlockParts DEF IfBlocks, IfNot, Parts
<1>5. Pending(f) = {<<"if.cont", new>>, <<"if.else", new>>}
  <2>1. f.stmt = new /\ f.kind = kind /\ f.branch = "then"
    OBVIOUS
  <2> QED
    BY <1>1, <2>1, PendingIs
<1>6. code' \in [Block -> Seq(Instr)]
  <2>1. CondBr(new, <<"if.then", new>>, IfNot(kind, new)) \in Instr
    BY <1>2, <1>4, InstrTypes
  <2> QED
    BY <1>2, <2>1, EmitOK DEF VisitIf
<1>7. Pending(f) \subseteq IfBlocks(new)
  BY <1>5 DEF IfBlocks
<1>8. /\ placed' = placed \union IfBlocks(new) /\ cur' \in IfBlocks(new)
      /\ PushFrame(kind, "then") /\ UNCHANGED <<void, loops, phase>>
  BY <1>4 DEF VisitIf
<1> QED
  BY <1>1, <1>3, <1>4, <1>6, <1>7, <1>8, EnterOK

LEMMA EndThenOK == VisitInv /\ EndThen => VisitInv'
<1> SUFFICES ASSUME VisitInv, EndThen
             PROVE  VisitInv'
  OBVIOUS
<1>1. /\ FrameShape(top) /\ Len(open) > 1 /\ top.stmt \in Stmt
      /\ top.kind \in {"if", "ifelse"} /\ top.branch = "then"
      /\ cur \in Block /\ code \in [Block -> Seq(Instr)]
  <2>1. top.branch = "then"
    BY DEF EndThen
  <2>2. top.kind # "func"
    <3>1. CASE Len(open) = 1
      BY <2>1, <3>1 DEF VisitInv, Shape, top
    <3>2. CASE Len(open) # 1
      <4>1. Len(open) \in 2 .. Len(open)
        BY <3>2, TopFacts, BeyondOne
      <4>2. FrameShape(top)
        BY <4>1 DEF VisitInv, Shape, top
      <4> QED
        BY <4>2 DEF FrameShape, LoopKinds
    <3> QED
      BY <3>1, <3>2
  <2>3. top.stmt \in Stmt /\ FrameShape(top) /\ Len(open) > 1
    BY <2>2, TopFacts
  <2> QED
    BY <2>1, <2>3, TopFacts DEF FrameShape
<1>2. Pending(top) = {<<"if.cont", top.stmt>>, <<"if.else", top.stmt>>}
  BY <1>1, PendingIs
<1>3. {<<"if.cont", top.stmt>>, <<"if.else", top.stmt>>} \subseteq placed
  BY <1>2, TargetsOfTop
<1>4. code' \in [Block -> Seq(Instr)]
  <2>1. Br(<<"if.cont", top.stmt>>) \in Instr
    BY <1>1, BlockParts, InstrTypes DEF Parts
  <2> QED
    BY <1>1, <2>1, EmitUnlessOK DEF EndThen
<1>5. CASE top.kind = "ifelse"
  BY <1>1, <1>4, <1>5, ElseOK DEF EndThen
<1>6. CASE top.kind # "ifelse"
  <2>1. /\ PopFrame /\ placed' = placed \ {<<"if.else", top.stmt>>}
        /\ cur' = <<"if.cont", top.stmt>> /\ UNCHANGED <<void, prog, loops, phase>>
    BY <1>6 DEF EndThen
  <2>2. top.kind \notin LoopKinds
    BY <1>1 DEF LoopKinds
  <2>3. cur' \in placed'
    BY <1>3, <2>1
  <2> QED
    BY <1>1, <1>4, <2>1, <2>2, <2>3, LeaveOK
<1> QED
  BY <1>5, <1>6

(* The block of an else is the last one of its statement. *)
LEMMA BranchOfTop ==
    ASSUME VisitInv
    PROVE  /\ top.branch = "else" => top.kind = "ifelse"
           /\ top.kind \in LoopKinds => top.branch = "body"
           /\ top.branch \in {"then", "else"} => top.kind \in {"if", "ifelse"}
           /\ top.kind \in LoopKinds \/ top.branch \in {"then", "else"}
                => Len(open) > 1 /\ top.stmt \in Stmt
<1>1. CASE Len(open) = 1
  BY <1>1 DEF VisitInv, Shape, top, LoopKinds
<1>2. CASE Len(open) # 1
  <2>1. Len(open) > 1 /\ Len(open) \in 2 .. Len(open)
    BY <1>2, TopFacts, BeyondOne
  <2>2. FrameShape(top) /\ top.stmt \in 1 .. Len(prog)
    BY <2>1 DEF VisitInv, Shape, top
  <2>3. top.stmt \in Stmt
    BY <2>2, TopFacts DEF Stmt
  <2> QED
    BY <2>1, <2>2, <2>3 DEF FrameShape, LoopKinds
<1> QED
  BY <1>1, <1>2

LEMMA EndElseOK == VisitInv /\ EndElse => VisitInv'
<1> SUFFICES ASSUME VisitInv, EndElse
             PROVE  VisitInv'
  OBVIOUS
<1>1. /\ top.branch = "else" /\ top.kind = "ifelse" /\ Len(open) > 1
      /\ top.stmt \in Stmt /\ cur \in Block /\ code \in [Block -> Seq(Instr)]
  BY BranchOfTop, TopFacts DEF EndElse
<1>2. <<"if.cont", top.stmt>> \in placed
  BY <1>1, PendingIs, TargetsOfTop
<1>3. code' \in [Block -> Seq(Instr)]
  <2>1. Br(<<"if.cont", top.stmt>>) \in Instr
    BY <1>1, BlockParts, InstrTypes DEF Parts
  <2> QED
    BY <1>1, <2>1, EmitUnlessOK DEF EndElse
<1>4. /\ PopFrame /\ cur' = <<"if.cont", top.stmt>> /\ placed' = placed
      /\ UNCHANGED <<void, prog, loops, phase>>
  BY DEF EndElse
<1>5. top.kind \notin LoopKinds
  BY <1>1 DEF LoopKinds
<1> QED
  BY <1>1, <1>2, <1>3, <1>4, <1>5, LeaveOK

LEMMA OpenLoopOK ==
    ASSUME VisitInv, NEW kind \in LoopKinds, NEW c \in [Block -> Seq(Instr)],
           OpenLoop(kind, c)
    PROVE  VisitInv'
<1> DEFINE f == [stmt |-> new, kind |-> kind, branch |-> "body"]
           blocks == {<<"loop.header", new>>, <<"loop.body", new>>, <<"loop.end", new>>}
<1>1. NextStmt(kind) /\ kind \in Kinds
  BY DEF OpenLoop, Kinds, LoopKinds
<1>2. new \in Stmt /\ cur \in Block
  BY <1>1, NextStmtOK, TopFacts
<1>3. FrameShape(f) /\ Pending(f) = {<<"loop.end", new>>}
  <2>1. f.stmt = new /\ f.kind = kind /\ f.branch = "body"
    OBVIOUS
  <2> QED
    BY <2>1, PendingIs DEF FrameShape
<1>4. blocks \in SUBSET Block
  BY <1>2, BlockParts DEF Parts
<1>5. code' \in [Block -> Seq(Instr)]
  <2>1. Br(<<"loop.header", new>>) \in Instr
    BY <1>4, InstrTypes
  <2>2. CondBr(new, <<"loop.body", new>>, <<"loop.end", new>>) \in Instr
    BY <1>2, <1>4, InstrTypes
  <2>3. Emit(c, cur, Br(<<"loop.header", new>>)) \in [Block -> Seq(Instr)]
    BY <1>2, <2>1, EmitOK
  <2>4. <<"loop.header", new>> \in Block
    BY <1>4
  <2> QED
    BY <2>2, <2>3, <2>4, EmitOK DEF OpenLoop
<1>6. /\ placed' = placed \union blocks /\ cur' \in blocks
      /\ PushFrame(kind, "body") /\ loops' = Append(loops, Loop(new))
      /\ UNCHANGED <<void, phase>>
  BY DEF OpenLoop, PushLoop
<1>7. Pending(f) \subseteq blocks /\ <<"loop.header", new>> \in blocks
  BY <1>3
<1> HIDE DEF blocks
<1> QED
  BY <1>1, <1>3, <1>4, <1>5, <1>6, <1>7, EnterOK

LEMMA CloseLoopOK ==
    ASSUME VisitInv, top.kind \in LoopKinds, NEW c \in [Block -> Seq(Instr)],
           CloseLoop(c)
    PROVE  VisitInv'
<1>1. top.branch = "body" /\ Len(open) > 1
  BY BranchOfTop
<1>2. <<"loop.end", top.stmt>> \in placed
  BY <1>1, PendingIs, TargetsOfTop
<1>3. /\ PopFrame /\ cur' = <<"loop.end", top.stmt>> /\ placed' = placed
      /\ loops' = SubSeq(loops, 1, Len(loops) - 1) /\ code' = c
      /\ UNCHANGED <<void, prog, phase>>
  BY DEF CloseLoop, PopLoop
<1> QED
  BY <1>1, <1>2, <1>3, LeaveOK

LEMMA LoopsOK == VisitInv /\ (VisitWhile \/ EndWhile \/ VisitFor \/ EndFor) => VisitInv'
<1> SUFFICES ASSUME VisitInv, VisitWhile \/ EndWhile \/ VisitFor \/ EndFor
             PROVE  VisitInv'
  OBVIOUS
<1>1. cur \in Block /\ code \in [Block -> Seq(Instr)]
  BY TopFacts
<1>2. CASE VisitWhile
  BY <1>1, <1>2, OpenLoopOK DEF VisitWhile, LoopKinds
<1>3. CASE VisitFor
  <2>1. NextStmt("for") /\ "for" \in Kinds /\ "for" \in LoopKinds
    BY <1>3 DEF VisitFor, OpenLoop, Kinds, LoopKinds
  <2>2. new \in Stmt
    BY <2>1, NextStmtOK
  <2>3. Emit(code, cur, Do("setup", new)) \in [Block -> Seq(Instr)]
    BY <1>1, <2>2, InstrTypes, EmitOK
  <2> QED
    BY <1>3, <2>1, <2>3, OpenLoopOK DEF VisitFor
<1>4. ASSUME top.kind \in LoopKinds
      PROVE  /\ Br(<<"loop.header", top.stmt>>) \in Instr
             /\ Do("next", top.stmt) \in Instr
  <2>1. top.stmt \in Stmt
    BY <1>4, BranchOfTop
  <2> QED
    BY <2>1, BlockParts, InstrTypes DEF Parts
<1>5. CASE EndWhile
  <2>1. top.kind \in LoopKinds
    BY <1>5 DEF EndWhile, LoopKinds
  <2>2. EmitUnlessTerminated(code, cur, Br(<<"loop.header", top.stmt>>)) \in [Block -> Seq(Instr)]
    BY <1>1, <1>4, <2>1, EmitUnlessOK
  <2> QED
    BY <1>5, <2>1, <2>2, CloseLoopOK DEF EndWhile
<1>6. CASE EndFor
  <2>1. top.kind \in LoopKinds
    BY <1>6 DEF EndFor, LoopKinds
  <2>2. Emit(code, cur, Do("next", top.stmt)) \in [Block -> Seq(Instr)]
    BY <1>1, <1>4, <2>1, EmitOK
  <2>3. Emit(Emit(code, cur, Do("next", top.stmt)), cur, Br(<<"loop.header", top.stmt>>))
            \in [Block -> Seq(Instr)]
    BY <1>1, <1>4, <2>1, <2>2, EmitOK
  <2> QED
    BY <1>6, <2>1, <2>3, CloseLoopOK DEF EndFor
<1> QED
  BY <1>2, <1>3, <1>5, <1>6

LEMMA EmitRetOK == VisitInv /\ EmitRet => VisitInv'
<1> SUFFICES ASSUME VisitInv, EmitRet
             PROVE  VisitInv'
  OBVIOUS
<1>1. /\ placed \subseteq Block /\ cur \in placed /\ code \in [Block -> Seq(Instr)]
      /\ placed' = placed \union {RetBlock} /\ phase' = "done"
      /\ UNCHANGED <<void, prog, open, cur, loops>>
  BY TopFacts DEF EmitRet
<1>2. code' \in [Block -> Seq(Instr)]
  <2>1. Br(RetBlock) \in Instr /\ Ret \in Instr
    BY InstrTypes, BlockParts
  <2>2. \A b \in Block : Append(code[b], Br(RetBlock)) \in Seq(Instr) /\ <<Ret>> \in Seq(Instr)
    BY <1>1, <2>1
  <2> QED
    BY <1>1, <2>2 DEF EmitRet
<1>3. TypeOK'
  BY <1>1, <1>2, BlockParts DEF VisitInv, LoopsMatch, TypeOK
<1>4. LoopsMatch'
  BY <1>1, <1>3 DEF VisitInv, LoopsMatch, OpenLoops
<1>5. Shape' /\ TargetsPlaced'
  BY <1>1 DEF VisitInv, Shape, TargetsPlaced
<1> QED
  BY <1>4, <1>5 DEF VisitInv

LEMMA InitOK == Init => VisitInv
<1> SUFFICES ASSUME Init
             PROVE  VisitInv
  OBVIOUS
<1> DEFINE f == [stmt |-> 0, kind |-> "func", branch |-> "body"]
<1>1. MaxStmts \in Nat
  BY BoundAssumption
<1>2. f \in Frame /\ f.kind \notin LoopKinds /\ Pending(f) = {}
  <2>1. f \in Frame /\ f.kind \notin LoopKinds
    BY <1>1 DEF Frame, LoopKinds
  <2>2. f.kind = "func" /\ f.branch = "body"
    OBVIOUS
  <2> QED
    BY <2>1, <2>2, PendingIs
<1>3. open = <<f>>
  BY DEF Init
<1> HIDE DEF f
<1>4. open \in Seq(Frame) /\ Len(open) = 1 /\ open[1] = f /\ open # <<>>
  BY <1>2, <1>3
<1>5. prog = <<>> /\ loops = <<>> /\ phase = "emit" /\ void \in BOOLEAN
  BY DEF Init
<1>6. code \in [Block -> Seq(Instr)]
  <2>1. Br(<<"body", 0>>) \in Instr
    BY BlockParts, InstrTypes
  <2>2. <<Br(<<"body", 0>>)>> \in Seq(Instr) /\ <<>> \in Seq(Instr)
    BY <2>1
  <2> QED
    BY <2>2 DEF Init
<1>7. placed \subseteq Block /\ cur \in placed
  BY BlockParts DEF Init
<1>8. TypeOK
  BY <1>1, <1>4, <1>5, <1>6, <1>7 DEF TypeOK
<1>9. LoopsMatch
  <2>1. OpenLoops = {}
    BY <1>2, <1>4 DEF OpenLoops, LoopKinds
  <2>2. Len(loops) = 0
    BY <1>5
  <2>3. \A i, j \in 1 .. Len(open) : ~(i < j)
    BY <1>4
  <2> QED
    BY <1>8, <2>1, <2>2, <2>3 DEF LoopsMatch
<1>10. Shape /\ TargetsPlaced
  BY <1>2, <1>4 DEF Shape, TargetsPlaced, f
<1> QED
  BY <1>9, <1>10 DEF VisitInv

LEMMA VisitInvStep == VisitInv /\ [Next]_vars => VisitInv'
<1> SUFFICES ASSUME VisitInv, [Next]_vars
             PROVE  VisitInv'
  OBVIOUS
<1>1. CASE VisitIf("if") \/ VisitIf("ifelse")
  BY <1>1, VisitIfOK
<1>2. CASE UNCHANGED vars
  <2>1. TypeOK'
    BY <1>2 DEF vars, VisitInv, LoopsMatch, TypeOK
  <2> QED
    BY <1>2, <2>1 DEF vars, VisitInv, LoopsMatch, OpenLoops, Shape, TargetsPlaced
<1> QED
  BY <1>1, <1>2, VisitSimpleOK, VisitBreakOK, VisitReturnOK, EndThenOK, EndElseOK,
     LoopsOK, EmitRetOK DEF Next, Visit

LEMMA VisitInvariant == Spec => []VisitInv
BY VisitInvStep, InitOK, PTL DEF Spec

(* However the statements of a function are nested, and whether or not they *)
(* follow a jump, the loop a break leaves is the innermost one around it    *)
(* and the emitter refers to blocks and statements that exist.              *)
THEOREM LoopStackMatches == Spec => []LoopsMatch
BY VisitInvariant, PTL DEF VisitInv

-----------------------------------------------------------------------------
(* The code of the blocks *)

Targets(i) ==
    IF i.op = "br" THEN {i.to}
    ELSE IF i.op = "condbr" THEN {i.then, i.else}
    ELSE {}

GoesInto(c, S) ==
    \A b \in Block : \A k \in 1 .. Len(c[b]) : Targets(c[b][k]) \subseteq S

AllPending == UNION {Pending(open[i]) : i \in 1 .. Len(open)}

(* The blocks that will be taken back: an if without an else *)
Removable ==
    {<<"if.else", open[i].stmt>> : i \in {j \in 1 .. Len(open) : open[j].kind = "if"}}

Lasting == (placed \ Removable) \union {RetBlock}

(* No block has been made for the statements to come. *)
Unused ==
    \A p \in Parts, s \in Stmt :
        s > Len(prog) => <<p, s>> \notin placed /\ code[<<p, s>>] = <<>>

(* The inductive invariant of Closed: the blocks that open statements will  *)
(* come to are empty, the others but the insertion block have ended, and    *)
(* no instruction goes to a block that will be taken back.                  *)
CodeInv ==
    /\ Unused
    /\ GoesInto(code, Lasting)
    /\ phase = "emit" =>
          /\ RetBlock \notin placed
          /\ \A b \in AllPending : code[b] = <<>> /\ b # cur
          /\ \A b \in placed : Terminated(code, b) \/ b = cur \/ b \in AllPending
    /\ phase = "done" => RetBlock \in placed /\ \A b \in placed : Terminated(code, b)

LEMMA TargetsIs ==
    /\ \A w, s : Targets(Do(w, s)) = {}
    /\ \A b : Targets(Br(b)) = {b}
    /\ \A s, t, e : Targets(CondBr(s, t, e)) = {t, e}
    /\ Targets(Ret) = {}
BY DEF Targets, Do, Br, CondBr, Ret

LEMMA TerminatorIs ==
    /\ \A w, s : ~IsTerminator(Do(w, s))
    /\ \A b : IsTerminator(Br(b))
    /\ \A s, t, e : IsTerminator(CondBr(s, t, e))
    /\ IsTerminator(Ret)
BY DEF IsTerminator, Do, Br, CondBr, Ret

LEMMA EmitEnds ==
    ASSUME NEW c \in [Block -> Seq(Instr)], NEW b \in Block, NEW i \in Instr
    PROVE  /\ Terminated(Emit(c, b, i), b) <=> IsTerminator(i)
           /\ \A x \in Block \ {b} : Terminated(Emit(c, b, i), x) <=> Terminated(c, x)
<1> DEFINE d == Emit(c, b, i)
<1>1. d[b] = Append(c[b], i) /\ \A x \in Block \ {b} : d[x] = c[x]
  BY EmitOK
<1> HIDE DEF d
<1>2. c[b] \in Seq(Instr)
  OBVIOUS
<1>3. d[b] # <<>> /\ d[b][Len(d[b])] = i
  BY <1>1, <1>2
<1>4. Terminated(d, b) <=> IsTerminator(i)
  BY <1>3 DEF Terminated
<1>5. \A x \in Block \ {b} : Terminated(d, x) <=> Terminated(c, x)
  BY <1>1 DEF Terminated
<1> QED
  BY <1>4, <1>5 DEF d

LEMMA EmitGoes ==
    ASSUME NEW c \in [Block -> Seq(Instr)], NEW b \in Block, NEW i \in Instr,
           NEW S, GoesInto(c, S), Targets(i) \subseteq S
    PROVE  GoesInto(Emit(c, b, i), S)
<1> DEFINE d == Emit(c, b, i)
<1>1. d[b] = Append(c[b], i) /\ \A x \in Block \ {b} : d[x] = c[x]
  BY EmitOK
<1> HIDE DEF d
<1>2. c[b] \in Seq(Instr)
  OBVIOUS
<1>3. /\ Len(d[b]) = Len(c[b]) + 1 /\ Len(c[b]) \in Nat /\ d[b][Len(c[b]) + 1] = i
      /\ \A k \in 1 .. Len(c[b]) : d[b][k] = c[b][k]
  BY <1>1, <1>2
<1>4. ASSUME NEW x \in Block, NEW k \in 1 .. Len(d[x])
      PROVE  Targets(d[x][k]) \subseteq S
  <2>1. CASE x # b
    BY <1>1, <2>1 DEF GoesInto
  <2>2. CASE x = b /\ k = Len(c[b]) + 1
    BY <1>3, <2>2
  <2>3. CASE x = b /\ k # Len(c[b]) + 1
    <3>1. k \in 1 .. Len(c[b])
      BY <1>3, <2>3
    <3> QED
      BY <1>3, <2>3, <3>1 DEF GoesInto
  <2> QED
    BY <2>1, <2>2, <2>3
<1> QED
  BY <1>4 DEF GoesInto, d

(* A terminator is emitted where there is none yet. *)
LEMMA EmitUnlessEnds ==
    ASSUME NEW c \in [Block -> Seq(Instr)], NEW b \in Block, NEW i \in Instr,
           IsTerminator(i), NEW S, GoesInto(c, S), Targets(i) \subseteq S
    PROVE  /\ Terminated(EmitUnlessTerminated(c, b, i), b)
           /\ \A x \in Block \ {b} : EmitUnlessTerminated(c, b, i)[x] = c[x]
           /\ GoesInto(EmitUnlessTerminated(c, b, i), S)
<1>1. CASE Terminated(c, b)
  BY <1>1 DEF EmitUnlessTerminated
<1>2. CASE ~Terminated(c, b)
  <2>1. EmitUnlessTerminated(c, b, i) = Emit(c, b, i)
    BY <1>2 DEF EmitUnlessTerminated
  <2>2. Terminated(Emit(c, b, i), b)
    BY EmitEnds
  <2>3. GoesInto(Emit(c, b, i), S)
    BY EmitGoes
  <2> QED
    BY <2>1, <2>2, <2>3, EmitOK
<1> QED
  BY <1>1, <1>2

LEMMA GoesFurther ==
    ASSUME NEW c, NEW S, NEW T, GoesInto(c, S), S \subseteq T
    PROVE  GoesInto(c, T)
BY DEF GoesInto

-----------------------------------------------------------------------------
(* The pending blocks *)

LEMMA PendingOf == ASSUME NEW f, NEW b \in Pending(f) PROVE b[2] = f.stmt
BY DEF Pending

LEMMA PendingPlaced == VisitInv => AllPending \subseteq placed
BY DEF VisitInv, TargetsPlaced, AllPending

LEMMA PendingPush ==
    ASSUME VisitInv, NEW f, Len(open') = Len(open) + 1,
           \A i \in 1 .. Len(open) : open'[i] = open[i],
           open'[Len(open) + 1] = f
    PROVE  /\ AllPending' = AllPending \union Pending(f)
           /\ Removable' = IF f.kind = "if" THEN Removable \union {<<"if.else", f.stmt>>}
                           ELSE Removable
<1>1. Len(open) \in Nat \ {0}
  BY TopFacts
<1>2. 1 .. Len(open') = (1 .. Len(open)) \union {Len(open) + 1}
  BY <1>1
<1>3. AllPending' = UNION {Pending(open'[i]) : i \in 1 .. Len(open')}
  BY DEF AllPending, Pending
<1>4. AllPending' = AllPending \union Pending(f)
  BY <1>1, <1>2, <1>3 DEF AllPending
<1>5. Removable' = IF f.kind = "if" THEN Removable \union {<<"if.else", f.stmt>>}
                   ELSE Removable
  BY <1>1, <1>2 DEF Removable
<1> QED
  BY <1>4, <1>5

LEMMA PendingPop ==
    ASSUME VisitInv, Len(open') = Len(open) - 1,
           \A i \in 1 .. Len(open') : open'[i] = open[i] /\ open[i].stmt < top.stmt
    PROVE  /\ AllPending' = AllPending \ Pending(top)
           /\ Removable' \subseteq Removable
           /\ top.kind = "if" => <<"if.else", top.stmt>> \in Removable
<1>1. /\ Len(open) \in Nat \ {0} /\ open[Len(open)] = top
      /\ top \in Frame /\ open \in Seq(Frame)
  BY TopFacts DEF top
<1>2. 1 .. Len(open) = (1 .. Len(open')) \union {Len(open)}
  BY <1>1
<1>3. AllPending' = UNION {Pending(open[i]) : i \in 1 .. Len(open')}
  BY DEF AllPending, Pending
<1>4. AllPending = AllPending' \union Pending(top)
  BY <1>1, <1>2, <1>3 DEF AllPending
<1>5. AllPending' \intersect Pending(top) = {}
  <2> SUFFICES ASSUME NEW i \in 1 .. Len(open'), NEW b \in Pending(open[i]), b \in Pending(top)
               PROVE  FALSE
    BY <1>3
  <2>1. open[i].stmt = top.stmt
    BY PendingOf
  <2>2. open[i] \in Frame
    BY <1>1, <1>2
  <2>3. open[i].stmt \in Nat /\ top.stmt \in Nat
    BY <1>1, <2>2, FrameStmt
  <2> QED
    BY <2>1, <2>3
<1>6. Removable' \subseteq Removable
  BY <1>2 DEF Removable
<1>7. top.kind = "if" => <<"if.else", top.stmt>> \in Removable
  BY <1>1, <1>2 DEF Removable
<1> QED
  BY <1>4, <1>5, <1>6, <1>7

LEMMA RemovableIs ==
    \A b \in Removable :
        /\ b[1] = "if.else"
        /\ \E i \in 1 .. Len(open) : b[2] = open[i].stmt /\ open[i].kind = "if"
BY DEF Removable

(* A statement that opens no block emits into the insertion block only. *)
LEMMA StraightCode ==
    ASSUME VisitInv, CodeInv, NEW kind \in Kinds, NextStmt(kind),
           UNCHANGED <<open, placed, cur, phase>>,
           \A b \in Block \ {cur} : code'[b] = code[b],
           GoesInto(code', Lasting)
    PROVE  CodeInv'
<1>1. /\ Len(prog') > Len(prog) /\ Len(prog) \in Nat /\ Len(prog') \in Nat
      /\ cur \in placed /\ placed \subseteq Block
  BY NextStmtOK, TopFacts
<1>2. AllPending' = AllPending /\ Lasting' = Lasting
  BY DEF AllPending, Pending, Lasting, Removable
<1>3. phase = "emit" /\ phase' = "emit"
  BY DEF NextStmt
<1>4. Unused'
  <2> SUFFICES ASSUME NEW p \in Parts, NEW s \in Stmt, s > Len(prog')
               PROVE  <<p, s>> \notin placed' /\ code'[<<p, s>>] = <<>>
    BY DEF Unused
  <2>1. s > Len(prog)
    BY <1>1 DEF Stmt
  <2>2. <<p, s>> \notin placed /\ code[<<p, s>>] = <<>> /\ <<p, s>> \in Block
    BY <2>1, BlockParts DEF CodeInv, Unused
  <2> QED
    BY <1>1, <2>2
<1>5. GoesInto(code', Lasting')
  BY <1>2
<1>6. \A b \in AllPending' : code'[b] = <<>> /\ b # cur'
  <2> SUFFICES ASSUME NEW b \in AllPending
               PROVE  code'[b] = <<>> /\ b # cur
    BY <1>2
  <2>1. code[b] = <<>> /\ b # cur
    BY <1>3 DEF CodeInv
  <2>2. b \in Block
    BY TopFacts, PendingPlaced
  <2> QED
    BY <2>1, <2>2
<1>7. \A b \in placed' : Terminated(code', b) \/ b = cur' \/ b \in AllPending'
  <2> SUFFICES ASSUME NEW b \in placed, b # cur, b \notin AllPending
               PROVE  Terminated(code', b)
    BY <1>2
  <2>1. Terminated(code, b)
    BY <1>3 DEF CodeInv
  <2> QED
    BY <1>1, <2>1 DEF Terminated
<1>8. RetBlock \notin placed'
  BY <1>3 DEF CodeInv
<1>9. GoesInto(code, Lasting)' <=> GoesInto(code', Lasting')
  BY DEF GoesInto, Targets
<1> QED
  BY <1>3, <1>4, <1>5, <1>6, <1>7, <1>8, <1>9 DEF CodeInv

(* A statement with blocks: the insertion block ends, and so do the blocks  *)
(* of the statement except the one to visit and the ones to come to.        *)
LEMMA EnterCode ==
    ASSUME VisitInv, CodeInv, NEW kind \in Kinds, NextStmt(kind),
           NEW blocks \in SUBSET Block, NEW ended \in SUBSET blocks, NEW pending \in SUBSET blocks,
           \A b \in blocks : b[2] = new /\ b[1] \in Parts,
           blocks \subseteq ended \union pending \union {cur'},
           cur' \in blocks, cur' \notin pending, ended \intersect pending = {},
           placed' = placed \union blocks, phase' = phase,
           AllPending' = AllPending \union pending,
           \A b \in ended \union {cur} : Terminated(code', b),
           \A b \in Block \ (ended \union {cur}) : code'[b] = code[b],
           GoesInto(code', Lasting')
    PROVE  CodeInv'
<1>1. /\ Len(prog') = new /\ new > Len(prog) /\ new \in Stmt
      /\ Len(prog) \in Nat /\ Len(prog') \in Nat
      /\ cur \in placed /\ placed \subseteq Block
  BY NextStmtOK, TopFacts
<1>2. phase = "emit" /\ phase' = "emit"
  BY DEF NextStmt
<1>3. \A b \in blocks : b \notin placed /\ code[b] = <<>>
  <2> SUFFICES ASSUME NEW b \in blocks
               PROVE  b \notin placed /\ code[b] = <<>>
    OBVIOUS
  <2>1. b = <<b[1], b[2]>> /\ b[1] \in Parts /\ b[2] = new
    BY DEF Block
  <2>2. <<b[1], new>> \notin placed /\ code[<<b[1], new>>] = <<>>
    BY <1>1, <2>1 DEF CodeInv, Unused
  <2> QED
    BY <2>1, <2>2
<1>4. Unused'
  <2> SUFFICES ASSUME NEW p \in Parts, NEW s \in Stmt, s > Len(prog')
               PROVE  <<p, s>> \notin placed' /\ code'[<<p, s>>] = <<>>
    BY DEF Unused
  <2>1. s > Len(prog) /\ s # new
    BY <1>1 DEF Stmt
  <2>2. <<p, s>> \notin placed /\ code[<<p, s>>] = <<>> /\ <<p, s>> \in Block
    BY <2>1, BlockParts DEF CodeInv, Unused
  <2>3. <<p, s>> \notin blocks
    BY <2>1
  <2> QED
    BY <1>1, <2>2, <2>3
<1>5. \A b \in AllPending' : code'[b] = <<>> /\ b # cur'
  <2>1. ASSUME NEW b \in AllPending
        PROVE  code'[b] = <<>> /\ b # cur'
    <3>1. code[b] = <<>> /\ b # cur
      BY <1>2 DEF CodeInv
    <3>2. b \in placed
      BY PendingPlaced
    <3>3. b \notin blocks
      BY <1>3, <3>2
    <3> QED
      BY <1>1, <3>1, <3>2, <3>3
  <2>2. ASSUME NEW b \in pending
        PROVE  code'[b] = <<>> /\ b # cur'
    BY <1>1, <1>3
  <2> QED
    BY <2>1, <2>2
<1>6. \A b \in placed' : Terminated(code', b) \/ b = cur' \/ b \in AllPending'
  <2>1. ASSUME NEW b \in placed
        PROVE  Terminated(code', b) \/ b \in AllPending'
    <3>1. CASE b = cur
      BY <3>1
    <3>2. CASE b # cur
      <4>1. Terminated(code, b) \/ b \in AllPending
        BY <1>2, <3>2 DEF CodeInv
      <4>2. b \in Block \ (ended \union {cur})
        BY <1>1, <1>3, <3>2
      <4> QED
        BY <4>1, <4>2 DEF Terminated
    <3> QED
      BY <3>1, <3>2
  <2> QED
    BY <2>1
<1>7. RetBlock \notin placed'
  <2>1. RetBlock \notin blocks
    BY DEF RetBlock, Parts
  <2> QED
    BY <1>2, <2>1 DEF CodeInv
<1>8. GoesInto(code, Lasting)' <=> GoesInto(code', Lasting')
  BY DEF GoesInto, Targets
<1> QED
  BY <1>2, <1>4, <1>5, <1>6, <1>7, <1>8 DEF CodeInv

(* The end of a block: the insertion block ends, and the visitor goes on    *)
(* with a block that was pending.                                           *)
LEMMA LeaveCode ==
    ASSUME VisitInv, CodeInv, phase = "emit", phase' = phase, prog' = prog,
           placed' \subseteq placed, cur' \in placed', cur' \in AllPending,
           AllPending' \subseteq AllPending, cur' \notin AllPending',
           \A b \in AllPending \ AllPending' : b = cur' \/ b \notin placed',
           Terminated(code', cur),
           \A b \in Block \ {cur} : code'[b] = code[b],
           GoesInto(code', Lasting')
    PROVE  CodeInv'
<1>1. cur \in placed /\ placed \subseteq Block
  BY TopFacts
<1>2. Unused'
  <2> SUFFICES ASSUME NEW p \in Parts, NEW s \in Stmt, s > Len(prog')
               PROVE  <<p, s>> \notin placed' /\ code'[<<p, s>>] = <<>>
    BY DEF Unused
  <2>1. <<p, s>> \notin placed /\ code[<<p, s>>] = <<>> /\ <<p, s>> \in Block
    BY BlockParts DEF CodeInv, Unused
  <2> QED
    BY <1>1, <2>1
<1>3. \A b \in AllPending' : code'[b] = <<>> /\ b # cur'
  <2> SUFFICES ASSUME NEW b \in AllPending'
               PROVE  code'[b] = <<>>
    OBVIOUS
  <2>1. code[b] = <<>> /\ b # cur
    BY DEF CodeInv
  <2>2. b \in placed
    BY PendingPlaced
  <2> QED
    BY <1>1, <2>1, <2>2
<1>4. \A b \in placed' : Terminated(code', b) \/ b = cur' \/ b \in AllPending'
  <2> SUFFICES ASSUME NEW b \in placed', b # cur, b # cur', b \notin AllPending'
               PROVE  Terminated(code', b)
    OBVIOUS
  <2>1. b \notin AllPending
    OBVIOUS
  <2>2. Terminated(code, b) /\ code'[b] = code[b]
    BY <1>1, <2>1 DEF CodeInv
  <2> QED
    BY <2>2 DEF Terminated
<1>5. RetBlock \notin placed'
  BY DEF CodeInv
<1>6. GoesInto(code, Lasting)' <=> GoesInto(code', Lasting')
  BY DEF GoesInto, Targets
<1> QED
  BY <1>2, <1>3, <1>4, <1>5, <1>6 DEF CodeInv

(* What lasts when a statement is opened or closed, and goes on *)
LEMMA LastingEnter ==
    ASSUME VisitInv, CodeInv, NEW kind \in Kinds, NEW branch \in {"body", "then", "else"},
           NextStmt(kind), PushFrame(kind, branch),
           FrameShape([stmt |-> new, kind |-> kind, branch |-> branch]),
           NEW blocks, placed' = placed \union blocks
    PROVE  /\ Lasting \subseteq Lasting'
           /\ AllPending' = AllPending
                  \union Pending([stmt |-> new, kind |-> kind, branch |-> branch])
           /\ \A b \in blocks :
                  (b[1] # "if.else" \/ kind # "if") /\ b[2] = new => b \in Lasting'
<1> DEFINE f == [stmt |-> new, kind |-> kind, branch |-> branch]
<1>1. /\ Len(open') = Len(open) + 1
      /\ \A i \in 1 .. Len(open) : open'[i] = open[i] /\ open[i].stmt < new
      /\ open'[Len(open) + 1] = f
  BY PushFrameOK
<1>2. f.kind = kind /\ f.stmt = new
  OBVIOUS
<1> HIDE DEF f
<1>3. /\ AllPending' = AllPending \union Pending(f)
      /\ Removable' = IF kind = "if" THEN Removable \union {<<"if.else", new>>} ELSE Removable
  BY <1>1, <1>2, PendingPush
<1>4. new \in Stmt /\ new > Len(prog) /\ new \in Nat
  BY NextStmtOK DEF Stmt
<1>5. <<"if.else", new>> \notin placed
  BY <1>4 DEF CodeInv, Unused, Parts
<1>6. Lasting \subseteq Lasting'
  BY <1>3, <1>5 DEF Lasting
<1>7. \A b \in Removable : b[2] # new
  <2> SUFFICES ASSUME NEW b \in Removable
               PROVE  b[2] # new
    OBVIOUS
  <2>1. PICK i \in 1 .. Len(open) : b[2] = open[i].stmt
    BY RemovableIs
  <2>2. open[i].stmt < new /\ open[i].stmt \in Nat
    <3>1. open[i] \in Frame
      BY TopFacts
    <3> QED
      BY <1>1, <3>1, FrameStmt
  <2> QED
    BY <1>4, <2>1, <2>2
<1>8. \A b \in blocks : (b[1] # "if.else" \/ kind # "if") /\ b[2] = new => b \in Lasting'
  <2> SUFFICES ASSUME NEW b \in blocks, b[1] # "if.else" \/ kind # "if", b[2] = new
               PROVE  b \notin Removable'
    BY DEF Lasting
  <2> QED
    BY <1>3, <1>7, RemovableIs
<1> QED
  BY <1>3, <1>6, <1>8 DEF f

LEMMA LastingLeave ==
    ASSUME VisitInv, Len(open) > 1, PopFrame, prog' = prog,
           placed' = IF top.kind = "if" THEN placed \ {<<"if.else", top.stmt>>} ELSE placed
    PROVE  Lasting \subseteq Lasting' /\ AllPending' = AllPending \ Pending(top)
<1>1. /\ AllPending' = AllPending \ Pending(top) /\ Removable' \subseteq Removable
      /\ top.kind = "if" => <<"if.else", top.stmt>> \in Removable
  BY PopFrameOK, PendingPop
<1> QED
  BY <1>1 DEF Lasting

LEMMA PendingLasting ==
    ASSUME VisitInv, NEW b \in AllPending, b[1] # "if.else"
    PROVE  b \in Lasting
BY PendingPlaced, RemovableIs DEF Lasting

LEMMA SimpleCode == VisitInv /\ CodeInv /\ VisitSimple => CodeInv'
<1> SUFFICES ASSUME VisitInv, CodeInv, VisitSimple
             PROVE  CodeInv'
  OBVIOUS
<1>1. NextStmt("eval") /\ "eval" \in Kinds
  BY DEF VisitSimple, Kinds
<1>2. new \in Stmt /\ cur \in Block /\ code \in [Block -> Seq(Instr)]
  BY <1>1, NextStmtOK, TopFacts
<1>3. Do("eval", new) \in Instr /\ Targets(Do("eval", new)) = {}
  BY <1>2, InstrTypes, TargetsIs
<1>4. code' = Emit(code, cur, Do("eval", new)) /\ GoesInto(code, Lasting)
  BY DEF VisitSimple, CodeInv
<1>5. GoesInto(code', Lasting) /\ \A b \in Block \ {cur} : code'[b] = code[b]
  BY <1>2, <1>3, <1>4, EmitOK, EmitGoes
<1> QED
  BY <1>1, <1>5, StraightCode DEF VisitSimple

(* The end of the innermost loop is pending. *)
LEMMA BreakTargetIs ==
    ASSUME VisitInv, loops # <<>>
    PROVE  BreakTarget \in AllPending /\ BreakTarget \in Block /\ BreakTarget[1] = "loop.end"
<1>1. loops \in Seq(LoopInfo) /\ StackOf(loops, OpenLoops)
  BY OpenLoopsOK
<1>2. Len(loops) \in 1 .. Len(loops)
  BY <1>1
<1>3. PICK s \in OpenLoops : loops[Len(loops)] = Loop(s)
  BY <1>1, <1>2 DEF StackOf
<1>4. BreakTarget = <<"loop.end", s>>
  BY <1>3, LoopIs DEF BreakTarget
<1>5. PICK i \in 1 .. Len(open) : open[i].stmt = s /\ open[i].kind \in LoopKinds
  BY DEF OpenLoops, LoopKinds
<1>6. open[i].branch = "body"
  <2>1. i # 1
    BY <1>5 DEF VisitInv, Shape, LoopKinds
  <2>2. i \in 2 .. Len(open)
    BY <2>1
  <2> QED
    BY <1>5, <2>2 DEF VisitInv, Shape, FrameShape, LoopKinds
<1>7. Pending(open[i]) = {<<"loop.end", s>>}
  BY <1>5, <1>6, PendingIs
<1>8. BreakTarget \in AllPending
  BY <1>4, <1>7 DEF AllPending
<1>9. BreakTarget \in Block
  BY <1>8, PendingPlaced, TopFacts
<1> QED
  BY <1>4, <1>8, <1>9

LEMMA BreakCode == VisitInv /\ CodeInv /\ VisitBreak => CodeInv'
<1> SUFFICES ASSUME VisitInv, CodeInv, VisitBreak
             PROVE  CodeInv'
  OBVIOUS
<1>1. NextStmt("break") /\ "break" \in Kinds
  BY DEF VisitBreak, Kinds, Jumps
<1>2. cur \in Block /\ code \in [Block -> Seq(Instr)]
  BY TopFacts
<1>3. BreakTarget \in AllPending /\ BreakTarget \in Block /\ BreakTarget[1] = "loop.end"
  BY BreakTargetIs DEF VisitBreak
<1>4. BreakTarget \in Lasting
  BY <1>3, PendingLasting
<1>5. Br(BreakTarget) \in Instr /\ Targets(Br(BreakTarget)) \subseteq Lasting
  BY <1>3, <1>4, InstrTypes, TargetsIs
<1>6. code' = Emit(code, cur, Br(BreakTarget)) /\ GoesInto(code, Lasting)
  BY DEF VisitBreak, CodeInv
<1>7. GoesInto(code', Lasting) /\ \A b \in Block \ {cur} : code'[b] = code[b]
  BY <1>2, <1>5, <1>6, EmitOK, EmitGoes
<1> QED
  BY <1>1, <1>7, StraightCode DEF VisitBreak

LEMMA ReturnCode == VisitInv /\ CodeInv /\ VisitReturn => CodeInv'
<1> SUFFICES ASSUME VisitInv, CodeInv, VisitReturn
             PROVE  CodeInv'
  OBVIOUS
<1>1. NextStmt("return") /\ "return" \in Kinds
  BY DEF VisitReturn, Kinds, Jumps
<1>2. new \in Stmt /\ cur \in Block /\ code \in [Block -> Seq(Instr)]
  BY <1>1, NextStmtOK, TopFacts
<1>3. /\ Do("value", new) \in Instr /\ Br(RetBlock) \in Instr
      /\ Targets(Do("value", new)) \subseteq Lasting /\ Targets(Br(RetBlock)) \subseteq Lasting
  BY <1>2, BlockParts, InstrTypes, TargetsIs DEF Lasting
<1> DEFINE c == IF void THEN code ELSE Emit(code, cur, Do("value", new))
<1>4. c \in [Block -> Seq(Instr)] /\ GoesInto(c, Lasting)
      /\ \A b \in Block \ {cur} : c[b] = code[b]
  <2>1. GoesInto(code, Lasting)
    BY DEF CodeInv
  <2>2. GoesInto(Emit(code, cur, Do("value", new)), Lasting)
    BY <1>2, <1>3, <2>1, EmitGoes
  <2>3. /\ Emit(code, cur, Do("value", new)) \in [Block -> Seq(Instr)]
        /\ \A b \in Block \ {cur} : Emit(code, cur, Do("value", new))[b] = code[b]
    BY <1>2, <1>3, EmitOK
  <2> QED
    BY <1>2, <2>1, <2>2, <2>3
<1>5. code' = Emit(c, cur, Br(RetBlock))
  BY DEF VisitReturn
<1> HIDE DEF c
<1>6. GoesInto(code', Lasting)
  BY <1>2, <1>3, <1>4, <1>5, EmitGoes
<1>7. \A b \in Block \ {cur} : code'[b] = code[b]
  <2>1. \A b \in Block \ {cur} : Emit(c, cur, Br(RetBlock))[b] = c[b]
    BY <1>2, <1>3, <1>4, EmitOK
  <2> QED
    BY <1>4, <1>5, <2>1
<1> QED
  BY <1>1, <1>6, <1>7, StraightCode DEF VisitReturn

LEMMA IfCode == ASSUME NEW kind, VisitInv, CodeInv, VisitIf(kind) PROVE CodeInv'
<1> DEFINE f == [stmt |-> new, kind |-> kind, branch |-> "then"]
           blocks == IfBlocks(new)
           pending == {<<"if.cont", new>>, <<"if.else", new>>}
           jump == CondBr(new, <<"if.then", new>>, IfNot(kind, new))
<1>1. /\ kind \in {"if", "ifelse"} /\ kind \in Kinds /\ NextStmt(kind) /\ FrameShape(f)
      /\ PushFrame(kind, "then") /\ placed' = placed \union blocks /\ phase' = phase
      /\ cur' = <<"if.then", new>> /\ code' = Emit(code, cur, jump)
  BY DEF VisitIf, Kinds, FrameShape
<1>2. new \in Stmt /\ cur \in Block /\ code \in [Block -> Seq(Instr)]
  BY <1>1, NextStmtOK, TopFacts
<1>3. /\ blocks \in SUBSET Block /\ \A b \in blocks : b[2] = new /\ b[1] \in Parts
      /\ <<"if.then", new>> \in blocks /\ IfNot(kind, new) \in blocks
      /\ pending \subseteq blocks /\ <<"if.then", new>> \notin pending
      /\ blocks \subseteq pending \union {<<"if.then", new>>}
  BY <1>1, <1>2, BlockParts DEF IfBlocks, IfNot, Parts
<1>4. Pending(f) = pending
  <2>1. f.stmt = new /\ f.kind = kind /\ f.branch = "then"
    OBVIOUS
  <2> QED
    BY <1>1, <2>1, PendingIs
<1>5. /\ Lasting \subseteq Lasting' /\ AllPending' = AllPending \union Pending(f)
      /\ \A b \in blocks :
             (b[1] # "if.else" \/ kind # "if") /\ b[2] = new => b \in Lasting'
  BY <1>1, LastingEnter
<1>6. jump \in Instr /\ IsTerminator(jump) /\ Targets(jump) = {<<"if.then", new>>, IfNot(kind, new)}
  <2>1. <<"if.then", new>> \in Block /\ IfNot(kind, new) \in Block
    BY <1>3
  <2> QED
    BY <1>2, <2>1, InstrTypes, TerminatorIs, TargetsIs
<1>7. Targets(jump) \subseteq Lasting'
  <2>1. <<"if.then", new>> \in Lasting'
    <3>1. <<"if.then", new>>[1] # "if.else"
      OBVIOUS
    <3> QED
      BY <1>3, <1>5, <3>1
  <2>2. IfNot(kind, new) \in Lasting'
    <3>1. /\ IfNot(kind, new)[1] # "if.else" \/ kind # "if"
          /\ IfNot(kind, new)[2] = new
      BY <1>1 DEF IfNot
    <3> QED
      BY <1>3, <1>5, <3>1
  <2> QED
    BY <1>6, <2>1, <2>2
<1> HIDE DEF blocks, pending, jump, f
<1>8. GoesInto(code', Lasting')
  <2>1. GoesInto(code, Lasting')
    BY <1>5, GoesFurther DEF CodeInv
  <2> QED
    BY <1>1, <1>2, <1>6, <1>7, <2>1, EmitGoes
<1>9. Terminated(code', cur)
  BY <1>1, <1>2, <1>6, EmitEnds
<1>10. \A b \in Block \ {cur} : code'[b] = code[b]
  BY <1>1, <1>2, <1>6, EmitOK
<1>11. AllPending' = AllPending \union pending /\ cur' \in blocks /\ cur' \notin pending
  BY <1>1, <1>3, <1>4, <1>5
<1> DEFINE ended == {}
<1>12. /\ ended \in SUBSET blocks /\ pending \in SUBSET blocks /\ ended \intersect pending = {}
       /\ blocks \subseteq ended \union pending \union {cur'}
       /\ \A b \in ended \union {cur} : Terminated(code', b)
       /\ \A b \in Block \ (ended \union {cur}) : code'[b] = code[b]
  BY <1>1, <1>3, <1>9, <1>10
<1> HIDE DEF ended
<1> QED
  BY <1>1, <1>3, <1>8, <1>11, <1>12, EnterCode

LEMMA OpenLoopCode ==
    ASSUME VisitInv, CodeInv, NEW kind \in LoopKinds, NEW c \in [Block -> Seq(Instr)],
           \A b \in Block \ {cur} : c[b] = code[b], GoesInto(c, Lasting),
           OpenLoop(kind, c)
    PROVE  CodeInv'
<1> DEFINE f == [stmt |-> new, kind |-> kind, branch |-> "body"]
           header == <<"loop.header", new>>
           body == <<"loop.body", new>>
           end == <<"loop.end", new>>
           blocks == {header, body, end}
           d == Emit(c, cur, Br(header))
<1>1. /\ NextStmt(kind) /\ kind \in Kinds /\ kind # "if"
      /\ PushFrame(kind, "body") /\ placed' = placed \union blocks /\ phase' = phase
      /\ cur' = body /\ code' = Emit(d, header, CondBr(new, body, end))
  BY DEF OpenLoop, Kinds, LoopKinds
<1>2. new \in Stmt /\ new > Len(prog) /\ cur \in Block /\ cur \in placed
  BY <1>1, NextStmtOK, TopFacts
<1>3. FrameShape(f) /\ Pending(f) = {end}
  <2>1. f.stmt = new /\ f.kind = kind /\ f.branch = "body"
    OBVIOUS
  <2> QED
    BY <2>1, PendingIs DEF FrameShape
<1>4. /\ header \in Block /\ body \in Block /\ end \in Block
      /\ \A b \in blocks : b[2] = new /\ b[1] \in Parts /\ b[1] # "if.else"
      /\ body # end /\ body # header /\ header # end
  BY <1>2, BlockParts DEF Parts
<1>5. /\ Lasting \subseteq Lasting' /\ AllPending' = AllPending \union Pending(f)
      /\ \A b \in blocks :
             (b[1] # "if.else" \/ kind # "if") /\ b[2] = new => b \in Lasting'
  <2> HIDE DEF blocks
  <2>1. placed' = placed \union blocks /\ PushFrame(kind, "body")
    BY <1>1
  <2> QED
    BY <1>1, <1>3, <2>1, LastingEnter
<1>6. {header, body, end} \subseteq Lasting'
  BY <1>4, <1>5
<1>7. cur # header
  <2>1. <<"loop.header", new>> \notin placed
    BY <1>2 DEF CodeInv, Unused, Parts
  <2> QED
    BY <1>2, <2>1
<1> HIDE DEF header, body, end, f, d
<1>8. /\ Br(header) \in Instr /\ IsTerminator(Br(header)) /\ Targets(Br(header)) \subseteq Lasting'
      /\ CondBr(new, body, end) \in Instr /\ IsTerminator(CondBr(new, body, end))
      /\ Targets(CondBr(new, body, end)) \subseteq Lasting'
  BY <1>2, <1>4, <1>6, InstrTypes, TerminatorIs, TargetsIs
<1>9. /\ d \in [Block -> Seq(Instr)] /\ Terminated(d, cur)
      /\ GoesInto(d, Lasting')
  <2>1. GoesInto(c, Lasting')
    BY <1>5, GoesFurther
  <2>2. GoesInto(d, Lasting')
    BY <1>2, <1>8, <2>1, EmitGoes DEF d
  <2> QED
    BY <1>2, <1>8, <2>2, EmitOK, EmitEnds DEF d
<1>10. \A b \in Block \ {cur} : d[b] = code[b]
  <2>1. \A b \in Block \ {cur} : d[b] = c[b]
    BY <1>2, <1>8, EmitOK DEF d
  <2> QED
    BY <2>1
<1>11. GoesInto(code', Lasting')
  BY <1>1, <1>4, <1>8, <1>9, EmitGoes
<1>12. Terminated(code', header) /\ Terminated(code', cur)
  BY <1>1, <1>2, <1>4, <1>7, <1>8, <1>9, EmitEnds
<1>13. \A b \in Block \ {header, cur} : code'[b] = code[b]
  <2>1. \A b \in Block \ {header} : code'[b] = d[b]
    <3>1. \A b \in Block \ {header} : Emit(d, header, CondBr(new, body, end))[b] = d[b]
      BY <1>4, <1>8, <1>9, EmitOK
    <3> QED
      BY <1>1, <3>1
  <2> QED
    BY <1>10, <2>1
<1> DEFINE ended == {header}
           pending == {end}
<1>14. /\ blocks \in SUBSET Block /\ ended \in SUBSET blocks /\ pending \in SUBSET blocks
       /\ \A b \in blocks : b[2] = new /\ b[1] \in Parts
       /\ blocks \subseteq ended \union pending \union {cur'}
       /\ cur' \in blocks /\ cur' \notin pending /\ ended \intersect pending = {}
       /\ AllPending' = AllPending \union pending
  BY <1>1, <1>3, <1>4, <1>5
<1>15. /\ \A b \in ended \union {cur} : Terminated(code', b)
       /\ \A b \in Block \ (ended \union {cur}) : code'[b] = code[b]
  BY <1>12, <1>13
<1> HIDE DEF ended, pending, blocks
<1> QED
  BY <1>1, <1>11, <1>14, <1>15, EnterCode

(* A statement is left: the blocks it pended on are the next insertion      *)
(* block and, without an else, the block that is taken back.                *)
LEMMA PopCode ==
    ASSUME VisitInv, CodeInv, phase = "emit", phase' = phase, Len(open) > 1, PopFrame,
           prog' = prog,
           placed' = IF top.kind = "if" THEN placed \ {<<"if.else", top.stmt>>} ELSE placed,
           cur' \in Pending(top), cur' \in placed',
           \A b \in Pending(top) : b = cur' \/ b \notin placed',
           Terminated(code', cur),
           \A b \in Block \ {cur} : code'[b] = code[b],
           GoesInto(code', Lasting)
    PROVE  CodeInv'
<1>1. Lasting \subseteq Lasting' /\ AllPending' = AllPending \ Pending(top)
  BY LastingLeave
<1>2. GoesInto(code', Lasting')
  BY <1>1, GoesFurther
<1>3. Pending(top) \subseteq AllPending
  <2>1. Len(open) \in 1 .. Len(open)
    BY TopFacts
  <2> QED
    BY <2>1 DEF AllPending, top
<1>4. placed' \subseteq placed
  OBVIOUS
<1>5. /\ cur' \in AllPending /\ AllPending' \subseteq AllPending /\ cur' \notin AllPending'
      /\ \A b \in AllPending \ AllPending' : b = cur' \/ b \notin placed'
  BY <1>1, <1>3
<1> QED
  BY <1>2, <1>4, <1>5, LeaveCode

(* The branch of an if that is visited goes on behind it. *)
LEMMA ContOK ==
    ASSUME VisitInv, CodeInv, phase = "emit", top.branch \in {"then", "else"},
           code' = EmitUnlessTerminated(code, cur, Br(<<"if.cont", top.stmt>>))
    PROVE  /\ Terminated(code', cur) /\ GoesInto(code', Lasting)
           /\ \A b \in Block \ {cur} : code'[b] = code[b]
           /\ <<"if.cont", top.stmt>> \in placed
           /\ Len(open) > 1 /\ top.kind \in {"if", "ifelse"}
<1>1. /\ top.kind \in {"if", "ifelse"} /\ Len(open) > 1 /\ top.stmt \in Stmt
      /\ cur \in Block /\ code \in [Block -> Seq(Instr)]
  BY BranchOfTop, TopFacts
<1>2. <<"if.cont", top.stmt>> \in Pending(top)
  BY <1>1, PendingIs
<1>3. Len(open) \in 1 .. Len(open)
  BY TopFacts
<1>4. <<"if.cont", top.stmt>> \in AllPending
  BY <1>2, <1>3 DEF AllPending, top
<1>5. <<"if.cont", top.stmt>> \in Lasting
  <2>1. <<"if.cont", top.stmt>>[1] # "if.else"
    OBVIOUS
  <2> QED
    BY <1>4, <2>1, PendingLasting
<1> DEFINE i == Br(<<"if.cont", top.stmt>>)
<1>6. i \in Instr /\ IsTerminator(i) /\ Targets(i) \subseteq Lasting
  BY <1>1, <1>5, BlockParts, InstrTypes, TerminatorIs, TargetsIs DEF Parts
<1>7. GoesInto(code, Lasting) /\ code' = EmitUnlessTerminated(code, cur, i)
  BY DEF CodeInv
<1> HIDE DEF i
<1>8. Terminated(code', cur) /\ GoesInto(code', Lasting)
  BY <1>1, <1>6, <1>7, EmitUnlessEnds
<1>9. \A b \in Block \ {cur} : code'[b] = code[b]
  BY <1>1, <1>6, <1>7, EmitUnlessEnds
<1> QED
  BY <1>1, <1>4, <1>8, <1>9, PendingPlaced

LEMMA EndThenCode == VisitInv /\ CodeInv /\ EndThen => CodeInv'
<1> SUFFICES ASSUME VisitInv, CodeInv, EndThen
             PROVE  CodeInv'
  OBVIOUS
<1>1. /\ phase = "emit" /\ phase' = phase /\ prog' = prog /\ top.branch = "then"
      /\ code' = EmitUnlessTerminated(code, cur, Br(<<"if.cont", top.stmt>>))
  BY DEF EndThen
<1>2. /\ Terminated(code', cur) /\ GoesInto(code', Lasting)
      /\ \A b \in Block \ {cur} : code'[b] = code[b]
      /\ <<"if.cont", top.stmt>> \in placed
      /\ Len(open) > 1 /\ top.kind \in {"if", "ifelse"}
  BY <1>1, ContOK
<1>3. Pending(top) = {<<"if.cont", top.stmt>>, <<"if.else", top.stmt>>}
  BY <1>1, <1>2, PendingIs
<1>4. CASE top.kind = "if"
  <2>1. /\ PopFrame /\ placed' = placed \ {<<"if.else", top.stmt>>}
        /\ cur' = <<"if.cont", top.stmt>>
    BY <1>4 DEF EndThen
  <2>2. /\ cur' \in Pending(top) /\ cur' \in placed'
        /\ \A b \in Pending(top) : b = cur' \/ b \notin placed'
    BY <1>2, <1>3, <2>1
  <2>3. placed' = IF top.kind = "if" THEN placed \ {<<"if.else", top.stmt>>} ELSE placed
    BY <1>4, <2>1
  <2> QED
    BY <1>1, <1>2, <2>1, <2>2, <2>3, PopCode
<1>5. CASE top.kind = "ifelse"
  <2>1. placed' = placed /\ cur' = <<"if.else", top.stmt>>
    BY <1>5 DEF EndThen
  <2>2. /\ open \in Seq(Frame) /\ Len(open) \in 1 .. Len(open) /\ top \in Frame
    BY TopFacts
  <2> DEFINE f == [top EXCEPT !.branch = "else"]
  <2>3. f.stmt = top.stmt /\ f.kind = "ifelse" /\ f.branch = "else" /\ f \in Frame
    BY <1>5, <2>2 DEF Frame
  <2>4. open' = [open EXCEPT ![Len(open)] = f]
    <3>1. open' = [open EXCEPT ![Len(open)].branch = "else"]
      BY <1>5 DEF EndThen
    <3> QED
      BY <3>1 DEF top
  <2> HIDE DEF f
  <2>5. /\ Len(open') = Len(open) /\ open'[Len(open)] = f
        /\ \A j \in 1 .. Len(open) : j # Len(open) => open'[j] = open[j]
    BY <2>2, <2>3, <2>4, ReplaceOK
  <2>6. Pending(f) = {<<"if.cont", top.stmt>>}
    BY <2>3, PendingIs
  <2>7. \A j \in 1 .. Len(open) : j # Len(open) => <<"if.else", top.stmt>> \notin Pending(open[j])
    <3> SUFFICES ASSUME NEW j \in 1 .. Len(open), j # Len(open),
                        <<"if.else", top.stmt>> \in Pending(open[j])
                 PROVE  FALSE
      OBVIOUS
    <3>1. open[j].stmt = top.stmt
      <4>1. <<"if.else", top.stmt>>[2] = open[j].stmt
        BY PendingOf
      <4> QED
        BY <4>1
    <3>2. open[j].stmt < open[Len(open)].stmt
      <4>1. j < Len(open)
        BY <2>2
      <4> QED
        BY <2>2, <4>1 DEF VisitInv, LoopsMatch
    <3>3. top.stmt \in Nat
      BY <2>2, FrameStmt
    <3> QED
      BY <3>1, <3>2, <3>3 DEF top
  <2>8. AllPending' = UNION {Pending(open'[j]) : j \in 1 .. Len(open)}
    BY <2>5 DEF AllPending, Pending
  <2>9. \A b : b \in AllPending' <=> b \in AllPending /\ b # <<"if.else", top.stmt>>
    <3>1. open[Len(open)] = top
      BY DEF top
    <3>2. \A j \in 1 .. Len(open) : \A b :
            b \in Pending(open'[j]) <=> b \in Pending(open[j]) /\ b # <<"if.else", top.stmt>>
      <4> SUFFICES ASSUME NEW j \in 1 .. Len(open), NEW b
                   PROVE  b \in Pending(open'[j])
                            <=> b \in Pending(open[j]) /\ b # <<"if.else", top.stmt>>
        OBVIOUS
      <4>1. CASE j = Len(open)
        <5>1. open'[j] = f /\ open[j] = top
          BY <2>5, <3>1, <4>1
        <5> QED
          BY <1>3, <2>6, <5>1
      <4>2. CASE j # Len(open)
        BY <2>5, <2>7, <4>2
      <4> QED
        BY <4>1, <4>2
    <3>3. \A b : b \in AllPending' <=> \E j \in 1 .. Len(open) : b \in Pending(open'[j])
      BY <2>8
    <3>4. \A b : b \in AllPending <=> \E j \in 1 .. Len(open) : b \in Pending(open[j])
      BY DEF AllPending
    <3> QED
      BY <3>2, <3>3, <3>4
  <2>10. Removable' = Removable
    <3>1. \A j \in 1 .. Len(open) : open'[j].stmt = open[j].stmt /\ open'[j].kind = open[j].kind
      BY <1>5, <2>3, <2>5 DEF top
    <3> QED
      BY <2>5, <3>1 DEF Removable
  <2>11. Lasting' = Lasting
    BY <2>1, <2>10 DEF Lasting
  <2>12. <<"if.else", top.stmt>> \in AllPending
    BY <1>3, <2>2 DEF AllPending, top
  <2>13. <<"if.else", top.stmt>> \in placed
    BY <2>12, PendingPlaced
  <2>14. GoesInto(code', Lasting')
    BY <1>2, <2>11
  <2>15. /\ cur' \in AllPending /\ AllPending' \subseteq AllPending /\ cur' \notin AllPending'
         /\ \A b \in AllPending \ AllPending' : b = cur' \/ b \notin placed'
         /\ cur' \in placed' /\ placed' \subseteq placed
    BY <2>1, <2>9, <2>12, <2>13
  <2> QED
    BY <1>1, <1>2, <2>14, <2>15, LeaveCode
<1> QED
  BY <1>2, <1>4, <1>5

LEMMA EndElseCode == VisitInv /\ CodeInv /\ EndElse => CodeInv'
<1> SUFFICES ASSUME VisitInv, CodeInv, EndElse
             PROVE  CodeInv'
  OBVIOUS
<1>1. /\ phase = "emit" /\ phase' = phase /\ prog' = prog /\ top.branch = "else"
      /\ code' = EmitUnlessTerminated(code, cur, Br(<<"if.cont", top.stmt>>))
      /\ PopFrame /\ placed' = placed /\ cur' = <<"if.cont", top.stmt>>
  BY DEF EndElse
<1>2. /\ Terminated(code', cur) /\ GoesInto(code', Lasting)
      /\ \A b \in Block \ {cur} : code'[b] = code[b]
      /\ <<"if.cont", top.stmt>> \in placed
      /\ Len(open) > 1 /\ top.kind \in {"if", "ifelse"}
  BY <1>1, ContOK
<1>3. Pending(top) = {<<"if.cont", top.stmt>>}
  BY <1>1, <1>2, PendingIs
<1>4. top.kind # "if"
  BY <1>1, BranchOfTop
<1>5. /\ cur' \in Pending(top) /\ cur' \in placed'
      /\ \A b \in Pending(top) : b = cur' \/ b \notin placed'
  BY <1>1, <1>2, <1>3
<1>6. placed' = IF top.kind = "if" THEN placed \ {<<"if.else", top.stmt>>} ELSE placed
  BY <1>1, <1>4
<1> QED
  BY <1>1, <1>2, <1>5, <1>6, PopCode

LEMMA LoopsCode ==
    VisitInv /\ CodeInv /\ (VisitWhile \/ EndWhile \/ VisitFor \/ EndFor) => CodeInv'
<1> SUFFICES ASSUME VisitInv, CodeInv, VisitWhile \/ EndWhile \/ VisitFor \/ EndFor
             PROVE  CodeInv'
  OBVIOUS
<1>1. cur \in Block /\ code \in [Block -> Seq(Instr)] /\ GoesInto(code, Lasting)
  BY TopFacts DEF CodeInv
<1>2. CASE VisitWhile
  BY <1>1, <1>2, OpenLoopCode DEF VisitWhile, LoopKinds
<1>3. CASE VisitFor
  <2>1. NextStmt("for") /\ "for" \in Kinds /\ "for" \in LoopKinds
    BY <1>3 DEF VisitFor, OpenLoop, Kinds, LoopKinds
  <2>2. new \in Stmt
    BY <2>1, NextStmtOK
  <2>3. Do("setup", new) \in Instr /\ Targets(Do("setup", new)) \subseteq Lasting
    BY <2>2, InstrTypes, TargetsIs
  <2> DEFINE c == Emit(code, cur, Do("setup", new))
  <2>4. GoesInto(c, Lasting)
    BY <1>1, <2>3, EmitGoes
  <2>5. c \in [Block -> Seq(Instr)] /\ \A b \in Block \ {cur} : c[b] = code[b]
    BY <1>1, <2>3, EmitOK
  <2>6. OpenLoop("for", c)
    BY <1>3 DEF VisitFor
  <2> HIDE DEF c
  <2> QED
    BY <2>1, <2>4, <2>5, <2>6, OpenLoopCode
<1>4. ASSUME NEW c \in [Block -> Seq(Instr)], top.kind \in LoopKinds, phase = "emit",
             GoesInto(c, Lasting), Terminated(c, cur),
             \A b \in Block \ {cur} : c[b] = code[b], CloseLoop(c)
      PROVE  CodeInv'
  <2>1. /\ phase' = phase /\ prog' = prog /\ PopFrame /\ code' = c /\ placed' = placed
        /\ cur' = <<"loop.end", top.stmt>>
    BY <1>4 DEF CloseLoop
  <2>2. top.branch = "body" /\ Len(open) > 1 /\ top.kind # "if"
    BY <1>4, BranchOfTop DEF LoopKinds
  <2>3. Pending(top) = {<<"loop.end", top.stmt>>}
    BY <1>4, <2>2, PendingIs
  <2>4. <<"loop.end", top.stmt>> \in placed
    BY <2>3, TargetsOfTop
  <2>5. /\ cur' \in Pending(top) /\ cur' \in placed'
        /\ \A b \in Pending(top) : b = cur' \/ b \notin placed'
    BY <2>1, <2>3, <2>4
  <2>6. placed' = IF top.kind = "if" THEN placed \ {<<"if.else", top.stmt>>} ELSE placed
    BY <2>1, <2>2
  <2>7. /\ Terminated(code', cur) /\ GoesInto(code', Lasting)
        /\ \A b \in Block \ {cur} : code'[b] = code[b]
    BY <1>4, <2>1
  <2> QED
    BY <1>4, <2>1, <2>2, <2>5, <2>6, <2>7, PopCode
<1>5. ASSUME top.kind \in LoopKinds
      PROVE  /\ Br(<<"loop.header", top.stmt>>) \in Instr
             /\ IsTerminator(Br(<<"loop.header", top.stmt>>))
             /\ Targets(Br(<<"loop.header", top.stmt>>)) \subseteq Lasting
             /\ Do("next", top.stmt) \in Instr
             /\ Targets(Do("next", top.stmt)) \subseteq Lasting
  <2>1. top.stmt \in Stmt
    BY <1>5, BranchOfTop
  <2>2. <<"loop.header", top.stmt>> \in placed
    BY <1>5, TargetsOfTop
  <2>3. <<"loop.header", top.stmt>>[1] # "if.else"
    OBVIOUS
  <2>4. <<"loop.header", top.stmt>> \in Lasting
    BY <2>2, <2>3, RemovableIs DEF Lasting
  <2>5. <<"loop.header", top.stmt>> \in Block
    BY <2>1, BlockParts DEF Parts
  <2> QED
    BY <2>1, <2>4, <2>5, InstrTypes, TerminatorIs, TargetsIs
<1>6. CASE EndWhile
  <2> DEFINE c == EmitUnlessTerminated(code, cur, Br(<<"loop.header", top.stmt>>))
  <2>1. top.kind \in LoopKinds /\ phase = "emit" /\ CloseLoop(c)
    BY <1>6 DEF EndWhile, LoopKinds
  <2>2. c \in [Block -> Seq(Instr)]
    BY <1>1, <1>5, <2>1, EmitUnlessOK
  <2>3. /\ Terminated(c, cur) /\ GoesInto(c, Lasting)
        /\ \A b \in Block \ {cur} : c[b] = code[b]
    BY <1>1, <1>5, <2>1, EmitUnlessEnds
  <2> HIDE DEF c
  <2> QED
    BY <1>4, <2>1, <2>2, <2>3
<1>7. CASE EndFor
  <2> DEFINE d == Emit(code, cur, Do("next", top.stmt))
             c == Emit(d, cur, Br(<<"loop.header", top.stmt>>))
  <2>1. top.kind \in LoopKinds /\ phase = "emit" /\ CloseLoop(c)
    BY <1>7 DEF EndFor, LoopKinds
  <2>2. GoesInto(d, Lasting)
    BY <1>1, <1>5, <2>1, EmitGoes
  <2>3. d \in [Block -> Seq(Instr)] /\ \A b \in Block \ {cur} : d[b] = code[b]
    BY <1>1, <1>5, <2>1, EmitOK
  <2> HIDE DEF d
  <2>4. GoesInto(c, Lasting)
    BY <1>1, <1>5, <2>1, <2>2, <2>3, EmitGoes
  <2>5. c \in [Block -> Seq(Instr)] /\ \A b \in Block \ {cur} : c[b] = d[b]
    BY <1>1, <1>5, <2>1, <2>3, EmitOK
  <2>6. Terminated(c, cur)
    <3>1. /\ Br(<<"loop.header", top.stmt>>) \in Instr
          /\ IsTerminator(Br(<<"loop.header", top.stmt>>))
      BY <1>5, <2>1
    <3> QED
      BY <1>1, <2>3, <3>1, EmitEnds
  <2> HIDE DEF c
  <2>7. \A b \in Block \ {cur} : c[b] = code[b]
    BY <2>3, <2>5
  <2> QED
    BY <1>4, <2>1, <2>4, <2>5, <2>6, <2>7
<1> QED
  BY <1>2, <1>3, <1>6, <1>7

(* When all statements are left the insertion block is the only open one.   *)
LEMMA EmitRetCode == VisitInv /\ CodeInv /\ EmitRet => CodeInv'
<1> SUFFICES ASSUME VisitInv, CodeInv, EmitRet
             PROVE  CodeInv'
  OBVIOUS
<1>1. /\ phase = "emit" /\ phase' = "done" /\ placed' = placed \union {RetBlock}
      /\ UNCHANGED <<void, prog, open, cur, loops>>
      /\ code' = [b \in Block |->
                    IF b = RetBlock THEN <<Ret>>
                    ELSE IF b \in placed /\ ~Terminated(code, b)
                    THEN Append(code[b], Br(RetBlock))
                    ELSE code[b]]
  BY DEF EmitRet
<1>2. placed \subseteq Block /\ code \in [Block -> Seq(Instr)] /\ RetBlock \in Block
  BY TopFacts, BlockParts
<1>3. Br(RetBlock) \in Instr /\ IsTerminator(Br(RetBlock)) /\ Targets(Br(RetBlock)) = {RetBlock}
  BY <1>2, InstrTypes, TerminatorIs, TargetsIs
<1>4. Unused'
  <2> SUFFICES ASSUME NEW p \in Parts, NEW s \in Stmt, s > Len(prog)
               PROVE  <<p, s>> \notin placed' /\ code'[<<p, s>>] = <<>>
    BY <1>1 DEF Unused
  <2>1. <<p, s>> \notin placed /\ code[<<p, s>>] = <<>> /\ <<p, s>> \in Block
    BY BlockParts DEF CodeInv, Unused
  <2>2. <<p, s>> # RetBlock
    BY DEF RetBlock, Parts
  <2>3. code'[<<p, s>>] = code[<<p, s>>]
    BY <1>1, <2>1, <2>2
  <2> QED
    BY <1>1, <2>1, <2>2, <2>3
<1>5. Lasting \subseteq Lasting' /\ RetBlock \in Lasting'
  <2>1. Removable' = Removable
    BY <1>1 DEF Removable
  <2> QED
    BY <1>1, <2>1 DEF Lasting
<1>6. ASSUME NEW b \in Block, b \in placed, ~Terminated(code, b), b # RetBlock
      PROVE  /\ code'[b] = Append(code[b], Br(RetBlock))
             /\ Terminated(code', b)
             /\ \A k \in 1 .. Len(code'[b]) : Targets(code'[b][k]) \subseteq Lasting'
  <2>1. code'[b] = Append(code[b], Br(RetBlock))
    BY <1>1, <1>6
  <2>2. code[b] \in Seq(Instr)
    BY <1>2
  <2>3. /\ Len(code'[b]) = Len(code[b]) + 1 /\ Len(code[b]) \in Nat
        /\ code'[b][Len(code[b]) + 1] = Br(RetBlock) /\ code'[b] # <<>>
        /\ \A k \in 1 .. Len(code[b]) : code'[b][k] = code[b][k]
    BY <1>3, <2>1, <2>2
  <2>4. Terminated(code', b)
    BY <1>3, <2>3 DEF Terminated
  <2>5. ASSUME NEW k \in 1 .. Len(code'[b])
        PROVE  Targets(code'[b][k]) \subseteq Lasting'
    <3>1. CASE k = Len(code[b]) + 1
      BY <1>3, <1>5, <2>3, <3>1
    <3>2. CASE k # Len(code[b]) + 1
      <4>1. k \in 1 .. Len(code[b])
        BY <2>3, <3>2
      <4>2. Targets(code[b][k]) \subseteq Lasting
        BY <4>1 DEF CodeInv, GoesInto
      <4> QED
        BY <1>5, <2>3, <4>1, <4>2
    <3> QED
      BY <3>1, <3>2
  <2> QED
    BY <2>1, <2>4, <2>5
<1>7. /\ code'[RetBlock] = <<Ret>> /\ Terminated(code', RetBlock)
      /\ \A k \in 1 .. Len(code'[RetBlock]) : Targets(code'[RetBlock][k]) \subseteq Lasting'
  <2>1. code'[RetBlock] = <<Ret>>
    BY <1>1, <1>2
  <2>2. Len(code'[RetBlock]) = 1 /\ code'[RetBlock][1] = Ret /\ code'[RetBlock] # <<>>
    BY <2>1
  <2>3. Terminated(code', RetBlock)
    BY <2>2, TerminatorIs DEF Terminated
  <2>4. \A k \in 1 .. Len(code'[RetBlock]) : Targets(code'[RetBlock][k]) \subseteq Lasting'
    BY <2>2, TargetsIs
  <2> QED
    BY <2>1, <2>3, <2>4
<1>8. ASSUME NEW b \in Block, b \notin placed \/ Terminated(code, b), b # RetBlock
      PROVE  code'[b] = code[b]
  BY <1>1, <1>8
<1>9. GoesInto(code', Lasting')
  <2> SUFFICES ASSUME NEW b \in Block
               PROVE  \A k \in 1 .. Len(code'[b]) : Targets(code'[b][k]) \subseteq Lasting'
    BY DEF GoesInto
  <2>1. CASE b = RetBlock
    BY <1>7, <2>1
  <2>2. CASE b # RetBlock /\ b \in placed /\ ~Terminated(code, b)
    BY <1>6, <2>2
  <2>3. CASE b # RetBlock /\ (b \notin placed \/ Terminated(code, b))
    <3>1. code'[b] = code[b]
      BY <1>8, <2>3
    <3> QED
      BY <1>5, <3>1 DEF CodeInv, GoesInto
  <2> QED
    BY <2>1, <2>2, <2>3
<1>10. \A b \in placed' : Terminated(code', b)
  <2> SUFFICES ASSUME NEW b \in placed'
               PROVE  Terminated(code', b)
    OBVIOUS
  <2>1. CASE b = RetBlock
    BY <1>7, <2>1
  <2>2. CASE b # RetBlock /\ ~Terminated(code, b)
    BY <1>1, <1>2, <1>6, <2>2
  <2>3. CASE b # RetBlock /\ Terminated(code, b)
    <3>1. code'[b] = code[b]
      BY <1>1, <1>2, <1>8, <2>3
    <3> QED
      BY <2>3, <3>1 DEF Terminated
  <2> QED
    BY <2>1, <2>2, <2>3
<1>11. GoesInto(code, Lasting)' <=> GoesInto(code', Lasting')
  BY DEF GoesInto, Targets
<1>12. (\A b \in placed : Terminated(code, b))' <=> \A b \in placed' : Terminated(code', b)
  BY DEF Terminated, IsTerminator
<1> QED
  BY <1>1, <1>4, <1>9, <1>10, <1>11, <1>12 DEF CodeInv

LEMMA InitCode == Init => CodeInv
<1> SUFFICES ASSUME Init
             PROVE  CodeInv
  OBVIOUS
<1> DEFINE header == <<"header", 0>>
           body == <<"body", 0>>
<1>1. /\ code = [b \in Block |-> IF b = header THEN <<Br(body)>> ELSE <<>>]
      /\ placed = {header, body} /\ cur = body /\ phase = "emit"
      /\ Len(open) = 1 /\ open[1] = [stmt |-> 0, kind |-> "func", branch |-> "body"]
      /\ header \in Block /\ body \in Block
  BY BlockParts DEF Init
<1>2. RetBlock # header /\ RetBlock # body /\ header # body
  BY DEF RetBlock
<1>3. Unused
  <2> SUFFICES ASSUME NEW p \in Parts, NEW s \in Stmt
               PROVE  <<p, s>> \notin placed /\ code[<<p, s>>] = <<>>
    BY DEF Unused
  <2>1. <<p, s>> # header /\ <<p, s>> # body /\ <<p, s>> \in Block
    BY BlockParts DEF Parts
  <2> QED
    BY <1>1, <2>1
<1>4. AllPending = {}
  <2> SUFFICES ASSUME NEW i \in 1 .. Len(open)
               PROVE  Pending(open[i]) = {}
    BY DEF AllPending
  <2>1. open[i].kind = "func" /\ open[i].branch = "body"
    BY <1>1
  <2> QED
    BY <2>1, PendingIs
<1>5. Removable = {}
  BY <1>1 DEF Removable
<1> HIDE DEF header, body
<1>6. code[header] = <<Br(body)>> /\ Targets(Br(body)) = {body} /\ IsTerminator(Br(body))
  BY <1>1, TargetsIs, TerminatorIs
<1>7. \A b \in Block \ {header} : code[b] = <<>>
  BY <1>1
<1>8. GoesInto(code, Lasting)
  <2> SUFFICES ASSUME NEW b \in Block, NEW k \in 1 .. Len(code[b])
               PROVE  Targets(code[b][k]) \subseteq Lasting
    BY DEF GoesInto
  <2>1. b = header
    <3>1. \A j \in 1 .. Len(<<>>) : FALSE
      OBVIOUS
    <3> QED
      BY <1>7, <3>1
  <2>3. k = 1
    <3>1. Len(code[header]) = 1
      BY <1>6
    <3> QED
      BY <2>1, <3>1
  <2>2. code[b][k] = Br(body)
    BY <1>6, <2>1, <2>3
  <2> QED
    BY <1>1, <1>5, <1>6, <2>2 DEF Lasting
<1>9. Terminated(code, header)
  BY <1>6 DEF Terminated
<1> QED
  BY <1>1, <1>2, <1>3, <1>4, <1>8, <1>9 DEF CodeInv

LEMMA CodeInvStep == VisitInv /\ CodeInv /\ [Next]_vars => CodeInv'
<1> SUFFICES ASSUME VisitInv, CodeInv, [Next]_vars
             PROVE  CodeInv'
  OBVIOUS
<1>1. CASE VisitIf("if") \/ VisitIf("ifelse")
  BY <1>1, IfCode
<1>2. CASE UNCHANGED vars
  <2>1. Lasting' = Lasting /\ AllPending' = AllPending
    BY <1>2 DEF vars, Lasting, Removable, AllPending, Pending
  <2> QED
    BY <1>2, <2>1 DEF vars, CodeInv, Unused, GoesInto, Targets, Terminated, IsTerminator
<1> QED
  BY <1>1, <1>2, SimpleCode, BreakCode, ReturnCode, EndThenCode, EndElseCode,
     LoopsCode, EmitRetCode DEF Next, Visit

LEMMA CodeInvariant == Spec => []CodeInv
BY CodeInvStep, InitCode, VisitInvariant, PTL DEF Spec

(* Every function is emitted without loose ends, and those in which         *)
(* statements follow a jump are no exception: while it is emitted, the      *)
(* blocks without an end are the one being filled and those an open         *)
(* statement will come to; when it is done, each block ends and goes to     *)
(* blocks of the function.                                                  *)
THEOREM FunctionClosed == Spec => []Closed
<1>1. VisitInv /\ CodeInv => OnlyPendingOpen
  <2> SUFFICES ASSUME VisitInv, CodeInv, phase = "emit"
               PROVE  /\ AllPending \subseteq {b \in placed : ~Terminated(code, b)}
                      /\ {b \in placed : ~Terminated(code, b)} \subseteq AllPending \union {cur}
    BY DEF OnlyPendingOpen, AllPending
  <2>1. \A b \in AllPending : b \in placed /\ code[b] = <<>>
    BY PendingPlaced DEF CodeInv
  <2>2. \A b \in AllPending : ~Terminated(code, b)
    BY <2>1 DEF Terminated
  <2> QED
    BY <2>1, <2>2 DEF CodeInv
<1>2. ASSUME VisitInv, CodeInv, phase = "done", NEW b \in placed
      PROVE  /\ Terminated(code, b)
             /\ \A i \in 1 .. Len(code[b]) :
                   LET jump == code[b][i]
                   IN  CASE jump.op = "br" -> jump.to \in placed
                         [] jump.op = "condbr" -> {jump.then, jump.else} \subseteq placed
                         [] OTHER -> TRUE
  <2>1. Terminated(code, b) /\ Lasting \subseteq placed
    BY <1>2 DEF CodeInv, Lasting
  <2>2. b \in Block
    BY <1>2, TopFacts
  <2>3. \A i \in 1 .. Len(code[b]) : Targets(code[b][i]) \subseteq placed
    BY <1>2, <2>1, <2>2 DEF CodeInv, GoesInto
  <2> QED
    BY <2>1, <2>3 DEF Targets
<1>3. VisitInv /\ CodeInv => Closed
  BY <1>1, <1>2 DEF Closed
<1> QED
  BY <1>3, VisitInvariant, CodeInvariant, PTL

-----------------------------------------------------------------------------
(* One terminator per block *)

EndsOnce(c) ==
    \A b \in Block : \A i \in 1 .. Len(c[b]) - 1 : ~IsTerminator(c[b][i])

(* The inductive invariant of OneTerminator: the insertion block has ended  *)
(* only behind a jump, where no statement follows and no for body ends.     *)
EndInv ==
    /\ EndsOnce(code)
    /\ phase = "emit" /\ Terminated(code, cur) => Jumped /\ top.kind # "for"

LEMMA EmitOnce ==
    ASSUME NEW c \in [Block -> Seq(Instr)], NEW b \in Block, NEW i \in Instr,
           EndsOnce(c), ~Terminated(c, b)
    PROVE  EndsOnce(Emit(c, b, i))
<1> DEFINE d == Emit(c, b, i)
<1>1. d[b] = Append(c[b], i) /\ \A x \in Block \ {b} : d[x] = c[x]
  BY EmitOK
<1> HIDE DEF d
<1>2. c[b] \in Seq(Instr)
  OBVIOUS
<1>3. /\ Len(d[b]) = Len(c[b]) + 1 /\ Len(c[b]) \in Nat
      /\ \A k \in 1 .. Len(c[b]) : d[b][k] = c[b][k]
  BY <1>1, <1>2
<1>4. ASSUME NEW k \in 1 .. Len(c[b])
      PROVE  ~IsTerminator(c[b][k])
  <2>1. CASE k = Len(c[b])
    <3>1. c[b] # <<>>
      BY <1>2, <2>1
    <3> QED
      BY <2>1, <3>1 DEF Terminated
  <2>2. CASE k # Len(c[b])
    <3>1. k \in 1 .. Len(c[b]) - 1
      BY <1>3, <2>2
    <3> QED
      BY <3>1 DEF EndsOnce
  <2> QED
    BY <2>1, <2>2
<1>5. ASSUME NEW x \in Block, NEW k \in 1 .. Len(d[x]) - 1
      PROVE  ~IsTerminator(d[x][k])
  <2>1. CASE x # b
    BY <1>1, <2>1 DEF EndsOnce
  <2>2. CASE x = b
    <3>1. k \in 1 .. Len(c[b])
      BY <1>3, <2>2
    <3> QED
      BY <1>3, <1>4, <2>2, <3>1
  <2> QED
    BY <2>1, <2>2
<1> QED
  BY <1>5 DEF EndsOnce, d

LEMMA EmitUnlessOnce ==
    ASSUME NEW c \in [Block -> Seq(Instr)], NEW b \in Block, NEW i \in Instr, EndsOnce(c)
    PROVE  EndsOnce(EmitUnlessTerminated(c, b, i))
BY EmitOnce DEF EmitUnlessTerminated

(* A statement is visited where control can come to. *)
LEMMA NotEnded ==
    ASSUME Untidy = {}, EndInv, NEW kind, NextStmt(kind)
    PROVE  ~Terminated(code, cur) /\ (kind \in Jumps => top.kind # "for") /\ phase = "emit"
<1>1. phase = "emit" /\ ~Jumped /\ ~(kind \in Jumps /\ top.kind = "for")
  BY Zenon DEF NextStmt
<1> QED
  BY <1>1 DEF EndInv

(* After a jump the statements of its block are at an end. *)
LEMMA JumpEnds ==
    ASSUME VisitInv, NEW kind \in Jumps, NextStmt(kind), top.kind # "for",
           open' = open, EndsOnce(code')
    PROVE  EndInv'
<1> DEFINE r == [kind |-> kind, parent |-> top.stmt, branch |-> top.branch]
<1>1. prog' = Append(prog, r)
  BY DEF NextStmt
<1>2. r \in StmtRecord /\ prog \in Seq(StmtRecord)
  BY TopFacts DEF StmtRecord, Frame, Kinds
<1>3. r.kind \in Jumps /\ r.parent = top.stmt /\ r.branch = top.branch
  OBVIOUS
<1> HIDE DEF r
<1>4. prog' # <<>> /\ prog'[Len(prog')] = r
  BY <1>1, <1>2
<1>5. top' = top
  BY DEF top
<1>6. Jumped' /\ top'.kind # "for"
  BY <1>3, <1>4, <1>5 DEF Jumped
<1>7. EndsOnce(code)' <=> EndsOnce(code')
  BY DEF EndsOnce, IsTerminator
<1> QED
  BY <1>6, <1>7 DEF EndInv

(* Control comes to the next insertion block. *)
LEMMA FreshEnds ==
    ASSUME EndsOnce(code'), code'[cur'] = <<>>
    PROVE  EndInv'
<1>1. EndsOnce(code)' <=> EndsOnce(code')
  BY DEF EndsOnce, IsTerminator
<1>2. Terminated(code, cur)' <=> Terminated(code', cur')
  BY DEF Terminated, IsTerminator
<1>3. ~Terminated(code', cur')
  BY DEF Terminated
<1> QED
  BY <1>1, <1>2, <1>3 DEF EndInv

LEMMA StatementsEnd ==
    ASSUME Untidy = {}, VisitInv, CodeInv, EndInv, VisitSimple \/ VisitBreak \/ VisitReturn
    PROVE  EndInv'
<1>1. /\ cur \in Block /\ code \in [Block -> Seq(Instr)] /\ EndsOnce(code)
  BY TopFacts DEF EndInv
<1>2. CASE VisitSimple
  <2>1. NextStmt("eval") /\ "eval" \in Kinds /\ cur' = cur
    BY <1>2 DEF VisitSimple, Kinds
  <2>2. ~Terminated(code, cur) /\ new \in Stmt
    BY <2>1, NotEnded, NextStmtOK
  <2>3. Do("eval", new) \in Instr /\ ~IsTerminator(Do("eval", new))
    BY <2>2, InstrTypes, TerminatorIs
  <2>4. code' = Emit(code, cur, Do("eval", new))
    BY <1>2 DEF VisitSimple
  <2>5. EndsOnce(code')
    BY <1>1, <2>2, <2>3, <2>4, EmitOnce
  <2>6. ~Terminated(code', cur')
    BY <1>1, <2>1, <2>3, <2>4, EmitEnds
  <2>7. EndsOnce(code)' /\ ~Terminated(code, cur)'
    BY <2>5, <2>6 DEF EndsOnce, Terminated, IsTerminator
  <2> QED
    BY <2>7 DEF EndInv
<1>3. CASE VisitBreak
  <2>1. NextStmt("break") /\ "break" \in Jumps
    BY <1>3 DEF VisitBreak, Jumps
  <2>2. ~Terminated(code, cur) /\ top.kind # "for"
    BY <2>1, NotEnded
  <2>3. BreakTarget \in Block
    BY <1>3, BreakTargetIs DEF VisitBreak
  <2>4. code' = Emit(code, cur, Br(BreakTarget)) /\ open' = open
    BY <1>3 DEF VisitBreak
  <2>5. Br(BreakTarget) \in Instr
    BY <2>3, InstrTypes
  <2>6. EndsOnce(code')
    BY <1>1, <2>2, <2>4, <2>5, EmitOnce
  <2> QED
    BY <2>1, <2>2, <2>4, <2>6, JumpEnds
<1>4. CASE VisitReturn
  <2>1. NextStmt("return") /\ "return" \in Jumps /\ "return" \in Kinds
    BY <1>4 DEF VisitReturn, Jumps, Kinds
  <2>2. ~Terminated(code, cur) /\ top.kind # "for" /\ new \in Stmt
    BY <2>1, NotEnded, NextStmtOK
  <2> DEFINE c == IF void THEN code ELSE Emit(code, cur, Do("value", new))
  <2>3. /\ Do("value", new) \in Instr /\ ~IsTerminator(Do("value", new))
        /\ Br(RetBlock) \in Instr
    BY <2>2, InstrTypes, TerminatorIs, BlockParts
  <2>4. c \in [Block -> Seq(Instr)] /\ EndsOnce(c) /\ ~Terminated(c, cur)
    <3>1. Emit(code, cur, Do("value", new)) \in [Block -> Seq(Instr)]
      BY <1>1, <2>3, EmitOK
    <3>2. EndsOnce(Emit(code, cur, Do("value", new)))
      BY <1>1, <2>2, <2>3, EmitOnce
    <3>3. ~Terminated(Emit(code, cur, Do("value", new)), cur)
      BY <1>1, <2>3, EmitEnds
    <3> QED
      BY <1>1, <2>2, <3>1, <3>2, <3>3
  <2>5. code' = Emit(c, cur, Br(RetBlock)) /\ open' = open
    BY <1>4 DEF VisitReturn
  <2> HIDE DEF c
  <2>6. EndsOnce(code')
    BY <1>1, <2>3, <2>4, <2>5, EmitOnce
  <2> QED
    BY <2>1, <2>2, <2>5, <2>6, JumpEnds
<1> QED
  BY <1>2, <1>3, <1>4

(* A block of the statement to come is empty. *)
LEMMA NewEmpty ==
    ASSUME VisitInv, CodeInv, NEW kind \in Kinds, NextStmt(kind), NEW p \in Parts
    PROVE  /\ <<p, new>> \in Block /\ code[<<p, new>>] = <<>> /\ <<p, new>> # cur
<1>1. new \in Stmt /\ new > Len(prog)
  BY NextStmtOK
<1>2. <<p, new>> \notin placed /\ code[<<p, new>>] = <<>>
  BY <1>1 DEF CodeInv, Unused
<1> QED
  BY <1>1, <1>2, BlockParts, TopFacts

(* So is a block that is pending. *)
LEMMA PendingEmpty ==
    ASSUME VisitInv, CodeInv, phase = "emit", NEW b \in Pending(top)
    PROVE  b \in Block /\ code[b] = <<>> /\ b # cur
<1>1. Len(open) \in 1 .. Len(open)
  BY TopFacts
<1>2. b \in AllPending
  BY <1>1 DEF AllPending, top
<1> QED
  BY <1>2, PendingPlaced, TopFacts DEF CodeInv

LEMMA IfEnds ==
    ASSUME Untidy = {}, VisitInv, CodeInv, EndInv, NEW kind, VisitIf(kind)
    PROVE  EndInv'
<1> DEFINE i == CondBr(new, <<"if.then", new>>, IfNot(kind, new))
<1>1. /\ kind \in Kinds /\ NextStmt(kind) /\ code' = Emit(code, cur, i)
      /\ cur' = <<"if.then", new>>
  BY DEF VisitIf, Kinds
<1>2. /\ cur \in Block /\ code \in [Block -> Seq(Instr)] /\ EndsOnce(code)
      /\ ~Terminated(code, cur) /\ new \in Stmt
  BY <1>1, TopFacts, NotEnded, NextStmtOK DEF EndInv
<1>3. /\ <<"if.then", new>> \in Block /\ <<"if.else", new>> \in Block
      /\ <<"if.cont", new>> \in Block
      /\ code[<<"if.then", new>>] = <<>> /\ <<"if.then", new>> # cur
  BY <1>1, NewEmpty DEF Parts
<1>4. i \in Instr
  BY <1>2, <1>3, InstrTypes DEF IfNot
<1> HIDE DEF i
<1>5. EndsOnce(code')
  BY <1>1, <1>2, <1>4, EmitOnce
<1>6. code'[cur'] = <<>>
  <2>1. \A x \in Block \ {cur} : Emit(code, cur, i)[x] = code[x]
    BY <1>2, <1>4, EmitOK
  <2>2. <<"if.then", new>> \in Block \ {cur}
    BY <1>3
  <2> QED
    BY <1>1, <1>3, <2>1, <2>2
<1> QED
  BY <1>5, <1>6, FreshEnds

LEMMA BranchEnds ==
    ASSUME Untidy = {}, VisitInv, CodeInv, EndInv, EndThen \/ EndElse
    PROVE  EndInv'
<1> DEFINE i == Br(<<"if.cont", top.stmt>>)
<1>1. /\ phase = "emit" /\ top.branch \in {"then", "else"}
      /\ code' = EmitUnlessTerminated(code, cur, i)
  BY DEF EndThen, EndElse
<1>2. /\ top.stmt \in Stmt /\ top.kind \in {"if", "ifelse"}
      /\ cur \in Block /\ code \in [Block -> Seq(Instr)] /\ EndsOnce(code)
  BY <1>1, BranchOfTop, TopFacts DEF EndInv
<1>3. cur' \in Pending(top)
  <2>1. CASE EndThen
    <3>1. Pending(top) = {<<"if.cont", top.stmt>>, <<"if.else", top.stmt>>}
      BY <1>2, <2>1, PendingIs DEF EndThen
    <3> QED
      BY <2>1, <3>1 DEF EndThen
  <2>2. CASE EndElse
    <3>1. Pending(top) = {<<"if.cont", top.stmt>>}
      BY <1>2, <2>2, PendingIs DEF EndElse
    <3> QED
      BY <2>2, <3>1 DEF EndElse
  <2> QED
    BY <2>1, <2>2
<1>4. cur' \in Block /\ code[cur'] = <<>> /\ cur' # cur
  BY <1>1, <1>3, PendingEmpty
<1>5. i \in Instr /\ IsTerminator(i)
  BY <1>2, InstrTypes, TerminatorIs, BlockParts DEF Parts
<1> HIDE DEF i
<1>6. EndsOnce(code')
  BY <1>1, <1>2, <1>5, EmitUnlessOnce
<1>7. code'[cur'] = code[cur']
  BY <1>1, <1>2, <1>4, <1>5, EmitOK DEF EmitUnlessTerminated
<1> QED
  BY <1>4, <1>6, <1>7, FreshEnds

LEMMA OpenLoopEnds ==
    ASSUME VisitInv, CodeInv, NEW kind \in Kinds, NEW c \in [Block -> Seq(Instr)],
           EndsOnce(c), ~Terminated(c, cur), \A b \in Block \ {cur} : c[b] = code[b],
           OpenLoop(kind, c)
    PROVE  EndInv'
<1> DEFINE header == <<"loop.header", new>>
           body == <<"loop.body", new>>
           end == <<"loop.end", new>>
           d == Emit(c, cur, Br(header))
<1>1. /\ NextStmt(kind) /\ cur' = body
      /\ code' = Emit(d, header, CondBr(new, body, end))
  BY DEF OpenLoop
<1>2. new \in Stmt /\ cur \in Block
  BY <1>1, NextStmtOK, TopFacts
<1>3. /\ header \in Block /\ code[header] = <<>> /\ header # cur
      /\ body \in Block /\ code[body] = <<>> /\ body # cur
      /\ end \in Block
  BY <1>1, NewEmpty DEF Parts
<1>4. header # body
  OBVIOUS
<1>5. Br(header) \in Instr /\ CondBr(new, body, end) \in Instr
  BY <1>2, <1>3, InstrTypes
<1>6. d \in [Block -> Seq(Instr)] /\ \A x \in Block \ {cur} : d[x] = c[x]
  BY <1>2, <1>5, EmitOK
<1>7. EndsOnce(d)
  BY <1>2, <1>5, EmitOnce
<1> HIDE DEF header, body, end, d
<1>8. d[header] = <<>> /\ d[body] = <<>>
  BY <1>3, <1>6
<1>9. ~Terminated(d, header)
  BY <1>8 DEF Terminated
<1>10. EndsOnce(code')
  BY <1>1, <1>3, <1>5, <1>6, <1>7, <1>9, EmitOnce
<1>11. \A x \in Block \ {header} : code'[x] = d[x]
  BY <1>1, <1>3, <1>5, <1>6, EmitOK
<1>12. code'[cur'] = <<>>
  BY <1>1, <1>3, <1>4, <1>8, <1>11
<1> QED
  BY <1>10, <1>12, FreshEnds

LEMMA CloseLoopEnds ==
    ASSUME VisitInv, CodeInv, phase = "emit", top.kind \in LoopKinds,
           NEW c \in [Block -> Seq(Instr)], EndsOnce(c),
           \A b \in Block \ {cur} : c[b] = code[b], CloseLoop(c)
    PROVE  EndInv'
<1>1. code' = c /\ cur' = <<"loop.end", top.stmt>>
  BY DEF CloseLoop
<1>2. <<"loop.end", top.stmt>> \in Pending(top)
  <2>1. top.branch = "body"
    BY BranchOfTop DEF LoopKinds
  <2> QED
    BY <2>1, PendingIs
<1>3. cur' \in Block /\ code[cur'] = <<>> /\ cur' # cur
  BY <1>1, <1>2, PendingEmpty
<1>4. code'[cur'] = <<>>
  BY <1>1, <1>3
<1> QED
  BY <1>1, <1>4, FreshEnds

LEMMA LoopsEnd ==
    ASSUME Untidy = {}, VisitInv, CodeInv, EndInv,
           VisitWhile \/ EndWhile \/ VisitFor \/ EndFor
    PROVE  EndInv'
<1>1. /\ cur \in Block /\ code \in [Block -> Seq(Instr)] /\ EndsOnce(code)
  BY TopFacts DEF EndInv
<1>2. CASE VisitWhile
  <2>1. OpenLoop("while", code) /\ "while" \in Kinds
    BY <1>2 DEF VisitWhile, Kinds
  <2>2. ~Terminated(code, cur)
    BY <2>1, NotEnded DEF OpenLoop
  <2> QED
    BY <1>1, <2>1, <2>2, OpenLoopEnds
<1>3. CASE VisitFor
  <2> DEFINE c == Emit(code, cur, Do("setup", new))
  <2>1. OpenLoop("for", c) /\ "for" \in Kinds
    BY <1>3 DEF VisitFor, Kinds
  <2>2. ~Terminated(code, cur) /\ new \in Stmt
    BY <2>1, NotEnded, NextStmtOK DEF OpenLoop
  <2>3. Do("setup", new) \in Instr /\ ~IsTerminator(Do("setup", new))
    BY <2>2, InstrTypes, TerminatorIs
  <2>4. c \in [Block -> Seq(Instr)] /\ \A b \in Block \ {cur} : c[b] = code[b]
    BY <1>1, <2>3, EmitOK
  <2>5. EndsOnce(c)
    BY <1>1, <2>2, <2>3, EmitOnce
  <2>6. ~Terminated(c, cur)
    BY <1>1, <2>3, EmitEnds
  <2> HIDE DEF c
  <2> QED
    BY <2>1, <2>4, <2>5, <2>6, OpenLoopEnds
<1>4. ASSUME top.kind \in LoopKinds
      PROVE  Br(<<"loop.header", top.stmt>>) \in Instr /\ Do("next", top.stmt) \in Instr
             /\ ~IsTerminator(Do("next", top.stmt))
  <2>1. top.stmt \in Stmt
    BY <1>4, BranchOfTop
  <2>2. <<"loop.header", top.stmt>> \in Block
    BY <2>1, BlockParts DEF Parts
  <2> QED
    BY <2>1, <2>2, InstrTypes, TerminatorIs
<1>5. CASE EndWhile
  <2> DEFINE c == EmitUnlessTerminated(code, cur, Br(<<"loop.header", top.stmt>>))
  <2>1. top.kind \in LoopKinds /\ phase = "emit" /\ CloseLoop(c)
    BY <1>5 DEF EndWhile, LoopKinds
  <2>2. c \in [Block -> Seq(Instr)] /\ \A b \in Block \ {cur} : c[b] = code[b]
    BY <1>1, <1>4, <2>1, EmitUnlessOK
  <2>3. EndsOnce(c)
    BY <1>1, <1>4, <2>1, EmitUnlessOnce
  <2> HIDE DEF c
  <2> QED
    BY <2>1, <2>2, <2>3, CloseLoopEnds
<1>6. CASE EndFor
  <2> DEFINE d == Emit(code, cur, Do("next", top.stmt))
             c == Emit(d, cur, Br(<<"loop.header", top.stmt>>))
  <2>1. top.kind \in LoopKinds /\ top.kind = "for" /\ phase = "emit" /\ CloseLoop(c)
    BY <1>6 DEF EndFor, LoopKinds
  <2>2. ~Terminated(code, cur)
    BY <2>1 DEF EndInv
  <2>3. d \in [Block -> Seq(Instr)] /\ \A b \in Block \ {cur} : d[b] = code[b]
    BY <1>1, <1>4, <2>1, EmitOK
  <2>4. EndsOnce(d)
    BY <1>1, <1>4, <2>1, <2>2, EmitOnce
  <2>5. ~Terminated(d, cur)
    BY <1>1, <1>4, <2>1, EmitEnds
  <2> HIDE DEF d
  <2>6. c \in [Block -> Seq(Instr)] /\ \A b \in Block \ {cur} : c[b] = d[b]
    BY <1>1, <1>4, <2>1, <2>3, EmitOK
  <2>7. EndsOnce(c)
    BY <1>1, <1>4, <2>1, <2>3, <2>4, <2>5, EmitOnce
  <2> HIDE DEF c
  <2> QED
    BY <2>1, <2>3, <2>6, <2>7, CloseLoopEnds
<1> QED
  BY <1>2, <1>3, <1>5, <1>6

LEMMA EmitRetEnds ==
    ASSUME VisitInv, EndInv, EmitRet
    PROVE  EndInv'
<1> DEFINE closed(b) == b \in placed /\ ~Terminated(code, b)
<1>1. /\ phase' = "done"
      /\ code' = [b \in Block |->
                    IF b = RetBlock THEN <<Ret>>
                    ELSE IF closed(b) THEN Append(code[b], Br(RetBlock))
                    ELSE code[b]]
  BY DEF EmitRet
<1>2. code \in [Block -> Seq(Instr)] /\ EndsOnce(code) /\ Br(RetBlock) \in Instr
  BY TopFacts, BlockParts, InstrTypes DEF EndInv
<1>3. ASSUME NEW b \in Block, NEW k \in 1 .. Len(code'[b]) - 1
      PROVE  ~IsTerminator(code'[b][k])
  <2>1. CASE b = RetBlock
    <3>1. Len(code'[b]) = 1
      BY <1>1, <2>1
    <3> QED
      BY <3>1
  <2>2. CASE b # RetBlock /\ closed(b)
    <3>1. code'[b] = Emit(code, b, Br(RetBlock))[b]
      <4>1. code'[b] = Append(code[b], Br(RetBlock))
        BY <1>1, <2>2
      <4> QED
        BY <1>2, <4>1, EmitOK
    <3>2. EndsOnce(Emit(code, b, Br(RetBlock)))
      BY <1>2, <2>2, EmitOnce
    <3> QED
      BY <3>1, <3>2 DEF EndsOnce
  <2>3. CASE b # RetBlock /\ ~closed(b)
    <3>1. code'[b] = code[b]
      BY <1>1, <2>3
    <3> QED
      BY <1>2, <3>1 DEF EndsOnce
  <2> QED
    BY <2>1, <2>2, <2>3
<1>4. EndsOnce(code)'
  BY <1>3 DEF EndsOnce, IsTerminator
<1> QED
  BY <1>1, <1>4 DEF EndInv

LEMMA InitEnds == Init => EndInv
<1> SUFFICES ASSUME Init
             PROVE  EndInv
  OBVIOUS
<1> DEFINE header == <<"header", 0>>
           body == <<"body", 0>>
<1>1. /\ code = [b \in Block |-> IF b = header THEN <<Br(body)>> ELSE <<>>]
      /\ cur = body /\ header \in Block /\ body \in Block /\ header # body
  BY BlockParts DEF Init
<1> HIDE DEF header, body
<1>2. \A b \in Block : Len(code[b]) - 1 <= 0
  <2> SUFFICES ASSUME NEW b \in Block
               PROVE  Len(code[b]) - 1 <= 0
    OBVIOUS
  <2>1. Len(<<Br(body)>>) = 1 /\ Len(<<>>) = 0
    OBVIOUS
  <2>2. CASE b = header
    <3>1. code[b] = <<Br(body)>>
      BY <1>1, <2>2
    <3> QED
      BY <3>1, <2>1
  <2>3. CASE b # header
    <3>1. code[b] = <<>>
      BY <1>1, <2>3
    <3> QED
      BY <3>1, <2>1
  <2> QED
    BY <2>2, <2>3
<1>3. EndsOnce(code)
  BY <1>2 DEF EndsOnce
<1>4. code[cur] = <<>>
  BY <1>1
<1> QED
  BY <1>3, <1>4 DEF EndInv, Terminated

(* In a function in which no statement follows a jump in its block and no   *)
(* for body ends in one, a terminator is the last instruction of its block. *)
(* (In the others it need not be: the visitor goes on emitting behind the   *)
(* jump, and llvm::verifyModule reports the function.)                      *)
THEOREM OneTerminatorPerBlock == Untidy = {} => (Spec => []OneTerminator)
<1> SUFFICES ASSUME Untidy = {}
             PROVE  Spec => []OneTerminator
  OBVIOUS
<1>1. VisitInv /\ CodeInv /\ EndInv /\ [Next]_vars => EndInv'
  <2> SUFFICES ASSUME VisitInv, CodeInv, EndInv, [Next]_vars
               PROVE  EndInv'
    OBVIOUS
  <2>1. CASE VisitIf("if") \/ VisitIf("ifelse")
    BY <2>1, IfEnds
  <2>2. CASE UNCHANGED vars
    BY <2>2 DEF vars, EndInv, EndsOnce, Terminated, IsTerminator, Jumped, top
  <2> QED
    BY <2>1, <2>2, StatementsEnd, BranchEnds, LoopsEnd, EmitRetEnds DEF Next, Visit
<1>2. VisitInv /\ EndInv => OneTerminator
  BY TopFacts DEF EndInv, EndsOnce, OneTerminator
<1> QED
  BY <1>1, <1>2, InitEnds, VisitInvariant, CodeInvariant, PTL DEF Spec

-----------------------------------------------------------------------------
(* What the code does: it runs as the function says. *)

(* The tree of the statements, and the blocks that are being visited *)
IsIf(s) == prog[s].kind \in {"if", "ifelse"}

Tree ==
    /\ \A t \in 1 .. Len(prog) : prog[t].parent < t
    /\ \A k \in 2 .. Len(open) :
          LET f == open[k]
          IN  /\ prog[f.stmt].kind = f.kind
              /\ prog[f.stmt].parent = open[k - 1].stmt
              /\ prog[f.stmt].branch = open[k - 1].branch
    /\ \A k \in 1 .. Len(open) : \A t \in 1 .. Len(prog) :
          t > open[k].stmt => prog[t].parent >= open[k].stmt
    /\ \A k \in 1 .. Len(open) : \A t \in 1 .. Len(prog) :
          open[k].branch = "then" => ~(prog[t].parent = open[k].stmt /\ prog[t].branch = "else")

(* A break has a loop around it. *)
BreaksInLoops ==
    \A t \in 1 .. Len(prog) :
        prog[t].kind = "break" =>
            LoopOf(t) \in 1 .. t - 1 /\ IsLoop(LoopOf(t)) /\ Encloses(LoopOf(t), t)

Has(b, i, x) == i \in 1 .. Len(code[b]) /\ code[b][i] = x

(* The blocks that instructions go to *)
IsTarget(b) ==
    \/ b \in {RetBlock, <<"body", 0>>}
    \/ \E s \in 1 .. Len(prog) :
          \/ IsIf(s) /\ b \in {<<"if.then", s>>, <<"if.cont", s>>}
          \/ prog[s].kind = "ifelse" /\ b = <<"if.else", s>>
          \/ IsLoop(s) /\ b \in {<<"loop.header", s>>, <<"loop.body", s>>, <<"loop.end", s>>}

(* What an instruction is, and the one behind it where that does not       *)
(* depend on other statements                                              *)
Linked(b, i) ==
    \/ \E s \in 1 .. Len(prog) :
          \/ code[b][i] = Do("eval", s)
          \/ code[b][i] = Do("value", s) /\ Has(b, i + 1, Br(RetBlock))
          \/ /\ code[b][i] \in {Do("setup", s), Do("next", s)}
             /\ prog[s].kind = "for" /\ Has(b, i + 1, Br(<<"loop.header", s>>))
          \/ IsIf(s) /\ code[b][i] = CondBr(s, <<"if.then", s>>, IfNot(prog[s].kind, s))
          \/ IsLoop(s) /\ code[b][i] = CondBr(s, <<"loop.body", s>>, <<"loop.end", s>>)
    \/ \E t : IsTarget(t) /\ code[b][i] = Br(t)
    \/ code[b][i] = Ret

Links ==
    /\ \A b \in Block : \A i \in 1 .. Len(code[b]) : Linked(b, i)
    /\ \A s \in 1 .. Len(prog) :
          IsLoop(s) => Has(<<"loop.header", s>>, 1,
                           CondBr(s, <<"loop.body", s>>, <<"loop.end", s>>))
    /\ Has(<<"header", 0>>, 1, Br(<<"body", 0>>))
    /\ phase = "emit" => code[RetBlock] = <<>>
    /\ phase = "done" => Has(RetBlock, 1, Ret)

(* The code of statement t begins at i of b. *)
Begins(b, i, t) ==
    \/ prog[t].kind = "eval" /\ Has(b, i, Do("eval", t))
    \/ prog[t].kind = "break" /\ Has(b, i, Br(<<"loop.end", LoopOf(t)>>))
    \/ prog[t].kind = "return" /\ Has(b, i, IF void THEN Br(RetBlock) ELSE Do("value", t))
    \/ IsIf(t) /\ Has(b, i, CondBr(t, <<"if.then", t>>, IfNot(prog[t].kind, t)))
    \/ prog[t].kind = "while" /\ Has(b, i, Br(<<"loop.header", t>>))
    \/ prog[t].kind = "for" /\ Has(b, i, Do("setup", t))

(* A block of statement p is left there. *)
Closes(b, i, p) ==
    \/ p = 0 /\ Has(b, i, Br(RetBlock))
    \/ /\ p \in 1 .. Len(prog)
       /\ \/ IsIf(p) /\ Has(b, i, Br(<<"if.cont", p>>))
          \/ prog[p].kind = "while" /\ Has(b, i, Br(<<"loop.header", p>>))
          \/ prog[p].kind = "for" /\ Has(b, i, Do("next", p))

IsNext(t, p, branch, m) ==
    /\ t \in Nested(p, branch) /\ t > m
    /\ \A u \in Nested(p, branch) : u > m => t <= u

NoneAfter(p, branch, m) == \A u \in Nested(p, branch) : u <= m

Visiting(p, branch) ==
    phase = "emit" /\ \E k \in 1 .. Len(open) : open[k].stmt = p /\ open[k].branch = branch

IsHere(b, i) == phase = "emit" /\ b = cur /\ i = Len(code[b]) + 1

(* At i of b goes on what follows statement m in a block of p: with the    *)
(* next statement, the end of the block, or what is emitted next.          *)
GoesOn(b, i, p, branch, m) ==
    \/ \E t \in 1 .. Len(prog) : IsNext(t, p, branch, m) /\ Begins(b, i, t)
    \/ NoneAfter(p, branch, m) /\ ~Visiting(p, branch) /\ Closes(b, i, p)
    \/ /\ NoneAfter(p, branch, m) /\ IsHere(b, i)
       /\ top.stmt = p /\ top.branch = branch

IsOpen(s) == phase = "emit" /\ \E k \in 1 .. Len(open) : open[k].stmt = s

(* Where that must be so: behind an expression, and in front of a block of *)
(* statements or of what follows a statement, unless it is yet to come     *)
Joint(b, i, p, branch, m) ==
    \/ /\ i - 1 \in 1 .. Len(code[b]) /\ m \in 1 .. Len(prog)
       /\ code[b][i - 1] = Do("eval", m)
       /\ p = prog[m].parent /\ branch = prog[m].branch
    \/ i = 1 /\ b = <<"body", 0>> /\ p = 0 /\ branch = "body" /\ m = 0
    \/ /\ i = 1 /\ m = p /\ p \in 1 .. Len(prog)
       /\ \/ IsIf(p) /\ b = <<"if.then", p>> /\ branch = "then"
          \/ /\ prog[p].kind = "ifelse" /\ b = <<"if.else", p>> /\ branch = "else"
             /\ ~Visiting(p, "then")
          \/ IsLoop(p) /\ b = <<"loop.body", p>> /\ branch = "body"
    \/ /\ i = 1 /\ m \in 1 .. Len(prog) /\ ~IsOpen(m)
       /\ p = prog[m].parent /\ branch = prog[m].branch
       /\ \/ IsIf(m) /\ b = <<"if.cont", m>>
          \/ IsLoop(m) /\ b = <<"loop.end", m>>

Joints ==
    \A b \in Block, i \in Nat, p \in Nat, branch \in {"body", "then", "else"}, m \in Nat :
        Joint(b, i, p, branch, m) => GoesOn(b, i, p, branch, m)

EmitInv == Tree /\ BreaksInLoops /\ Links /\ Joints

-----------------------------------------------------------------------------
(* What was emitted and visited stays. *)
Grows ==
    /\ code' \in [Block -> Seq(Instr)]
    /\ \A b \in Block :
          /\ Len(code[b]) <= Len(code'[b])
          /\ \A i \in 1 .. Len(code[b]) : code'[b][i] = code[b][i]
    /\ prog' \in Seq(StmtRecord) /\ Len(prog) <= Len(prog')
    /\ \A t \in 1 .. Len(prog) : prog'[t] = prog[t]
    /\ void' = void

LEMMA Sizes ==
    ASSUME VisitInv
    PROVE  /\ Len(prog) \in Nat
           /\ \A b \in Block : Len(code[b]) \in Nat
           /\ \A t \in 1 .. Len(prog) :
                 /\ prog[t].kind \in Kinds /\ prog[t].parent \in Nat
                 /\ prog[t].branch \in {"body", "then", "else"}
<1>1. prog \in Seq(StmtRecord) /\ code \in [Block -> Seq(Instr)] /\ MaxStmts \in Nat
  BY TopFacts
<1>2. Len(prog) \in Nat /\ \A b \in Block : Len(code[b]) \in Nat
  BY <1>1
<1>3. \A t \in 1 .. Len(prog) : prog[t] \in StmtRecord
  BY <1>1
<1> QED
  BY <1>1, <1>2, <1>3 DEF StmtRecord

LEMMA SizesLater ==
    ASSUME Grows
    PROVE  /\ Len(prog') \in Nat
           /\ \A b \in Block : Len(code'[b]) \in Nat
<1>1. prog' \in Seq(StmtRecord) /\ code' \in [Block -> Seq(Instr)]
  BY DEF Grows
<1> QED
  BY <1>1

LEMMA HasGrows ==
    ASSUME VisitInv, Grows, NEW b \in Block, NEW i, NEW x, Has(b, i, x)
    PROVE  Has(b, i, x)'
<1>1. i \in 1 .. Len(code[b]) /\ code[b][i] = x
  BY DEF Has
<1>2. Len(code[b]) \in Nat /\ Len(code'[b]) \in Nat /\ Len(code[b]) <= Len(code'[b])
  BY Sizes, SizesLater DEF Grows
<1>3. i \in 1 .. Len(code'[b]) /\ code'[b][i] = x
  BY <1>1, <1>2 DEF Grows
<1> QED
  BY <1>3 DEF Has

(* The loop around a statement *)
LEMMA LoopOfGrows ==
    ASSUME VisitInv, Grows, NEW t \in 1 .. Len(prog)
    PROVE  /\ LoopOf(t)' = LoopOf(t)
           /\ \A l \in 1 .. t - 1 :
                 /\ IsLoop(l)' <=> IsLoop(l)
                 /\ Encloses(l, t)' <=> Encloses(l, t)
<1>1. Len(prog) \in Nat /\ \A u \in 1 .. Len(prog) : prog'[u] = prog[u]
  BY Sizes DEF Grows
<1>2. \A l \in 1 .. t - 1 : l \in 1 .. Len(prog) /\ \A u \in l + 1 .. t : u \in 1 .. Len(prog)
  BY <1>1
<1>3. \A l \in 1 .. t - 1 : IsLoop(l)' <=> IsLoop(l)
  BY <1>1, <1>2 DEF IsLoop
<1>4. \A l \in 1 .. t - 1 : Encloses(l, t)' <=> Encloses(l, t)
  BY <1>1, <1>2 DEF Encloses
<1>5. {l \in 1 .. t - 1 : IsLoop(l)' /\ Encloses(l, t)'}
         = {l \in 1 .. t - 1 : IsLoop(l) /\ Encloses(l, t)}
  BY <1>3, <1>4
<1>6. LoopOf(t)' = Max({l \in 1 .. t - 1 : IsLoop(l)' /\ Encloses(l, t)'})
  BY DEF LoopOf
<1>7. LoopOf(t)' = LoopOf(t)
  BY <1>5, <1>6 DEF LoopOf
<1> QED
  BY <1>3, <1>4, <1>7

LEMMA BeginsGrows ==
    ASSUME VisitInv, Grows, NEW b \in Block, NEW i, NEW t \in 1 .. Len(prog), Begins(b, i, t)
    PROVE  Begins(b, i, t)'
<1>1. prog'[t] = prog[t] /\ void' = void /\ LoopOf(t)' = LoopOf(t)
  BY LoopOfGrows DEF Grows
<1>2. \A x : Has(b, i, x) => Has(b, i, x)'
  BY HasGrows
<1>3. \A x : Has(b, i, x)' <=> i \in 1 .. Len(code'[b]) /\ code'[b][i] = x
  BY DEF Has
<1>4. IsIf(t)' <=> IsIf(t)
  BY <1>1 DEF IsIf
<1>5. PICK x : /\ Has(b, i, x)
               /\ \/ prog[t].kind = "eval" /\ x = Do("eval", t)
                  \/ prog[t].kind = "break" /\ x = Br(<<"loop.end", LoopOf(t)>>)
                  \/ prog[t].kind = "return" /\ x = IF void THEN Br(RetBlock) ELSE Do("value", t)
                  \/ IsIf(t) /\ x = CondBr(t, <<"if.then", t>>, IfNot(prog[t].kind, t))
                  \/ prog[t].kind = "while" /\ x = Br(<<"loop.header", t>>)
                  \/ prog[t].kind = "for" /\ x = Do("setup", t)
  BY DEF Begins
<1>6. i \in 1 .. Len(code'[b]) /\ code'[b][i] = x
  BY <1>2, <1>3, <1>5
<1> QED
  BY <1>1, <1>4, <1>5, <1>6 DEF Begins, Has, RetBlock, IfNot, Do, Br, CondBr

LEMMA ClosesGrows ==
    ASSUME VisitInv, Grows, NEW b \in Block, NEW i, NEW p, Closes(b, i, p)
    PROVE  Closes(b, i, p)'
<1>1. \A x : Has(b, i, x) => Has(b, i, x)'
  BY HasGrows
<1>2. CASE p = 0 /\ Has(b, i, Br(RetBlock))
  BY <1>1, <1>2 DEF Closes, Br, RetBlock
<1>3. CASE p \in 1 .. Len(prog)
  <2>1. prog'[p] = prog[p] /\ p \in 1 .. Len(prog')
    BY <1>3, Sizes, SizesLater DEF Grows
  <2>2. \/ IsIf(p) /\ Has(b, i, Br(<<"if.cont", p>>))
        \/ prog[p].kind = "while" /\ Has(b, i, Br(<<"loop.header", p>>))
        \/ prog[p].kind = "for" /\ Has(b, i, Do("next", p))
    BY <1>3 DEF Closes
  <2> QED
    BY <1>1, <2>1, <2>2 DEF Closes, Br, Do, IsIf
<1> QED
  BY <1>2, <1>3 DEF Closes

LEMMA TargetGrows ==
    ASSUME VisitInv, Grows, NEW b, IsTarget(b)
    PROVE  IsTarget(b)'
<1>1. CASE b \in {RetBlock, <<"body", 0>>}
  BY <1>1 DEF IsTarget, RetBlock
<1>2. CASE b \notin {RetBlock, <<"body", 0>>}
  <2>1. PICK s \in 1 .. Len(prog) :
          \/ IsIf(s) /\ b \in {<<"if.then", s>>, <<"if.cont", s>>}
          \/ prog[s].kind = "ifelse" /\ b = <<"if.else", s>>
          \/ IsLoop(s) /\ b \in {<<"loop.header", s>>, <<"loop.body", s>>, <<"loop.end", s>>}
    BY <1>2 DEF IsTarget
  <2>2. prog'[s] = prog[s] /\ s \in 1 .. Len(prog')
    BY Sizes, SizesLater DEF Grows
  <2> QED
    BY <2>1, <2>2 DEF IsTarget, IsIf, IsLoop
<1> QED
  BY <1>1, <1>2

LEMMA LinkedGrows ==
    ASSUME VisitInv, Grows, NEW b \in Block, NEW i \in 1 .. Len(code[b]), Linked(b, i)
    PROVE  Linked(b, i)'
<1>1. code'[b][i] = code[b][i] /\ \A x : Has(b, i + 1, x) => Has(b, i + 1, x)'
  BY HasGrows DEF Grows
<1>2. CASE \E t : IsTarget(t) /\ code[b][i] = Br(t)
  <2>1. PICK t : IsTarget(t) /\ code[b][i] = Br(t)
    BY <1>2
  <2> QED
    BY <1>1, <2>1, TargetGrows DEF Linked, Br
<1>3. CASE code[b][i] = Ret
  BY <1>1, <1>3 DEF Linked, Ret
<1>4. ASSUME NEW s \in 1 .. Len(prog),
             \/ code[b][i] = Do("eval", s)
             \/ code[b][i] = Do("value", s) /\ Has(b, i + 1, Br(RetBlock))
             \/ /\ code[b][i] \in {Do("setup", s), Do("next", s)}
                /\ prog[s].kind = "for" /\ Has(b, i + 1, Br(<<"loop.header", s>>))
             \/ IsIf(s) /\ code[b][i] = CondBr(s, <<"if.then", s>>, IfNot(prog[s].kind, s))
             \/ IsLoop(s) /\ code[b][i] = CondBr(s, <<"loop.body", s>>, <<"loop.end", s>>)
      PROVE  Linked(b, i)'
  <2>1. prog'[s] = prog[s] /\ s \in 1 .. Len(prog')
    BY Sizes, SizesLater DEF Grows
  <2>2. \/ code'[b][i] = Do("eval", s)
        \/ code'[b][i] = Do("value", s) /\ Has(b, i + 1, Br(RetBlock))'
        \/ /\ code'[b][i] \in {Do("setup", s), Do("next", s)}
           /\ prog'[s].kind = "for" /\ Has(b, i + 1, Br(<<"loop.header", s>>))'
        \/ IsIf(s)' /\ code'[b][i] = CondBr(s, <<"if.then", s>>, IfNot(prog'[s].kind, s))
        \/ IsLoop(s)' /\ code'[b][i] = CondBr(s, <<"loop.body", s>>, <<"loop.end", s>>)
    BY <1>1, <1>4, <2>1 DEF IsIf, IsLoop
  <2> QED
    BY <2>1, <2>2 DEF Linked, Do, CondBr, IfNot
<1> QED
  BY <1>2, <1>3, <1>4 DEF Linked

-----------------------------------------------------------------------------
(* What goes on somewhere still does after a step. *)

(* At the insertion point is now the next statement or the end of the block. *)
Moves ==
    \A b \in Block, i \in Nat, p \in Nat, branch \in {"body", "then", "else"}, m \in Nat :
        /\ b = cur /\ i = Len(code[cur]) + 1 /\ ~Terminated(code, cur)
        /\ NoneAfter(p, branch, m) /\ top.stmt = p /\ top.branch = branch /\ m <= Len(prog)
        => GoesOn(b, i, p, branch, m)'

(* Only the block of a new statement is new, or an else. *)
Opens ==
    \A p, branch :
        Visiting(p, branch)' =>
            \/ Visiting(p, branch)
            \/ p > Len(prog)
            \/ p = top.stmt /\ top.branch = "then" /\ branch = "else"

(* A new statement is one of the innermost block. *)
Adds ==
    \A t \in 1 .. Len(prog') :
        t > Len(prog) => prog'[t].parent = top.stmt /\ prog'[t].branch = top.branch

LEMMA NestedGrows ==
    ASSUME VisitInv, Grows, NEW p, NEW branch
    PROVE  /\ Nested(p, branch) \subseteq Nested(p, branch)'
           /\ \A t \in Nested(p, branch)' : t > Len(prog) \/ t \in Nested(p, branch)
           /\ Nested(p, branch) \subseteq 1 .. Len(prog)
           /\ Nested(p, branch)' \subseteq 1 .. Len(prog')
<1>1. Len(prog) \in Nat /\ Len(prog') \in Nat /\ Len(prog) <= Len(prog')
  BY Sizes, SizesLater DEF Grows
<1>2. \A t \in 1 .. Len(prog) : prog'[t] = prog[t]
  BY DEF Grows
<1>3. \A t : t \in Nested(p, branch)' <=>
                t \in 1 .. Len(prog') /\ prog'[t].parent = p /\ prog'[t].branch = branch
  BY DEF Nested
<1> QED
  BY <1>1, <1>2, <1>3 DEF Nested

LEMMA NextGrows ==
    ASSUME VisitInv, Grows, NEW p, NEW branch, NEW m, NEW t \in 1 .. Len(prog),
           IsNext(t, p, branch, m)
    PROVE  IsNext(t, p, branch, m)'
<1>1. Len(prog) \in Nat /\ Len(prog') \in Nat
  BY Sizes, SizesLater
<1>2. t \in Nested(p, branch)' /\ t > m
  BY NestedGrows DEF IsNext
<1>3. ASSUME NEW u \in Nested(p, branch)', u > m
      PROVE  t <= u
  <2>1. CASE u \in Nested(p, branch)
    BY <1>3, <2>1 DEF IsNext
  <2>2. CASE u > Len(prog)
    <3>1. u \in 1 .. Len(prog')
      BY <1>3, NestedGrows
    <3> QED
      BY <1>1, <2>2, <3>1
  <2> QED
    BY <1>3, <2>1, <2>2, NestedGrows
<1> QED
  BY <1>2, <1>3 DEF IsNext

LEMMA GoesOnGrows ==
    ASSUME VisitInv, Grows, Moves, Opens, Adds, phase = "emit",
           NEW b \in Block, NEW i, NEW p \in 0 .. Len(prog),
           NEW branch \in {"body", "then", "else"}, NEW m \in 0 .. Len(prog),
           GoesOn(b, i, p, branch, m),
           i = 1 \/ ~IsTerminator(code[b][i - 1]),
           ~(p = top.stmt /\ top.branch = "then" /\ branch = "else")
    PROVE  GoesOn(b, i, p, branch, m)'
<1>0. /\ Len(prog) \in Nat /\ Len(prog') \in Nat /\ Len(prog) <= Len(prog')
      /\ \A c \in Block : Len(code[c]) \in Nat
  BY Sizes, SizesLater DEF Grows
<1>1. CASE \E t \in 1 .. Len(prog) : IsNext(t, p, branch, m) /\ Begins(b, i, t)
  <2>1. PICK t \in 1 .. Len(prog) : IsNext(t, p, branch, m) /\ Begins(b, i, t)
    BY <1>1
  <2>2. t \in 1 .. Len(prog') /\ IsNext(t, p, branch, m)' /\ Begins(b, i, t)'
    BY <1>0, <2>1, NextGrows, BeginsGrows
  <2> QED
    BY <2>2 DEF GoesOn
<1>2. CASE NoneAfter(p, branch, m) /\ ~Visiting(p, branch) /\ Closes(b, i, p)
  <2>1. Closes(b, i, p)'
    BY <1>2, ClosesGrows
  <2>2. ~Visiting(p, branch)'
    BY <1>0, <1>2 DEF Opens
  <2>3. NoneAfter(p, branch, m)'
    <3>1. SUFFICES ASSUME NEW u \in Nested(p, branch)'
                   PROVE  u <= m
      BY DEF NoneAfter
    <3>2. CASE u \in Nested(p, branch)
      BY <1>2, <3>2 DEF NoneAfter
    <3>3. CASE u > Len(prog)
      <4>1. prog'[u].parent = top.stmt /\ prog'[u].branch = top.branch
        BY <3>3, NestedGrows DEF Adds
      <4>2. p = top.stmt /\ branch = top.branch
        BY <4>1 DEF Nested
      <4>3. Len(open) \in 1 .. Len(open)
        BY TopFacts
      <4> QED
        BY <1>2, <4>2, <4>3 DEF Visiting, top
    <3> QED
      BY <3>2, <3>3, NestedGrows
  <2> QED
    BY <2>1, <2>2, <2>3 DEF GoesOn
<1>3. CASE NoneAfter(p, branch, m) /\ IsHere(b, i) /\ top.stmt = p /\ top.branch = branch
  <2>1. b = cur /\ i = Len(code[cur]) + 1
    BY <1>3 DEF IsHere
  <2>2. ~Terminated(code, cur)
    <3>1. CASE i = 1
      BY <1>0, <2>1, <3>1 DEF Terminated
    <3>2. CASE ~IsTerminator(code[b][i - 1])
      <4>1. i - 1 = Len(code[cur])
        BY <1>0, <2>1
      <4> QED
        BY <2>1, <3>2, <4>1 DEF Terminated
    <3> QED
      BY <3>1, <3>2
  <2>3. i \in Nat /\ p \in Nat /\ m \in Nat /\ m <= Len(prog)
    BY <1>0, <2>1
  <2> QED
    BY <1>3, <2>1, <2>2, <2>3 DEF Moves
<1> QED
  BY <1>1, <1>2, <1>3 DEF GoesOn

(* The joints there were *)
LEMMA JointIs ==
    ASSUME VisitInv, Tree, NEW b \in Block, NEW i \in Nat, NEW p, NEW branch, NEW m,
           Joint(b, i, p, branch, m)
    PROVE  /\ p \in 0 .. Len(prog) /\ m \in 0 .. Len(prog)
           /\ branch \in {"body", "then", "else"}
           /\ i = 1 \/ ~IsTerminator(code[b][i - 1])
           /\ phase = "emit" => ~(p = top.stmt /\ top.branch = "then" /\ branch = "else")
<1>0. /\ Len(prog) \in Nat /\ Len(open) \in 1 .. Len(open)
      /\ \A t \in 1 .. Len(prog) : /\ prog[t].parent \in Nat /\ prog[t].parent < t
                                   /\ prog[t].branch \in {"body", "then", "else"}
  BY Sizes, TopFacts DEF Tree
<1>1. top.branch = "then" => \A t \in 1 .. Len(prog) :
                                ~(prog[t].parent = top.stmt /\ prog[t].branch = "else")
  BY <1>0 DEF Tree, top
<1>2. CASE /\ i - 1 \in 1 .. Len(code[b]) /\ m \in 1 .. Len(prog)
           /\ code[b][i - 1] = Do("eval", m)
           /\ p = prog[m].parent /\ branch = prog[m].branch
  BY <1>0, <1>1, <1>2, TerminatorIs
<1>3. CASE i = 1 /\ b = <<"body", 0>> /\ p = 0 /\ branch = "body" /\ m = 0
  BY <1>0, <1>3
<1>4. CASE /\ i = 1 /\ m = p /\ p \in 1 .. Len(prog)
           /\ \/ IsIf(p) /\ b = <<"if.then", p>> /\ branch = "then"
              \/ /\ prog[p].kind = "ifelse" /\ b = <<"if.else", p>> /\ branch = "else"
                 /\ ~Visiting(p, "then")
              \/ IsLoop(p) /\ b = <<"loop.body", p>> /\ branch = "body"
  <2>1. phase = "emit" /\ ~Visiting(p, "then") => ~(p = top.stmt /\ top.branch = "then")
    BY <1>0 DEF Visiting, top
  <2> QED
    BY <1>0, <1>4, <2>1
<1>5. CASE /\ i = 1 /\ m \in 1 .. Len(prog) /\ ~IsOpen(m)
           /\ p = prog[m].parent /\ branch = prog[m].branch
  BY <1>0, <1>1, <1>5
<1> QED
  BY <1>2, <1>3, <1>4, <1>5 DEF Joint

LEMMA JointsStep ==
    ASSUME VisitInv, EmitInv, Grows, Moves, Opens, Adds, phase = "emit",
           \A b \in Block, i \in Nat, p \in Nat, branch \in {"body", "then", "else"}, m \in Nat :
              Joint(b, i, p, branch, m)' =>
                 Joint(b, i, p, branch, m) \/ GoesOn(b, i, p, branch, m)'
    PROVE  Joints'
<1> SUFFICES ASSUME NEW b \in Block, NEW i \in Nat, NEW p \in Nat,
                    NEW branch \in {"body", "then", "else"}, NEW m \in Nat,
                    Joint(b, i, p, branch, m)'
             PROVE  GoesOn(b, i, p, branch, m)'
  BY DEF Joints
<1>1. CASE Joint(b, i, p, branch, m)
  <2>1. GoesOn(b, i, p, branch, m)
    BY <1>1 DEF EmitInv, Joints
  <2>2. /\ p \in 0 .. Len(prog) /\ m \in 0 .. Len(prog)
        /\ i = 1 \/ ~IsTerminator(code[b][i - 1])
        /\ ~(p = top.stmt /\ top.branch = "then" /\ branch = "else")
    BY <1>1, JointIs DEF EmitInv
  <2> QED
    BY <2>1, <2>2, GoesOnGrows
<1> QED
  BY <1>1

-----------------------------------------------------------------------------
(* The instructions *)

CodeGrows(c, d) ==
    /\ d \in [Block -> Seq(Instr)]
    /\ \A b \in Block :
          Len(c[b]) <= Len(d[b]) /\ \A i \in 1 .. Len(c[b]) : d[b][i] = c[b][i]

LEMMA EmitGrows ==
    ASSUME NEW c \in [Block -> Seq(Instr)], NEW d \in [Block -> Seq(Instr)], CodeGrows(c, d),
           NEW b \in Block, NEW x \in Instr
    PROVE  CodeGrows(c, Emit(d, b, x))
<1> DEFINE e == Emit(d, b, x)
<1>1. /\ e \in [Block -> Seq(Instr)] /\ e[b] = Append(d[b], x)
      /\ \A y \in Block \ {b} : e[y] = d[y]
  BY EmitOK
<1> HIDE DEF e
<1>2. d[b] \in Seq(Instr) /\ c[b] \in Seq(Instr)
  OBVIOUS
<1>3. /\ Len(e[b]) = Len(d[b]) + 1 /\ Len(d[b]) \in Nat /\ Len(c[b]) \in Nat
      /\ \A i \in 1 .. Len(d[b]) : e[b][i] = d[b][i]
  BY <1>1, <1>2
<1>4. Len(c[b]) <= Len(d[b]) /\ \A i \in 1 .. Len(c[b]) : d[b][i] = c[b][i]
  BY DEF CodeGrows
<1>5. Len(c[b]) <= Len(e[b]) /\ \A i \in 1 .. Len(c[b]) : e[b][i] = c[b][i]
  BY <1>3, <1>4
<1>6. ASSUME NEW y \in Block
      PROVE  Len(c[y]) <= Len(e[y]) /\ \A i \in 1 .. Len(c[y]) : e[y][i] = c[y][i]
  <2>1. CASE y = b
    BY <1>5, <2>1
  <2>2. CASE y # b
    BY <1>1, <2>2 DEF CodeGrows
  <2> QED
    BY <2>1, <2>2
<1> QED
  BY <1>1, <1>6 DEF CodeGrows, e

LEMMA CodeStays == ASSUME NEW c \in [Block -> Seq(Instr)] PROVE CodeGrows(c, c)
<1>1. \A b \in Block : Len(c[b]) \in Nat
  OBVIOUS
<1> QED
  BY <1>1 DEF CodeGrows

(* d is c with one more instruction, or two, at the end of block b. *)
Added(c, d, b, x) ==
    /\ d \in [Block -> Seq(Instr)] /\ CodeGrows(c, d)
    /\ Len(d[b]) = Len(c[b]) + 1 /\ d[b][Len(c[b]) + 1] = x
    /\ \A y \in Block \ {b} : d[y] = c[y]

AddedTwo(c, d, b, x, y) ==
    /\ d \in [Block -> Seq(Instr)] /\ CodeGrows(c, d)
    /\ Len(d[b]) = Len(c[b]) + 2
    /\ d[b][Len(c[b]) + 1] = x /\ d[b][Len(c[b]) + 2] = y
    /\ \A z \in Block \ {b} : d[z] = c[z]

LEMMA EmitAdds ==
    ASSUME NEW c \in [Block -> Seq(Instr)], NEW b \in Block, NEW x \in Instr
    PROVE  Added(c, Emit(c, b, x), b, x)
<1>1. c[b] \in Seq(Instr)
  OBVIOUS
<1>2. Emit(c, b, x)[b] = Append(c[b], x)
  BY EmitOK
<1>3. /\ Len(Append(c[b], x)) = Len(c[b]) + 1
      /\ Append(c[b], x)[Len(c[b]) + 1] = x
  BY <1>1
<1> QED
  BY <1>2, <1>3, EmitOK, EmitGrows, CodeStays DEF Added

LEMMA AddedGrows ==
    ASSUME NEW c \in [Block -> Seq(Instr)], NEW b \in Block, NEW d, NEW x, Added(c, d, b, x)
    PROVE  Len(c[b]) + 1 \in 1 .. Len(d[b]) /\ Len(c[b]) \in Nat /\ Len(d[b]) \in Nat
<1>1. Len(c[b]) \in Nat
  OBVIOUS
<1> QED
  BY <1>1 DEF Added

LEMMA AddsTwo ==
    ASSUME NEW c \in [Block -> Seq(Instr)], NEW b \in Block, NEW d, NEW e, NEW x, NEW y,
           Added(c, d, b, x), Added(d, e, b, y), CodeGrows(c, e)
    PROVE  AddedTwo(c, e, b, x, y)
<1>1. /\ Len(d[b]) = Len(c[b]) + 1 /\ d[b][Len(c[b]) + 1] = x
      /\ \A z \in Block \ {b} : d[z] = c[z]
  BY DEF Added
<1>2. Len(c[b]) + 1 \in 1 .. Len(d[b]) /\ Len(c[b]) \in Nat
  BY AddedGrows
<1>3. /\ e \in [Block -> Seq(Instr)]
      /\ Len(e[b]) = Len(d[b]) + 1 /\ e[b][Len(d[b]) + 1] = y
      /\ \A z \in Block \ {b} : e[z] = d[z]
      /\ \A i \in 1 .. Len(d[b]) : e[b][i] = d[b][i]
  BY DEF Added, CodeGrows
<1>4. Len(e[b]) = Len(c[b]) + 2 /\ Len(d[b]) + 1 = Len(c[b]) + 2
  BY <1>1, <1>2, <1>3
<1> QED
  BY <1>1, <1>2, <1>3, <1>4 DEF AddedTwo

LEMMA EmitTwo ==
    ASSUME NEW c \in [Block -> Seq(Instr)], NEW b \in Block, NEW x \in Instr, NEW y \in Instr
    PROVE  AddedTwo(c, Emit(Emit(c, b, x), b, y), b, x, y)
<1> DEFINE d == Emit(c, b, x)
<1>1. Added(c, d, b, x)
  BY EmitAdds
<1>2. d \in [Block -> Seq(Instr)] /\ CodeGrows(c, d)
  BY <1>1 DEF Added
<1> HIDE DEF d
<1>3. Added(d, Emit(d, b, y), b, y) /\ CodeGrows(c, Emit(d, b, y))
  BY <1>2, EmitAdds, EmitGrows
<1>4. AddedTwo(c, Emit(d, b, y), b, x, y)
  BY <1>1, <1>3, AddsTwo
<1> QED
  BY <1>4 DEF d

LEMMA LinksStep ==
    ASSUME VisitInv, Links, Grows,
           \A b \in Block : \A i \in 1 .. Len(code'[b]) :
              i \in 1 .. Len(code[b]) \/ Linked(b, i)',
           \A s \in 1 .. Len(prog') :
              s > Len(prog) /\ IsLoop(s)' =>
                 Has(<<"loop.header", s>>, 1, CondBr(s, <<"loop.body", s>>, <<"loop.end", s>>))',
           phase' = "emit" => code'[RetBlock] = <<>>,
           phase' = "done" => Has(RetBlock, 1, Ret)'
    PROVE  Links'
<1>0. /\ Len(prog) \in Nat /\ Len(prog') \in Nat /\ MaxStmts \in Nat
      /\ Len(prog) <= MaxStmts
  BY Sizes, SizesLater, TopFacts
<1>1. \A b \in Block : \A i \in 1 .. Len(code'[b]) : Linked(b, i)'
  BY LinkedGrows DEF Links
<1>2. ASSUME NEW s \in 1 .. Len(prog'), IsLoop(s)'
      PROVE  Has(<<"loop.header", s>>, 1, CondBr(s, <<"loop.body", s>>, <<"loop.end", s>>))'
  <2>1. CASE s > Len(prog)
    BY <1>2, <2>1
  <2>2. CASE ~(s > Len(prog))
    <3>1. s \in 1 .. Len(prog) /\ prog'[s] = prog[s] /\ s \in Stmt
      BY <1>0, <2>2 DEF Grows, Stmt
    <3>2. IsLoop(s) /\ <<"loop.header", s>> \in Block
      BY <1>2, <3>1, BlockParts DEF IsLoop, Parts
    <3>3. Has(<<"loop.header", s>>, 1, CondBr(s, <<"loop.body", s>>, <<"loop.end", s>>))
      BY <3>1, <3>2 DEF Links
    <3> QED
      BY <3>2, <3>3, HasGrows
  <2> QED
    BY <2>1, <2>2
<1>3. Has(<<"header", 0>>, 1, Br(<<"body", 0>>))'
  <2>1. Has(<<"header", 0>>, 1, Br(<<"body", 0>>))
    BY DEF Links
  <2> QED
    BY <2>1, BlockParts, HasGrows
<1> QED
  BY <1>1, <1>2, <1>3 DEF Links

-----------------------------------------------------------------------------
(* What is a joint only after a step *)
NewJoint(b, i, p, branch, m) ==
    \/ /\ i - 1 > Len(code[b]) /\ i - 1 \in 1 .. Len(code'[b])
       /\ m \in 1 .. Len(prog') /\ code'[b][i - 1] = Do("eval", m)
       /\ p = prog'[m].parent /\ branch = prog'[m].branch
    \/ /\ i = 1 /\ m = p /\ p \in 1 .. Len(prog') /\ p > Len(prog)
       /\ \/ IsIf(p)' /\ b = <<"if.then", p>> /\ branch = "then"
          \/ /\ prog'[p].kind = "ifelse" /\ b = <<"if.else", p>> /\ branch = "else"
             /\ ~Visiting(p, "then")'
          \/ IsLoop(p)' /\ b = <<"loop.body", p>> /\ branch = "body"
    \/ /\ i = 1 /\ m = p /\ p \in 1 .. Len(prog) /\ prog[p].kind = "ifelse"
       /\ b = <<"if.else", p>> /\ branch = "else"
       /\ Visiting(p, "then") /\ ~Visiting(p, "then")'
    \/ /\ i = 1 /\ m \in 1 .. Len(prog') /\ ~IsOpen(m)'
       /\ m > Len(prog) \/ IsOpen(m)
       /\ p = prog'[m].parent /\ branch = prog'[m].branch
       /\ \/ IsIf(m)' /\ b = <<"if.cont", m>>
          \/ IsLoop(m)' /\ b = <<"loop.end", m>>

LEMMA EvalIs == \A s, t : Do("eval", s) = Do("eval", t) => s = t
<1>1. \A s : Do("eval", s).what[2] = s
  BY DEF Do
<1> QED
  BY <1>1

LEMMA NotEval ==
    /\ \A s, b : Do("eval", s) # Br(b)
    /\ \A s, t, b, c : Do("eval", s) # CondBr(t, b, c)
    /\ \A s : Do("eval", s) # Ret
    /\ \A s, t : \A w \in {"value", "setup", "next"} : Do("eval", s) # Do(w, t)
<1>1. \A s, w : Do(w, s).op = "do" /\ Do(w, s).what[1] = w
  BY DEF Do
<1>2. (\A b : Br(b).op = "br") /\ (\A s, t, e : CondBr(s, t, e).op = "condbr") /\ Ret.op = "ret"
  BY DEF Br, CondBr, Ret
<1>3. \A s, b : Do("eval", s) # Br(b)
  BY <1>1, <1>2
<1>4. \A s, t, b, c : Do("eval", s) # CondBr(t, b, c)
  BY <1>1, <1>2
<1>5. \A s : Do("eval", s) # Ret
  BY <1>1, <1>2
<1>6. \A s, t : \A w \in {"value", "setup", "next"} : Do("eval", s) # Do(w, t)
  BY <1>1
<1> QED
  BY <1>3, <1>4, <1>5, <1>6

LEMMA NewJoints ==
    ASSUME VisitInv, Links, Grows,
           NEW b \in Block, NEW i \in Nat, NEW p \in Nat,
           NEW branch \in {"body", "then", "else"}, NEW m \in Nat,
           Joint(b, i, p, branch, m)'
    PROVE  Joint(b, i, p, branch, m) \/ NewJoint(b, i, p, branch, m)
<1>0. /\ Len(prog) \in Nat /\ Len(prog') \in Nat /\ Len(prog) <= Len(prog')
      /\ Len(code[b]) \in Nat /\ Len(code'[b]) \in Nat
      /\ \A t \in 1 .. Len(prog) : prog'[t] = prog[t]
  BY Sizes, SizesLater DEF Grows
<1>1. CASE /\ i - 1 \in 1 .. Len(code'[b]) /\ m \in 1 .. Len(prog')
           /\ code'[b][i - 1] = Do("eval", m)
           /\ p = prog'[m].parent /\ branch = prog'[m].branch
  <2>1. CASE i - 1 > Len(code[b])
    BY <1>1, <2>1 DEF NewJoint
  <2>2. CASE ~(i - 1 > Len(code[b]))
    <3>1. i - 1 \in 1 .. Len(code[b])
      BY <1>0, <1>1, <2>2
    <3>2. code[b][i - 1] = Do("eval", m) /\ Linked(b, i - 1)
      BY <1>1, <3>1 DEF Grows, Links
    <3>3. PICK s \in 1 .. Len(prog) : code[b][i - 1] = Do("eval", s)
      BY <3>2, NotEval DEF Linked
    <3>4. m = s
      BY <3>2, <3>3, EvalIs
    <3> QED
      BY <1>0, <1>1, <3>1, <3>2, <3>4 DEF Joint
  <2> QED
    BY <2>1, <2>2
<1>2. CASE i = 1 /\ b = <<"body", 0>> /\ p = 0 /\ branch = "body" /\ m = 0
  BY <1>2 DEF Joint
<1>3. CASE /\ i = 1 /\ m = p /\ p \in 1 .. Len(prog')
           /\ \/ IsIf(p)' /\ b = <<"if.then", p>> /\ branch = "then"
              \/ /\ prog'[p].kind = "ifelse" /\ b = <<"if.else", p>> /\ branch = "else"
                 /\ ~Visiting(p, "then")'
              \/ IsLoop(p)' /\ b = <<"loop.body", p>> /\ branch = "body"
  <2>1. CASE p > Len(prog)
    BY <1>3, <2>1 DEF NewJoint
  <2>2. CASE ~(p > Len(prog))
    <3>1. p \in 1 .. Len(prog) /\ prog'[p] = prog[p]
      BY <1>0, <1>3, <2>2
    <3>2. (IsIf(p)' <=> IsIf(p)) /\ (IsLoop(p)' <=> IsLoop(p))
      BY <3>1 DEF IsIf, IsLoop
    <3> QED
      BY <1>3, <3>1, <3>2 DEF Joint, NewJoint
  <2> QED
    BY <2>1, <2>2
<1>4. CASE /\ i = 1 /\ m \in 1 .. Len(prog') /\ ~IsOpen(m)'
           /\ p = prog'[m].parent /\ branch = prog'[m].branch
           /\ \/ IsIf(m)' /\ b = <<"if.cont", m>>
              \/ IsLoop(m)' /\ b = <<"loop.end", m>>
  <2>1. CASE m > Len(prog) \/ IsOpen(m)
    BY <1>4, <2>1 DEF NewJoint
  <2>2. CASE ~(m > Len(prog) \/ IsOpen(m))
    <3>1. m \in 1 .. Len(prog) /\ prog'[m] = prog[m]
      BY <1>0, <1>4, <2>2
    <3>2. (IsIf(m)' <=> IsIf(m)) /\ (IsLoop(m)' <=> IsLoop(m))
      BY <3>1 DEF IsIf, IsLoop
    <3> QED
      BY <1>4, <2>2, <3>1, <3>2 DEF Joint
  <2> QED
    BY <2>1, <2>2
<1> QED
  BY <1>1, <1>2, <1>3, <1>4 DEF Joint

(* The insertion point is where it goes on. *)
LEMMA HereItGoesOn ==
    ASSUME NEW b, NEW i, NEW p, NEW branch, NEW m, phase' = "emit",
           NoneAfter(p, branch, m)', b = cur', i = Len(code'[b]) + 1,
           top'.stmt = p, top'.branch = branch
    PROVE  GoesOn(b, i, p, branch, m)'
BY DEF GoesOn, IsHere

-----------------------------------------------------------------------------
(* A new statement *)

LEMMA NewStmt ==
    ASSUME VisitInv, NEW kind \in Kinds, NextStmt(kind)
    PROVE  /\ prog' \in Seq(StmtRecord) /\ Len(prog') = Len(prog) + 1 /\ Len(prog) \in Nat
           /\ \A t \in 1 .. Len(prog) : prog'[t] = prog[t]
           /\ \A t \in 1 .. Len(prog') : t \in 1 .. Len(prog) \/ t = new
           /\ new = Len(prog) + 1 /\ new \in 1 .. Len(prog') /\ new \in Stmt
           /\ prog'[new].kind = kind /\ prog'[new].parent = top.stmt
           /\ prog'[new].branch = top.branch
           /\ phase = "emit"
<1> DEFINE r == [kind |-> kind, parent |-> top.stmt, branch |-> top.branch]
<1>1. prog' = Append(prog, r) /\ phase = "emit"
  BY DEF NextStmt
<1>2. r.kind = kind /\ r.parent = top.stmt /\ r.branch = top.branch
  OBVIOUS
<1>3. prog \in Seq(StmtRecord) /\ Len(prog) \in Nat
  BY TopFacts
<1>4. prog' \in Seq(StmtRecord) /\ new \in Stmt
  BY NextStmtOK
<1> HIDE DEF r
<1>5. /\ Len(prog') = Len(prog) + 1 /\ prog'[Len(prog) + 1] = r
      /\ \A t \in 1 .. Len(prog) : prog'[t] = prog[t]
  BY <1>1, <1>3
<1> QED
  BY <1>1, <1>2, <1>3, <1>4, <1>5 DEF new

LEMMA StmtGrows ==
    ASSUME VisitInv, NEW kind \in Kinds, NextStmt(kind), CodeGrows(code, code'), void' = void
    PROVE  Grows /\ Adds
<1>1. Grows
  BY NewStmt DEF Grows, CodeGrows
<1>2. \A t \in 1 .. Len(prog') : t > Len(prog) => t = new
  BY NewStmt
<1>3. prog'[new].parent = top.stmt /\ prog'[new].branch = top.branch
  BY NewStmt
<1> QED
  BY <1>1, <1>2, <1>3 DEF Adds

LEMMA StmtMoves ==
    ASSUME VisitInv, NEW kind \in Kinds, NextStmt(kind), Grows,
           \A b \in Block, i \in Nat, t \in 1 .. Len(prog') :
              b = cur /\ i = Len(code[cur]) + 1 /\ t = new => Begins(b, i, t)'
    PROVE  Moves
<1> SUFFICES ASSUME NEW b \in Block, NEW i \in Nat, NEW p \in Nat,
                    NEW branch \in {"body", "then", "else"}, NEW m \in Nat,
                    b = cur, i = Len(code[cur]) + 1,
                    NoneAfter(p, branch, m), top.stmt = p, top.branch = branch, m <= Len(prog)
             PROVE  GoesOn(b, i, p, branch, m)'
  BY DEF Moves
<1>1. PICK t \in 1 .. Len(prog') : t = new
  BY NewStmt
<1>2. Begins(b, i, t)'
  BY <1>1
<1>3. /\ t = Len(prog) + 1 /\ Len(prog) \in Nat /\ Len(prog') = Len(prog) + 1
      /\ prog'[t].parent = p /\ prog'[t].branch = branch
  BY <1>1, NewStmt
<1>4. t \in Nested(p, branch)' /\ t > m
  BY <1>1, <1>3 DEF Nested
<1>5. ASSUME NEW u \in Nested(p, branch)', u > m
      PROVE  t <= u
  <2>1. u \notin Nested(p, branch)
    <3>1. u \in Nat
      BY <1>3, NestedGrows
    <3> QED
      BY <1>5, <3>1 DEF NoneAfter
  <2>2. u > Len(prog) /\ u \in Nat
    BY <1>3, <2>1, NestedGrows
  <2> QED
    BY <1>3, <2>2
<1>6. IsNext(t, p, branch, m)'
  BY <1>4, <1>5 DEF IsNext
<1> QED
  BY <1>2, <1>6 DEF GoesOn

(* Nothing follows the last statement. *)
LEMMA NoneAfterNew ==
    ASSUME VisitInv, Grows, NEW p, NEW branch, NEW m, m = Len(prog')
    PROVE  NoneAfter(p, branch, m)'
<1>1. \A u \in Nested(p, branch)' : u \in 1 .. Len(prog')
  BY NestedGrows
<1>2. Len(prog') \in Nat
  BY SizesLater
<1> QED
  BY <1>1, <1>2 DEF NoneAfter

-----------------------------------------------------------------------------
(* The tree *)

LEMMA FramesIncrease ==
    ASSUME VisitInv
    PROVE  /\ \A k \in 1 .. Len(open) : open[k].stmt \in Nat /\ open[k].stmt <= Len(prog)
           /\ \A k \in 1 .. Len(open) : open[k].stmt <= top.stmt
           /\ \A k \in 1 .. Len(open) : open[k].stmt = top.stmt => k = Len(open)
           /\ \A k \in 1 .. Len(open) : k = 1 <=> open[k].stmt = 0
           /\ Len(open) \in 1 .. Len(open) /\ top.stmt \in 0 .. Len(prog)
<1>1. Len(open) \in Nat \ {0} /\ Len(prog) \in Nat
  BY TopFacts
<1>2. ASSUME NEW k \in 1 .. Len(open)
      PROVE  open[k].stmt \in Nat /\ open[k].stmt <= Len(prog) /\ (k = 1 <=> open[k].stmt = 0)
  <2>1. CASE k = 1
    BY <1>1, <2>1 DEF VisitInv, Shape
  <2>2. CASE k # 1
    <3>1. k \in 2 .. Len(open)
      BY <1>1, <2>2
    <3>2. open[k].stmt \in 1 .. Len(prog)
      BY <3>1 DEF VisitInv, Shape
    <3> QED
      BY <1>1, <2>2, <3>2
  <2> QED
    BY <2>1, <2>2
<1>3. \A i, j \in 1 .. Len(open) : i < j => open[i].stmt < open[j].stmt
  BY DEF VisitInv, LoopsMatch
<1>4. Len(open) \in 1 .. Len(open)
  BY <1>1
<1>5. ASSUME NEW k \in 1 .. Len(open)
      PROVE  open[k].stmt <= top.stmt /\ (open[k].stmt = top.stmt => k = Len(open))
  <2>1. CASE k = Len(open)
    BY <1>2, <1>4, <2>1 DEF top
  <2>2. CASE k # Len(open)
    <3>1. open[k].stmt < open[Len(open)].stmt
      BY <1>1, <1>3, <1>4, <2>2
    <3> QED
      BY <1>2, <1>4, <3>1 DEF top
  <2> QED
    BY <2>1, <2>2
<1> QED
  BY <1>1, <1>2, <1>4, <1>5 DEF top

(* What a new statement keeps of the tree *)
LEMMA TreeAdds ==
    ASSUME VisitInv, Tree, NEW kind \in Kinds, NextStmt(kind)
    PROVE  /\ \A t \in 1 .. Len(prog') : prog'[t].parent < t
           /\ \A k \in 2 .. Len(open) :
                 LET f == open[k]
                 IN  /\ prog'[f.stmt].kind = f.kind
                     /\ prog'[f.stmt].parent = open[k - 1].stmt
                     /\ prog'[f.stmt].branch = open[k - 1].branch
           /\ \A k \in 1 .. Len(open) : \A t \in 1 .. Len(prog') :
                 t > open[k].stmt => prog'[t].parent >= open[k].stmt
           /\ \A k \in 1 .. Len(open) : \A t \in 1 .. Len(prog') :
                 open[k].branch = "then" =>
                    ~(prog'[t].parent = open[k].stmt /\ prog'[t].branch = "else")
<1>0. /\ \A t \in 1 .. Len(prog') : t \in 1 .. Len(prog) \/ t = new
      /\ \A t \in 1 .. Len(prog) : prog'[t] = prog[t]
      /\ prog'[new].parent = top.stmt /\ prog'[new].branch = top.branch
      /\ new = Len(prog) + 1 /\ Len(prog) \in Nat /\ top.stmt \in 0 .. Len(prog)
  BY NewStmt, FramesIncrease
<1>1. \A t \in 1 .. Len(prog') : prog'[t].parent < t
  BY <1>0 DEF Tree
<1>2. ASSUME NEW k \in 2 .. Len(open)
      PROVE  /\ prog'[open[k].stmt].kind = open[k].kind
             /\ prog'[open[k].stmt].parent = open[k - 1].stmt
             /\ prog'[open[k].stmt].branch = open[k - 1].branch
  <2>1. open[k].stmt \in 1 .. Len(prog)
    BY DEF VisitInv, Shape
  <2> QED
    BY <1>0, <2>1 DEF Tree
<1>3. ASSUME NEW k \in 1 .. Len(open), NEW t \in 1 .. Len(prog')
      PROVE  /\ t > open[k].stmt => prog'[t].parent >= open[k].stmt
             /\ open[k].branch = "then" =>
                   ~(prog'[t].parent = open[k].stmt /\ prog'[t].branch = "else")
  <2>1. CASE t \in 1 .. Len(prog)
    BY <1>0, <2>1 DEF Tree
  <2>2. CASE t = new
    <3>1. prog'[t].parent = top.stmt /\ prog'[t].branch = top.branch
      BY <1>0, <2>2
    <3>2. open[k].stmt <= top.stmt /\ (open[k].stmt = top.stmt => open[k] = top)
      BY FramesIncrease DEF top
    <3>3. open[k].stmt \in Nat
      BY FramesIncrease
    <3> QED
      BY <1>0, <3>1, <3>2, <3>3
  <2> QED
    BY <1>0, <2>1, <2>2
<1> QED
  BY <1>1, <1>2, <1>3

LEMMA TreeStraight ==
    ASSUME VisitInv, Tree, NEW kind \in Kinds, NextStmt(kind), open' = open
    PROVE  Tree'
BY TreeAdds DEF Tree

LEMMA TreePush ==
    ASSUME VisitInv, Tree, NEW kind \in Kinds, NextStmt(kind), NEW branch,
           Len(open') = Len(open) + 1,
           \A k \in 1 .. Len(open) : open'[k] = open[k],
           open'[Len(open) + 1] = [stmt |-> new, kind |-> kind, branch |-> branch]
    PROVE  Tree'
<1>0. /\ Len(open) \in Nat \ {0}
      /\ \A k \in 1 .. Len(open') : k \in 1 .. Len(open) \/ k = Len(open) + 1
      /\ \A k \in 2 .. Len(open') : k \in 2 .. Len(open) \/ k = Len(open) + 1
      /\ \A k \in 2 .. Len(open) : k \in 1 .. Len(open) /\ k - 1 \in 1 .. Len(open)
  BY TopFacts
<1>1. /\ prog'[new].kind = kind /\ prog'[new].parent = top.stmt
      /\ prog'[new].branch = top.branch /\ new = Len(prog) + 1 /\ Len(prog) \in Nat
      /\ Len(prog') = Len(prog) + 1
  BY NewStmt
<1>2. \A t \in 1 .. Len(prog') : prog'[t].parent < t
  BY TreeAdds
<1>3. ASSUME NEW k \in 2 .. Len(open')
      PROVE  /\ prog'[open'[k].stmt].kind = open'[k].kind
             /\ prog'[open'[k].stmt].parent = open'[k - 1].stmt
             /\ prog'[open'[k].stmt].branch = open'[k - 1].branch
  <2>1. CASE k \in 2 .. Len(open)
    <3>1. open'[k] = open[k] /\ open'[k - 1] = open[k - 1]
      BY <1>0, <2>1
    <3> QED
      BY <2>1, <3>1, TreeAdds
  <2>2. CASE k = Len(open) + 1
    <3>1. k - 1 = Len(open) /\ k - 1 \in 1 .. Len(open)
      BY <1>0, <2>2
    <3>2. open'[k - 1] = top
      BY <3>1 DEF top
    <3> QED
      BY <1>1, <2>2, <3>2
  <2> QED
    BY <1>0, <2>1, <2>2
<1>4. ASSUME NEW k \in 1 .. Len(open'), NEW t \in 1 .. Len(prog')
      PROVE  /\ t > open'[k].stmt => prog'[t].parent >= open'[k].stmt
             /\ open'[k].branch = "then" =>
                   ~(prog'[t].parent = open'[k].stmt /\ prog'[t].branch = "else")
  <2>1. CASE k \in 1 .. Len(open)
    BY <2>1, TreeAdds
  <2>2. CASE k = Len(open) + 1
    <3>1. open'[k].stmt = new
      BY <2>2
    <3>2. ~(t > new)
      BY <1>1
    <3>3. prog'[t].parent # new
      <4>1. prog'[t].parent < t
        BY <1>2
      <4> QED
        BY <1>1, <4>1
    <3> QED
      BY <3>1, <3>2, <3>3
  <2> QED
    BY <1>0, <2>1, <2>2
<1> QED
  BY <1>2, <1>3, <1>4 DEF Tree

LEMMA TreePop ==
    ASSUME VisitInv, Tree, prog' = prog, Len(open') = Len(open) - 1,
           \A k \in 1 .. Len(open') : open'[k] = open[k]
    PROVE  Tree'
<1>0. /\ Len(open) \in Nat \ {0}
      /\ \A k \in 1 .. Len(open') : k \in 1 .. Len(open)
      /\ \A k \in 2 .. Len(open') : k \in 2 .. Len(open) /\ k \in 1 .. Len(open')
                                    /\ k - 1 \in 1 .. Len(open')
  BY TopFacts
<1>1. ASSUME NEW k \in 2 .. Len(open')
      PROVE  /\ prog'[open'[k].stmt].kind = open'[k].kind
             /\ prog'[open'[k].stmt].parent = open'[k - 1].stmt
             /\ prog'[open'[k].stmt].branch = open'[k - 1].branch
  <2>1. open'[k] = open[k] /\ open'[k - 1] = open[k - 1] /\ k \in 2 .. Len(open)
    BY <1>0
  <2> QED
    BY <2>1 DEF Tree
<1>2. ASSUME NEW k \in 1 .. Len(open'), NEW t \in 1 .. Len(prog')
      PROVE  /\ t > open'[k].stmt => prog'[t].parent >= open'[k].stmt
             /\ open'[k].branch = "then" =>
                   ~(prog'[t].parent = open'[k].stmt /\ prog'[t].branch = "else")
  BY <1>0 DEF Tree
<1> QED
  BY <1>1, <1>2 DEF Tree

-----------------------------------------------------------------------------
(* The loop around a break *)

LEMMA FirstOfNat == \A T \in SUBSET Nat : T # {} => \E m \in T : \A k \in T : m <= k
<1> SUFFICES ASSUME NEW T \in SUBSET Nat, T # {}
             PROVE  \E m \in T : \A k \in T : m <= k
  OBVIOUS
<1>1. PICK m \in T : \A k \in T : <<k, m>> \notin OpToRel(<, Nat)
  BY NatLessThanWellFounded, WFMin
<1>2. \A k \in T : ~(k < m)
  BY <1>1 DEF OpToRel
<1> QED
  BY <1>2

(* It is the loop whose body was entered last. *)
LEMMA LoopIsTop ==
    ASSUME VisitInv, Tree, NEW kind \in Kinds, NextStmt(kind), loops # <<>>,
           NEW n, n = new
    PROVE  /\ BreakTarget = <<"loop.end", LoopOf(n)'>>
           /\ LoopOf(n)' \in 1 .. n - 1 /\ IsLoop(LoopOf(n))' /\ Encloses(LoopOf(n), n)'
<1>0. /\ n = Len(prog) + 1 /\ Len(prog) \in Nat /\ Len(prog') = n
      /\ \A t \in 1 .. Len(prog) : prog'[t] = prog[t]
      /\ prog'[n].parent = top.stmt
      /\ Len(open) \in 1 .. Len(open)
  BY NewStmt, FramesIncrease
<1>1. \A s \in OpenLoops : s \in 1 .. n - 1 /\ IsLoop(s)' /\ Encloses(s, n)'
  <2> SUFFICES ASSUME NEW s \in OpenLoops
               PROVE  s \in 1 .. n - 1 /\ IsLoop(s)' /\ Encloses(s, n)'
    OBVIOUS
  <2>1. PICK k \in 1 .. Len(open) : open[k].stmt = s /\ open[k].kind \in {"while", "for"}
    BY DEF OpenLoops
  <2>2. k # 1
    BY <2>1 DEF VisitInv, Shape
  <2>3. k \in 2 .. Len(open)
    BY <2>2
  <2>4. s \in 1 .. Len(prog) /\ prog[s].kind \in {"while", "for"}
    BY <2>1, <2>3 DEF VisitInv, Shape, Tree
  <2>5. \A t \in 1 .. n : t > s => prog'[t].parent >= s
    BY <1>0, <2>1, TreeAdds
  <2>6. Encloses(s, n)'
    BY <1>0, <2>4, <2>5 DEF Encloses
  <2> QED
    BY <1>0, <2>4, <2>6 DEF IsLoop
<1>2. ASSUME NEW l \in 1 .. n - 1, IsLoop(l)', Encloses(l, n)'
      PROVE  l \in OpenLoops
  <2>1. l \in 1 .. Len(prog) /\ prog[l].kind \in {"while", "for"}
    BY <1>0, <1>2 DEF IsLoop
  <2>2. \A k \in 1 .. Len(open) : open[k].stmt = l => l \in OpenLoops
    <3>1. SUFFICES ASSUME NEW k \in 1 .. Len(open), open[k].stmt = l
                   PROVE  open[k].kind \in {"while", "for"}
      BY DEF OpenLoops
    <3>2. k # 1
      BY <2>1, <3>1, FramesIncrease
    <3>3. k \in 2 .. Len(open)
      BY <3>2
    <3> QED
      BY <2>1, <3>1, <3>3 DEF Tree
  <2>3. \A t \in l + 1 .. n : prog'[t].parent >= l
    BY <1>2 DEF Encloses
  <2>4. top.stmt >= l
    <3>1. n \in l + 1 .. n
      BY <1>0
    <3> QED
      BY <1>0, <2>3, <3>1
  <2>5. CASE top.stmt = l
    BY <1>0, <2>2, <2>5 DEF top
  <2>6. CASE top.stmt # l
    <3> DEFINE later == {k \in 1 .. Len(open) : open[k].stmt > l}
    <3>1. Len(open) \in later
      BY <1>0, <2>1, <2>4, <2>6, FramesIncrease DEF top
    <3>2. PICK k \in later : \A j \in later : k <= j
      <4>1. later \in SUBSET Nat /\ later # {}
        BY <3>1
      <4> HIDE DEF later
      <4> QED
        BY <4>1, FirstOfNat
    <3>3. k \in 1 .. Len(open) /\ open[k].stmt > l /\ open[1].stmt = 0
      BY FramesIncrease, <1>0
    <3>4. k \in 2 .. Len(open) /\ k - 1 \in 1 .. Len(open)
      <4>1. k # 1
        BY <2>1, <3>3
      <4> QED
        BY <3>3, <4>1
    <3>5. open[k - 1].stmt <= l
      <4>1. k - 1 \notin later
        BY <3>2, <3>4
      <4> QED
        BY <2>1, <3>4, <4>1, FramesIncrease
    <3>6. open[k].stmt \in 1 .. Len(prog) /\ prog[open[k].stmt].parent = open[k - 1].stmt
      BY <3>4 DEF VisitInv, Shape, Tree
    <3>7. open[k].stmt \in l + 1 .. n
      BY <1>0, <2>1, <3>3, <3>6
    <3>8. open[k - 1].stmt >= l
      BY <1>0, <2>3, <3>6, <3>7
    <3>9. open[k - 1].stmt = l
      BY <2>1, <3>4, <3>5, <3>8, FramesIncrease
    <3> QED
      BY <2>2, <3>4, <3>9
  <2> QED
    BY <2>5, <2>6
<1>3. loops \in Seq(LoopInfo) /\ StackOf(loops, OpenLoops) /\ Len(loops) \in 1 .. Len(loops)
  BY OpenLoopsOK
<1>4. PICK s \in OpenLoops : loops[Len(loops)] = Loop(s)
  BY <1>3 DEF StackOf
<1>5. \A r \in OpenLoops : r <= s
  <2> SUFFICES ASSUME NEW r \in OpenLoops
               PROVE  r <= s
    OBVIOUS
  <2>1. PICK i \in 1 .. Len(loops) : loops[i] = Loop(r)
    BY <1>3 DEF StackOf
  <2>2. r \in Nat /\ s \in Nat
    BY OpenLoopsOK
  <2>3. CASE i = Len(loops)
    BY <1>4, <2>1, <2>2, <2>3, LoopIs
  <2>4. CASE i # Len(loops)
    <3>1. loops[i].header[2] < loops[Len(loops)].header[2]
      BY <1>3, <2>1, <2>4 DEF StackOf
    <3> QED
      BY <1>4, <2>1, <2>2, <3>1, LoopIs
  <2> QED
    BY <2>3, <2>4
<1> DEFINE around == {l \in 1 .. n - 1 : IsLoop(l)' /\ Encloses(l, n)'}
<1>6. s \in around /\ \A r \in around : s >= r
  <2>1. \A r \in around : r <= s
    BY <1>2, <1>5
  <2> QED
    BY <1>1, <1>4, <2>1
<1>7. Max(around) = s
  <2>1. \A r \in around : r \in Nat
    BY <1>0
  <2> HIDE DEF around
  <2> QED
    BY <1>6, <2>1 DEF Max
<1>8. LoopOf(n)' = Max(around)
  BY DEF LoopOf
<1>9. BreakTarget = <<"loop.end", s>>
  BY <1>4, LoopIs DEF BreakTarget
<1> HIDE DEF around
<1>10. LoopOf(n)' = s
  BY <1>7, <1>8
<1>11. \A l : LoopOf(n)' = l => /\ IsLoop(LoopOf(n))' <=> IsLoop(l)'
                                /\ Encloses(LoopOf(n), n)' <=> Encloses(l, n)'
  BY DEF IsLoop, Encloses
<1> QED
  BY <1>1, <1>4, <1>9, <1>10, <1>11

LEMMA BreaksGrow ==
    ASSUME VisitInv, BreaksInLoops, Grows,
           \A t \in 1 .. Len(prog') :
              t > Len(prog) /\ prog'[t].kind = "break" =>
                 LoopOf(t)' \in 1 .. t - 1 /\ IsLoop(LoopOf(t))' /\ Encloses(LoopOf(t), t)'
    PROVE  BreaksInLoops'
<1> SUFFICES ASSUME NEW t \in 1 .. Len(prog'), prog'[t].kind = "break"
             PROVE  LoopOf(t)' \in 1 .. t - 1 /\ IsLoop(LoopOf(t))' /\ Encloses(LoopOf(t), t)'
  BY DEF BreaksInLoops
<1>0. Len(prog) \in Nat /\ Len(prog') \in Nat
  BY Sizes, SizesLater
<1>1. CASE t \in 1 .. Len(prog)
  <2>1. prog[t].kind = "break" /\ LoopOf(t)' = LoopOf(t)
    BY <1>1, LoopOfGrows DEF Grows
  <2>2. LoopOf(t) \in 1 .. t - 1 /\ IsLoop(LoopOf(t)) /\ Encloses(LoopOf(t), t)
    BY <1>1, <2>1 DEF BreaksInLoops
  <2>3. PICK l \in 1 .. t - 1 : l = LoopOf(t)
    BY <2>2
  <2>4. IsLoop(l)' /\ Encloses(l, t)'
    BY <1>1, <2>2, <2>3, LoopOfGrows
  <2>5. LoopOf(t)' = l
    BY <2>1, <2>3
  <2>6. /\ IsLoop(LoopOf(t))' <=> IsLoop(l)'
        /\ Encloses(LoopOf(t), t)' <=> Encloses(l, t)'
    BY <2>5 DEF IsLoop, Encloses
  <2> QED
    BY <2>4, <2>5, <2>6
<1>2. CASE t \notin 1 .. Len(prog)
  BY <1>0, <1>2
<1> QED
  BY <1>1, <1>2

-----------------------------------------------------------------------------
(* Statements without blocks *)

LEMMA OpensNothing ==
    ASSUME UNCHANGED <<open, phase>>
    PROVE  /\ Opens
           /\ \A p, branch : Visiting(p, branch)' <=> Visiting(p, branch)
           /\ \A s : IsOpen(s)' <=> IsOpen(s)
<1>1. \A p, branch : Visiting(p, branch)' <=> Visiting(p, branch)
  BY DEF Visiting
<1>2. \A s : IsOpen(s)' <=> IsOpen(s)
  BY DEF IsOpen
<1> QED
  BY <1>1, <1>2 DEF Opens

(* No block is made for it. *)
LEMMA NoBlocks ==
    ASSUME VisitInv, NEW kind \in {"eval"} \union Jumps, NextStmt(kind), Grows,
           UNCHANGED <<open, phase>>,
           NEW b \in Block, NEW i \in Nat, NEW p \in Nat,
           NEW branch \in {"body", "then", "else"}, NEW m \in Nat,
           NewJoint(b, i, p, branch, m)
    PROVE  /\ i - 1 > Len(code[b]) /\ i - 1 \in 1 .. Len(code'[b])
           /\ m \in 1 .. Len(prog') /\ code'[b][i - 1] = Do("eval", m)
           /\ p = prog'[m].parent /\ branch = prog'[m].branch
<1>1. \A s \in 1 .. Len(prog') : s > Len(prog) => prog'[s].kind = kind
  BY NewStmt DEF Jumps, Kinds
<1>2. \A s \in 1 .. Len(prog') : s > Len(prog) => ~IsIf(s)' /\ ~IsLoop(s)' /\ prog'[s].kind # "ifelse"
  BY <1>1 DEF IsIf, IsLoop, Jumps
<1> QED
  BY <1>2, OpensNothing DEF NewJoint

LEMMA StraightLinks ==
    ASSUME VisitInv, CodeInv, EmitInv, NEW kind \in {"eval"} \union Jumps, NextStmt(kind), Grows,
           UNCHANGED <<cur, phase>>,
           \A x \in Block \ {cur} : code'[x] = code[x],
           \A b \in Block : \A i \in 1 .. Len(code'[b]) :
              i \in 1 .. Len(code[b]) \/ Linked(b, i)'
    PROVE  Links'
<1>1. \A s \in 1 .. Len(prog') : s > Len(prog) => ~IsLoop(s)'
  BY NewStmt DEF Jumps, Kinds, IsLoop
<1>2. phase' = "emit" /\ code'[RetBlock] = <<>>
  <2>1. phase = "emit" /\ code[RetBlock] = <<>> /\ RetBlock # cur
    BY TopFacts DEF NextStmt, EmitInv, Links, CodeInv
  <2> QED
    BY <2>1, BlockParts
<1> QED
  BY <1>1, <1>2, LinksStep DEF EmitInv

LEMMA SimpleEmit == VisitInv /\ CodeInv /\ EmitInv /\ VisitSimple => EmitInv'
<1> SUFFICES ASSUME VisitInv, CodeInv, EmitInv, VisitSimple
             PROVE  EmitInv'
  OBVIOUS
<1>1. /\ NextStmt("eval") /\ code' = Emit(code, cur, Do("eval", new))
      /\ UNCHANGED <<open, phase, cur, void>> /\ "eval" \in Kinds
      /\ "eval" \in {"eval"} \union Jumps
  BY DEF VisitSimple, Kinds
<1>2. PICK n : n = new
  OBVIOUS
<1>3. /\ code \in [Block -> Seq(Instr)] /\ cur \in Block /\ n \in Stmt
      /\ Do("eval", n) \in Instr /\ n \in 1 .. Len(prog') /\ n = Len(prog')
      /\ prog'[n].kind = "eval" /\ prog'[n].parent = top.stmt /\ prog'[n].branch = top.branch
      /\ phase = "emit" /\ Len(prog) \in Nat /\ n = Len(prog) + 1
  BY <1>1, <1>2, TopFacts, NewStmt, InstrTypes
<1>4. Added(code, code', cur, Do("eval", n))
  BY <1>1, <1>2, <1>3, EmitAdds
<1>5. /\ code' \in [Block -> Seq(Instr)] /\ CodeGrows(code, code')
      /\ Len(code'[cur]) = Len(code[cur]) + 1 /\ code'[cur][Len(code[cur]) + 1] = Do("eval", n)
      /\ \A x \in Block \ {cur} : code'[x] = code[x]
      /\ Len(code[cur]) \in Nat
  BY <1>3, <1>4, AddedGrows DEF Added
<1>6. Grows /\ Adds
  BY <1>1, <1>5, StmtGrows
<1>7. \A b \in Block, i \in Nat, t \in 1 .. Len(prog') :
         b = cur /\ i = Len(code[cur]) + 1 /\ t = new => Begins(b, i, t)'
  <2> SUFFICES ASSUME NEW b \in Block, NEW i \in Nat, NEW t \in 1 .. Len(prog'),
                      b = cur, i = Len(code[cur]) + 1, t = new
               PROVE  Begins(b, i, t)'
    OBVIOUS
  <2>1. i \in 1 .. Len(code'[b]) /\ code'[b][i] = Do("eval", t)
    BY <1>2, <1>5
  <2>2. Has(b, i, Do("eval", t))'
    BY <2>1 DEF Has, Do
  <2> QED
    BY <1>2, <1>3, <2>2 DEF Begins
<1>8. Moves
  BY <1>1, <1>6, <1>7, StmtMoves
<1>9. \A b \in Block : \A i \in 1 .. Len(code'[b]) : i \in 1 .. Len(code[b]) \/ Linked(b, i)'
  <2> SUFFICES ASSUME NEW b \in Block, NEW i \in 1 .. Len(code'[b]), i \notin 1 .. Len(code[b])
               PROVE  Linked(b, i)'
    OBVIOUS
  <2>1. b = cur /\ i = Len(code[cur]) + 1
    BY <1>5
  <2>2. code'[b][i] = Do("eval", n)
    BY <1>5, <2>1
  <2> QED
    BY <1>3, <2>2 DEF Linked, Do
<1>10. Links'
  BY <1>1, <1>5, <1>6, <1>9, StraightLinks
<1>11. Joints'
  <2>1. ASSUME NEW b \in Block, NEW i \in Nat, NEW p \in Nat,
               NEW branch \in {"body", "then", "else"}, NEW m \in Nat,
               Joint(b, i, p, branch, m)', ~Joint(b, i, p, branch, m)
        PROVE  GoesOn(b, i, p, branch, m)'
    <3>1. NewJoint(b, i, p, branch, m)
      BY <1>6, <2>1, NewJoints DEF EmitInv
    <3>2. /\ i - 1 > Len(code[b]) /\ i - 1 \in 1 .. Len(code'[b])
          /\ code'[b][i - 1] = Do("eval", m) /\ m \in 1 .. Len(prog')
          /\ p = prog'[m].parent /\ branch = prog'[m].branch
      BY <1>1, <1>6, <3>1, NoBlocks
    <3>3. b = cur /\ i = Len(code'[b]) + 1 /\ m = n
      <4>1. b = cur
        BY <1>5, <3>2
      <4>2. i - 1 = Len(code[cur]) + 1
        BY <1>5, <3>2, <4>1
      <4>3. m = n
        BY <1>5, <3>2, <4>1, <4>2, EvalIs
      <4> QED
        BY <1>5, <4>1, <4>2, <4>3
    <3>4. p = top.stmt /\ branch = top.branch /\ top' = top
      BY <1>1, <1>3, <3>2, <3>3 DEF top
    <3>5. NoneAfter(p, branch, m)'
      BY <1>3, <1>6, <3>3, NoneAfterNew
    <3> QED
      BY <1>1, <1>3, <3>3, <3>4, <3>5, HereItGoesOn
  <2> QED
    BY <1>1, <1>3, <1>6, <1>8, <2>1, OpensNothing, JointsStep
<1>12. Tree'
  BY <1>1, TreeStraight DEF EmitInv
<1>13. BreaksInLoops'
  <2>1. \A t \in 1 .. Len(prog') : t > Len(prog) => prog'[t].kind = "eval"
    BY <1>2, <1>3
  <2> QED
    BY <1>6, <2>1, BreaksGrow DEF EmitInv
<1> QED
  BY <1>10, <1>11, <1>12, <1>13 DEF EmitInv

(* A jump is followed by nothing in its block. *)
LEMMA JumpEmit ==
    ASSUME VisitInv, CodeInv, EmitInv, NEW kind \in Jumps, NextStmt(kind), Grows, Adds,
           UNCHANGED <<open, phase, cur>>,
           \A x \in Block \ {cur} : code'[x] = code[x],
           \A b \in Block, i \in Nat, t \in 1 .. Len(prog') :
              b = cur /\ i = Len(code[cur]) + 1 /\ t = new => Begins(b, i, t)',
           \A b \in Block : \A i \in 1 .. Len(code'[b]) :
              i \in 1 .. Len(code[b]) \/ (Linked(b, i)' /\ \A m : code'[b][i] # Do("eval", m)),
           BreaksInLoops'
    PROVE  EmitInv'
<1>1. kind \in Kinds /\ kind \in {"eval"} \union Jumps /\ phase = "emit"
  BY DEF Kinds, NextStmt
<1>2. Moves
  BY <1>1, StmtMoves
<1>3. Links'
  BY <1>1, StraightLinks
<1>4. ASSUME NEW b \in Block, NEW i \in Nat, NEW p \in Nat,
             NEW branch \in {"body", "then", "else"}, NEW m \in Nat,
             Joint(b, i, p, branch, m)', ~Joint(b, i, p, branch, m)
      PROVE  FALSE
  <2>1. NewJoint(b, i, p, branch, m)
    BY <1>4, NewJoints DEF EmitInv
  <2>2. /\ i - 1 > Len(code[b]) /\ i - 1 \in 1 .. Len(code'[b])
        /\ code'[b][i - 1] = Do("eval", m)
    BY <1>1, <2>1, NoBlocks
  <2>3. i - 1 \notin 1 .. Len(code[b])
    BY <2>2, Sizes
  <2> QED
    BY <2>2, <2>3
<1>5. Joints'
  BY <1>1, <1>2, <1>4, OpensNothing, JointsStep
<1>6. Tree'
  BY <1>1, TreeStraight DEF EmitInv
<1> QED
  BY <1>3, <1>5, <1>6 DEF EmitInv

LEMMA BreakEmit == VisitInv /\ CodeInv /\ EmitInv /\ VisitBreak => EmitInv'
<1> SUFFICES ASSUME VisitInv, CodeInv, EmitInv, VisitBreak
             PROVE  EmitInv'
  OBVIOUS
<1>1. /\ NextStmt("break") /\ code' = Emit(code, cur, Br(BreakTarget)) /\ loops # <<>>
      /\ UNCHANGED <<open, phase, cur, void>> /\ "break" \in Kinds /\ "break" \in Jumps
  BY DEF VisitBreak, Kinds, Jumps
<1>2. PICK n : n = new
  OBVIOUS
<1>3. PICK l : l = LoopOf(n)'
  OBVIOUS
<1>4. BreakTarget = <<"loop.end", l>> /\ l \in 1 .. n - 1 /\ IsLoop(l)' /\ Encloses(l, n)'
  <2>1. /\ BreakTarget = <<"loop.end", LoopOf(n)'>>
        /\ LoopOf(n)' \in 1 .. n - 1 /\ IsLoop(LoopOf(n))' /\ Encloses(LoopOf(n), n)'
    BY <1>1, <1>2, LoopIsTop DEF EmitInv
  <2> QED
    BY <1>3, <2>1 DEF IsLoop, Encloses
<1>5. /\ code \in [Block -> Seq(Instr)] /\ cur \in Block /\ n \in Stmt
      /\ n \in 1 .. Len(prog') /\ n = Len(prog') /\ prog'[n].kind = "break"
      /\ phase = "emit" /\ Len(prog) \in Nat /\ n = Len(prog) + 1
      /\ \A t \in 1 .. Len(prog') : t > Len(prog) => t = n
  BY <1>1, <1>2, TopFacts, NewStmt
<1>6. <<"loop.end", l>> \in Block /\ Br(<<"loop.end", l>>) \in Instr
  <2>1. <<"loop.end", l>> \in Block
    BY <1>1, <1>4, BreakTargetIs
  <2> QED
    BY <2>1, InstrTypes
<1>7. Added(code, code', cur, Br(<<"loop.end", l>>))
  BY <1>1, <1>4, <1>5, <1>6, EmitAdds
<1>8. /\ code' \in [Block -> Seq(Instr)] /\ CodeGrows(code, code')
      /\ Len(code'[cur]) = Len(code[cur]) + 1
      /\ code'[cur][Len(code[cur]) + 1] = Br(<<"loop.end", l>>)
      /\ \A x \in Block \ {cur} : code'[x] = code[x]
      /\ Len(code[cur]) \in Nat
  BY <1>5, <1>7, AddedGrows DEF Added
<1>9. Grows /\ Adds
  BY <1>1, <1>8, StmtGrows
<1>10. \A b \in Block, i \in Nat, t \in 1 .. Len(prog') :
         b = cur /\ i = Len(code[cur]) + 1 /\ t = new => Begins(b, i, t)'
  <2> SUFFICES ASSUME NEW b \in Block, NEW i \in Nat, NEW t \in 1 .. Len(prog'),
                      b = cur, i = Len(code[cur]) + 1, t = new
               PROVE  Begins(b, i, t)'
    OBVIOUS
  <2>1. i \in 1 .. Len(code'[b]) /\ code'[b][i] = Br(<<"loop.end", l>>)
    BY <1>2, <1>8
  <2>2. t = n
    BY <1>2
  <2>3. code'[b][i] = Br(<<"loop.end", LoopOf(t)>>)'
    BY <1>3, <2>1, <2>2 DEF Br
  <2>4. Has(b, i, Br(<<"loop.end", LoopOf(t)>>))'
    BY <2>1, <2>3 DEF Has
  <2> QED
    BY <1>5, <2>2, <2>4 DEF Begins
<1>11. \A b \in Block : \A i \in 1 .. Len(code'[b]) :
          i \in 1 .. Len(code[b]) \/ (Linked(b, i)' /\ \A m : code'[b][i] # Do("eval", m))
  <2> SUFFICES ASSUME NEW b \in Block, NEW i \in 1 .. Len(code'[b]), i \notin 1 .. Len(code[b])
               PROVE  Linked(b, i)' /\ \A m : code'[b][i] # Do("eval", m)
    OBVIOUS
  <2>1. b = cur /\ i = Len(code[cur]) + 1
    BY <1>8
  <2>2. code'[b][i] = Br(<<"loop.end", l>>)
    BY <1>8, <2>1
  <2>3. IsTarget(<<"loop.end", l>>)'
    BY <1>4, <1>5 DEF IsTarget
  <2> QED
    BY <2>2, <2>3, NotEval DEF Linked, Br
<1>12. BreaksInLoops'
  <2>1. \A t \in 1 .. Len(prog') :
           t > Len(prog) /\ prog'[t].kind = "break" =>
              LoopOf(t)' \in 1 .. t - 1 /\ IsLoop(LoopOf(t))' /\ Encloses(LoopOf(t), t)'
    <3> SUFFICES ASSUME NEW t \in 1 .. Len(prog'), t > Len(prog)
                 PROVE  LoopOf(t)' \in 1 .. t - 1 /\ IsLoop(LoopOf(t))' /\ Encloses(LoopOf(t), t)'
      OBVIOUS
    <3>1. t = n
      BY <1>5
    <3>2. LoopOf(t)' = l
      BY <1>3, <3>1
    <3> QED
      BY <1>4, <3>1, <3>2 DEF IsLoop, Encloses
  <2> QED
    BY <1>9, <2>1, BreaksGrow DEF EmitInv
<1> QED
  BY <1>1, <1>8, <1>9, <1>10, <1>11, <1>12, JumpEmit

LEMMA ReturnEmit == VisitInv /\ CodeInv /\ EmitInv /\ VisitReturn => EmitInv'
<1> SUFFICES ASSUME VisitInv, CodeInv, EmitInv, VisitReturn
             PROVE  EmitInv'
  OBVIOUS
<1>1. /\ NextStmt("return")
      /\ code' = Emit(IF void THEN code ELSE Emit(code, cur, Do("value", new)), cur, Br(RetBlock))
      /\ UNCHANGED <<open, phase, cur, void>> /\ "return" \in Kinds /\ "return" \in Jumps
  BY DEF VisitReturn, Kinds, Jumps
<1>2. PICK n : n = new
  OBVIOUS
<1>3. /\ code \in [Block -> Seq(Instr)] /\ cur \in Block /\ n \in Stmt
      /\ n \in 1 .. Len(prog') /\ prog'[n].kind = "return"
      /\ \A t \in 1 .. Len(prog') : t > Len(prog) => t = n
      /\ Br(RetBlock) \in Instr /\ Do("value", n) \in Instr
  BY <1>1, <1>2, TopFacts, NewStmt, InstrTypes, BlockParts
<1>4. Grows => BreaksInLoops'
  <2> SUFFICES ASSUME Grows PROVE BreaksInLoops'
    OBVIOUS
  <2>1. \A t \in 1 .. Len(prog') : t > Len(prog) => prog'[t].kind # "break"
    BY <1>3
  <2> QED
    BY <2>1, BreaksGrow DEF EmitInv
<1>5. IsTarget(RetBlock)'
  BY DEF IsTarget, RetBlock
<1>6. CASE void
  <2>1. Added(code, code', cur, Br(RetBlock))
    BY <1>1, <1>3, <1>6, EmitAdds
  <2>2. /\ code' \in [Block -> Seq(Instr)] /\ CodeGrows(code, code')
        /\ Len(code'[cur]) = Len(code[cur]) + 1
        /\ code'[cur][Len(code[cur]) + 1] = Br(RetBlock)
        /\ \A x \in Block \ {cur} : code'[x] = code[x]
        /\ Len(code[cur]) \in Nat
    BY <1>3, <2>1, AddedGrows DEF Added
  <2>3. Grows /\ Adds
    BY <1>1, <2>2, StmtGrows
  <2>4. \A b \in Block, i \in Nat, t \in 1 .. Len(prog') :
           b = cur /\ i = Len(code[cur]) + 1 /\ t = new => Begins(b, i, t)'
    <3> SUFFICES ASSUME NEW b \in Block, NEW i \in Nat, NEW t \in 1 .. Len(prog'),
                        b = cur, i = Len(code[cur]) + 1, t = new
                 PROVE  Begins(b, i, t)'
      OBVIOUS
    <3>1. i \in 1 .. Len(code'[b]) /\ code'[b][i] = Br(RetBlock)
      BY <2>2
    <3>2. Has(b, i, IF void THEN Br(RetBlock) ELSE Do("value", t))'
      BY <1>1, <1>6, <3>1 DEF Has, Br, RetBlock
    <3> QED
      BY <1>2, <1>3, <3>2 DEF Begins
  <2>5. \A b \in Block : \A i \in 1 .. Len(code'[b]) :
           i \in 1 .. Len(code[b]) \/ (Linked(b, i)' /\ \A m : code'[b][i] # Do("eval", m))
    <3> SUFFICES ASSUME NEW b \in Block, NEW i \in 1 .. Len(code'[b]), i \notin 1 .. Len(code[b])
                 PROVE  Linked(b, i)' /\ \A m : code'[b][i] # Do("eval", m)
      OBVIOUS
    <3>1. b = cur /\ i = Len(code[cur]) + 1
      BY <2>2
    <3>2. code'[b][i] = Br(RetBlock)
      BY <2>2, <3>1
    <3> QED
      BY <1>5, <3>2, NotEval DEF Linked, Br, RetBlock
  <2> QED
    BY <1>1, <1>4, <2>2, <2>3, <2>4, <2>5, JumpEmit
<1>7. CASE ~void
  <2>1. AddedTwo(code, code', cur, Do("value", n), Br(RetBlock))
    BY <1>1, <1>2, <1>3, <1>7, EmitTwo
  <2>2. /\ code' \in [Block -> Seq(Instr)] /\ CodeGrows(code, code')
        /\ Len(code'[cur]) = Len(code[cur]) + 2
        /\ code'[cur][Len(code[cur]) + 1] = Do("value", n)
        /\ code'[cur][Len(code[cur]) + 2] = Br(RetBlock)
        /\ \A x \in Block \ {cur} : code'[x] = code[x]
        /\ Len(code[cur]) \in Nat
    BY <1>3, <2>1, Sizes DEF AddedTwo
  <2>3. Grows /\ Adds
    BY <1>1, <2>2, StmtGrows
  <2>4. \A b \in Block, i \in Nat, t \in 1 .. Len(prog') :
           b = cur /\ i = Len(code[cur]) + 1 /\ t = new => Begins(b, i, t)'
    <3> SUFFICES ASSUME NEW b \in Block, NEW i \in Nat, NEW t \in 1 .. Len(prog'),
                        b = cur, i = Len(code[cur]) + 1, t = new
                 PROVE  Begins(b, i, t)'
      OBVIOUS
    <3>1. i \in 1 .. Len(code'[b]) /\ code'[b][i] = Do("value", t)
      BY <1>2, <2>2
    <3>2. Has(b, i, IF void THEN Br(RetBlock) ELSE Do("value", t))'
      BY <1>1, <1>7, <3>1 DEF Has, Do
    <3> QED
      BY <1>2, <1>3, <3>2 DEF Begins
  <2>5. \A b \in Block : \A i \in 1 .. Len(code'[b]) :
           i \in 1 .. Len(code[b]) \/ (Linked(b, i)' /\ \A m : code'[b][i] # Do("eval", m))
    <3> SUFFICES ASSUME NEW b \in Block, NEW i \in 1 .. Len(code'[b]), i \notin 1 .. Len(code[b])
                 PROVE  Linked(b, i)' /\ \A m : code'[b][i] # Do("eval", m)
      OBVIOUS
    <3>1. b = cur /\ i \in {Len(code[cur]) + 1, Len(code[cur]) + 2}
      BY <2>2
    <3>2. CASE i = Len(code[cur]) + 2
      <4>1. code'[b][i] = Br(RetBlock)
        BY <2>2, <3>1, <3>2
      <4> QED
        BY <1>5, <4>1, NotEval DEF Linked, Br, RetBlock
    <3>3. CASE i = Len(code[cur]) + 1
      <4>1. code'[b][i] = Do("value", n)
        BY <2>2, <3>1, <3>3
      <4>2. i + 1 \in 1 .. Len(code'[b]) /\ code'[b][i + 1] = Br(RetBlock)
        BY <2>2, <3>1, <3>3
      <4>3. Has(b, i + 1, Br(RetBlock))'
        BY <4>2 DEF Has, Br, RetBlock
      <4> QED
        BY <1>3, <4>1, <4>3, NotEval DEF Linked, Do
    <3> QED
      BY <3>1, <3>2, <3>3
  <2> QED
    BY <1>1, <1>4, <2>2, <2>3, <2>4, <2>5, JumpEmit
<1> QED
  BY <1>6, <1>7

-----------------------------------------------------------------------------
(* Statements with blocks: the first block is visited. *)

EntersAt(kind, n) == IF kind \in LoopKinds THEN <<"loop.body", n>> ELSE <<"if.then", n>>

EntersBranch(kind) == IF kind \in LoopKinds THEN "body" ELSE "then"

LEMMA FramesEnter ==
    ASSUME VisitInv, NEW kind \in Kinds \ ({"eval"} \union Jumps), NextStmt(kind),
           PushFrame(kind, EntersBranch(kind)), NEW n, n = new, phase' = phase
    PROVE  /\ Len(open') = Len(open) + 1 /\ Len(open) \in Nat
           /\ \A k \in 1 .. Len(open) : open'[k] = open[k]
           /\ open'[Len(open) + 1] = [stmt |-> n, kind |-> kind, branch |-> EntersBranch(kind)]
           /\ top'.stmt = n /\ top'.branch = EntersBranch(kind)
           /\ Visiting(n, EntersBranch(kind))' /\ IsOpen(n)'
           /\ \A p, branch : Visiting(p, branch) => Visiting(p, branch)'
           /\ \A s : IsOpen(s) => IsOpen(s)'
           /\ Opens
<1>1. /\ EntersBranch(kind) \in {"body", "then", "else"}
      /\ FrameShape([stmt |-> new, kind |-> kind, branch |-> EntersBranch(kind)])
      /\ phase = "emit"
  BY DEF EntersBranch, FrameShape, LoopKinds, Kinds, Jumps, NextStmt
<1>2. /\ Len(open') = Len(open) + 1
      /\ \A k \in 1 .. Len(open) : open'[k] = open[k]
      /\ open'[Len(open) + 1] = [stmt |-> n, kind |-> kind, branch |-> EntersBranch(kind)]
  BY <1>1, PushFrameOK
<1>3. Len(open) \in Nat /\ n > Len(prog)
  BY TopFacts DEF new
<1>4. top'.stmt = n /\ top'.branch = EntersBranch(kind)
  BY <1>2 DEF top
<1>5. Len(open) + 1 \in 1 .. Len(open') /\ \A k \in 1 .. Len(open) : k \in 1 .. Len(open')
  BY <1>2, <1>3
<1>6. Visiting(n, EntersBranch(kind))' /\ IsOpen(n)'
  <2>1. /\ open'[Len(open) + 1].stmt = n
        /\ open'[Len(open) + 1].branch = EntersBranch(kind)
        /\ phase' = "emit"
    BY <1>1, <1>2
  <2> QED
    BY <1>5, <2>1 DEF Visiting, IsOpen
<1>7. \A p, branch : Visiting(p, branch) => Visiting(p, branch)'
  BY <1>2, <1>5 DEF Visiting
<1>8. \A s : IsOpen(s) => IsOpen(s)'
  BY <1>2, <1>5 DEF IsOpen
<1>9. Opens
  <2> SUFFICES ASSUME NEW p, NEW branch, Visiting(p, branch)'
               PROVE  Visiting(p, branch) \/ p > Len(prog)
    BY DEF Opens
  <2>1. PICK k \in 1 .. Len(open') : open'[k].stmt = p /\ open'[k].branch = branch
    BY DEF Visiting
  <2>2. k \in 1 .. Len(open) \/ k = Len(open) + 1
    BY <1>2, <1>3
  <2>3. CASE k \in 1 .. Len(open)
    BY <1>1, <1>2, <2>1, <2>3 DEF Visiting
  <2>4. CASE k = Len(open) + 1
    BY <1>2, <1>3, <2>1, <2>4
  <2> QED
    BY <2>2, <2>3, <2>4
<1> QED
  BY <1>2, <1>3, <1>4, <1>6, <1>7, <1>8, <1>9

LEMMA EnterEmit ==
    ASSUME VisitInv, CodeInv, EmitInv, NEW kind \in Kinds \ ({"eval"} \union Jumps),
           NextStmt(kind), PushFrame(kind, EntersBranch(kind)), NEW n, n = new,
           Grows, Adds, Moves, phase' = phase,
           cur' = EntersAt(kind, n), code'[cur'] = <<>>,
           code'[RetBlock] = code[RetBlock],
           \A b \in Block : \A i \in 1 .. Len(code'[b]) :
              i \in 1 .. Len(code[b]) \/ (Linked(b, i)' /\ \A m : code'[b][i] # Do("eval", m)),
           kind \in LoopKinds =>
              Has(<<"loop.header", n>>, 1, CondBr(n, <<"loop.body", n>>, <<"loop.end", n>>))'
    PROVE  EmitInv'
<1>1. /\ kind \in Kinds /\ phase = "emit" /\ n \in 1 .. Len(prog') /\ n = Len(prog')
      /\ prog'[n].kind = kind /\ Len(prog) \in Nat /\ n = Len(prog) + 1
      /\ \A t \in 1 .. Len(prog') : t > Len(prog) => t = n
      /\ kind # "break"
  BY NewStmt DEF Jumps
<1>2. Tree'
  <2>1. /\ Len(open') = Len(open) + 1
        /\ \A k \in 1 .. Len(open) : open'[k] = open[k]
        /\ open'[Len(open) + 1] = [stmt |-> new, kind |-> kind, branch |-> EntersBranch(kind)]
    BY FramesEnter
  <2> QED
    BY <1>1, <2>1, TreePush DEF EmitInv
<1>3. BreaksInLoops'
  <2>1. \A t \in 1 .. Len(prog') : t > Len(prog) => prog'[t].kind # "break"
    BY <1>1
  <2> QED
    BY <2>1, BreaksGrow DEF EmitInv
<1>4. Links'
  <2>1. code[RetBlock] = <<>>
    BY <1>1 DEF EmitInv, Links
  <2>2. \A s \in 1 .. Len(prog') :
           s > Len(prog) /\ IsLoop(s)' =>
              Has(<<"loop.header", s>>, 1, CondBr(s, <<"loop.body", s>>, <<"loop.end", s>>))'
    <3> SUFFICES ASSUME NEW s \in 1 .. Len(prog'), s > Len(prog), IsLoop(s)'
                 PROVE  Has(<<"loop.header", s>>, 1,
                            CondBr(s, <<"loop.body", s>>, <<"loop.end", s>>))'
      OBVIOUS
    <3>1. s = n
      BY <1>1
    <3>2. kind \in LoopKinds
      BY <1>1, <3>1 DEF IsLoop, LoopKinds
    <3>3. Has(<<"loop.header", n>>, 1, CondBr(n, <<"loop.body", n>>, <<"loop.end", n>>))'
      BY <3>2
    <3> QED
      BY <3>1, <3>3 DEF Has, CondBr
  <2> QED
    BY <1>1, <2>1, <2>2, LinksStep DEF EmitInv
<1>5. Joints'
  <2>1. ASSUME NEW b \in Block, NEW i \in Nat, NEW p \in Nat,
               NEW branch \in {"body", "then", "else"}, NEW m \in Nat,
               Joint(b, i, p, branch, m)', ~Joint(b, i, p, branch, m)
        PROVE  GoesOn(b, i, p, branch, m)'
    <3>1. NewJoint(b, i, p, branch, m)
      BY <2>1, NewJoints DEF EmitInv
    <3>2. \/ /\ i - 1 > Len(code[b]) /\ i - 1 \in 1 .. Len(code'[b])
             /\ code'[b][i - 1] = Do("eval", m)
          \/ /\ i = 1 /\ m = n /\ p = n
             /\ \/ kind \in {"if", "ifelse"} /\ b = <<"if.then", n>> /\ branch = "then"
                \/ kind = "ifelse" /\ ~Visiting(n, "then")'
                \/ kind \in LoopKinds /\ b = <<"loop.body", n>> /\ branch = "body"
          \/ Visiting(p, "then") /\ ~Visiting(p, "then")'
          \/ ~IsOpen(m)' /\ (m = n \/ IsOpen(m))
      BY <1>1, <3>1 DEF NewJoint, IsIf, IsLoop, LoopKinds
    <3>3. ~(/\ i - 1 > Len(code[b]) /\ i - 1 \in 1 .. Len(code'[b])
            /\ code'[b][i - 1] = Do("eval", m))
      <4> SUFFICES ASSUME i - 1 > Len(code[b]), i - 1 \in 1 .. Len(code'[b]),
                          code'[b][i - 1] = Do("eval", m)
                   PROVE  FALSE
        OBVIOUS
      <4>1. i - 1 \notin 1 .. Len(code[b])
        BY Sizes
      <4> QED
        BY <4>1
    <3>4. ~(Visiting(p, "then") /\ ~Visiting(p, "then")') /\ ~(~IsOpen(m)' /\ (m = n \/ IsOpen(m)))
      BY FramesEnter
    <3>5. ~(kind = "ifelse" /\ ~Visiting(n, "then")')
      <4> SUFFICES ASSUME kind = "ifelse"
                   PROVE  Visiting(n, "then")'
        OBVIOUS
      <4>1. EntersBranch(kind) = "then"
        BY DEF EntersBranch, LoopKinds
      <4> QED
        BY <4>1, FramesEnter
    <3>6. i = 1 /\ m = n /\ p = n /\ b = cur' /\ branch = EntersBranch(kind)
      BY <3>2, <3>3, <3>4, <3>5 DEF EntersBranch, EntersAt, LoopKinds
    <3>7. i = Len(code'[b]) + 1
      BY <3>6
    <3>8. NoneAfter(p, branch, m)'
      BY <1>1, <3>6, NoneAfterNew
    <3>9. top'.stmt = p /\ top'.branch = branch
      BY <3>6, FramesEnter
    <3> QED
      BY <1>1, <3>6, <3>7, <3>8, <3>9, HereItGoesOn
  <2>2. Opens
    BY FramesEnter
  <2>3. \A b \in Block, i \in Nat, p \in Nat, branch \in {"body", "then", "else"}, m \in Nat :
           Joint(b, i, p, branch, m)' =>
              Joint(b, i, p, branch, m) \/ GoesOn(b, i, p, branch, m)'
    BY <2>1
  <2> QED
    BY <1>1, <2>2, <2>3, JointsStep
<1> QED
  BY <1>2, <1>3, <1>4, <1>5 DEF EmitInv

LEMMA IfEmit == ASSUME NEW kind, VisitInv, CodeInv, EmitInv, VisitIf(kind) PROVE EmitInv'
<1>1. /\ NextStmt(kind) /\ code' = Emit(code, cur, CondBr(new, <<"if.then", new>>, IfNot(kind, new)))
      /\ kind \in {"if", "ifelse"} /\ cur' = <<"if.then", new>> /\ PushFrame(kind, "then")
      /\ UNCHANGED <<phase, void>>
  BY DEF VisitIf
<1>2. PICK n : n = new
  OBVIOUS
<1>3. /\ kind \in Kinds /\ kind \in Kinds \ ({"eval"} \union Jumps) /\ kind \notin LoopKinds
      /\ EntersBranch(kind) = "then" /\ cur' = EntersAt(kind, n)
  BY <1>1, <1>2 DEF Kinds, Jumps, LoopKinds, EntersBranch, EntersAt
<1>4. /\ code \in [Block -> Seq(Instr)] /\ cur \in Block /\ n \in Stmt
      /\ n \in 1 .. Len(prog') /\ prog'[n].kind = kind /\ phase = "emit"
      /\ cur \in placed /\ RetBlock \notin placed /\ RetBlock \in Block
  BY <1>1, <1>2, <1>3, TopFacts, NewStmt, BlockParts DEF CodeInv
<1>5. /\ cur' \in Block /\ code[cur'] = <<>> /\ cur' # cur
      /\ <<"if.then", n>> \in Block /\ IfNot(kind, n) \in Block
  BY <1>1, <1>2, <1>3, NewEmpty DEF Parts, IfNot
<1>6. CondBr(n, <<"if.then", n>>, IfNot(kind, n)) \in Instr
  BY <1>4, <1>5, InstrTypes
<1>7. Added(code, code', cur, CondBr(n, <<"if.then", n>>, IfNot(kind, n)))
  BY <1>1, <1>2, <1>4, <1>6, EmitAdds
<1>8. /\ code' \in [Block -> Seq(Instr)] /\ CodeGrows(code, code')
      /\ Len(code'[cur]) = Len(code[cur]) + 1
      /\ code'[cur][Len(code[cur]) + 1] = CondBr(n, <<"if.then", n>>, IfNot(kind, n))
      /\ \A x \in Block \ {cur} : code'[x] = code[x]
      /\ Len(code[cur]) \in Nat
  BY <1>4, <1>7, AddedGrows DEF Added
<1>9. Grows /\ Adds
  BY <1>1, <1>3, <1>8, StmtGrows
<1>10. IsIf(n)'
  BY <1>1, <1>4 DEF IsIf
<1>11. \A b \in Block, i \in Nat, t \in 1 .. Len(prog') :
         b = cur /\ i = Len(code[cur]) + 1 /\ t = new => Begins(b, i, t)'
  <2> SUFFICES ASSUME NEW b \in Block, NEW i \in Nat, NEW t \in 1 .. Len(prog'),
                      b = cur, i = Len(code[cur]) + 1, t = new
               PROVE  Begins(b, i, t)'
    OBVIOUS
  <2>1. t = n
    BY <1>2
  <2>2. i \in 1 .. Len(code'[b]) /\ code'[b][i] = CondBr(t, <<"if.then", t>>, IfNot(prog'[t].kind, t))
    BY <1>4, <1>8, <2>1
  <2>3. Has(b, i, CondBr(t, <<"if.then", t>>, IfNot(prog[t].kind, t)))'
    BY <2>2 DEF Has, CondBr, IfNot
  <2>4. IsIf(t)'
    BY <1>10, <2>1 DEF IsIf
  <2> QED
    BY <2>3, <2>4 DEF Begins
<1>12. \A b \in Block : \A i \in 1 .. Len(code'[b]) :
          i \in 1 .. Len(code[b]) \/ (Linked(b, i)' /\ \A m : code'[b][i] # Do("eval", m))
  <2> SUFFICES ASSUME NEW b \in Block, NEW i \in 1 .. Len(code'[b]), i \notin 1 .. Len(code[b])
               PROVE  Linked(b, i)' /\ \A m : code'[b][i] # Do("eval", m)
    OBVIOUS
  <2>1. b = cur /\ i = Len(code[cur]) + 1
    BY <1>8
  <2>2. code'[b][i] = CondBr(n, <<"if.then", n>>, IfNot(prog'[n].kind, n))
    BY <1>4, <1>8, <2>1
  <2>3. \A m : code'[b][i] # Do("eval", m)
    BY <2>2, NotEval
  <2> QED
    BY <1>4, <1>10, <2>2, <2>3 DEF Linked, CondBr, IfNot
<1>13. Moves
  BY <1>1, <1>3, <1>9, <1>11, StmtMoves
<1>14. code'[cur'] = <<>> /\ code'[RetBlock] = code[RetBlock]
  BY <1>4, <1>5, <1>8
<1> QED
  BY <1>1, <1>2, <1>3, <1>9, <1>12, <1>13, <1>14, EnterEmit

(* d is the code with what is in front of loop n. *)
LoopBegins(d, n) ==
    \A b \in Block, i \in Nat, t \in 1 .. Len(prog') :
        b = cur /\ i = Len(code[cur]) + 1 /\ t = n /\ Has(b, i, d[b][i])' => Begins(b, i, t)'

LoopLinks(kind, d, n) ==
    \A b \in Block : \A i \in 1 .. Len(d[b]) :
        b = cur /\ i \notin 1 .. Len(code[b]) =>
            /\ CodeGrows(d, code') /\ n \in 1 .. Len(prog') /\ prog'[n].kind = kind
                   => Linked(b, i)'
            /\ \A m : d[b][i] # Do("eval", m)

(* The code in front of a loop, the loop's header, and its body to come *)
LEMMA LoopEmit ==
    ASSUME VisitInv, CodeInv, EmitInv, NEW kind \in LoopKinds, NEW c, OpenLoop(kind, c),
           NEW n, n = new, NEW d \in [Block -> Seq(Instr)],
           code' = Emit(d, <<"loop.header", n>>, CondBr(n, <<"loop.body", n>>, <<"loop.end", n>>)),
           CodeGrows(code, d), \A x \in Block \ {cur} : d[x] = code[x],
           LoopBegins(d, n), LoopLinks(kind, d, n), Len(d[cur]) > Len(code[cur])
    PROVE  EmitInv'
<1>1. /\ NextStmt(kind) /\ PushFrame(kind, "body") /\ cur' = <<"loop.body", n>>
      /\ UNCHANGED <<void, phase>>
  BY DEF OpenLoop
<1>2. /\ kind \in Kinds /\ kind \in Kinds \ ({"eval"} \union Jumps)
      /\ EntersBranch(kind) = "body" /\ cur' = EntersAt(kind, n)
  BY <1>1 DEF Kinds, Jumps, LoopKinds, EntersBranch, EntersAt
<1>3. /\ code \in [Block -> Seq(Instr)] /\ cur \in Block /\ n \in Stmt
      /\ n \in 1 .. Len(prog') /\ prog'[n].kind = kind /\ phase = "emit"
      /\ cur \in placed /\ RetBlock \notin placed /\ RetBlock \in Block
  BY <1>1, <1>2, TopFacts, NewStmt, BlockParts DEF CodeInv
<1>4. \A p \in {"loop.header", "loop.body", "loop.end"} :
         <<p, n>> \in Block /\ code[<<p, n>>] = <<>> /\ <<p, n>> # cur
  BY <1>1, <1>2, NewEmpty DEF Parts
<1> DEFINE header == <<"loop.header", n>>
           test == CondBr(n, <<"loop.body", n>>, <<"loop.end", n>>)
<1>5. header \in Block /\ code[header] = <<>> /\ header # cur /\ test \in Instr /\ header # RetBlock
  BY <1>3, <1>4, InstrTypes DEF RetBlock
<1>6. Added(d, code', header, test)
  BY <1>5, EmitAdds
<1> HIDE DEF header, test
<1>7. /\ code' \in [Block -> Seq(Instr)] /\ CodeGrows(d, code')
      /\ Len(code'[header]) = Len(d[header]) + 1 /\ code'[header][Len(d[header]) + 1] = test
      /\ \A x \in Block \ {header} : code'[x] = d[x]
  BY <1>6 DEF Added
<1>8. d[header] = <<>> /\ Len(code'[header]) = 1 /\ code'[header][1] = test
  <2>1. d[header] = <<>>
    BY <1>5
  <2>2. Len(d[header]) + 1 = 1
    BY <2>1
  <2>3. Len(code'[header]) = 1
    BY <1>7, <2>2
  <2>4. code'[header][1] = test
    BY <1>7, <2>2
  <2> QED
    BY <2>1, <2>3, <2>4
<1>9. CodeGrows(code, code')
  <2> SUFFICES ASSUME NEW b \in Block
               PROVE  /\ Len(code[b]) <= Len(code'[b])
                      /\ \A i \in 1 .. Len(code[b]) : code'[b][i] = code[b][i]
    BY <1>7 DEF CodeGrows
  <2>1. CASE b = header
    BY <1>5, <1>8, <2>1
  <2>2. CASE b # header
    BY <1>7, <2>2 DEF CodeGrows
  <2> QED
    BY <2>1, <2>2
<1>10. Grows /\ Adds
  BY <1>1, <1>2, <1>9, StmtGrows
<1>11. IsLoop(n)'
  BY <1>3 DEF IsLoop, LoopKinds
<1>12. \A b \in Block, i \in Nat, t \in 1 .. Len(prog') :
         b = cur /\ i = Len(code[cur]) + 1 /\ t = new => Begins(b, i, t)'
  <2> SUFFICES ASSUME NEW b \in Block, NEW i \in Nat, NEW t \in 1 .. Len(prog'),
                      b = cur, i = Len(code[cur]) + 1, t = new
               PROVE  Begins(b, i, t)'
    OBVIOUS
  <2>1. Len(code[b]) \in Nat /\ Len(d[b]) \in Nat
    BY <1>3
  <2>2. i \in 1 .. Len(code'[b]) /\ code'[b][i] = d[b][i]
    <3>1. b # header /\ Len(d[b]) > Len(code[b]) /\ i = Len(code[b]) + 1
      BY <1>5
    <3>2. code'[b] = d[b]
      BY <1>7, <3>1
    <3> QED
      BY <2>1, <3>1, <3>2
  <2>3. Has(b, i, d[b][i])'
    BY <2>2 DEF Has
  <2> QED
    BY <2>3 DEF LoopBegins
<1>13. \A b \in Block : \A i \in 1 .. Len(code'[b]) :
          i \in 1 .. Len(code[b]) \/ (Linked(b, i)' /\ \A m : code'[b][i] # Do("eval", m))
  <2> SUFFICES ASSUME NEW b \in Block, NEW i \in 1 .. Len(code'[b]), i \notin 1 .. Len(code[b])
               PROVE  Linked(b, i)' /\ \A m : code'[b][i] # Do("eval", m)
    OBVIOUS
  <2>1. CASE b = header
    <3>1. code'[b][i] = test
      BY <1>8, <2>1
    <3>2. \A m : code'[b][i] # Do("eval", m)
      BY <3>1, NotEval DEF test
    <3> QED
      BY <1>3, <1>11, <3>1, <3>2 DEF Linked, CondBr, test
  <2>2. CASE b # header
    <3>1. code'[b] = d[b]
      BY <1>7, <2>2
    <3>2. b = cur
      BY <3>1
    <3>3. /\ CodeGrows(d, code') /\ n \in 1 .. Len(prog') /\ prog'[n].kind = kind => Linked(b, i)'
          /\ \A m : d[b][i] # Do("eval", m)
      BY <3>1, <3>2 DEF LoopLinks
    <3> QED
      BY <1>3, <1>7, <3>1, <3>3
  <2> QED
    BY <2>1, <2>2
<1>14. Moves
  BY <1>1, <1>2, <1>10, <1>12, StmtMoves
<1>15. code'[cur'] = <<>> /\ code'[RetBlock] = code[RetBlock]
  <2>1. cur' \in Block /\ code[cur'] = <<>> /\ cur' # cur /\ cur' # header
    BY <1>1, <1>4 DEF header
  <2> QED
    BY <1>3, <1>5, <1>7, <2>1
<1>16. Has(<<"loop.header", n>>, 1, CondBr(n, <<"loop.body", n>>, <<"loop.end", n>>))'
  BY <1>8 DEF Has, header, test, CondBr
<1> QED
  BY <1>1, <1>2, <1>10, <1>13, <1>14, <1>15, <1>16, EnterEmit

LEMMA WhileEmit == VisitInv /\ CodeInv /\ EmitInv /\ VisitWhile => EmitInv'
<1> SUFFICES ASSUME VisitInv, CodeInv, EmitInv, VisitWhile
             PROVE  EmitInv'
  OBVIOUS
<1>1. OpenLoop("while", code) /\ "while" \in LoopKinds /\ "while" \in Kinds /\ NextStmt("while")
  BY DEF VisitWhile, LoopKinds, Kinds, OpenLoop
<1>2. PICK n : n = new
  OBVIOUS
<1>3. <<"loop.header", n>> \in Block
  BY <1>1, <1>2, NewEmpty DEF Parts
<1> DEFINE x == Br(<<"loop.header", n>>)
<1>0. PICK d : d = Emit(code, cur, x)
  OBVIOUS
<1>4. code' = Emit(d, <<"loop.header", n>>, CondBr(n, <<"loop.body", n>>, <<"loop.end", n>>))
  BY <1>0, <1>1, <1>2 DEF OpenLoop
<1>5. /\ code \in [Block -> Seq(Instr)] /\ cur \in Block /\ n \in 1 .. Len(prog')
      /\ prog'[n].kind = "while" /\ x \in Instr
  BY <1>1, <1>2, <1>3, TopFacts, NewStmt, InstrTypes
<1>6. Added(code, d, cur, x)
  BY <1>0, <1>5, EmitAdds
<1>7. /\ d \in [Block -> Seq(Instr)] /\ CodeGrows(code, d)
      /\ Len(d[cur]) = Len(code[cur]) + 1 /\ d[cur][Len(code[cur]) + 1] = x
      /\ \A y \in Block \ {cur} : d[y] = code[y]
      /\ Len(code[cur]) \in Nat
  BY <1>5, <1>6, AddedGrows DEF Added
<1>8. LoopBegins(d, n)
  <2> SUFFICES ASSUME NEW b \in Block, NEW i \in Nat, NEW t \in 1 .. Len(prog'),
                      b = cur, i = Len(code[cur]) + 1, t = n, Has(b, i, d[b][i])'
               PROVE  Begins(b, i, t)'
    BY DEF LoopBegins
  <2> QED
    BY <1>5, <1>7 DEF Begins, Has, Br
<1>9. LoopLinks("while", d, n)
  <2> SUFFICES ASSUME NEW b \in Block, NEW i \in 1 .. Len(d[b]), b = cur, i \notin 1 .. Len(code[b])
               PROVE  (CodeGrows(d, code') => Linked(b, i)') /\ \A m : d[b][i] # Do("eval", m)
    BY DEF LoopLinks
  <2>1. d[b][i] = x
    BY <1>7
  <2>2. \A m : d[b][i] # Do("eval", m)
    BY <2>1, NotEval
  <2>3. IsTarget(<<"loop.header", n>>)'
    BY <1>5 DEF IsTarget, IsLoop
  <2>4. ASSUME CodeGrows(d, code')
        PROVE  Linked(b, i)'
    <3>1. code'[b][i] = x
      BY <2>1, <2>4 DEF CodeGrows
    <3> QED
      BY <2>3, <3>1 DEF Linked, Br
  <2> QED
    BY <2>2, <2>4
<1>10. Len(d[cur]) > Len(code[cur])
  BY <1>7
<1> QED
  BY <1>1, <1>2, <1>4, <1>7, <1>8, <1>9, <1>10, LoopEmit

LEMMA ForEmit == VisitInv /\ CodeInv /\ EmitInv /\ VisitFor => EmitInv'
<1> SUFFICES ASSUME VisitInv, CodeInv, EmitInv, VisitFor
             PROVE  EmitInv'
  OBVIOUS
<1>1. /\ OpenLoop("for", Emit(code, cur, Do("setup", new)))
      /\ "for" \in LoopKinds /\ "for" \in Kinds /\ NextStmt("for")
  BY DEF VisitFor, LoopKinds, Kinds, OpenLoop
<1>2. PICK n : n = new
  OBVIOUS
<1>3. <<"loop.header", n>> \in Block /\ n \in Stmt
  BY <1>1, <1>2, NewEmpty, NewStmt DEF Parts
<1> DEFINE w == Do("setup", n)
           x == Br(<<"loop.header", n>>)
<1>0. PICK d : d = Emit(Emit(code, cur, w), cur, x)
  OBVIOUS
<1>4. code' = Emit(d, <<"loop.header", n>>, CondBr(n, <<"loop.body", n>>, <<"loop.end", n>>))
  BY <1>0, <1>1, <1>2 DEF OpenLoop
<1>5. /\ code \in [Block -> Seq(Instr)] /\ cur \in Block /\ n \in 1 .. Len(prog')
      /\ prog'[n].kind = "for" /\ x \in Instr /\ w \in Instr
  BY <1>1, <1>2, <1>3, TopFacts, NewStmt, InstrTypes
<1>6. AddedTwo(code, d, cur, w, x)
  BY <1>0, <1>5, EmitTwo
<1>7. /\ d \in [Block -> Seq(Instr)] /\ CodeGrows(code, d)
      /\ Len(d[cur]) = Len(code[cur]) + 2
      /\ d[cur][Len(code[cur]) + 1] = w /\ d[cur][Len(code[cur]) + 2] = x
      /\ \A y \in Block \ {cur} : d[y] = code[y]
      /\ Len(code[cur]) \in Nat
  BY <1>5, <1>6, Sizes DEF AddedTwo
<1>8. LoopBegins(d, n)
  <2> SUFFICES ASSUME NEW b \in Block, NEW i \in Nat, NEW t \in 1 .. Len(prog'),
                      b = cur, i = Len(code[cur]) + 1, t = n, Has(b, i, d[b][i])'
               PROVE  Begins(b, i, t)'
    BY DEF LoopBegins
  <2> QED
    BY <1>5, <1>7 DEF Begins, Has, Do
<1>9. LoopLinks("for", d, n)
  <2> SUFFICES ASSUME NEW b \in Block, NEW i \in 1 .. Len(d[b]), b = cur, i \notin 1 .. Len(code[b])
               PROVE  (CodeGrows(d, code') => Linked(b, i)') /\ \A m : d[b][i] # Do("eval", m)
    BY DEF LoopLinks
  <2>1. IsTarget(<<"loop.header", n>>)'
    BY <1>5 DEF IsTarget, IsLoop
  <2>2. i \in {Len(code[b]) + 1, Len(code[b]) + 2} /\ Len(d[b]) = Len(code[b]) + 2
    BY <1>7
  <2>3. CASE i = Len(code[b]) + 1
    <3>1. d[b][i] = w /\ \A m : d[b][i] # Do("eval", m)
      <4>1. d[b][i] = w
        BY <1>7, <2>3
      <4> QED
        BY <4>1, NotEval
    <3>2. i + 1 \in 1 .. Len(d[b]) /\ d[b][i + 1] = x
      BY <1>7, <2>2, <2>3
    <3>3. ASSUME CodeGrows(d, code')
          PROVE  Linked(b, i)'
      <4>1. code' \in [Block -> Seq(Instr)] /\ Len(code'[b]) \in Nat /\ Len(d[b]) \in Nat
        BY <1>7, <3>3 DEF CodeGrows
      <4>2. /\ code'[b][i] = w /\ i + 1 \in 1 .. Len(code'[b]) /\ code'[b][i + 1] = x
        BY <3>1, <3>2, <3>3, <4>1 DEF CodeGrows
      <4>3. Has(b, i + 1, Br(<<"loop.header", n>>))'
        BY <4>2 DEF Has, Br
      <4> QED
        BY <1>5, <4>2, <4>3 DEF Linked, Do
    <3> QED
      BY <3>1, <3>3
  <2>4. CASE i = Len(code[b]) + 2
    <3>1. d[b][i] = x
      BY <1>7, <2>4
    <3>2. ASSUME CodeGrows(d, code')
          PROVE  Linked(b, i)'
      <4>1. code'[b][i] = x
        BY <3>1, <3>2 DEF CodeGrows
      <4> QED
        BY <2>1, <4>1 DEF Linked, Br
    <3> QED
      BY <3>1, <3>2, NotEval
  <2> QED
    BY <2>2, <2>3, <2>4
<1>10. Len(d[cur]) > Len(code[cur])
  BY <1>7
<1> QED
  BY <1>1, <1>2, <1>4, <1>7, <1>8, <1>9, <1>10, LoopEmit

-----------------------------------------------------------------------------
(* The end of a block *)

LEMMA TopStmt ==
    ASSUME VisitInv, Tree, Len(open) > 1
    PROVE  /\ top.stmt \in 1 .. Len(prog) /\ prog[top.stmt].kind = top.kind
           /\ prog[top.stmt].parent = open[Len(open) - 1].stmt
           /\ prog[top.stmt].branch = open[Len(open) - 1].branch
           /\ \A t \in 1 .. Len(prog) : t > top.stmt => prog[t].parent >= top.stmt
<1>1. Len(open) \in 2 .. Len(open) /\ Len(open) \in 1 .. Len(open)
  BY TopFacts
<1>2. top.stmt \in 1 .. Len(prog)
  BY <1>1 DEF VisitInv, Shape, top
<1> QED
  BY <1>1, <1>2 DEF Tree, top

(* What a statement that is left goes on with *)
LEMMA LeavingMoves ==
    ASSUME VisitInv, prog' = prog,
           \A p, branch : p = top.stmt /\ branch = top.branch => ~Visiting(p, branch)',
           \A b \in Block, i \in Nat, p \in Nat :
              b = cur /\ i = Len(code[cur]) + 1 /\ ~Terminated(code, cur) /\ p = top.stmt
                 => Closes(b, i, p)'
    PROVE  Moves
<1> SUFFICES ASSUME NEW b \in Block, NEW i \in Nat, NEW p \in Nat,
                    NEW branch \in {"body", "then", "else"}, NEW m \in Nat,
                    b = cur, i = Len(code[cur]) + 1, ~Terminated(code, cur),
                    NoneAfter(p, branch, m), top.stmt = p, top.branch = branch
             PROVE  GoesOn(b, i, p, branch, m)'
  BY DEF Moves
<1>1. ~Visiting(p, branch)' /\ Closes(b, i, p)'
  OBVIOUS
<1>2. NoneAfter(p, branch, m)'
  BY DEF NoneAfter, Nested
<1> QED
  BY <1>1, <1>2 DEF GoesOn

LEMMA LeaveEmit ==
    ASSUME VisitInv, CodeInv, EmitInv, phase = "emit", UNCHANGED <<phase, prog, void>>,
           CodeGrows(code, code'), Tree', Opens, Moves,
           cur' \in Block, code'[cur'] = <<>>, code'[RetBlock] = code[RetBlock],
           \A b \in Block : \A i \in 1 .. Len(code'[b]) :
              i \in 1 .. Len(code[b]) \/ (Linked(b, i)' /\ \A m : code'[b][i] # Do("eval", m)),
           \A b \in Block, p \in Nat, branch \in {"body", "then", "else"}, m \in Nat :
              NewJoint(b, 1, p, branch, m) =>
                 b = cur' /\ top'.stmt = p /\ top'.branch = branch /\ NoneAfter(p, branch, m)
    PROVE  EmitInv'
<1>1. prog \in Seq(StmtRecord) /\ Len(prog) \in Nat
  BY TopFacts
<1>2. Grows
  BY <1>1 DEF Grows, CodeGrows
<1>3. Adds
  BY <1>1 DEF Adds
<1>4. BreaksInLoops'
  <2>1. \A t \in 1 .. Len(prog') : ~(t > Len(prog))
    BY <1>1
  <2> QED
    BY <1>2, <2>1, BreaksGrow DEF EmitInv
<1>5. Links'
  <2>1. code[RetBlock] = <<>>
    BY DEF EmitInv, Links
  <2>2. \A s \in 1 .. Len(prog') : ~(s > Len(prog))
    BY <1>1
  <2> QED
    BY <1>2, <2>1, <2>2, LinksStep DEF EmitInv
<1>6. \A b \in Block, i \in Nat, p \in Nat, branch \in {"body", "then", "else"}, m \in Nat :
         Joint(b, i, p, branch, m)' => Joint(b, i, p, branch, m) \/ GoesOn(b, i, p, branch, m)'
  <2> SUFFICES ASSUME NEW b \in Block, NEW i \in Nat, NEW p \in Nat,
                      NEW branch \in {"body", "then", "else"}, NEW m \in Nat,
                      Joint(b, i, p, branch, m)', ~Joint(b, i, p, branch, m)
               PROVE  GoesOn(b, i, p, branch, m)'
    OBVIOUS
  <2>1. NewJoint(b, i, p, branch, m)
    BY <1>2, NewJoints DEF EmitInv
  <2>2. i = 1
    <3>1. SUFFICES ASSUME i - 1 > Len(code[b]), i - 1 \in 1 .. Len(code'[b]),
                          code'[b][i - 1] = Do("eval", m)
                   PROVE  FALSE
      BY <2>1 DEF NewJoint
    <3>2. i - 1 \notin 1 .. Len(code[b])
      BY <3>1, Sizes
    <3> QED
      BY <3>1, <3>2
  <2>3. b = cur' /\ top'.stmt = p /\ top'.branch = branch /\ NoneAfter(p, branch, m)
    <3>1. NewJoint(b, 1, p, branch, m)
      BY <2>1, <2>2
    <3> QED
      BY <3>1
  <2>4. NoneAfter(p, branch, m)'
    BY <2>3 DEF NoneAfter, Nested
  <2>5. i = Len(code'[b]) + 1
    BY <2>2, <2>3
  <2> QED
    BY <2>3, <2>4, <2>5, HereItGoesOn
<1>7. Joints'
  BY <1>2, <1>3, <1>6, JointsStep
<1> QED
  BY <1>4, <1>5, <1>7 DEF EmitInv

LEMMA FramesLeave ==
    ASSUME VisitInv, Len(open) > 1, PopFrame, prog' = prog, phase' = phase
    PROVE  /\ Len(open') = Len(open) - 1 /\ \A k \in 1 .. Len(open') : open'[k] = open[k]
           /\ top' = open[Len(open) - 1]
           /\ \A p, branch : p = top.stmt => ~Visiting(p, branch)'
           /\ \A s : IsOpen(s) /\ ~IsOpen(s)' => s = top.stmt
           /\ \A p, branch : Visiting(p, branch) /\ ~Visiting(p, branch)'
                                => p = top.stmt /\ branch = top.branch
           /\ Opens
<1>1. /\ Len(open') = Len(open) - 1 /\ Len(open) \in Nat
      /\ \A k \in 1 .. Len(open') : open'[k] = open[k] /\ open[k].stmt < top.stmt
  BY PopFrameOK, TopFacts
<1>2. top' = open[Len(open) - 1]
  <2>1. Len(open') \in 1 .. Len(open')
    BY <1>1
  <2> QED
    BY <1>1, <2>1 DEF top
<1>3. \A k \in 1 .. Len(open') : k \in 1 .. Len(open)
  BY <1>1
<1>4. \A k \in 1 .. Len(open) : k = Len(open) \/ k \in 1 .. Len(open')
  BY <1>1
<1>5. top.stmt \in Nat
  BY FramesIncrease
<1>6. ASSUME NEW p, NEW branch, p = top.stmt, Visiting(p, branch)'
      PROVE  FALSE
  <2>1. PICK k \in 1 .. Len(open') : open'[k].stmt = p
    BY <1>6 DEF Visiting
  <2>2. top.stmt < top.stmt
    BY <1>1, <1>6, <2>1
  <2> QED
    BY <1>5, <2>2
<1>7. \A s : IsOpen(s) /\ ~IsOpen(s)' => s = top.stmt
  BY <1>1, <1>4 DEF IsOpen, top
<1>8. \A p, branch : Visiting(p, branch) /\ ~Visiting(p, branch)'
                        => p = top.stmt /\ branch = top.branch
  BY <1>1, <1>4 DEF Visiting, top
<1>9. Opens
  BY <1>1, <1>3 DEF Opens, Visiting
<1> QED
  BY <1>1, <1>2, <1>6, <1>7, <1>8, <1>9

LeavesAt(kind, s) == IF kind \in LoopKinds THEN <<"loop.end", s>> ELSE <<"if.cont", s>>

(* The last block of a statement is left: the next one of its parent goes   *)
(* on behind it.                                                            *)
LEMMA PopEmit ==
    ASSUME VisitInv, CodeInv, EmitInv, phase = "emit", Len(open) > 1, PopFrame,
           UNCHANGED <<phase, prog, void>>, ~(top.kind = "ifelse" /\ top.branch = "then"),
           CodeGrows(code, code'), \A x \in Block \ {cur} : code'[x] = code[x],
           cur' \in Pending(top), cur' = LeavesAt(top.kind, top.stmt),
           \A b \in Block : \A i \in 1 .. Len(code'[b]) :
              i \in 1 .. Len(code[b]) \/ (Linked(b, i)' /\ \A m : code'[b][i] # Do("eval", m)),
           \A b \in Block, i \in Nat, p \in Nat :
              b = cur /\ i = Len(code[cur]) + 1 /\ ~Terminated(code, cur) /\ p = top.stmt
                 => Closes(b, i, p)'
    PROVE  EmitInv'
<1>1. Tree'
  BY FramesLeave, TreePop DEF EmitInv
<1>2. Moves
  BY FramesLeave, LeavingMoves
<1>3. Opens
  BY FramesLeave
<1>4. cur' \in Block /\ code[cur'] = <<>> /\ cur' # cur
  BY PendingEmpty
<1>5. code'[cur'] = <<>>
  BY <1>4
<1>6. code'[RetBlock] = code[RetBlock]
  BY BlockParts, TopFacts DEF CodeInv
<1>7. ASSUME NEW b \in Block, NEW p \in Nat, NEW branch \in {"body", "then", "else"}, NEW m \in Nat,
             NewJoint(b, 1, p, branch, m)
      PROVE  b = cur' /\ top'.stmt = p /\ top'.branch = branch /\ NoneAfter(p, branch, m)
  <2>1. Len(prog) \in Nat /\ Len(code[b]) \in Nat /\ \A t \in 1 .. Len(prog) : prog[t].parent \in Nat
    BY Sizes
  <2>2. /\ top.stmt \in 1 .. Len(prog) /\ prog[top.stmt].kind = top.kind
        /\ prog[top.stmt].parent = open[Len(open) - 1].stmt
        /\ prog[top.stmt].branch = open[Len(open) - 1].branch
        /\ \A t \in 1 .. Len(prog) : t > top.stmt => prog[t].parent >= top.stmt
    BY TopStmt DEF EmitInv
  <2>3. ~(/\ p \in 1 .. Len(prog) /\ prog[p].kind = "ifelse"
          /\ Visiting(p, "then") /\ ~Visiting(p, "then")')
    BY <2>2, FramesLeave
  <2>4. /\ m \in 1 .. Len(prog) /\ ~IsOpen(m)' /\ IsOpen(m)
        /\ p = prog[m].parent /\ branch = prog[m].branch
        /\ \/ IsIf(m)' /\ b = <<"if.cont", m>>
           \/ IsLoop(m)' /\ b = <<"loop.end", m>>
    BY <1>7, <2>1, <2>3 DEF NewJoint
  <2>5. m = top.stmt
    BY <2>4, FramesLeave
  <2>6. b = cur'
    BY <2>2, <2>4, <2>5 DEF IsIf, IsLoop, LoopKinds, LeavesAt
  <2>7. top'.stmt = p /\ top'.branch = branch
    BY <2>2, <2>4, <2>5, FramesLeave
  <2>8. NoneAfter(p, branch, m)
    <3> SUFFICES ASSUME NEW u \in Nested(p, branch), u > m
                 PROVE  FALSE
      BY <2>1 DEF NoneAfter, Nested
    <3>1. u \in 1 .. Len(prog) /\ prog[u].parent = p
      BY DEF Nested
    <3>2. p >= m
      BY <2>2, <2>5, <3>1
    <3>3. p < m
      BY <2>4 DEF EmitInv, Tree
    <3> QED
      BY <3>2, <3>3
  <2> QED
    BY <2>6, <2>7, <2>8
<1> QED
  BY <1>1, <1>2, <1>3, <1>4, <1>5, <1>6, <1>7, LeaveEmit

(* The then block is left for the else block. *)
LEMMA FramesElse ==
    ASSUME VisitInv, open' = [open EXCEPT ![Len(open)].branch = "else"],
           phase' = phase, top.branch = "then"
    PROVE  /\ Len(open') = Len(open)
           /\ \A k \in 1 .. Len(open) :
                 /\ open'[k].stmt = open[k].stmt /\ open'[k].kind = open[k].kind
                 /\ k # Len(open) => open'[k] = open[k]
           /\ top'.stmt = top.stmt /\ top'.branch = "else"
           /\ \A p, branch : p = top.stmt /\ branch = "then" => ~Visiting(p, branch)'
           /\ \A s : IsOpen(s) => IsOpen(s)'
           /\ \A p, branch : Visiting(p, branch) /\ ~Visiting(p, branch)' => p = top.stmt
           /\ Opens
<1>1. open \in Seq(Frame) /\ Len(open) \in 1 .. Len(open) /\ Len(open) \in Nat
  BY TopFacts
<1>2. Len(open') = Len(open)
  BY <1>1
<1>3. open[Len(open)] \in Frame
  BY <1>1
<1>4. \A k \in 1 .. Len(open) :
         /\ open'[k].stmt = open[k].stmt /\ open'[k].kind = open[k].kind
         /\ k # Len(open) => open'[k] = open[k]
  BY <1>1, <1>3 DEF Frame
<1>5. open'[Len(open)].branch = "else" /\ open'[Len(open)].stmt = top.stmt
  BY <1>1, <1>3 DEF Frame, top
<1>6. top'.stmt = top.stmt /\ top'.branch = "else"
  BY <1>2, <1>5 DEF top
<1>7. \A k \in 1 .. Len(open) : open[k].stmt = top.stmt => k = Len(open)
  BY FramesIncrease
<1>8. ASSUME NEW p, NEW branch, p = top.stmt, branch = "then", Visiting(p, branch)'
      PROVE  FALSE
  <2>1. PICK k \in 1 .. Len(open) : open'[k].stmt = p /\ open'[k].branch = "then"
    BY <1>2, <1>8 DEF Visiting
  <2>2. k = Len(open)
    BY <1>4, <1>7, <1>8, <2>1
  <2> QED
    BY <1>5, <2>1, <2>2
<1>9. \A s : IsOpen(s) => IsOpen(s)'
  BY <1>2, <1>4 DEF IsOpen
<1>10. \A p, branch : Visiting(p, branch) /\ ~Visiting(p, branch)' => p = top.stmt
  BY <1>2, <1>4 DEF Visiting, top
<1>11. Opens
  <2> SUFFICES ASSUME NEW p, NEW branch, Visiting(p, branch)'
               PROVE  Visiting(p, branch) \/ (p = top.stmt /\ branch = "else")
    BY DEF Opens
  <2>1. PICK k \in 1 .. Len(open) : open'[k].stmt = p /\ open'[k].branch = branch
    BY <1>2 DEF Visiting
  <2> QED
    BY <1>4, <1>5, <2>1 DEF Visiting, top
<1> QED
  BY <1>2, <1>4, <1>6, <1>8, <1>9, <1>10, <1>11

LEMMA TreeElse ==
    ASSUME VisitInv, Tree, open' = [open EXCEPT ![Len(open)].branch = "else"],
           phase' = phase, top.branch = "then", prog' = prog
    PROVE  Tree'
<1>1. /\ Len(open') = Len(open) /\ Len(open) \in Nat
      /\ \A k \in 1 .. Len(open) :
            /\ open'[k].stmt = open[k].stmt /\ open'[k].kind = open[k].kind
            /\ k # Len(open) => open'[k] = open[k]
      /\ open'[Len(open)].branch = "else"
  BY FramesElse, TopFacts DEF top
<1>2. \A t \in 1 .. Len(prog') : prog'[t].parent < t
  BY DEF Tree
<1>3. ASSUME NEW k \in 2 .. Len(open')
      PROVE  /\ prog'[open'[k].stmt].kind = open'[k].kind
             /\ prog'[open'[k].stmt].parent = open'[k - 1].stmt
             /\ prog'[open'[k].stmt].branch = open'[k - 1].branch
  <2>1. k - 1 \in 1 .. Len(open) /\ k \in 1 .. Len(open) /\ k - 1 # Len(open) /\ k \in 2 .. Len(open)
    BY <1>1
  <2>2. open'[k - 1] = open[k - 1]
    BY <1>1, <2>1
  <2> QED
    BY <1>1, <2>1, <2>2 DEF Tree
<1>4. \A k \in 1 .. Len(open') : \A t \in 1 .. Len(prog') :
         t > open'[k].stmt => prog'[t].parent >= open'[k].stmt
  BY <1>1 DEF Tree
<1>5. \A k \in 1 .. Len(open') : \A t \in 1 .. Len(prog') :
         open'[k].branch = "then" => ~(prog'[t].parent = open'[k].stmt /\ prog'[t].branch = "else")
  BY <1>1 DEF Tree
<1> QED
  BY <1>2, <1>3, <1>4, <1>5 DEF Tree

LEMMA EmitUnlessAdds ==
    ASSUME VisitInv, NEW x \in Instr, code' = EmitUnlessTerminated(code, cur, x)
    PROVE  /\ CodeGrows(code, code') /\ \A y \in Block \ {cur} : code'[y] = code[y]
           /\ \A b \in Block : \A i \in 1 .. Len(code'[b]) :
                 i \in 1 .. Len(code[b]) \/ code'[b][i] = x
           /\ \A b \in Block, i \in Nat :
                 b = cur /\ i = Len(code[cur]) + 1 /\ ~Terminated(code, cur)
                    => i \in 1 .. Len(code'[b]) /\ code'[b][i] = x
<1>1. code \in [Block -> Seq(Instr)] /\ cur \in Block
  BY TopFacts
<1>2. CASE Terminated(code, cur)
  <2>1. code' = code
    BY <1>2 DEF EmitUnlessTerminated
  <2>2. CodeGrows(code, code')
    BY <1>1, <2>1, CodeStays
  <2> QED
    BY <1>2, <2>1, <2>2
<1>3. CASE ~Terminated(code, cur)
  <2>1. code' = Emit(code, cur, x)
    BY <1>3 DEF EmitUnlessTerminated
  <2>2. Added(code, code', cur, x)
    BY <1>1, <2>1, EmitAdds
  <2>3. /\ code' \in [Block -> Seq(Instr)] /\ CodeGrows(code, code')
        /\ Len(code'[cur]) = Len(code[cur]) + 1 /\ code'[cur][Len(code[cur]) + 1] = x
        /\ \A y \in Block \ {cur} : code'[y] = code[y]
        /\ Len(code[cur]) \in Nat
    BY <1>1, <2>2, AddedGrows DEF Added
  <2>4. ASSUME NEW b \in Block, NEW i \in 1 .. Len(code'[b]), i \notin 1 .. Len(code[b])
        PROVE  code'[b][i] = x
    <3>1. b = cur
      BY <2>3, <2>4
    <3>2. i = Len(code[cur]) + 1
      BY <2>3, <2>4, <3>1
    <3> QED
      BY <2>3, <3>1, <3>2
  <2> QED
    BY <2>3, <2>4
<1> QED
  BY <1>2, <1>3

(* The branch of an if that is left goes on behind it. *)
LEMMA ContGoes ==
    ASSUME VisitInv, EmitInv, phase = "emit", UNCHANGED <<phase, prog, void>>,
           top.branch \in {"then", "else"},
           code' = EmitUnlessTerminated(code, cur, Br(<<"if.cont", top.stmt>>))
    PROVE  /\ CodeGrows(code, code') /\ \A y \in Block \ {cur} : code'[y] = code[y]
           /\ Len(open) > 1 /\ top.kind \in {"if", "ifelse"}
           /\ \A b \in Block : \A i \in 1 .. Len(code'[b]) :
                 i \in 1 .. Len(code[b]) \/ (Linked(b, i)' /\ \A m : code'[b][i] # Do("eval", m))
           /\ \A b \in Block, i \in Nat, p \in Nat :
                 b = cur /\ i = Len(code[cur]) + 1 /\ ~Terminated(code, cur) /\ p = top.stmt
                    => Closes(b, i, p)'
<1>1. Len(open) > 1 /\ top.kind \in {"if", "ifelse"} /\ top.stmt \in Stmt
  BY BranchOfTop
<1>2. PICK s : s = top.stmt
  OBVIOUS
<1>3. s \in 1 .. Len(prog) /\ prog[s].kind = top.kind /\ s \in Stmt
  BY <1>1, <1>2, TopStmt DEF EmitInv
<1>4. IsIf(s)' /\ IsTarget(<<"if.cont", s>>)'
  BY <1>1, <1>3 DEF IsIf, IsTarget
<1> DEFINE x == Br(<<"if.cont", s>>)
<1>5. x \in Instr
  BY <1>3, InstrTypes, BlockParts DEF Parts
<1>6. /\ CodeGrows(code, code') /\ \A y \in Block \ {cur} : code'[y] = code[y]
      /\ \A b \in Block : \A i \in 1 .. Len(code'[b]) :
            i \in 1 .. Len(code[b]) \/ code'[b][i] = x
      /\ \A b \in Block, i \in Nat :
            b = cur /\ i = Len(code[cur]) + 1 /\ ~Terminated(code, cur)
               => i \in 1 .. Len(code'[b]) /\ code'[b][i] = x
  BY <1>2, <1>5, EmitUnlessAdds
<1>7. ASSUME NEW b \in Block, NEW i \in 1 .. Len(code'[b]), i \notin 1 .. Len(code[b])
      PROVE  Linked(b, i)' /\ \A m : code'[b][i] # Do("eval", m)
  <2>1. code'[b][i] = x
    BY <1>6, <1>7
  <2> QED
    BY <1>4, <2>1, NotEval DEF Linked, Br
<1>8. ASSUME NEW b \in Block, NEW i \in Nat, NEW p \in Nat,
             b = cur, i = Len(code[cur]) + 1, ~Terminated(code, cur), p = top.stmt
      PROVE  Closes(b, i, p)'
  <2>1. i \in 1 .. Len(code'[b]) /\ code'[b][i] = x /\ p = s
    BY <1>2, <1>6, <1>8
  <2>2. Has(b, i, Br(<<"if.cont", p>>))'
    BY <2>1 DEF Has, Br
  <2> QED
    BY <1>3, <1>4, <2>1, <2>2 DEF Closes
<1> QED
  BY <1>1, <1>6, <1>7, <1>8

LEMMA EndElseEmit == VisitInv /\ CodeInv /\ EmitInv /\ EndElse => EmitInv'
<1> SUFFICES ASSUME VisitInv, CodeInv, EmitInv, EndElse
             PROVE  EmitInv'
  OBVIOUS
<1>1. /\ phase = "emit" /\ UNCHANGED <<phase, prog, void>> /\ top.branch = "else" /\ PopFrame
      /\ code' = EmitUnlessTerminated(code, cur, Br(<<"if.cont", top.stmt>>))
      /\ cur' = <<"if.cont", top.stmt>>
  BY DEF EndElse
<1>2. /\ CodeGrows(code, code') /\ \A y \in Block \ {cur} : code'[y] = code[y]
      /\ Len(open) > 1 /\ top.kind \in {"if", "ifelse"}
      /\ \A b \in Block : \A i \in 1 .. Len(code'[b]) :
            i \in 1 .. Len(code[b]) \/ (Linked(b, i)' /\ \A m : code'[b][i] # Do("eval", m))
      /\ \A b \in Block, i \in Nat, p \in Nat :
            b = cur /\ i = Len(code[cur]) + 1 /\ ~Terminated(code, cur) /\ p = top.stmt
               => Closes(b, i, p)'
  BY <1>1, ContGoes
<1>3. cur' \in Pending(top) /\ cur' = LeavesAt(top.kind, top.stmt)
  BY <1>1, <1>2, PendingIs DEF LeavesAt, LoopKinds
<1> QED
  BY <1>1, <1>2, <1>3, PopEmit

LEMMA EndThenEmit == VisitInv /\ CodeInv /\ EmitInv /\ EndThen => EmitInv'
<1> SUFFICES ASSUME VisitInv, CodeInv, EmitInv, EndThen
             PROVE  EmitInv'
  OBVIOUS
<1>1. /\ phase = "emit" /\ UNCHANGED <<phase, prog, void>> /\ top.branch = "then"
      /\ code' = EmitUnlessTerminated(code, cur, Br(<<"if.cont", top.stmt>>))
  BY DEF EndThen
<1>2. /\ CodeGrows(code, code') /\ \A y \in Block \ {cur} : code'[y] = code[y]
      /\ Len(open) > 1 /\ top.kind \in {"if", "ifelse"}
      /\ \A b \in Block : \A i \in 1 .. Len(code'[b]) :
            i \in 1 .. Len(code[b]) \/ (Linked(b, i)' /\ \A m : code'[b][i] # Do("eval", m))
      /\ \A b \in Block, i \in Nat, p \in Nat :
            b = cur /\ i = Len(code[cur]) + 1 /\ ~Terminated(code, cur) /\ p = top.stmt
               => Closes(b, i, p)'
  BY <1>1, ContGoes
<1>3. CASE top.kind = "if"
  <2>1. cur' = <<"if.cont", top.stmt>> /\ PopFrame
    BY <1>3 DEF EndThen
  <2>2. cur' \in Pending(top) /\ cur' = LeavesAt(top.kind, top.stmt)
    BY <1>1, <1>3, <2>1, PendingIs DEF LeavesAt, LoopKinds
  <2> QED
    BY <1>1, <1>2, <1>3, <2>1, <2>2, PopEmit
<1>4. CASE top.kind = "ifelse"
  <2>1. cur' = <<"if.else", top.stmt>> /\ open' = [open EXCEPT ![Len(open)].branch = "else"]
    BY <1>4 DEF EndThen
  <2>2. cur' \in Pending(top)
    BY <1>1, <1>4, <2>1, PendingIs
  <2>3. cur' \in Block /\ code[cur'] = <<>> /\ cur' # cur
    BY <1>1, <2>2, PendingEmpty
  <2>4. code'[cur'] = <<>>
    BY <1>2, <2>3
  <2>5. code'[RetBlock] = code[RetBlock]
    BY <1>1, <1>2, BlockParts, TopFacts DEF CodeInv
  <2>6. Tree'
    BY <1>1, <2>1, TreeElse DEF EmitInv
  <2>7. Moves
    BY <1>1, <1>2, <2>1, FramesElse, LeavingMoves
  <2>8. Opens
    BY <1>1, <2>1, FramesElse
  <2>9. ASSUME NEW b \in Block, NEW p \in Nat, NEW branch \in {"body", "then", "else"},
               NEW m \in Nat, NewJoint(b, 1, p, branch, m)
        PROVE  b = cur' /\ top'.stmt = p /\ top'.branch = branch /\ NoneAfter(p, branch, m)
    <3>1. Len(prog) \in Nat /\ Len(code[b]) \in Nat /\ \A t \in 1 .. Len(prog) : prog[t].parent \in Nat
      BY Sizes
    <3>2. \A s : IsOpen(s) => IsOpen(s)'
      BY <1>1, <2>1, FramesElse
    <3>3. /\ m = p /\ p \in 1 .. Len(prog) /\ b = <<"if.else", p>> /\ branch = "else"
          /\ Visiting(p, "then") /\ ~Visiting(p, "then")'
      BY <1>1, <2>9, <3>1, <3>2 DEF NewJoint
    <3>4. p = top.stmt /\ top'.stmt = top.stmt /\ top'.branch = "else"
      BY <1>1, <2>1, <3>3, FramesElse
    <3>5. NoneAfter(p, branch, m)
      <4>1. Len(open) \in 1 .. Len(open)
        BY TopFacts
      <4>2. \A t \in 1 .. Len(prog) : ~(prog[t].parent = p /\ prog[t].branch = "else")
        BY <1>1, <3>4, <4>1 DEF EmitInv, Tree, top
      <4> QED
        BY <3>3, <4>2 DEF NoneAfter, Nested
    <3> QED
      BY <2>1, <3>3, <3>4, <3>5
  <2> QED
    BY <1>1, <1>2, <2>3, <2>4, <2>5, <2>6, <2>7, <2>8, <2>9, LeaveEmit
<1> QED
  BY <1>2, <1>3, <1>4

(* The loop that is left *)
LEMMA LeavesLoop ==
    ASSUME VisitInv, EmitInv, top.kind \in LoopKinds, NEW c, CloseLoop(c), NEW s, s = top.stmt
    PROVE  /\ code' = c /\ UNCHANGED <<phase, prog, void>> /\ PopFrame
           /\ Len(open) > 1 /\ ~(top.kind = "ifelse" /\ top.branch = "then")
           /\ cur' \in Pending(top) /\ cur' = LeavesAt(top.kind, top.stmt)
           /\ s \in 1 .. Len(prog) /\ prog[s].kind = top.kind /\ s \in Stmt
           /\ IsLoop(s)' /\ IsTarget(<<"loop.header", s>>)'
           /\ Br(<<"loop.header", s>>) \in Instr
<1>1. code' = c /\ UNCHANGED <<phase, prog, void>> /\ PopFrame /\ cur' = <<"loop.end", top.stmt>>
  BY DEF CloseLoop
<1>2. Len(open) > 1 /\ top.stmt \in Stmt /\ top.branch = "body"
  BY BranchOfTop
<1>3. s \in 1 .. Len(prog) /\ prog[s].kind = top.kind
  BY <1>2, TopStmt DEF EmitInv
<1>4. IsLoop(s)' /\ IsTarget(<<"loop.header", s>>)'
  BY <1>1, <1>3 DEF IsLoop, IsTarget, LoopKinds
<1>5. cur' \in Pending(top) /\ cur' = LeavesAt(top.kind, top.stmt)
  BY <1>1, <1>2, PendingIs DEF LeavesAt
<1>6. Br(<<"loop.header", s>>) \in Instr
  BY <1>2, InstrTypes, BlockParts DEF Parts
<1> QED
  BY <1>1, <1>2, <1>3, <1>4, <1>5, <1>6

LEMMA EndWhileEmit == VisitInv /\ CodeInv /\ EmitInv /\ EndWhile => EmitInv'
<1> SUFFICES ASSUME VisitInv, CodeInv, EmitInv, EndWhile
             PROVE  EmitInv'
  OBVIOUS
<1>1. PICK s : s = top.stmt
  OBVIOUS
<1> DEFINE x == Br(<<"loop.header", s>>)
<1>2. /\ phase = "emit" /\ top.kind = "while" /\ top.kind \in LoopKinds
      /\ CloseLoop(EmitUnlessTerminated(code, cur, x))
  BY <1>1 DEF EndWhile, LoopKinds
<1>3. /\ code' = EmitUnlessTerminated(code, cur, x) /\ UNCHANGED <<phase, prog, void>> /\ PopFrame
      /\ Len(open) > 1 /\ ~(top.kind = "ifelse" /\ top.branch = "then")
      /\ cur' \in Pending(top) /\ cur' = LeavesAt(top.kind, top.stmt)
      /\ s \in 1 .. Len(prog) /\ prog[s].kind = "while"
      /\ IsTarget(<<"loop.header", s>>)' /\ x \in Instr
  BY <1>1, <1>2, LeavesLoop
<1>4. /\ CodeGrows(code, code') /\ \A y \in Block \ {cur} : code'[y] = code[y]
      /\ \A b \in Block : \A i \in 1 .. Len(code'[b]) :
            i \in 1 .. Len(code[b]) \/ code'[b][i] = x
      /\ \A b \in Block, i \in Nat :
            b = cur /\ i = Len(code[cur]) + 1 /\ ~Terminated(code, cur)
               => i \in 1 .. Len(code'[b]) /\ code'[b][i] = x
  BY <1>3, EmitUnlessAdds
<1>5. ASSUME NEW b \in Block, NEW i \in 1 .. Len(code'[b]), i \notin 1 .. Len(code[b])
      PROVE  Linked(b, i)' /\ \A m : code'[b][i] # Do("eval", m)
  <2>1. code'[b][i] = x
    BY <1>4, <1>5
  <2> QED
    BY <1>3, <2>1, NotEval DEF Linked, Br
<1>6. ASSUME NEW b \in Block, NEW i \in Nat, NEW p \in Nat,
             b = cur, i = Len(code[cur]) + 1, ~Terminated(code, cur), p = top.stmt
      PROVE  Closes(b, i, p)'
  <2>1. i \in 1 .. Len(code'[b]) /\ code'[b][i] = x /\ p = s
    BY <1>1, <1>4, <1>6
  <2>2. Has(b, i, Br(<<"loop.header", p>>))'
    BY <2>1 DEF Has, Br
  <2> QED
    BY <1>3, <2>1, <2>2 DEF Closes
<1> QED
  BY <1>2, <1>3, <1>4, <1>5, <1>6, PopEmit

LEMMA EndForEmit == VisitInv /\ CodeInv /\ EmitInv /\ EndFor => EmitInv'
<1> SUFFICES ASSUME VisitInv, CodeInv, EmitInv, EndFor
             PROVE  EmitInv'
  OBVIOUS
<1>1. PICK s : s = top.stmt
  OBVIOUS
<1> DEFINE w == Do("next", s)
           x == Br(<<"loop.header", s>>)
<1>2. /\ phase = "emit" /\ top.kind = "for" /\ top.kind \in LoopKinds
      /\ CloseLoop(Emit(Emit(code, cur, w), cur, x))
  BY <1>1 DEF EndFor, LoopKinds
<1>3. /\ code' = Emit(Emit(code, cur, w), cur, x) /\ UNCHANGED <<phase, prog, void>> /\ PopFrame
      /\ Len(open) > 1 /\ ~(top.kind = "ifelse" /\ top.branch = "then")
      /\ cur' \in Pending(top) /\ cur' = LeavesAt(top.kind, top.stmt)
      /\ s \in 1 .. Len(prog) /\ prog[s].kind = "for" /\ s \in Stmt
      /\ IsTarget(<<"loop.header", s>>)' /\ x \in Instr
  BY <1>1, <1>2, LeavesLoop
<1>4. code \in [Block -> Seq(Instr)] /\ cur \in Block /\ w \in Instr
  BY <1>3, TopFacts, InstrTypes
<1>5. AddedTwo(code, code', cur, w, x)
  BY <1>3, <1>4, EmitTwo
<1>6. /\ code' \in [Block -> Seq(Instr)] /\ CodeGrows(code, code')
      /\ Len(code'[cur]) = Len(code[cur]) + 2
      /\ code'[cur][Len(code[cur]) + 1] = w /\ code'[cur][Len(code[cur]) + 2] = x
      /\ \A y \in Block \ {cur} : code'[y] = code[y]
      /\ Len(code[cur]) \in Nat
  BY <1>4, <1>5, Sizes DEF AddedTwo
<1>7. ASSUME NEW b \in Block, NEW i \in 1 .. Len(code'[b]), i \notin 1 .. Len(code[b])
      PROVE  Linked(b, i)' /\ \A m : code'[b][i] # Do("eval", m)
  <2>1. b = cur /\ i \in {Len(code[cur]) + 1, Len(code[cur]) + 2}
    BY <1>6, <1>7
  <2>2. CASE i = Len(code[cur]) + 1
    <3>1. code'[b][i] = w /\ i + 1 \in 1 .. Len(code'[b]) /\ code'[b][i + 1] = x
      BY <1>6, <2>1, <2>2
    <3>2. Has(b, i + 1, Br(<<"loop.header", s>>))'
      BY <3>1 DEF Has, Br
    <3> QED
      BY <1>3, <3>1, <3>2, NotEval DEF Linked, Do
  <2>3. CASE i = Len(code[cur]) + 2
    <3>1. code'[b][i] = x
      BY <1>6, <2>1, <2>3
    <3> QED
      BY <1>3, <3>1, NotEval DEF Linked, Br
  <2> QED
    BY <2>1, <2>2, <2>3
<1>8. ASSUME NEW b \in Block, NEW i \in Nat, NEW p \in Nat,
             b = cur, i = Len(code[cur]) + 1, ~Terminated(code, cur), p = top.stmt
      PROVE  Closes(b, i, p)'
  <2>1. i \in 1 .. Len(code'[b]) /\ code'[b][i] = w /\ p = s
    BY <1>1, <1>6, <1>8
  <2>2. Has(b, i, Do("next", p))'
    BY <2>1 DEF Has, Do
  <2> QED
    BY <1>3, <2>1, <2>2 DEF Closes
<1> QED
  BY <1>2, <1>3, <1>6, <1>7, <1>8, PopEmit

-----------------------------------------------------------------------------
(* The end of the function *)

LEMMA EmitRetEmit == VisitInv /\ CodeInv /\ EmitInv /\ EmitRet => EmitInv'
<1> SUFFICES ASSUME VisitInv, CodeInv, EmitInv, EmitRet
             PROVE  EmitInv'
  OBVIOUS
<1>1. /\ phase = "emit" /\ Len(open) = 1 /\ phase' = "done"
      /\ UNCHANGED <<void, prog, open, cur, loops>>
      /\ code' = [b \in Block |->
                    IF b = RetBlock THEN <<Ret>>
                    ELSE IF b \in placed /\ ~Terminated(code, b)
                    THEN Append(code[b], Br(RetBlock))
                    ELSE code[b]]
  BY DEF EmitRet
<1>2. /\ code \in [Block -> Seq(Instr)] /\ cur \in Block /\ cur \in placed
      /\ RetBlock \notin placed /\ code[RetBlock] = <<>> /\ RetBlock \in Block
      /\ Ret \in Instr /\ Br(RetBlock) \in Instr
      /\ prog \in Seq(StmtRecord) /\ Len(prog) \in Nat
  BY <1>1, TopFacts, BlockParts, InstrTypes DEF CodeInv, EmitInv, Links
<1>3. top.stmt = 0 /\ top.branch = "body" /\ open[1].stmt = 0 /\ open[1].branch = "body"
  BY <1>1 DEF VisitInv, Shape, top
<1>4. /\ code'[RetBlock] = <<Ret>> /\ Len(code'[RetBlock]) = 1 /\ code'[RetBlock][1] = Ret
      /\ Has(RetBlock, 1, Ret)'
  <2>1. code'[RetBlock] = <<Ret>>
    BY <1>1, <1>2
  <2>2. Len(code'[RetBlock]) = 1 /\ code'[RetBlock][1] = Ret
    BY <2>1
  <2> QED
    BY <2>1, <2>2 DEF Has, Ret, RetBlock
<1>5. ASSUME NEW b \in Block, b # RetBlock
      PROVE  \/ code'[b] = code[b] /\ ~(b \in placed /\ ~Terminated(code, b))
             \/ code'[b] = Append(code[b], Br(RetBlock))
  BY <1>1, <1>5
<1>6. ASSUME NEW b \in Block
      PROVE  /\ Len(code[b]) \in Nat /\ Len(code[b]) <= Len(code'[b])
             /\ \A i \in 1 .. Len(code[b]) : code'[b][i] = code[b][i]
             /\ \A i \in 1 .. Len(code'[b]) :
                   i \in 1 .. Len(code[b]) \/ code'[b][i] \in {Ret, Br(RetBlock)}
             /\ code'[b] \in Seq(Instr)
  <2>1. code[b] \in Seq(Instr)
    BY <1>2
  <2>2. CASE b = RetBlock
    <3>1. Len(code[b]) = 0
      BY <1>2, <2>2
    <3>2. code'[b] \in Seq(Instr)
      <4>1. <<Ret>> \in Seq(Instr)
        BY <1>2
      <4> QED
        BY <1>4, <2>2, <4>1
    <3> QED
      BY <1>4, <2>2, <3>1, <3>2
  <2>3. CASE code'[b] = code[b]
    BY <2>1, <2>3
  <2>4. CASE code'[b] = Append(code[b], Br(RetBlock))
    BY <1>2, <2>1, <2>4
  <2> QED
    BY <1>5, <2>2, <2>3, <2>4
<1>7. CodeGrows(code, code')
  <2>1. code' \in [Block -> Seq(Instr)]
    BY <1>1, <1>6
  <2> QED
    BY <1>6, <2>1 DEF CodeGrows
<1>8. Grows /\ Adds
  BY <1>1, <1>2, <1>7 DEF Grows, CodeGrows, Adds
<1>9. Opens
  BY <1>1 DEF Opens, Visiting
<1>10. Moves
  <2> SUFFICES ASSUME NEW b \in Block, NEW i \in Nat, NEW p \in Nat,
                      NEW branch \in {"body", "then", "else"}, NEW m \in Nat,
                      b = cur, i = Len(code[cur]) + 1, ~Terminated(code, cur),
                      NoneAfter(p, branch, m), top.stmt = p, top.branch = branch
               PROVE  GoesOn(b, i, p, branch, m)'
    BY DEF Moves
  <2>1. b # RetBlock /\ b \in placed /\ ~Terminated(code, b)
    BY <1>2
  <2>2. code'[b] = Append(code[b], Br(RetBlock)) /\ code[b] \in Seq(Instr)
    BY <1>2, <1>5, <2>1
  <2>3. i \in 1 .. Len(code'[b]) /\ code'[b][i] = Br(RetBlock)
    BY <1>2, <2>2
  <2>4. Closes(b, i, p)'
    BY <1>3, <2>3 DEF Closes, Has, Br, RetBlock
  <2>5. ~Visiting(p, branch)'
    BY <1>1 DEF Visiting
  <2>6. NoneAfter(p, branch, m)'
    BY <1>1 DEF NoneAfter, Nested
  <2> QED
    BY <2>4, <2>5, <2>6 DEF GoesOn
<1>11. Tree'
  BY <1>1 DEF EmitInv, Tree
<1>12. BreaksInLoops'
  <2>1. \A t \in 1 .. Len(prog') : ~(t > Len(prog))
    BY <1>1, <1>2
  <2> QED
    BY <1>8, <2>1, BreaksGrow DEF EmitInv
<1>13. Links'
  <2>1. \A b \in Block : \A i \in 1 .. Len(code'[b]) : i \in 1 .. Len(code[b]) \/ Linked(b, i)'
    <3> SUFFICES ASSUME NEW b \in Block, NEW i \in 1 .. Len(code'[b]), i \notin 1 .. Len(code[b])
                 PROVE  Linked(b, i)'
      OBVIOUS
    <3>1. code'[b][i] \in {Ret, Br(RetBlock)}
      BY <1>6
    <3>2. IsTarget(RetBlock)'
      BY DEF IsTarget, RetBlock
    <3> QED
      BY <3>1, <3>2 DEF Linked, Br, Ret, RetBlock
  <2>2. \A s \in 1 .. Len(prog') : ~(s > Len(prog))
    BY <1>1, <1>2
  <2> QED
    BY <1>1, <1>4, <1>8, <2>1, <2>2, LinksStep DEF EmitInv
<1>14. ASSUME NEW b \in Block, NEW i \in Nat, NEW p \in Nat,
              NEW branch \in {"body", "then", "else"}, NEW m \in Nat,
              Joint(b, i, p, branch, m)', ~Joint(b, i, p, branch, m)
       PROVE  FALSE
  <2>1. NewJoint(b, i, p, branch, m)
    BY <1>8, <1>14, NewJoints DEF EmitInv
  <2>2. ~(/\ i - 1 > Len(code[b]) /\ i - 1 \in 1 .. Len(code'[b])
          /\ code'[b][i - 1] = Do("eval", m))
    <3> SUFFICES ASSUME i - 1 > Len(code[b]), i - 1 \in 1 .. Len(code'[b]),
                        code'[b][i - 1] = Do("eval", m)
                 PROVE  FALSE
      OBVIOUS
    <3>1. code'[b][i - 1] \in {Ret, Br(RetBlock)}
      BY <1>6
    <3> QED
      BY <3>1, NotEval
  <2>3. ~Visiting(p, "then")
    BY <1>1, <1>3 DEF Visiting
  <2>4. IsOpen(m) => m = 0
    BY <1>1, <1>3 DEF IsOpen
  <2> QED
    BY <1>1, <1>2, <2>1, <2>2, <2>3, <2>4 DEF NewJoint
<1>15. Joints'
  BY <1>1, <1>8, <1>9, <1>10, <1>14, JointsStep
<1> QED
  BY <1>11, <1>12, <1>13, <1>15 DEF EmitInv

LEMMA InitEmit == Init => EmitInv
<1> SUFFICES ASSUME Init
             PROVE  EmitInv
  OBVIOUS
<1>1. /\ prog = <<>> /\ Len(prog) = 0 /\ phase = "emit" /\ cur = <<"body", 0>>
      /\ Len(open) = 1 /\ open[1] = [stmt |-> 0, kind |-> "func", branch |-> "body"]
  BY DEF Init
<1>2. top.stmt = 0 /\ top.branch = "body"
  BY <1>1 DEF top
<1>3. /\ code[<<"header", 0>>] = <<Br(<<"body", 0>>)>>
      /\ \A b \in Block : b # <<"header", 0>> => code[b] = <<>>
      /\ <<"header", 0>> \in Block /\ <<"body", 0>> \in Block /\ RetBlock \in Block
      /\ RetBlock # <<"header", 0>> /\ <<"body", 0>> # <<"header", 0>>
  BY BlockParts DEF Init, RetBlock
<1>4. /\ Len(code[<<"header", 0>>]) = 1 /\ code[<<"header", 0>>][1] = Br(<<"body", 0>>)
      /\ \A b \in Block : b # <<"header", 0>> => Len(code[b]) = 0
  BY <1>3
<1>5. Tree
  BY <1>1 DEF Tree
<1>6. BreaksInLoops
  BY <1>1 DEF BreaksInLoops
<1>7. Links
  <2>1. ASSUME NEW b \in Block, NEW i \in 1 .. Len(code[b])
        PROVE  Linked(b, i)
    <3>0. b = <<"header", 0>>
      <4> SUFFICES ASSUME b # <<"header", 0>>
                   PROVE  FALSE
        OBVIOUS
      <4>1. Len(code[b]) = 0
        BY <1>4
      <4> QED
        BY <4>1
    <3>1. b = <<"header", 0>> /\ i = 1
      BY <1>4, <3>0
    <3>2. IsTarget(<<"body", 0>>)
      BY DEF IsTarget
    <3> QED
      BY <1>4, <3>1, <3>2 DEF Linked
  <2>2. Has(<<"header", 0>>, 1, Br(<<"body", 0>>))
    BY <1>4 DEF Has
  <2> QED
    BY <1>1, <1>3, <2>1, <2>2 DEF Links
<1>8. Joints
  <2> SUFFICES ASSUME NEW b \in Block, NEW i \in Nat, NEW p \in Nat,
                      NEW branch \in {"body", "then", "else"}, NEW m \in Nat,
                      Joint(b, i, p, branch, m)
               PROVE  GoesOn(b, i, p, branch, m)
    BY DEF Joints
  <2>1. i = 1 /\ b = <<"body", 0>> /\ p = 0 /\ branch = "body" /\ m = 0
    BY <1>1 DEF Joint
  <2>2. NoneAfter(p, branch, m)
    BY <1>1 DEF NoneAfter, Nested
  <2>3. IsHere(b, i)
    BY <1>1, <1>3, <1>4, <2>1 DEF IsHere
  <2> QED
    BY <1>2, <2>1, <2>2, <2>3 DEF GoesOn
<1> QED
  BY <1>5, <1>6, <1>7, <1>8 DEF EmitInv

LEMMA EmitStays == EmitInv /\ UNCHANGED vars => EmitInv'
<1> SUFFICES ASSUME EmitInv, UNCHANGED vars
             PROVE  EmitInv'
  OBVIOUS
<1>1. UNCHANGED <<void, prog, open, code, placed, cur, loops, phase>>
  BY DEF vars
<1>2. Tree'
  BY <1>1 DEF EmitInv, Tree
<1>3. BreaksInLoops'
  BY <1>1 DEF EmitInv, BreaksInLoops, LoopOf, IsLoop, Encloses
<1>4. /\ \A b, i, x : Has(b, i, x)' <=> Has(b, i, x)
      /\ \A s : (IsIf(s)' <=> IsIf(s)) /\ (IsLoop(s)' <=> IsLoop(s)) /\ LoopOf(s)' = LoopOf(s)
      /\ \A s : IsOpen(s)' <=> IsOpen(s)
      /\ \A p, branch : Nested(p, branch)' = Nested(p, branch)
      /\ \A p, branch : Visiting(p, branch)' <=> Visiting(p, branch)
      /\ \A b, i : IsHere(b, i)' <=> IsHere(b, i)
      /\ top' = top
  BY <1>1 DEF Has, IsIf, IsLoop, LoopOf, Encloses, IsOpen, Nested, Visiting, IsHere, top
<1>5. \A b : IsTarget(b)' <=> IsTarget(b)
  BY <1>1, <1>4 DEF IsTarget, RetBlock
<1>6. ASSUME NEW b, NEW i, Linked(b, i)
      PROVE  Linked(b, i)'
  BY <1>1, <1>4, <1>5, <1>6 DEF Linked, Do, Br, CondBr, Ret, IfNot, RetBlock
<1>7. Links'
  BY <1>1, <1>4, <1>6 DEF EmitInv, Links, CondBr, Br, Ret, RetBlock
<1>8. ASSUME NEW b, NEW i, NEW t, Begins(b, i, t)
      PROVE  Begins(b, i, t)'
  BY <1>1, <1>4, <1>8 DEF Begins, Do, Br, CondBr, IfNot, RetBlock
<1>9. ASSUME NEW b, NEW i, NEW p, Closes(b, i, p)
      PROVE  Closes(b, i, p)'
  BY <1>1, <1>4, <1>9 DEF Closes, Do, Br, RetBlock
<1>10. /\ \A t, p, branch, m : IsNext(t, p, branch, m)' <=> IsNext(t, p, branch, m)
       /\ \A p, branch, m : NoneAfter(p, branch, m)' <=> NoneAfter(p, branch, m)
  BY <1>4 DEF IsNext, NoneAfter
<1>11. ASSUME NEW b, NEW i, NEW p, NEW branch, NEW m, GoesOn(b, i, p, branch, m)
       PROVE  GoesOn(b, i, p, branch, m)'
  BY <1>1, <1>4, <1>8, <1>9, <1>10, <1>11 DEF GoesOn
<1>12. ASSUME NEW b, NEW i, NEW p, NEW branch, NEW m, Joint(b, i, p, branch, m)'
       PROVE  Joint(b, i, p, branch, m)
  BY <1>1, <1>4, <1>12 DEF Joint, Do
<1>13. Joints'
  BY <1>11, <1>12 DEF EmitInv, Joints
<1> QED
  BY <1>2, <1>3, <1>7, <1>13 DEF EmitInv

LEMMA EmitStep == VisitInv /\ CodeInv /\ EmitInv /\ [Next]_vars => EmitInv'
<1>1. ASSUME VisitInv, CodeInv, EmitInv, Visit
      PROVE  EmitInv'
  BY <1>1, SimpleEmit, BreakEmit, ReturnEmit, IfEmit, EndThenEmit, EndElseEmit, WhileEmit,
     EndWhileEmit, ForEmit, EndForEmit DEF Visit
<1> QED
  BY <1>1, EmitRetEmit, EmitStays DEF Next

-----------------------------------------------------------------------------
(* What follows a statement: After is well defined. *)

FollowsFrom(f, s) == FirstOf(f, prog[s].parent, Later(s))

LEMMA LeastIs ==
    ASSUME NEW S \in SUBSET Nat, NEW m \in S, \A k \in S : m <= k
    PROVE  Min(S) = m
<1>1. \A k \in S : k \in Nat
  OBVIOUS
<1>2. \E x \in S : \A y \in S : x <= y
  OBVIOUS
<1>3. Min(S) \in S /\ \A y \in S : Min(S) <= y
  BY <1>2 DEF Min
<1>4. PICK n : n = Min(S)
  OBVIOUS
<1>5. n \in Nat /\ m \in Nat /\ n <= m /\ m <= n
  BY <1>1, <1>3, <1>4
<1>6. n = m
  BY <1>5
<1> QED
  BY <1>4, <1>6

(* It depends on what follows earlier statements only. *)
LEMMA FollowsEarlier ==
    ASSUME VisitInv, Tree, BreaksInLoops, NEW s \in 1 .. Len(prog), NEW f, NEW g,
           \A u \in 1 .. s - 1 : f[u] = g[u]
    PROVE  FollowsFrom(f, s) = FollowsFrom(g, s)
<1>1. /\ Len(prog) \in Nat /\ s \in Nat
      /\ \A t \in 1 .. Len(prog) : prog[t].parent \in Nat /\ prog[t].parent < t
  BY Sizes DEF Tree
<1>2. EndOfBlock(f, prog[s].parent) = EndOfBlock(g, prog[s].parent)
  <2>1. prog[s].parent = 0 \/ prog[s].parent \in 1 .. s - 1
    BY <1>1
  <2> QED
    BY <2>1 DEF EndOfBlock
<1>3. CASE Later(s) = {}
  BY <1>2, <1>3 DEF FollowsFrom, FirstOf
<1>4. CASE Later(s) # {}
  <2>1. Later(s) \in SUBSET Nat
    BY <1>1 DEF Later, Nested
  <2>2. PICK t \in Later(s) : \A k \in Later(s) : t <= k
    BY <1>4, <2>1, FirstOfNat
  <2>3. Min(Later(s)) = t
    BY <2>1, <2>2, LeastIs
  <2>4. t \in 1 .. Len(prog) /\ t > s /\ prog[t].parent = prog[s].parent
    BY <2>2 DEF Later, Nested
  <2>5. StartOf(f, t) = StartOf(g, t)
    <3>1. CASE prog[t].kind = "break"
      <4>1. LoopOf(t) \in 1 .. t - 1 /\ Encloses(LoopOf(t), t)
        BY <2>4, <3>1 DEF BreaksInLoops
      <4>2. prog[t].parent >= LoopOf(t)
        <5>1. t \in LoopOf(t) + 1 .. t
          BY <1>1, <2>4, <4>1
        <5> QED
          BY <4>1, <5>1 DEF Encloses
      <4>3. LoopOf(t) \in 1 .. s - 1
        BY <1>1, <2>4, <4>1, <4>2
      <4> QED
        BY <3>1, <4>3 DEF StartOf
    <3>2. CASE prog[t].kind # "break"
      BY <3>2 DEF StartOf
    <3> QED
      BY <3>1, <3>2
  <2> QED
    BY <1>4, <2>3, <2>5 DEF FollowsFrom, FirstOf
<1> QED
  BY <1>3, <1>4

IsAfter(f) == f = [s \in 1 .. Len(prog) |-> FollowsFrom(f, s)]

LEMMA AfterExists ==
    ASSUME VisitInv, Tree, BreaksInLoops
    PROVE  \E f : IsAfter(f)
<1> DEFINE Upto(n) == \E f : /\ f = [s \in 1 .. Len(prog) |-> f[s]]
                             /\ \A s \in 1 .. n : f[s] = FollowsFrom(f, s)
           Bad == {n \in 0 .. Len(prog) : ~Upto(n)}
<1>1. Len(prog) \in Nat
  BY Sizes
<1>2. Bad = {}
  <2> SUFFICES ASSUME Bad # {}
               PROVE  FALSE
    OBVIOUS
  <2>1. Bad \in SUBSET Nat
    BY <1>1
  <2>2. PICK n \in Bad : \A k \in Bad : n <= k
    <3> HIDE DEF Bad
    <3> QED
      BY <2>1, FirstOfNat
  <2>3. n \in 0 .. Len(prog) /\ ~Upto(n)
    OBVIOUS
  <2>4. CASE n = 0
    <3>1. \E f : f = [s \in 1 .. Len(prog) |-> f[s]]
      <4> DEFINE f == [s \in 1 .. Len(prog) |-> 0]
      <4>1. f = [s \in 1 .. Len(prog) |-> f[s]]
        OBVIOUS
      <4> QED
        BY <4>1
    <3>2. \A s \in 1 .. n : FALSE
      BY <2>4
    <3>3. Upto(n)
      BY <3>1, <3>2
    <3> QED
      BY <2>3, <3>3
  <2>5. CASE n # 0
    <3>1. n - 1 \in 0 .. Len(prog) /\ n \in 1 .. Len(prog) /\ ~(n <= n - 1)
      BY <1>1, <2>3, <2>5
    <3>2. n - 1 \notin Bad
      <4> HIDE DEF Bad
      <4> QED
        BY <2>2, <3>1
    <3>3. Upto(n - 1)
      BY <3>1, <3>2
    <3>4. PICK f : /\ f = [s \in 1 .. Len(prog) |-> f[s]]
                   /\ \A s \in 1 .. n - 1 : f[s] = FollowsFrom(f, s)
      BY <3>3
    <3>5. PICK x : x = FollowsFrom(f, n)
      OBVIOUS
    <3>6. PICK g : g = [s \in 1 .. Len(prog) |-> IF s = n THEN x ELSE f[s]]
      OBVIOUS
    <3>7. g = [s \in 1 .. Len(prog) |-> g[s]]
      BY <3>6
    <3>8. ASSUME NEW s \in 1 .. n
          PROVE  g[s] = FollowsFrom(g, s)
      <4>1. s \in 1 .. Len(prog) /\ \A u \in 1 .. s - 1 : u \in 1 .. Len(prog) /\ u # n
        BY <1>1, <3>1
      <4>2. \A u \in 1 .. s - 1 : f[u] = g[u]
        BY <3>6, <4>1
      <4>3. FollowsFrom(f, s) = FollowsFrom(g, s)
        BY <4>1, <4>2, FollowsEarlier
      <4>4. CASE s = n
        BY <3>5, <3>6, <4>1, <4>3, <4>4
      <4>5. CASE s # n
        <5>1. s \in 1 .. n - 1
          BY <3>1, <4>5
        <5> QED
          BY <3>4, <3>6, <4>1, <4>3, <4>5, <5>1
      <4> QED
        BY <4>4, <4>5
    <3>9. Upto(n)
      BY <3>7, <3>8
    <3> QED
      BY <2>3, <3>9
  <2> QED
    BY <2>4, <2>5
<1>3. Upto(Len(prog))
  BY <1>1, <1>2
<1>4. PICK f : /\ f = [s \in 1 .. Len(prog) |-> f[s]]
               /\ \A s \in 1 .. Len(prog) : f[s] = FollowsFrom(f, s)
  BY <1>3
<1>5. f = [s \in 1 .. Len(prog) |-> FollowsFrom(f, s)]
  BY <1>4
<1> QED
  BY <1>5 DEF IsAfter

LEMMA AfterIs ==
    ASSUME VisitInv, Tree, BreaksInLoops
    PROVE  IsAfter(After)
<1>1. \E f : f = [s \in 1 .. Len(prog) |-> FirstOf(f, prog[s].parent, Later(s))]
  BY AfterExists DEF IsAfter, FollowsFrom
<1> QED
  BY <1>1 DEF After, IsAfter, FollowsFrom

LEMMA AfterUnique ==
    ASSUME VisitInv, Tree, BreaksInLoops, NEW f, NEW g, IsAfter(f), IsAfter(g)
    PROVE  f = g
<1>1. Len(prog) \in Nat
  BY Sizes
<1>2. \A s \in 1 .. Len(prog) : f[s] = FollowsFrom(f, s) /\ g[s] = FollowsFrom(g, s)
  <2>1. f = [s \in 1 .. Len(prog) |-> FollowsFrom(f, s)]
    BY DEF IsAfter
  <2>2. g = [s \in 1 .. Len(prog) |-> FollowsFrom(g, s)]
    BY DEF IsAfter
  <2>3. \A s \in 1 .. Len(prog) : f[s] = FollowsFrom(f, s)
    BY <2>1
  <2>4. \A s \in 1 .. Len(prog) : g[s] = FollowsFrom(g, s)
    BY <2>2
  <2> QED
    BY <2>3, <2>4
<1> DEFINE Bad == {s \in 1 .. Len(prog) : f[s] # g[s]}
<1>3. Bad = {}
  <2> SUFFICES ASSUME Bad # {}
               PROVE  FALSE
    OBVIOUS
  <2>1. Bad \in SUBSET Nat
    BY <1>1
  <2>2. PICK s \in Bad : \A k \in Bad : s <= k
    <3> HIDE DEF Bad
    <3> QED
      BY <2>1, FirstOfNat
  <2>3. s \in 1 .. Len(prog) /\ f[s] # g[s]
    OBVIOUS
  <2>4. \A u \in 1 .. s - 1 : u \notin Bad
    <3>1. \A u \in 1 .. s - 1 : ~(s <= u)
      BY <1>1, <2>3
    <3> HIDE DEF Bad
    <3> QED
      BY <2>2, <3>1
  <2>5. \A u \in 1 .. s - 1 : f[u] = g[u]
    BY <1>1, <2>3, <2>4
  <2>6. FollowsFrom(f, s) = FollowsFrom(g, s)
    BY <2>3, <2>5, FollowsEarlier
  <2> QED
    BY <1>2, <2>3, <2>6
<1>4. \A s \in 1 .. Len(prog) : FollowsFrom(f, s) = FollowsFrom(g, s)
  BY <1>2, <1>3
<1> QED
  BY <1>4 DEF IsAfter

(* When neither statements nor void change, neither does what follows them. *)
LEMMA FollowsStays ==
    ASSUME prog' = prog, void' = void
    PROVE  /\ \A f, s, S : FirstOf(f, s, S)' = FirstOf(f, s, S)
           /\ \A s : Later(s)' = Later(s)
           /\ \A p, branch : Nested(p, branch)' = Nested(p, branch)
<1>1. \A s : LoopOf(s)' = LoopOf(s)
  BY DEF LoopOf, IsLoop, Encloses
<1>2. \A f, s : StartOf(f, s)' = StartOf(f, s)
  BY <1>1 DEF StartOf, Exit
<1>3. \A f, s : EndOfBlock(f, s)' = EndOfBlock(f, s)
  BY DEF EndOfBlock, Exit
<1>4. \A f, s, S : FirstOf(f, s, S)' = FirstOf(f, s, S)
  BY <1>2, <1>3 DEF FirstOf
<1>5. \A p, branch : Nested(p, branch)' = Nested(p, branch)
  BY DEF Nested
<1>6. \A s : Later(s)' = Later(s)
  BY <1>5 DEF Later
<1> QED
  BY <1>4, <1>5, <1>6

LEMMA AfterIsThen == VisitInv' /\ Tree' /\ BreaksInLoops' => IsAfter(After)'
<1>1. VisitInv /\ Tree /\ BreaksInLoops => IsAfter(After)
  BY AfterIs
<1> QED
  BY <1>1, PTL

LEMMA AfterStays ==
    ASSUME VisitInv, Tree, BreaksInLoops, VisitInv', Tree', BreaksInLoops',
           prog' = prog, void' = void
    PROVE  After' = After
<1>1. PICK f : f = After'
  OBVIOUS
<1>2. IsAfter(After)
  BY AfterIs
<1>3. IsAfter(After)'
  BY AfterIsThen
<1>4. f = [s \in 1 .. Len(prog) |-> FollowsFrom(After, s)']
  BY <1>1, <1>3 DEF IsAfter
<1>5. ASSUME NEW s \in 1 .. Len(prog)
      PROVE  FollowsFrom(After, s)' = FollowsFrom(f, s)
  <2>1. FollowsFrom(After, s)' = FirstOf(f, prog[s].parent, Later(s))'
    BY <1>1 DEF FollowsFrom
  <2>2. PICK p : p = prog[s].parent
    OBVIOUS
  <2>3. PICK S : S = Later(s)
    OBVIOUS
  <2>4. p = prog'[s].parent /\ S = Later(s)'
    BY <2>2, <2>3, FollowsStays
  <2>5. FirstOf(f, prog[s].parent, Later(s))' = FirstOf(f, p, S)'
    BY <2>4
  <2>6. FirstOf(f, p, S)' = FirstOf(f, p, S)
    BY FollowsStays
  <2> QED
    BY <2>1, <2>2, <2>3, <2>5, <2>6 DEF FollowsFrom
<1>6. f = [s \in 1 .. Len(prog) |-> FollowsFrom(f, s)]
  BY <1>4, <1>5
<1>7. IsAfter(f)
  BY <1>6 DEF IsAfter
<1>8. f = After
  BY <1>2, <1>7, AfterUnique
<1> QED
  BY <1>1, <1>8

-----------------------------------------------------------------------------
(* What the code means: what the function does next at a place of it *)

Entry(b) ==
    CASE b = RetBlock -> Exit
      [] b = <<"body", 0>> -> FirstOf(After, 0, Nested(0, "body"))
      [] b[1] = "if.then" -> FirstOf(After, b[2], Nested(b[2], "then"))
      [] b[1] = "if.else" -> FirstOf(After, b[2], Nested(b[2], "else"))
      [] b[1] = "loop.body" -> FirstOf(After, b[2], Nested(b[2], "body"))
      [] b[1] = "loop.header" -> <<"test", b[2]>>
      [] OTHER -> After[b[2]]

MeansInstr(x) ==
    CASE x.op \in {"do", "condbr"} -> x.what
      [] x.op = "br" -> Entry(x.to)
      [] OTHER -> Exit

Means(b, i) == MeansInstr(code[b][i])

LEMMA EntryIs ==
    /\ Entry(RetBlock) = Exit
    /\ Entry(<<"body", 0>>) = FirstOf(After, 0, Nested(0, "body"))
    /\ \A s : /\ Entry(<<"if.then", s>>) = FirstOf(After, s, Nested(s, "then"))
              /\ Entry(<<"if.else", s>>) = FirstOf(After, s, Nested(s, "else"))
              /\ Entry(<<"loop.body", s>>) = FirstOf(After, s, Nested(s, "body"))
              /\ Entry(<<"loop.header", s>>) = <<"test", s>>
              /\ Entry(<<"if.cont", s>>) = After[s]
              /\ Entry(<<"loop.end", s>>) = After[s]
<1>1. Entry(RetBlock) = Exit
  BY DEF Entry, RetBlock
<1>2. Entry(<<"body", 0>>) = FirstOf(After, 0, Nested(0, "body"))
  BY DEF Entry, RetBlock
<1>3. ASSUME NEW s, NEW p \in Parts, NEW b, b = <<p, s>>
      PROVE  b # RetBlock /\ b # <<"body", 0>> /\ b[1] = p /\ b[2] = s
  BY <1>3 DEF RetBlock, Parts
<1>4. ASSUME NEW s
      PROVE  /\ Entry(<<"if.then", s>>) = FirstOf(After, s, Nested(s, "then"))
             /\ Entry(<<"if.else", s>>) = FirstOf(After, s, Nested(s, "else"))
             /\ Entry(<<"loop.body", s>>) = FirstOf(After, s, Nested(s, "body"))
             /\ Entry(<<"loop.header", s>>) = <<"test", s>>
             /\ Entry(<<"if.cont", s>>) = After[s]
             /\ Entry(<<"loop.end", s>>) = After[s]
  BY <1>3 DEF Entry, Parts
<1> QED
  BY <1>1, <1>2, <1>4

LEMMA MeansIs ==
    /\ \A w, s : MeansInstr(Do(w, s)) = <<w, s>>
    /\ \A b : MeansInstr(Br(b)) = Entry(b)
    /\ \A s, t, e : MeansInstr(CondBr(s, t, e)) = <<"test", s>>
    /\ MeansInstr(Ret) = Exit
BY DEF MeansInstr, Do, Br, CondBr, Ret

(* The statements of a block behind statement m *)
Behind(p, branch, m) == {t \in Nested(p, branch) : t > m}

LEMMA BeginsMeans ==
    ASSUME NEW b, NEW i, NEW t, Begins(b, i, t)
    PROVE  i \in 1 .. Len(code[b]) /\ Means(b, i) = StartOf(After, t)
<1>1. /\ i \in 1 .. Len(code[b])
      /\ \/ prog[t].kind = "eval" /\ code[b][i] = Do("eval", t)
         \/ prog[t].kind = "break" /\ code[b][i] = Br(<<"loop.end", LoopOf(t)>>)
         \/ prog[t].kind = "return" /\ code[b][i] = IF void THEN Br(RetBlock) ELSE Do("value", t)
         \/ IsIf(t) /\ code[b][i] = CondBr(t, <<"if.then", t>>, IfNot(prog[t].kind, t))
         \/ prog[t].kind = "while" /\ code[b][i] = Br(<<"loop.header", t>>)
         \/ prog[t].kind = "for" /\ code[b][i] = Do("setup", t)
  BY DEF Begins, Has
<1>2. CASE prog[t].kind = "eval" /\ code[b][i] = Do("eval", t)
  BY <1>1, <1>2, MeansIs DEF Means, StartOf
<1>3. CASE prog[t].kind = "break" /\ code[b][i] = Br(<<"loop.end", LoopOf(t)>>)
  <2>1. Means(b, i) = After[LoopOf(t)]
    BY <1>3, MeansIs, EntryIs DEF Means
  <2> QED
    BY <1>1, <1>3, <2>1 DEF StartOf
<1>4. CASE prog[t].kind = "return" /\ code[b][i] = IF void THEN Br(RetBlock) ELSE Do("value", t)
  <2>1. Means(b, i) = IF void THEN Exit ELSE <<"value", t>>
    BY <1>4, MeansIs, EntryIs DEF Means
  <2> QED
    BY <1>1, <1>4, <2>1 DEF StartOf
<1>5. CASE IsIf(t) /\ code[b][i] = CondBr(t, <<"if.then", t>>, IfNot(prog[t].kind, t))
  <2>1. Means(b, i) = <<"test", t>>
    BY <1>5, MeansIs DEF Means
  <2> QED
    BY <1>1, <1>5, <2>1 DEF StartOf, IsIf
<1>6. CASE prog[t].kind = "while" /\ code[b][i] = Br(<<"loop.header", t>>)
  <2>1. Means(b, i) = <<"test", t>>
    BY <1>6, MeansIs, EntryIs DEF Means
  <2> QED
    BY <1>1, <1>6, <2>1 DEF StartOf
<1>7. CASE prog[t].kind = "for" /\ code[b][i] = Do("setup", t)
  <2>1. Means(b, i) = <<"setup", t>>
    BY <1>7, MeansIs DEF Means
  <2> QED
    BY <1>1, <1>7, <2>1 DEF StartOf
<1> QED
  BY <1>1, <1>2, <1>3, <1>4, <1>5, <1>6, <1>7

LEMMA ClosesMeans ==
    ASSUME Len(prog) \in Nat, NEW b, NEW i, NEW p, Closes(b, i, p)
    PROVE  i \in 1 .. Len(code[b]) /\ Means(b, i) = EndOfBlock(After, p)
<1>1. CASE p = 0 /\ Has(b, i, Br(RetBlock))
  BY <1>1, MeansIs, EntryIs DEF Means, Has, EndOfBlock
<1>2. CASE p \in 1 .. Len(prog)
  <2>1. /\ i \in 1 .. Len(code[b]) /\ p # 0
        /\ \/ IsIf(p) /\ code[b][i] = Br(<<"if.cont", p>>)
           \/ prog[p].kind = "while" /\ code[b][i] = Br(<<"loop.header", p>>)
           \/ prog[p].kind = "for" /\ code[b][i] = Do("next", p)
    BY <1>2 DEF Closes, Has
  <2>2. CASE IsIf(p) /\ code[b][i] = Br(<<"if.cont", p>>)
    <3>1. Means(b, i) = After[p]
      BY <2>2, MeansIs, EntryIs DEF Means
    <3> QED
      BY <2>1, <2>2, <3>1 DEF EndOfBlock, IsIf
  <2>3. CASE prog[p].kind = "while" /\ code[b][i] = Br(<<"loop.header", p>>)
    <3>1. Means(b, i) = <<"test", p>>
      BY <2>3, MeansIs, EntryIs DEF Means
    <3> QED
      BY <2>1, <2>3, <3>1 DEF EndOfBlock
  <2>4. CASE prog[p].kind = "for" /\ code[b][i] = Do("next", p)
    <3>1. Means(b, i) = <<"next", p>>
      BY <2>4, MeansIs DEF Means
    <3> QED
      BY <2>1, <2>4, <3>1 DEF EndOfBlock
  <2> QED
    BY <2>1, <2>2, <2>3, <2>4
<1> QED
  BY <1>1, <1>2 DEF Closes

LEMMA GoesMeans ==
    ASSUME VisitInv, phase = "done", NEW b, NEW i, NEW p, NEW branch, NEW m \in Nat,
           GoesOn(b, i, p, branch, m)
    PROVE  /\ i \in 1 .. Len(code[b])
           /\ Means(b, i) = FirstOf(After, p, Behind(p, branch, m))
<1>1. Len(prog) \in Nat
  BY Sizes
<1>2. Behind(p, branch, m) \in SUBSET Nat
  BY <1>1 DEF Behind, Nested
<1>3. CASE \E t \in 1 .. Len(prog) : IsNext(t, p, branch, m) /\ Begins(b, i, t)
  <2>1. PICK t \in 1 .. Len(prog) : IsNext(t, p, branch, m) /\ Begins(b, i, t)
    BY <1>3
  <2>2. t \in Behind(p, branch, m) /\ \A k \in Behind(p, branch, m) : t <= k
    BY <2>1 DEF IsNext, Behind
  <2>3. Min(Behind(p, branch, m)) = t
    BY <1>2, <2>2, LeastIs
  <2>4. FirstOf(After, p, Behind(p, branch, m)) = StartOf(After, t)
    BY <2>2, <2>3 DEF FirstOf
  <2> QED
    BY <2>1, <2>4, BeginsMeans
<1>4. CASE NoneAfter(p, branch, m) /\ Closes(b, i, p)
  <2>1. Behind(p, branch, m) = {}
    <3> SUFFICES ASSUME NEW u \in Nested(p, branch), u > m
                 PROVE  FALSE
      BY DEF Behind
    <3>1. u <= m /\ u \in Nat
      BY <1>1, <1>4 DEF NoneAfter, Nested
    <3> QED
      BY <3>1
  <2>2. FirstOf(After, p, Behind(p, branch, m)) = EndOfBlock(After, p)
    BY <2>1 DEF FirstOf
  <2> QED
    BY <1>1, <1>4, <2>2, ClosesMeans
<1> QED
  BY <1>3, <1>4 DEF GoesOn, IsHere

(* What follows a statement, and what a block of statements begins with *)
LEMMA BehindIs ==
    ASSUME VisitInv, Tree, BreaksInLoops, NEW s \in 1 .. Len(prog)
    PROVE  /\ FirstOf(After, prog[s].parent, Behind(prog[s].parent, prog[s].branch, s)) = After[s]
           /\ \A branch : Behind(s, branch, s) = Nested(s, branch)
           /\ \A branch : Behind(0, branch, 0) = Nested(0, branch)
<1>1. /\ Len(prog) \in Nat
      /\ \A t \in 1 .. Len(prog) : prog[t].parent \in Nat /\ prog[t].parent < t
  BY Sizes DEF Tree
<1>2. Behind(prog[s].parent, prog[s].branch, s) = Later(s)
  BY DEF Behind, Later
<1>3. After[s] = FollowsFrom(After, s)
  <2>1. After = [t \in 1 .. Len(prog) |-> FollowsFrom(After, t)]
    BY AfterIs DEF IsAfter
  <2> QED
    BY <2>1
<1>4. \A branch : Behind(s, branch, s) = Nested(s, branch)
  BY <1>1 DEF Behind, Nested
<1>5. \A branch : Behind(0, branch, 0) = Nested(0, branch)
  BY <1>1 DEF Behind, Nested
<1> QED
  BY <1>2, <1>3, <1>4, <1>5 DEF FollowsFrom

(* Where the instructions go, when the function is done *)
LEMMA JointMeans ==
    ASSUME VisitInv, EmitInv, phase = "done", NEW b \in Block, NEW i \in Nat, NEW p \in Nat,
           NEW branch \in {"body", "then", "else"}, NEW m \in Nat, Joint(b, i, p, branch, m)
    PROVE  /\ i \in 1 .. Len(code[b])
           /\ Means(b, i) = FirstOf(After, p, Behind(p, branch, m))
<1>1. GoesOn(b, i, p, branch, m)
  BY DEF EmitInv, Joints
<1> QED
  BY <1>1, GoesMeans

LEMMA TargetMeans ==
    ASSUME VisitInv, EmitInv, phase = "done", NEW b, IsTarget(b)
    PROVE  b \in Block /\ 1 \in 1 .. Len(code[b]) /\ Means(b, 1) = Entry(b)
<1>0. /\ Len(prog) \in Nat /\ Len(prog) <= MaxStmts /\ MaxStmts \in Nat
      /\ \A t \in 1 .. Len(prog) :
            prog[t].parent \in Nat /\ prog[t].branch \in {"body", "then", "else"}
  BY Sizes, TopFacts
<1>1. \A s : ~IsOpen(s) /\ \A branch : ~Visiting(s, branch)
  BY DEF IsOpen, Visiting
<1>2. CASE b = RetBlock
  <2>1. Has(RetBlock, 1, Ret)
    BY DEF EmitInv, Links
  <2> QED
    BY <1>2, <2>1, BlockParts, EntryIs, MeansIs DEF Has, Means
<1>3. CASE b = <<"body", 0>>
  <2>1. Joint(b, 1, 0, "body", 0)
    BY <1>3 DEF Joint
  <2>2. 1 \in 1 .. Len(code[b]) /\ Means(b, 1) = FirstOf(After, 0, Behind(0, "body", 0))
    BY <1>3, <2>1, BlockParts, JointMeans
  <2>3. Behind(0, "body", 0) = Nested(0, "body")
    BY <1>0 DEF Behind, Nested
  <2> QED
    BY <1>3, <2>2, <2>3, BlockParts, EntryIs
<1>4. ASSUME NEW s \in 1 .. Len(prog),
             \/ IsIf(s) /\ b \in {<<"if.then", s>>, <<"if.cont", s>>}
             \/ prog[s].kind = "ifelse" /\ b = <<"if.else", s>>
             \/ IsLoop(s) /\ b \in {<<"loop.header", s>>, <<"loop.body", s>>, <<"loop.end", s>>}
      PROVE  b \in Block /\ 1 \in 1 .. Len(code[b]) /\ Means(b, 1) = Entry(b)
  <2>1. b \in Block /\ s \in Nat
    BY <1>0, <1>4, BlockParts DEF Parts, Stmt
  <2>2. ASSUME NEW branch \in {"body", "then", "else"}, Joint(b, 1, s, branch, s),
               Entry(b) = FirstOf(After, s, Nested(s, branch))
        PROVE  1 \in 1 .. Len(code[b]) /\ Means(b, 1) = Entry(b)
    <3>1. Behind(s, branch, s) = Nested(s, branch)
      BY BehindIs DEF EmitInv
    <3> QED
      BY <2>1, <2>2, <3>1, JointMeans
  <2>3. CASE IsIf(s) /\ b = <<"if.then", s>>
    <3>1. Joint(b, 1, s, "then", s)
      BY <2>3 DEF Joint
    <3> QED
      BY <2>1, <2>2, <2>3, <3>1, EntryIs
  <2>4. CASE prog[s].kind = "ifelse" /\ b = <<"if.else", s>>
    <3>1. Joint(b, 1, s, "else", s)
      BY <1>1, <2>4 DEF Joint
    <3> QED
      BY <2>1, <2>2, <2>4, <3>1, EntryIs
  <2>5. CASE IsLoop(s) /\ b = <<"loop.body", s>>
    <3>1. Joint(b, 1, s, "body", s)
      BY <2>5 DEF Joint
    <3> QED
      BY <2>1, <2>2, <2>5, <3>1, EntryIs
  <2>6. CASE IsLoop(s) /\ b = <<"loop.header", s>>
    <3>1. Has(b, 1, CondBr(s, <<"loop.body", s>>, <<"loop.end", s>>))
      BY <2>6 DEF EmitInv, Links
    <3> QED
      BY <2>1, <2>6, <3>1, EntryIs, MeansIs DEF Has, Means
  <2>7. CASE (IsIf(s) /\ b = <<"if.cont", s>>) \/ (IsLoop(s) /\ b = <<"loop.end", s>>)
    <3>1. Joint(b, 1, prog[s].parent, prog[s].branch, s)
      BY <1>1, <2>7 DEF Joint
    <3>2. /\ 1 \in 1 .. Len(code[b])
          /\ Means(b, 1) = FirstOf(After, prog[s].parent, Behind(prog[s].parent, prog[s].branch, s))
      BY <1>0, <2>1, <3>1, JointMeans
    <3>3. Means(b, 1) = After[s]
      BY <3>2, BehindIs DEF EmitInv
    <3> QED
      BY <2>1, <2>7, <3>2, <3>3, EntryIs
  <2> QED
    BY <1>4, <2>1, <2>3, <2>4, <2>5, <2>6, <2>7
<1> QED
  BY <1>2, <1>3, <1>4 DEF IsTarget

-----------------------------------------------------------------------------
(* The code runs. *)

(* The inductive invariant of InSync: when the function is called, what it  *)
(* does next is what the code means where it is.                            *)
RunInv ==
    /\ phase = "emit" => at = <<<<"header", 0>>, 1>> /\ ~halted
    /\ Running =>
          \E b \in Block, i \in Nat :
              at = <<b, i>> /\ i \in 1 .. Len(code[b]) /\ expect = Means(b, i)

LEMMA OpsDiffer ==
    /\ \A w, s : Do(w, s).op = "do" /\ Do(w, s).what = <<w, s>>
    /\ \A b : Br(b).op = "br" /\ Br(b).to = b
    /\ \A s, t, e : /\ CondBr(s, t, e).op = "condbr" /\ CondBr(s, t, e).what[2] = s
                    /\ CondBr(s, t, e).then = t /\ CondBr(s, t, e).else = e
    /\ Ret.op = "ret"
BY DEF Do, Br, CondBr, Ret

(* An instruction by its kind *)
LEMMA LinkedOps ==
    ASSUME NEW b, NEW i, Linked(b, i)
    PROVE  /\ code[b][i].op = "do" =>
                \E s \in 1 .. Len(prog) :
                   \/ code[b][i] = Do("eval", s)
                   \/ code[b][i] = Do("value", s) /\ Has(b, i + 1, Br(RetBlock))
                   \/ /\ code[b][i] \in {Do("setup", s), Do("next", s)}
                      /\ Has(b, i + 1, Br(<<"loop.header", s>>))
           /\ code[b][i].op = "condbr" =>
                \E s \in 1 .. Len(prog) :
                   \/ IsIf(s) /\ code[b][i] = CondBr(s, <<"if.then", s>>, IfNot(prog[s].kind, s))
                   \/ IsLoop(s) /\ code[b][i] = CondBr(s, <<"loop.body", s>>, <<"loop.end", s>>)
           /\ code[b][i].op = "br" => \E t : IsTarget(t) /\ code[b][i] = Br(t)
<1> DEFINE x == code[b][i]
<1>1. CASE \E s \in 1 .. Len(prog) :
              \/ x = Do("eval", s)
              \/ x = Do("value", s) /\ Has(b, i + 1, Br(RetBlock))
              \/ /\ x \in {Do("setup", s), Do("next", s)}
                 /\ prog[s].kind = "for" /\ Has(b, i + 1, Br(<<"loop.header", s>>))
  <2>1. x.op = "do"
    BY <1>1, OpsDiffer
  <2> QED
    BY <1>1, <2>1
<1>2. CASE \E s \in 1 .. Len(prog) :
              \/ IsIf(s) /\ x = CondBr(s, <<"if.then", s>>, IfNot(prog[s].kind, s))
              \/ IsLoop(s) /\ x = CondBr(s, <<"loop.body", s>>, <<"loop.end", s>>)
  <2>1. x.op = "condbr"
    BY <1>2, OpsDiffer
  <2> QED
    BY <1>2, <2>1
<1>3. CASE \E t : IsTarget(t) /\ x = Br(t)
  <2>1. x.op = "br"
    BY <1>3, OpsDiffer
  <2> QED
    BY <1>3, <2>1
<1>4. CASE x = Ret
  <2>1. x.op = "ret"
    BY <1>4, OpsDiffer
  <2> QED
    BY <2>1
<1> QED
  BY <1>1, <1>2, <1>3, <1>4 DEF Linked

(* Where an instruction leads to, and what that means *)
LEMMA DoLeads ==
    ASSUME VisitInv, EmitInv, phase = "done", NEW b \in Block, NEW i \in 1 .. Len(code[b]),
           code[b][i].op = "do"
    PROVE  i + 1 \in 1 .. Len(code[b]) /\ Means(b, i + 1) = Step(code[b][i].what)
<1>0. /\ Len(prog) \in Nat /\ i \in Nat
      /\ \A t \in 1 .. Len(prog) :
            prog[t].parent \in Nat /\ prog[t].branch \in {"body", "then", "else"}
  BY Sizes
<1>1. PICK s \in 1 .. Len(prog) :
         \/ code[b][i] = Do("eval", s)
         \/ code[b][i] = Do("value", s) /\ Has(b, i + 1, Br(RetBlock))
         \/ /\ code[b][i] \in {Do("setup", s), Do("next", s)}
            /\ Has(b, i + 1, Br(<<"loop.header", s>>))
  <2>1. Linked(b, i)
    BY DEF EmitInv, Links
  <2> QED
    BY <2>1, LinkedOps
<1>2. CASE code[b][i] = Do("eval", s)
  <2>1. Joint(b, i + 1, prog[s].parent, prog[s].branch, s)
    BY <1>0, <1>2 DEF Joint
  <2>2. /\ i + 1 \in 1 .. Len(code[b])
        /\ Means(b, i + 1) = FirstOf(After, prog[s].parent, Behind(prog[s].parent, prog[s].branch, s))
    BY <1>0, <2>1, JointMeans
  <2>3. Means(b, i + 1) = After[s]
    BY <2>2, BehindIs DEF EmitInv
  <2> QED
    BY <1>2, <2>2, <2>3, OpsDiffer DEF Step
<1>3. CASE code[b][i] = Do("value", s) /\ Has(b, i + 1, Br(RetBlock))
  <2>1. i + 1 \in 1 .. Len(code[b]) /\ Means(b, i + 1) = Exit
    BY <1>3, MeansIs, EntryIs DEF Has, Means
  <2> QED
    BY <1>3, <2>1, OpsDiffer DEF Step
<1>4. CASE code[b][i] \in {Do("setup", s), Do("next", s)} /\ Has(b, i + 1, Br(<<"loop.header", s>>))
  <2>1. i + 1 \in 1 .. Len(code[b]) /\ Means(b, i + 1) = <<"test", s>>
    BY <1>4, MeansIs, EntryIs DEF Has, Means
  <2> QED
    BY <1>4, <2>1, OpsDiffer DEF Step
<1> QED
  BY <1>1, <1>2, <1>3, <1>4

LEMMA BrLeads ==
    ASSUME VisitInv, EmitInv, phase = "done", NEW b \in Block, NEW i \in 1 .. Len(code[b]),
           code[b][i].op = "br", NEW t, t = code[b][i].to
    PROVE  t \in Block /\ 1 \in 1 .. Len(code[t]) /\ Means(t, 1) = Means(b, i)
<1>1. IsTarget(t) /\ code[b][i] = Br(t)
  <2>1. Linked(b, i)
    BY DEF EmitInv, Links
  <2>2. PICK u : IsTarget(u) /\ code[b][i] = Br(u)
    BY <2>1, LinkedOps
  <2> QED
    BY <2>2, OpsDiffer
<1> QED
  BY <1>1, TargetMeans, MeansIs DEF Means

LEMMA CondBrLeads ==
    ASSUME VisitInv, EmitInv, phase = "done", NEW b \in Block, NEW i \in 1 .. Len(code[b]),
           code[b][i].op = "condbr", NEW taken \in BOOLEAN,
           NEW t, t = IF taken THEN code[b][i].then ELSE code[b][i].else
    PROVE  /\ t \in Block /\ 1 \in 1 .. Len(code[t])
           /\ Means(t, 1) = Test(code[b][i].what[2], taken)
<1>1. PICK s \in 1 .. Len(prog) :
         \/ IsIf(s) /\ code[b][i] = CondBr(s, <<"if.then", s>>, IfNot(prog[s].kind, s))
         \/ IsLoop(s) /\ code[b][i] = CondBr(s, <<"loop.body", s>>, <<"loop.end", s>>)
  <2>1. Linked(b, i)
    BY DEF EmitInv, Links
  <2> QED
    BY <2>1, LinkedOps
<1>2. code[b][i].what[2] = s
  BY <1>1, OpsDiffer
<1>3. CASE IsIf(s) /\ code[b][i] = CondBr(s, <<"if.then", s>>, IfNot(prog[s].kind, s))
  <2>1. t = IF taken THEN <<"if.then", s>> ELSE IfNot(prog[s].kind, s)
    BY <1>3, OpsDiffer
  <2>2. IsTarget(t)
    BY <1>3, <2>1 DEF IsTarget, IfNot, IsIf
  <2>3. Entry(t) = Test(s, taken)
    <3>1. CASE taken
      BY <1>3, <2>1, <3>1, EntryIs DEF Test, BranchOf, IsIf, IsLoop
    <3>2. CASE ~taken /\ prog[s].kind = "ifelse"
      BY <1>3, <2>1, <3>2, EntryIs DEF Test, BranchOf, IfNot
    <3>3. CASE ~taken /\ prog[s].kind # "ifelse"
      BY <1>3, <2>1, <3>3, EntryIs DEF Test, IfNot
    <3> QED
      BY <3>1, <3>2, <3>3
  <2> QED
    BY <1>2, <2>2, <2>3, TargetMeans
<1>4. CASE IsLoop(s) /\ code[b][i] = CondBr(s, <<"loop.body", s>>, <<"loop.end", s>>)
  <2>1. t = IF taken THEN <<"loop.body", s>> ELSE <<"loop.end", s>>
    BY <1>4, OpsDiffer
  <2>2. IsTarget(t)
    BY <1>4, <2>1 DEF IsTarget
  <2>3. Entry(t) = Test(s, taken)
    <3>1. CASE taken
      BY <1>4, <2>1, <3>1, EntryIs DEF Test, BranchOf
    <3>2. CASE ~taken
      BY <1>4, <2>1, <3>2, EntryIs DEF Test, IsLoop
    <3> QED
      BY <3>1, <3>2
  <2> QED
    BY <1>2, <2>2, <2>3, TargetMeans
<1> QED
  BY <1>1, <1>3, <1>4

(* The call goes through the header to the body. *)
HeaderGoes ==
    /\ 1 \in 1 .. Len(code[<<"header", 0>>])
    /\ Means(<<"header", 0>>, 1) = FirstOf(After, 0, Nested(0, "body"))

LEMMA HeaderMeans == EmitInv => HeaderGoes
<1> SUFFICES ASSUME EmitInv
             PROVE  HeaderGoes
  OBVIOUS
<1>1. Has(<<"header", 0>>, 1, Br(<<"body", 0>>))
  BY DEF EmitInv, Links
<1> QED
  BY <1>1, MeansIs, EntryIs DEF Has, Means, HeaderGoes

LEMMA HeaderMeansThen == EmitInv' => HeaderGoes'
<1>1. EmitInv => HeaderGoes
  BY HeaderMeans
<1> QED
  BY <1>1, PTL

(* What the code means stays. *)
LEMMA MeansStays ==
    ASSUME VisitInv, EmitInv, VisitInv', EmitInv', UNCHANGED vars
    PROVE  \A b, i : Means(b, i)' = Means(b, i)
<1>1. prog' = prog /\ void' = void /\ code' = code
  BY DEF vars
<1>2. PICK f : f = After
  OBVIOUS
<1>3. f = After'
  BY <1>1, <1>2, AfterStays DEF EmitInv
<1>4. \A s, branch : FirstOf(After, s, Nested(s, branch))' = FirstOf(After, s, Nested(s, branch))
  <2> SUFFICES ASSUME NEW s, NEW branch
               PROVE  FirstOf(After, s, Nested(s, branch))' = FirstOf(After, s, Nested(s, branch))
    OBVIOUS
  <2>1. PICK S : S = Nested(s, branch)
    OBVIOUS
  <2>2. S = Nested(s, branch)'
    BY <1>1, <2>1, FollowsStays
  <2>3. FirstOf(f, s, S)' = FirstOf(f, s, S)
    BY <1>1, FollowsStays
  <2>4. FirstOf(After, s, Nested(s, branch))' = FirstOf(f, s, S)'
    BY <1>3, <2>2
  <2> QED
    BY <1>2, <2>1, <2>3, <2>4
<1>5. \A b : Entry(b)' = Entry(b)
  BY <1>2, <1>3, <1>4 DEF Entry, Exit, RetBlock
<1>6. \A x : MeansInstr(x)' = MeansInstr(x)
  BY <1>5 DEF MeansInstr, Exit
<1> SUFFICES ASSUME NEW b, NEW i
             PROVE  Means(b, i)' = Means(b, i)
  OBVIOUS
<1>7. PICK x : x = code[b][i]
  OBVIOUS
<1>8. Means(b, i)' = MeansInstr(x)'
  BY <1>1, <1>7 DEF Means
<1> QED
  BY <1>6, <1>7, <1>8 DEF Means

LEMMA RunBegins == RunInit => RunInv
<1> SUFFICES ASSUME RunInit
             PROVE  RunInv
  OBVIOUS
<1>1. phase = "emit" /\ at = <<<<"header", 0>>, 1>> /\ halted = FALSE
  BY DEF RunInit, Init
<1> QED
  BY <1>1 DEF RunInv, Running

LEMMA VisitKeeps == Visit => phase = "emit" /\ phase' = "emit"
BY DEF Visit, VisitSimple, VisitBreak, VisitReturn, VisitIf, EndThen, EndElse, VisitWhile,
       EndWhile, VisitFor, EndFor, OpenLoop, CloseLoop, NextStmt

LEMMA CallSync ==
    ASSUME VisitInv, EmitInv, VisitInv', EmitInv', RunInv, Call
    PROVE  RunInv'
<1>1. /\ phase = "emit" /\ phase' = "done" /\ prog' = prog /\ void' = void
      /\ expect' = FirstOf(After, 0, Nested(0, "body")) /\ at' = at /\ halted' = halted
  BY DEF Call, EmitRet
<1>2. at' = <<<<"header", 0>>, 1>>
  BY <1>1 DEF RunInv
<1>3. HeaderGoes'
  BY HeaderMeansThen
<1>4. PICK f : f = After
  OBVIOUS
<1>5. f = After'
  BY <1>1, <1>4, AfterStays DEF EmitInv
<1>6. PICK S : S = Nested(0, "body")
  OBVIOUS
<1>7. S = Nested(0, "body")'
  BY <1>1, <1>6, FollowsStays
<1>8. FirstOf(f, 0, S)' = FirstOf(f, 0, S)
  BY <1>1, FollowsStays
<1>9. FirstOf(After, 0, Nested(0, "body"))' = FirstOf(f, 0, S)'
  BY <1>5, <1>7
<1>10. expect' = Means(<<"header", 0>>, 1)'
  BY <1>1, <1>3, <1>4, <1>6, <1>8, <1>9 DEF HeaderGoes
<1> QED
  BY <1>1, <1>2, <1>3, <1>10, BlockParts DEF RunInv, HeaderGoes

(* An instruction is executed. *)
LEMMA ExecSync ==
    ASSUME VisitInv, EmitInv, VisitInv', EmitInv', UNCHANGED vars, phase = "done",
           NEW b \in Block, NEW i \in Nat, at' = <<b, i>>, i \in 1 .. Len(code[b]),
           expect' = Means(b, i)
    PROVE  RunInv'
<1>1. Means(b, i)' = Means(b, i)
  BY MeansStays
<1>2. code' = code /\ phase' = "done"
  BY DEF vars
<1> QED
  BY <1>1, <1>2 DEF RunInv

LEMMA RunStep ==
    ASSUME VisitInv, EmitInv, VisitInv', EmitInv', RunInv, [RunNext]_<<vars, runVars>>
    PROVE  RunInv'
<1>1. CASE Emission
  <2>1. phase = "emit" /\ phase' = "emit" /\ at' = at /\ halted' = halted
    BY <1>1, VisitKeeps DEF Emission, runVars
  <2> QED
    BY <2>1 DEF RunInv, Running
<1>2. CASE Call
  BY <1>2, CallSync
<1>3. ASSUME Running
      PROVE  /\ phase = "done"
             /\ \E b \in Block, i \in Nat :
                   at = <<b, i>> /\ i \in 1 .. Len(code[b]) /\ expect = Means(b, i)
  BY <1>3 DEF Running, RunInv
<1>4. CASE ExecBr
  <2>1. /\ Running /\ instr.op = "br" /\ at' = <<instr.to, 1>> /\ UNCHANGED vars /\ expect' = expect
    BY <1>4 DEF ExecBr
  <2>2. PICK b \in Block, i \in Nat :
           at = <<b, i>> /\ i \in 1 .. Len(code[b]) /\ expect = Means(b, i)
    BY <1>3, <2>1
  <2>3. instr = code[b][i]
    BY <2>2 DEF instr
  <2>4. PICK t : t = code[b][i].to
    OBVIOUS
  <2>5. t \in Block /\ 1 \in 1 .. Len(code[t]) /\ Means(t, 1) = Means(b, i)
    BY <1>3, <2>1, <2>2, <2>3, <2>4, BrLeads
  <2>6. at' = <<t, 1>> /\ expect' = Means(t, 1)
    BY <2>1, <2>2, <2>3, <2>4, <2>5
  <2> QED
    BY <1>3, <2>1, <2>5, <2>6, ExecSync
<1>5. CASE ExecDo
  <2>1. /\ Running /\ instr.op = "do" /\ at' = <<at[1], at[2] + 1>> /\ UNCHANGED vars
        /\ expect' = Step(instr.what)
    BY <1>5 DEF ExecDo
  <2>2. PICK b \in Block, i \in Nat :
           at = <<b, i>> /\ i \in 1 .. Len(code[b]) /\ expect = Means(b, i)
    BY <1>3, <2>1
  <2>3. instr = code[b][i]
    BY <2>2 DEF instr
  <2>4. i + 1 \in 1 .. Len(code[b]) /\ Means(b, i + 1) = Step(code[b][i].what)
    BY <1>3, <2>1, <2>2, <2>3, DoLeads
  <2>5. at' = <<b, i + 1>> /\ expect' = Means(b, i + 1) /\ i + 1 \in Nat
    BY <2>1, <2>2, <2>3, <2>4
  <2> QED
    BY <1>3, <2>1, <2>4, <2>5, ExecSync
<1>6. CASE ExecCondBr
  <2>1. Running /\ instr.op = "condbr" /\ UNCHANGED vars
    BY <1>6 DEF ExecCondBr
  <2>2. PICK b \in Block, i \in Nat :
           at = <<b, i>> /\ i \in 1 .. Len(code[b]) /\ expect = Means(b, i)
    BY <1>3, <2>1
  <2>3. instr = code[b][i]
    BY <2>2 DEF instr
  <2>4. PICK taken \in BOOLEAN :
           /\ at' = <<IF taken THEN instr.then ELSE instr.else, 1>>
           /\ expect' = Test(instr.what[2], taken)
    BY <1>6 DEF ExecCondBr
  <2>5. PICK t : t = IF taken THEN code[b][i].then ELSE code[b][i].else
    OBVIOUS
  <2>6. t \in Block /\ 1 \in 1 .. Len(code[t]) /\ Means(t, 1) = Test(code[b][i].what[2], taken)
    BY <1>3, <2>1, <2>2, <2>3, <2>5, CondBrLeads
  <2>7. at' = <<t, 1>> /\ expect' = Means(t, 1)
    BY <2>3, <2>4, <2>5, <2>6
  <2> QED
    BY <1>3, <2>1, <2>6, <2>7, ExecSync
<1>7. CASE ExecRet
  <2>1. phase = "done" /\ phase' = "done" /\ halted' = TRUE
    BY <1>7 DEF ExecRet, Running, vars
  <2> QED
    BY <2>1 DEF RunInv, Running
<1>8. CASE UNCHANGED <<vars, runVars>>
  <2>1. UNCHANGED vars /\ at' = at /\ expect' = expect /\ halted' = halted /\ phase' = phase
    BY <1>8 DEF vars, runVars
  <2>2. CASE Running
    <3>1. PICK b \in Block, i \in Nat :
             at = <<b, i>> /\ i \in 1 .. Len(code[b]) /\ expect = Means(b, i)
      BY <1>3, <2>2
    <3> QED
      BY <1>3, <2>1, <2>2, <3>1, ExecSync
  <2>3. CASE ~Running
    BY <2>1, <2>3 DEF RunInv, Running
  <2> QED
    BY <2>2, <2>3
<1> QED
  BY <1>1, <1>2, <1>4, <1>5, <1>6, <1>7, <1>8 DEF RunNext

LEMMA RunSync == VisitInv /\ EmitInv /\ RunInv => InSync
<1> SUFFICES ASSUME VisitInv, EmitInv, RunInv, Running
             PROVE  /\ instr.op \in {"do", "condbr"} => instr.what = expect
                    /\ instr.op = "ret" => expect = Exit
  BY DEF InSync
<1>1. PICK b \in Block, i \in Nat :
         at = <<b, i>> /\ i \in 1 .. Len(code[b]) /\ expect = Means(b, i)
  BY DEF RunInv
<1>2. instr = code[b][i]
  BY <1>1 DEF instr
<1> QED
  BY <1>1, <1>2 DEF Means, MeansInstr

(* Whatever function is compiled, whichever way its conditions go, the      *)
(* emitted code evaluates and tests what the function does next, and        *)
(* returns where it does.  This holds for the functions that do not verify  *)
(* too: what is emitted behind a jump is never executed.                    *)
THEOREM CodeRunsAsWritten == RunSpec => []InSync
<1>1. RunInit => VisitInv /\ CodeInv /\ EmitInv /\ RunInv
  BY InitOK, InitCode, InitEmit, RunBegins DEF RunInit
<1>2. /\ VisitInv /\ CodeInv /\ EmitInv /\ RunInv /\ [RunNext]_<<vars, runVars>>
      => VisitInv' /\ CodeInv' /\ EmitInv' /\ RunInv'
  <2> SUFFICES ASSUME VisitInv, CodeInv, EmitInv, RunInv, [RunNext]_<<vars, runVars>>
               PROVE  VisitInv' /\ CodeInv' /\ EmitInv' /\ RunInv'
    OBVIOUS
  <2>1. [Next]_vars
    BY DEF RunNext, Emission, Call, ExecBr, ExecDo, ExecCondBr, ExecRet, Next
  <2>2. VisitInv' /\ CodeInv'
    BY <2>1, VisitInvStep, CodeInvStep
  <2>3. EmitInv'
    BY <2>1, EmitStep
  <2> QED
    BY <2>2, <2>3, RunStep
<1>3. VisitInv /\ CodeInv /\ EmitInv /\ RunInv => InSync
  BY RunSync
<1> QED
  BY <1>1, <1>2, <1>3, PTL DEF RunSpec

-----------------------------------------------------------------------------
(* The loop emitted for a for statement, for every width of the machine    *)
(* integer and every set of ranges: its state is well typed, its two       *)
(* counters stay parallel and it implements RangeWalk.                     *)

(* Wrapping brings a result that is off by at most one modulus into range. *)
LEMMA WrapInRange ==
    ASSUME NEW x \in Int, x >= 2 * MinInt, x <= 2 * MaxInt + 2
    PROVE  Wrap(x) \in Int64
BY MaxIntAssumption DEF Wrap, Int64, MinInt

(* A representable result is left alone. *)
LEMMA WrapIdentity ==
    ASSUME NEW x \in Int64
    PROVE  Wrap(x) = x
BY MaxIntAssumption DEF Wrap, Int64, MinInt

LEMMA AbsInRange ==
    ASSUME NEW x \in Int64
    PROVE  Abs(x) \in Int64
BY MaxIntAssumption DEF Abs, Wrap, Int64, MinInt

(* The sums and differences of machine integers are machine integers. *)
LEMMA AddSubInRange ==
    ASSUME NEW x \in Int64, NEW y \in Int64
    PROVE  Add(x, y) \in Int64 /\ Sub(x, y) \in Int64
BY MaxIntAssumption DEF Add, Sub, Wrap, Int64, MinInt

(* Every loop has a machine integer for its size. *)
LEMMA LoopSizeInRange ==
    ASSUME NEW r \in Requests
    PROVE  LoopSize(r) \in Int64
<1>1. r.start \in Int64 /\ r.end \in Int64
  BY RequestsAssumption
<1>2. iter_range(r.start, r.end) \in Int64
  BY <1>1, AbsInRange, AddSubInRange DEF iter_range
<1>3. 1 \in Int64
  BY MaxIntAssumption DEF Int64, MinInt
<1> QED
  BY <1>2, <1>3, AddSubInRange DEF LoopSize

-----------------------------------------------------------------------------
(* Type correctness: no block of the loop leaves the machine integers. *)
THEOREM LoopTypeCorrect == LoopSpec => []LoopTypeOK
<1>1. LoopInit => LoopTypeOK
  <2>1. 0 \in Int64
    BY MaxIntAssumption DEF Int64, MinInt
  <2>2. <<>> \in Seq(Int64)
    OBVIOUS
  <2> QED
    BY <2>1, <2>2 DEF LoopInit, LoopTypeOK
<1>2. LoopTypeOK /\ [LoopNext]_loopVars => LoopTypeOK'
  <2> SUFFICES ASSUME LoopTypeOK, [LoopNext]_loopVars
               PROVE  LoopTypeOK'
    OBVIOUS
  <2>0. /\ 0 \in Int64 /\ 1 \in Int64 /\ -1 \in Int64
        /\ range \in Requests /\ range.start \in Int64
    BY MaxIntAssumption, RequestsAssumption DEF Int64, MinInt, LoopTypeOK
  <2>1. CASE Enter
    BY <2>0, <2>1, LoopSizeInRange DEF Enter, LoopTypeOK, iter_step
  <2>2. CASE Header
    BY <2>2 DEF Header, LoopTypeOK
  <2>3. CASE Body
    BY <2>3 DEF Body, LoopTypeOK
  <2>4. CASE Leave
    BY <2>4 DEF Leave, LoopTypeOK
  <2>5. CASE Advance
    <3>1. counter' \in Int64 /\ iter' \in Int64
      BY <2>0, <2>5, AddSubInRange DEF Advance, LoopTypeOK
    <3> QED
      BY <2>5, <3>1 DEF Advance, LoopTypeOK
  <2>6. CASE UNCHANGED loopVars
    BY <2>6 DEF loopVars, LoopTypeOK
  <2> QED
    BY <2>1, <2>2, <2>3, <2>4, <2>5, <2>6 DEF LoopNext
<1> QED
  BY <1>1, <1>2, PTL DEF LoopSpec

-----------------------------------------------------------------------------
(* __iter_range counts the values between the ends of a range that fits, *)
(* and an inclusive range has one more.  A size that wraps only shrinks.  *)
LEMMA LoopSizeExact ==
    ASSUME NEW r \in Requests
    PROVE  /\ Walk!Size(r) \in Nat
           /\ LoopSize(r) \in Int64
           /\ LoopSize(r) <= Walk!Size(r)
           /\ Fits(r) => LoopSize(r) = Walk!Size(r)
<1> DEFINE D == Walk!Distance(r)
           n == iter_range(r.start, r.end)
<1>1. r.start \in Int64 /\ r.end \in Int64 /\ r.inclusive \in BOOLEAN
  BY RequestsAssumption
<1>2. D \in 0 .. 2 * MaxInt + 1
  BY <1>1, MaxIntAssumption DEF Walk!Distance, Int64, MinInt
<1>3. n \in Int64 /\ n <= D /\ (D <= MaxInt => n = D)
  <2>1. CASE OppositeSigns(r.start, r.end)
    <3>1. CASE r.start > 0 /\ r.end < 0
      <4>1. n = Abs(Add(r.start, Abs(r.end))) /\ D = r.start - r.end
        BY <1>1, <2>1, <3>1 DEF iter_range, Walk!Distance, Abs, Int64, MinInt
      <4> QED
        BY <1>1, <3>1, <4>1, MaxIntAssumption DEF Abs, Add, Wrap, Int64, MinInt
    <3>2. CASE r.start < 0 /\ r.end > 0
      <4>1. n = Abs(Add(Abs(r.start), r.end)) /\ D = r.end - r.start
        BY <1>1, <2>1, <3>2 DEF iter_range, Walk!Distance, Abs, Int64, MinInt
      <4> QED
        BY <1>1, <3>2, <4>1, MaxIntAssumption DEF Abs, Add, Wrap, Int64, MinInt
    <3> QED
      BY <2>1, <3>1, <3>2 DEF OppositeSigns
  <2>2. CASE ~OppositeSigns(r.start, r.end)
    BY <1>1, <2>2, MaxIntAssumption
    DEF iter_range, OppositeSigns, Walk!Distance, Abs, Sub, Wrap, Int64, MinInt
  <2> QED
    BY <2>1, <2>2
<1> HIDE DEF D, n
<1>4. /\ Walk!Size(r) = IF r.inclusive THEN D + 1 ELSE D
      /\ LoopSize(r) = IF r.inclusive THEN Add(n, 1) ELSE n
  BY <1>1, <1>2 DEF Walk!Size, LoopSize, D, n
<1> QED
  BY <1>1, <1>2, <1>3, <1>4, MaxIntAssumption DEF Fits, Add, Wrap, Int64, MinInt

-----------------------------------------------------------------------------
LEMMA LoopInvInit == LoopInit => LoopInv
BY DEF LoopInit, LoopInv, Parallel, Outside

LEMMA LoopInvStep ==
    ASSUME LoopTypeOK, LoopTypeOK', LoopInv, [LoopNext]_loopVars
    PROVE  LoopInv'
<1> DEFINE N == Walk!Size(range)
           S == range.start
           E == range.end
<1>0. /\ range \in Requests /\ S \in Int64 /\ E \in Int64
      /\ range.inclusive \in BOOLEAN
      /\ LoopSize(range) \in Int64 /\ LoopSize(range) <= N /\ N \in Nat
      /\ Fits(range) => LoopSize(range) = N
      /\ size \in Int64 /\ counter \in Int64
      /\ visited \in Seq(Int64) /\ Len(visited) \in Nat
  BY LoopSizeExact, RequestsAssumption DEF LoopTypeOK
<1>1. CASE Enter
  <2>1. Walk!ValueAfter(range, 0) = S
    BY <1>0 DEF Walk!ValueAfter, Int64, MinInt
  <2>2. visited = <<>> /\ Len(visited) = 0
    BY <1>1 DEF Enter, LoopInv, Outside
  <2> QED
    BY <1>0, <1>1, <2>1, <2>2 DEF Enter, LoopInv, Parallel, Outside
<1>2. CASE Header
  BY <1>0, <1>2 DEF Header, LoopInv, Parallel, Outside, LoopTypeOK, Int64, MinInt
<1>3. CASE Body
  <2>1. Len(visited') = Len(visited) + 1 /\ visited' # <<>>
    BY <1>0, <1>3 DEF Body, LoopTypeOK
  <2> QED
    BY <1>0, <1>3, <2>1 DEF Body, LoopInv, Parallel, Outside, LoopTypeOK
<1>4. CASE Leave
  <2>1. visited # <<>>
    BY <1>0, <1>4 DEF Leave, LoopInv, Parallel
  <2> QED
    BY <1>0, <1>4, <2>1 DEF Leave, LoopInv, Parallel, Outside
<1>5. CASE Advance
  <2>1. /\ counter \in Nat /\ counter < size /\ size <= N
        /\ size \in Int \ {MinInt} /\ size <= MaxInt
        /\ Fits(range) => size = N
        /\ iter = Walk!ValueAfter(range, counter)
        /\ step = iter_step(S, E)
        /\ counter + 1 = Len(visited)
    BY <1>0, <1>5, MaxIntAssumption DEF Advance, LoopInv, Parallel, Int64, MinInt
  <2>2. counter' = counter + 1
    BY <1>0, <1>5, <2>1, MaxIntAssumption DEF Advance, Add, Wrap, MinInt
  <2>3. counter' < size' => iter' = Walk!ValueAfter(range, counter')
    <3> SUFFICES ASSUME counter + 1 < size
                 PROVE  iter' = Walk!ValueAfter(range, counter + 1)
      BY <1>5, <2>1, <2>2 DEF Advance
    <3>1. iter + step = Walk!ValueAfter(range, counter + 1)
      <4>1. S \in Int /\ counter \in Int
        BY <1>0, <2>1 DEF Int64, MinInt
      <4>2. CASE S < E
        <5>1. iter = S + counter /\ step = 1
          BY <2>1, <4>2 DEF iter_step, Walk!ValueAfter
        <5> QED
          BY <4>1, <4>2, <5>1 DEF Walk!ValueAfter
      <4>3. CASE ~(S < E)
        <5>1. iter = S - counter /\ step = -1
          BY <2>1, <4>3 DEF iter_step, Walk!ValueAfter
        <5>2. iter \in Int /\ step \in Int
          BY <4>1, <5>1
        <5>3. iter + step = S - (counter + 1)
          BY <4>1, <5>1, <5>2
        <5>4. Walk!ValueAfter(range, counter + 1) = S - (counter + 1)
          BY <4>3 DEF Walk!ValueAfter
        <5> QED
          BY <5>3, <5>4
      <4> QED
        BY <4>2, <4>3
    <3>2. iter + step \in Int64
      <4>1. iter + step \in S .. E \/ iter + step \in E .. S
        <5>0. S \in Int /\ E \in Int
          BY <1>0 DEF Int64, MinInt
        <5>1. N <= Walk!Distance(range) + 1 /\ Walk!Distance(range) \in Nat
          BY <1>0, <5>0 DEF Walk!Size, Walk!Distance
        <5>2. counter + 1 \in Nat /\ counter + 1 <= Walk!Distance(range)
          BY <1>0, <2>1, <5>1
        <5>3. CASE S < E
          BY <3>1, <5>0, <5>2, <5>3 DEF Walk!ValueAfter, Walk!Distance
        <5>4. CASE ~(S < E)
          BY <3>1, <5>0, <5>2, <5>4 DEF Walk!ValueAfter, Walk!Distance
        <5> QED
          BY <5>3, <5>4
      <4> QED
        BY <1>0, <4>1, MaxIntAssumption DEF Int64, MinInt
    <3> QED
      BY <1>5, <3>1, <3>2, WrapIdentity DEF Advance, Add
  <2> QED
    BY <1>0, <1>5, <2>1, <2>2, <2>3 DEF Advance, LoopInv, Parallel, Outside
<1>6. CASE UNCHANGED loopVars
  BY <1>6 DEF loopVars, LoopInv, Parallel, Outside
<1> QED
  BY <1>1, <1>2, <1>3, <1>4, <1>5, <1>6 DEF LoopNext

(* The two counters stay parallel and the loop ends with its whole range    *)
(* visited or by its body, whatever the signs of the ends of the range.     *)
THEOREM LoopInvariant == LoopSpec => []LoopInv
<1>1. LoopTypeOK /\ LoopTypeOK' /\ LoopInv /\ [LoopNext]_loopVars => LoopInv'
  BY LoopInvStep
<1> QED
  BY <1>1, LoopInvInit, LoopTypeCorrect, PTL DEF LoopSpec

(* The emitted loop visits the values of its range, in order and no more,   *)
(* and ends normally only after the last unless a machine integer cannot    *)
(* count them: it implements RangeWalk.                                     *)
THEOREM LoopImplementsWalk == LoopSpec => Implements
<1>1. LoopInit => Walk!Init
  BY DEF LoopInit, Walk!Init, status
<1>2. LoopTypeOK /\ LoopInv /\ LoopInv' /\ [LoopNext]_loopVars => [Walk!Next]_Walk!vars
  <2> SUFFICES ASSUME LoopTypeOK, LoopInv, LoopInv', [LoopNext]_loopVars
               PROVE  [Walk!Next]_Walk!vars
    OBVIOUS
  <2>0. /\ Len(visited) \in Nat /\ Walk!Size(range) \in Nat
        /\ size \in Int /\ counter \in Int
    BY LoopSizeExact DEF LoopTypeOK, Int64, MinInt
  <2>1. CASE Enter
    BY <2>1 DEF Enter, status, Walk!vars
  <2>2. CASE Header
    <3>1. CASE counter < size
      BY <2>2, <3>1 DEF Header, status, Walk!vars
    <3>2. CASE ~(counter < size)
      <4>1. Walk!Exhaust
        <5>1. Len(visited) = Walk!Size(range) \/ Walk!Size(range) > MaxInt
          BY <2>0, <2>2, <3>2, MaxIntAssumption DEF Header, LoopInv, Parallel, Fits
        <5>2. status = "running" /\ status' = "exhausted"
          BY <2>2, <3>2 DEF Header, status, LoopInv, Outside, LoopTypeOK
        <5> QED
          BY <2>2, <5>1, <5>2 DEF Header, Walk!Exhaust
      <4> QED
        BY <4>1 DEF Walk!Next
    <3> QED
      BY <3>1, <3>2
  <2>3. CASE Body
    <3>1. Walk!Visit
      BY <2>0, <2>3 DEF Body, status, LoopInv, Parallel, Walk!Visit
    <3> QED
      BY <3>1 DEF Walk!Next
  <2>4. CASE Leave
    <3>1. Walk!Leave
      BY <2>4 DEF Leave, status, LoopInv, Outside, Walk!Leave
    <3> QED
      BY <3>1 DEF Walk!Next
  <2>5. CASE Advance
    BY <2>5 DEF Advance, status, Walk!vars
  <2>6. CASE UNCHANGED loopVars
    BY <2>6 DEF loopVars, status, Walk!vars
  <2> QED
    BY <2>1, <2>2, <2>3, <2>4, <2>5, <2>6 DEF LoopNext
<1> QED
  BY <1>1, <1>2, LoopTypeCorrect, LoopInvariant, PTL DEF LoopSpec, Implements, Walk!Spec

=============================================================================
