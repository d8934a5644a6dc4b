----------------------------- MODULE WalkProofs -----------------------------
(***************************************************************************)
(* Theorems about walks of trees of any size by any walker.  Each call of  *)
(* traverse() is looked at by itself (CallOK, Between, Waiting), and the   *)
(* stack only says which node the call above is at (Stack).                *)
(***************************************************************************)
EXTENDS Walk, SequenceTheorems, TLAPS

NodeKinds == Decl \union Expr \union Stmt \union Pattern \union DOMAIN TypeReprFields

Places == DOMAIN Kinds

Steps == [child : Nat, set : BOOLEAN]

(* Every call of traverse() has stored what it was given so far. *)
CallType ==
    [kind : NodeKinds \union {"root"}, fields : Seq(Places \union {"null"}), todo : Seq(Steps),
     walked : Seq(Nat), stale : {FALSE}]

(* What a visitor has still to do is in order, is done to children that    *)
(* are there, and stores what it gets for an expression. *)
TodoOK(call) ==
    /\ \A i, j \in 1 .. Len(call.todo) : i < j => call.todo[i].child < call.todo[j].child
    /\ \A i \in 1 .. Len(call.todo) :
          /\ call.todo[i].child \in 1 .. Len(call.fields)
          /\ call.fields[call.todo[i].child] = "Expr" => call.todo[i].set
          /\ call.fields[call.todo[i].child] = "null" => call.kind = "Module"

WalkedOK(call) ==
    /\ InOrder(call.walked)
    /\ \A i \in 1 .. Len(call.walked) : call.walked[i] \in Children(call.fields)

(* No child is forgotten. *)
Complete(call) ==
    IF call.kind = "ArrayLiteral" THEN call.todo = <<>> /\ call.walked = <<>>
    ELSE \A child \in Children(call.fields) :
            \/ \E i \in 1 .. Len(call.walked) : call.walked[i] = child
            \/ \E i \in 1 .. Len(call.todo) : call.todo[i].child = child

CallOK(call) == TodoOK(call) /\ WalkedOK(call) /\ Complete(call)

(* The children walked are before those that are not. *)
Between(call) ==
    \A i \in 1 .. Len(call.walked), j \in 1 .. Len(call.todo) : call.walked[i] < call.todo[j].child

(* The place of the next child *)
Place(call) == call.fields[call.todo[1].child]

(* A call that waits for its next child to be walked *)
Waiting(call) ==
    /\ call.todo # <<>> /\ call.walked # <<>> /\ Place(call) # "null"
    /\ call.walked[Len(call.walked)] = call.todo[1].child
    /\ \A i \in 1 .. Len(call.walked), j \in 1 .. Len(call.todo) :
          i < Len(call.walked) \/ j > 1 => call.walked[i] < call.todo[j].child

(* A call waits for the one above it, which is at a node of the right kind. *)
Stack(s) ==
    /\ s \in Seq(CallType)
    /\ \A k \in 1 .. Len(s) : CallOK(s[k])
    /\ \A k \in 2 .. Len(s) : Waiting(s[k]) /\ s[k - 1].kind \in Kinds[Place(s[k])]

WalkInv ==
    /\ walker \in {"FwdDeclarator", "MutationResolver", "ExprSolver", "any"}
    /\ ret # "crash"
    /\ Stack(calls)
    /\ calls # <<>> /\ ret = "none" => Between(calls[1])
    /\ calls # <<>> /\ ret # "none" => Waiting(calls[1])
    /\ calls # <<>> /\ ret = "new" => Place(calls[1]) = "Expr"

-----------------------------------------------------------------------------
(* The kinds in the places: an expression is only where one is expected. *)
LEMMA OnlyExprPlace ==
    ASSUME NEW place \in Places, NEW kind \in Kinds[place], kind \in Expr
    PROVE  place = "Expr"
<1>1. Expr = {"NumberLiteral", "Identifier", "ArrayLiteral", "InOut", "Paren", "Infix", "Assign",
              "Prefix", "Call", "Subscript"}
  BY DEF Expr, ExprFields
<1>2. DOMAIN TypeReprFields = {"Ident", "Array", "InOutRepr"}
  BY DEF TypeReprFields
<1>3. place \in {"Module", "VarDecl", "ParamDecl", "Iterator", "FuncDecl", "Expr", "TypeRepr", "Stmt",
                 "Block", "Range", "SubscriptStmt", "ExprPattern", "VarPattern"}
  BY DEF Places, Kinds
<1> QED
  BY <1>1, <1>2, <1>3 DEF Kinds

(* What the walkers answer, as far as it matters *)
LEMMA PreWalkAnswers ==
    ASSUME NEW kind, NEW answer \in preWalk(kind),
           walker \in {"FwdDeclarator", "MutationResolver", "ExprSolver", "any"}
    PROVE  /\ answer \in {"walk", "skip", "new", "refuse"}
           /\ answer = "new" => kind \in Expr
  BY DEF preWalk, FwdPre, MutationPre, SolverPre

LEMMA PostWalkAnswers ==
    ASSUME NEW kind, NEW answer \in postWalk(kind),
           walker \in {"FwdDeclarator", "MutationResolver", "ExprSolver", "any"}
    PROVE  /\ answer \in {"same", "new", "refuse"}
           /\ answer = "new" => kind \in Expr
  BY DEF postWalk, FwdPost, SolverPost, Expr, ExprFields

-----------------------------------------------------------------------------
(* A plan: what a visitor has to do when it begins. *)
Plan(kind, fields, plan) ==
    /\ kind \in NodeKinds \union {"root"} /\ fields \in Seq(Places \union {"null"})
    /\ plan \in Seq(Steps)
    /\ \A i, j \in 1 .. Len(plan) : i < j => plan[i].child < plan[j].child
    /\ \A i \in 1 .. Len(plan) :
          /\ plan[i].child \in 1 .. Len(fields)
          /\ fields[plan[i].child] = "Expr" => plan[i].set
          /\ fields[plan[i].child] = "null" => kind = "Module"
    /\ IF kind = "ArrayLiteral" THEN plan = <<>>
       ELSE \A child \in 1 .. Len(fields) :
               fields[child] # "null" => \E i \in 1 .. Len(plan) : plan[i].child = child

LEMMA PlannedCall ==
    ASSUME NEW kind, NEW fields, NEW plan, Plan(kind, fields, plan)
    PROVE  /\ Call(kind, fields, plan) \in CallType
           /\ CallOK(Call(kind, fields, plan))
           /\ Between(Call(kind, fields, plan))
<1> DEFINE call == Call(kind, fields, plan)
<1>1. /\ call.kind = kind /\ call.fields = fields /\ call.todo = plan
      /\ call.walked = <<>> /\ call.stale = FALSE
  BY DEF Call
<1>2. call \in CallType
  BY DEF Call, CallType, Plan
<1>3. DOMAIN fields = 1 .. Len(fields)
  BY DEF Plan
<1> HIDE DEF call
<1>4. TodoOK(call)
  BY <1>1 DEF TodoOK, Plan
<1>5. WalkedOK(call) /\ Between(call)
  BY <1>1 DEF WalkedOK, InOrder, Between
<1>6. Complete(call)
  BY <1>1, <1>3 DEF Complete, Children, Plan
<1> QED
  BY <1>2, <1>4, <1>5, <1>6 DEF CallOK, call

LEMMA PlacesAre ==
    Places = {"Module", "VarDecl", "ParamDecl", "Iterator", "FuncDecl", "Expr", "TypeRepr", "Stmt",
              "Block", "Range", "SubscriptStmt", "ExprPattern", "VarPattern"}
  BY DEF Places, Kinds

LEMMA FunctionIsSeq ==
    ASSUME NEW S, NEW n \in Nat, NEW f \in [1 .. n -> S]
    PROVE  f \in Seq(S) /\ Len(f) = n /\ DOMAIN f = 1 .. n
  OBVIOUS

(* Lists are walked from end to end. *)
LEMMA ListPlan ==
    ASSUME NEW kind \in NodeKinds, kind # "ArrayLiteral",
           NEW of, of \subseteq Places \union {"null"}, "null" \in of => kind = "Module",
           NEW fields \in Items(of)
    PROVE  Plan(kind, fields, Each(fields))
<1>1. PICK n \in 0 .. MaxItems : fields \in [1 .. n -> of]
  BY DEF Items
<1>2. fields \in Seq(Places \union {"null"}) /\ Len(fields) = n /\ DOMAIN fields = 1 .. n
  BY <1>1, WalkAssumption
<1>3. n \in Nat /\ Each(fields) \in [1 .. n -> Steps]
  BY <1>2, WalkAssumption DEF Each, Steps
<1>4. Each(fields) \in Seq(Steps) /\ Len(Each(fields)) = n
  BY <1>3, FunctionIsSeq
<1>5. \A i \in 1 .. n : Each(fields)[i].child = i /\ Each(fields)[i].set = (fields[i] = "Expr")
  BY <1>2 DEF Each
<1>6. \A i \in 1 .. n : fields[i] = "null" => kind = "Module"
  BY <1>1
<1> QED
  BY <1>2, <1>4, <1>5, <1>6 DEF Plan

(* The children there are *)
Present(fields) == {i \in 1 .. Len(fields) : fields[i] # "null"}

(* The visitors of a fixed number of children *)
LEMMA PlanOfNone ==
    ASSUME NEW kind \in NodeKinds, NEW fields \in Seq(Places \union {"null"}),
           NEW plan, plan = <<>>,
           kind = "ArrayLiteral" \/ Present(fields) = {}
    PROVE  Plan(kind, fields, plan)
  BY DEF Plan, Present

LEMMA OneStep ==
    ASSUME NEW i \in Nat
    PROVE  /\ Walk(i) \in Seq(Steps) /\ Len(Walk(i)) = 1 /\ Walk(i)[1].child = i
           /\ Set(i) \in Seq(Steps) /\ Len(Set(i)) = 1 /\ Set(i)[1].child = i /\ Set(i)[1].set
  BY DEF Walk, Set, Steps

(* A visitor of the i-th child that stores what it has to *)
Stores(plan, fields, i) == plan = Set(i) \/ (plan = Walk(i) /\ fields[i] # "Expr")

LEMMA StoresIs ==
    ASSUME NEW i \in Nat, NEW plan, NEW fields, Stores(plan, fields, i)
    PROVE  /\ plan \in Seq(Steps) /\ Len(plan) = 1 /\ plan[1].child = i
           /\ fields[i] = "Expr" => plan[1].set
<1>1. CASE plan = Set(i)
  BY <1>1, OneStep
<1>2. CASE plan = Walk(i) /\ fields[i] # "Expr"
  BY <1>2, OneStep
<1> QED
  BY <1>1, <1>2 DEF Stores

LEMMA TwoSteps ==
    ASSUME NEW S, NEW a \in Seq(S), NEW b \in Seq(S), Len(a) = 1, Len(b) = 1
    PROVE  a \o b \in Seq(S) /\ Len(a \o b) = 2 /\ (a \o b)[1] = a[1] /\ (a \o b)[2] = b[1]
<1>1. a \o b \in Seq(S) /\ Len(a \o b) = 2
  BY ConcatProperties
<1>2. \A i \in 1 .. Len(a) + Len(b) : (a \o b)[i] = IF i <= Len(a) THEN a[i] ELSE b[i - Len(a)]
  BY ConcatProperties
<1>3. (a \o b)[1] = a[1]
  <2>1. 1 \in 1 .. Len(a) + Len(b) /\ 1 <= Len(a)
    OBVIOUS
  <2> QED
    BY ONLY <1>2, <2>1
<1>4. (a \o b)[2] = b[1]
  BY <1>2
<1> QED
  BY <1>1, <1>3, <1>4

LEMMA ThreeSteps ==
    ASSUME NEW S, NEW a \in Seq(S), NEW b \in Seq(S), NEW c \in Seq(S),
           Len(a) = 1, Len(b) = 1, Len(c) = 1
    PROVE  /\ a \o b \o c \in Seq(S) /\ Len(a \o b \o c) = 3
           /\ (a \o b \o c)[1] = a[1] /\ (a \o b \o c)[2] = b[1] /\ (a \o b \o c)[3] = c[1]
<1> DEFINE ab == a \o b
<1>1. ab \in Seq(S) /\ Len(ab) = 2 /\ ab[1] = a[1] /\ ab[2] = b[1]
  BY TwoSteps
<1> HIDE DEF ab
<1>2. /\ ab \o c \in Seq(S) /\ Len(ab \o c) = Len(ab) + Len(c)
      /\ \A i \in 1 .. Len(ab) + Len(c) :
            (ab \o c)[i] = IF i <= Len(ab) THEN ab[i] ELSE c[i - Len(ab)]
  BY <1>1, ConcatProperties
<1>3. Len(ab \o c) = 3
  BY <1>1, <1>2
<1>4. (ab \o c)[1] = ab[1]
  BY <1>1, <1>2
<1>5. (ab \o c)[2] = ab[2]
  BY <1>1, <1>2
<1>6. (ab \o c)[3] = c[1]
  BY <1>1, <1>2
<1> QED
  BY <1>1, <1>2, <1>3, <1>4, <1>5, <1>6 DEF ab

LEMMA PlanOfOne ==
    ASSUME NEW kind \in NodeKinds \union {"root"}, kind # "ArrayLiteral",
           NEW fields \in Seq(Places \union {"null"}),
           NEW first \in Nat, Present(fields) = {first},
           NEW plan, Stores(plan, fields, first)
    PROVE  Plan(kind, fields, plan)
<1>1. /\ plan \in Seq(Steps) /\ Len(plan) = 1 /\ plan[1].child = first
      /\ fields[first] = "Expr" => plan[1].set
  BY StoresIs
<1>2. \A i \in 1 .. Len(fields) : fields[i] # "null" <=> i = first
  BY DEF Present
<1>3. first \in 1 .. Len(fields)
  BY DEF Present
<1> QED
  BY <1>1, <1>2, <1>3 DEF Plan

LEMMA PlanOfTwo ==
    ASSUME NEW kind \in NodeKinds, kind # "ArrayLiteral",
           NEW fields \in Seq(Places \union {"null"}), Len(fields) \in 2 .. 3,
           NEW plan1, Stores(plan1, fields, 1), NEW plan2, Stores(plan2, fields, 2),
           fields[1] # "null", fields[2] # "null", Len(fields) = 3 => fields[3] = "null"
    PROVE  Plan(kind, fields, plan1 \o plan2)
<1> DEFINE plan == plan1 \o plan2
<1>1. /\ plan1 \in Seq(Steps) /\ Len(plan1) = 1 /\ plan1[1].child = 1
      /\ fields[1] = "Expr" => plan1[1].set
  BY StoresIs
<1>2. /\ plan2 \in Seq(Steps) /\ Len(plan2) = 1 /\ plan2[1].child = 2
      /\ fields[2] = "Expr" => plan2[1].set
  BY StoresIs
<1>3. /\ plan \in Seq(Steps) /\ Len(plan) = 2
      /\ plan[1] = plan1[1] /\ plan[2] = plan2[1]
  BY <1>1, <1>2, TwoSteps
<1> HIDE DEF plan
<1>4. Plan(kind, fields, plan)
  BY <1>1, <1>2, <1>3 DEF Plan
<1> QED
  BY <1>4 DEF plan

LEMMA PlanOfThree ==
    ASSUME NEW kind \in NodeKinds, kind # "ArrayLiteral",
           NEW fields \in Seq(Places \union {"null"}), Len(fields) = 3,
           NEW plan1, Stores(plan1, fields, 1), NEW plan2, Stores(plan2, fields, 2),
           NEW plan3, Stores(plan3, fields, 3),
           fields[1] # "null", fields[2] # "null", fields[3] # "null"
    PROVE  Plan(kind, fields, plan1 \o plan2 \o plan3)
<1> DEFINE plan == plan1 \o plan2 \o plan3
<1>1. /\ plan1 \in Seq(Steps) /\ Len(plan1) = 1 /\ plan1[1].child = 1
      /\ fields[1] = "Expr" => plan1[1].set
  BY StoresIs
<1>2. /\ plan2 \in Seq(Steps) /\ Len(plan2) = 1 /\ plan2[1].child = 2
      /\ fields[2] = "Expr" => plan2[1].set
  BY StoresIs
<1>3. /\ plan3 \in Seq(Steps) /\ Len(plan3) = 1 /\ plan3[1].child = 3
      /\ fields[3] = "Expr" => plan3[1].set
  BY StoresIs
<1>4. /\ plan \in Seq(Steps) /\ Len(plan) = 3
      /\ plan[1] = plan1[1] /\ plan[2] = plan2[1] /\ plan[3] = plan3[1]
  BY <1>1, <1>2, <1>3, ThreeSteps
<1> HIDE DEF plan
<1>5. Plan(kind, fields, plan)
  BY <1>1, <1>2, <1>3, <1>4 DEF Plan
<1> QED
  BY <1>5 DEF plan

(* The visitors there are *)
LEMMA PlanOfTwoSets ==
    ASSUME NEW kind \in NodeKinds, kind # "ArrayLiteral",
           NEW fields \in Seq(Places \union {"null"}), Len(fields) \in 2 .. 3,
           fields[1] # "null", fields[2] # "null", Len(fields) = 3 => fields[3] = "null"
    PROVE  Plan(kind, fields, Set(1) \o Set(2))
<1>1. Stores(Set(1), fields, 1) /\ Stores(Set(2), fields, 2)
  BY DEF Stores
<1> QED
  BY <1>1, PlanOfTwo

LEMMA PlanOfSetAndWalk ==
    ASSUME NEW kind \in NodeKinds, kind # "ArrayLiteral",
           NEW fields \in Seq(Places \union {"null"}), Len(fields) \in 2 .. 3,
           fields[1] # "null", fields[2] \notin {"null", "Expr"}, Len(fields) = 3 => fields[3] = "null"
    PROVE  Plan(kind, fields, Set(1) \o Walk(2))
<1>1. Stores(Set(1), fields, 1) /\ Stores(Walk(2), fields, 2)
  BY DEF Stores
<1> QED
  BY <1>1, PlanOfTwo

LEMMA PlanOfWalkAndSet ==
    ASSUME NEW kind \in NodeKinds, kind # "ArrayLiteral",
           NEW fields \in Seq(Places \union {"null"}), Len(fields) \in 2 .. 3,
           fields[1] \notin {"null", "Expr"}, fields[2] # "null", Len(fields) = 3 => fields[3] = "null"
    PROVE  Plan(kind, fields, Walk(1) \o Set(2))
<1>1. Stores(Walk(1), fields, 1) /\ Stores(Set(2), fields, 2)
  BY DEF Stores
<1> QED
  BY <1>1, PlanOfTwo

LEMMA PlanOfTwoWalks ==
    ASSUME NEW kind \in NodeKinds, kind # "ArrayLiteral",
           NEW fields \in Seq(Places \union {"null"}), Len(fields) = 2,
           fields[1] \notin {"null", "Expr"}, fields[2] \notin {"null", "Expr"}
    PROVE  Plan(kind, fields, Walk(1) \o Walk(2))
<1>1. Stores(Walk(1), fields, 1) /\ Stores(Walk(2), fields, 2)
  BY DEF Stores
<1> QED
  BY <1>1, PlanOfTwo

LEMMA PlanOfSetAndTwoWalks ==
    ASSUME NEW kind \in NodeKinds, kind # "ArrayLiteral",
           NEW fields \in Seq(Places \union {"null"}), Len(fields) = 3, fields[1] # "null",
           fields[2] \notin {"null", "Expr"}, fields[3] \notin {"null", "Expr"}
    PROVE  Plan(kind, fields, Set(1) \o Walk(2) \o Walk(3))
<1>1. Stores(Set(1), fields, 1) /\ Stores(Walk(2), fields, 2) /\ Stores(Walk(3), fields, 3)
  BY DEF Stores
<1> QED
  BY <1>1, PlanOfThree

LEMMA PlanOfThreeWalks ==
    ASSUME NEW kind \in NodeKinds, kind # "ArrayLiteral",
           NEW fields \in Seq(Places \union {"null"}), Len(fields) = 3, fields[1] \notin {"null", "Expr"},
           fields[2] \notin {"null", "Expr"}, fields[3] \notin {"null", "Expr"}
    PROVE  Plan(kind, fields, Walk(1) \o Walk(2) \o Walk(3))
<1>1. Stores(Walk(1), fields, 1) /\ Stores(Walk(2), fields, 2) /\ Stores(Walk(3), fields, 3)
  BY DEF Stores
<1> QED
  BY <1>1, PlanOfThree

(* Every visitor has a plan for every node of its kind. *)
LEMMA VisitPlans ==
    ASSUME NEW place \in Places, NEW kind \in Kinds[place], NEW fields \in Fields(kind)
    PROVE  Plan(kind, fields, visit(kind, fields))
<1>1. Decl = {"Module", "Var", "Param", "Iter", "Func"}
  BY DEF Decl, DeclFields
<1>2. Expr = {"NumberLiteral", "Identifier", "ArrayLiteral", "InOut", "Paren", "Infix", "Assign",
              "Prefix", "Call", "Subscript"}
  BY DEF Expr, ExprFields
<1>3. Stmt = {"Break", "Return", "SubscriptStmt", "Range", "Block", "FuncStmt", "For", "While", "If"}
  BY DEF Stmt, StmtFields
<1>4. Pattern = {"ExprPattern", "VarPattern"}
  BY DEF Pattern, PatternFields
<1>5. DOMAIN TypeReprFields = {"Ident", "Array", "InOutRepr"}
  BY DEF TypeReprFields
<1>6. kind \in Decl \union Expr \union Stmt \union Pattern \union DOMAIN TypeReprFields
  BY <1>1, <1>2, <1>3, <1>4, <1>5, PlacesAre DEF Kinds
<1>0. kind \in NodeKinds
  BY <1>6 DEF NodeKinds
<1>7. CASE kind \in Decl
  <2>1. fields \in DeclFields[kind]
    BY <1>7, <1>1, <1>2, <1>3, <1>4, <1>5 DEF Fields
  <2>2. CASE kind = "Module"
    <3>1. fields \in Items({"VarDecl", "Expr", "Stmt", "null"}) /\ visit(kind, fields) = Each(fields)
      BY <2>1, <2>2 DEF DeclFields, visit, visitModuleDecl
    <3> QED
      BY <3>1, <2>2, <1>0, ListPlan, PlacesAre
  <2>3. CASE kind = "Var"
    <3>1. PICK type \in Maybe("TypeRepr"), value \in Maybe("Expr") : fields = <<type, value>>
      BY <2>1, <2>3 DEF DeclFields
    <3>2. fields \in Seq(Places \union {"null"}) /\ Len(fields) = 2 /\ fields[1] = type /\ fields[2] = value
      BY <3>1, PlacesAre DEF Maybe
    <3>3. type \in {"null", "TypeRepr"} /\ value \in {"null", "Expr"}
      BY DEF Maybe
    <3>4. visit(kind, fields) = Has(fields, 1, Walk(1)) \o Has(fields, 2, Set(2))
      BY <2>3 DEF visit, visitVarDecl
    <3>5. CASE type = "null" /\ value = "null"
      BY <3>2, <3>4, <3>5, <1>0, PlanOfNone DEF Has, Present
    <3>6. CASE type = "null" /\ value # "null"
      <4>1. Present(fields) = {2}
        BY <3>2, <3>3, <3>6 DEF Present
      <4> QED
        BY <4>1, <3>2, <3>3, <3>4, <3>6, <2>3, <1>0, PlanOfOne DEF Has, Stores
    <3>7. CASE type # "null" /\ value = "null"
      <4>1. Present(fields) = {1}
        BY <3>2, <3>3, <3>7 DEF Present
      <4> QED
        BY <4>1, <3>2, <3>3, <3>4, <3>7, <2>3, <1>0, PlanOfOne DEF Has, Stores
    <3>8. CASE type # "null" /\ value # "null"
      BY <3>2, <3>3, <3>4, <3>8, <2>3, <1>0, PlanOfWalkAndSet DEF Has
    <3> QED
      BY <3>5, <3>6, <3>7, <3>8
  <2>4. CASE kind \in {"Param", "Iter"}
    <3>1. visit(kind, fields) = Has(fields, 1, Walk(1))
      BY <2>4 DEF visit, visitParamDecl
    <3>0. fields = <<"TypeRepr">> \/ fields = <<"null">>
      BY <2>1, <2>4 DEF DeclFields
    <3>2. fields \in Seq(Places \union {"null"}) /\ Len(fields) = 1 /\ fields[1] \in {"null", "TypeRepr"}
      <4>1. CASE fields = <<"TypeRepr">>
        BY <4>1, PlacesAre
      <4>2. CASE fields = <<"null">>
        BY <4>2, PlacesAre
      <4> QED
        BY <3>0, <4>1, <4>2
    <3>3. CASE fields[1] = "null"
      BY <3>1, <3>2, <3>3, <1>0, PlanOfNone DEF Has, Present
    <3>4. CASE fields[1] # "null"
      <4>1. Present(fields) = {1}
        BY <3>2, <3>4 DEF Present
      <4> QED
        BY <4>1, <3>1, <3>2, <3>4, <2>4, <1>0, PlanOfOne DEF Has, Stores
    <3> QED
      BY <3>3, <3>4
  <2>5. CASE kind = "Func"
    <3>1. PICK type \in {"null", "TypeRepr"} : fields = <<"VarPattern", type>>
      BY <2>1, <2>5 DEF DeclFields, Maybe
    <3>2. /\ fields \in Seq(Places \union {"null"}) /\ Len(fields) = 2
          /\ fields[1] = "VarPattern" /\ fields[2] = type
      BY <3>1, PlacesAre
    <3>3. visit(kind, fields) = Walk(1) \o Has(fields, 2, Walk(2))
      BY <2>5 DEF visit, visitFuncDecl
    <3>4. CASE type = "null"
      <4>1. visit(kind, fields) = Walk(1)
        BY <3>2, <3>3, <3>4, OneStep DEF Has
      <4>9. Present(fields) = {1}
        BY <3>2, <3>4 DEF Present
      <4> QED
        BY <4>9, <4>1, <3>2, <3>4, <2>5, <1>0, PlanOfOne DEF Stores
    <3>5. CASE type # "null"
      BY <3>2, <3>3, <3>5, <2>5, <1>0, PlanOfTwoWalks DEF Has
    <3> QED
      BY <3>4, <3>5
  <2> QED
    BY <1>1, <1>7, <2>2, <2>3, <2>4, <2>5
<1>8. CASE kind \in Expr
  <2>1. fields \in ExprFields[kind]
    BY <1>8, <1>1, <1>2, <1>3, <1>4, <1>5 DEF Fields
  <2>2. CASE kind \in {"NumberLiteral", "Identifier"}
    <3>1. visit(kind, fields) = <<>> /\ fields = <<>>
      BY <2>1, <2>2 DEF visit, visitNumberLiteralExpr, visitIdentifierExpr, ExprFields
    <3>2. fields \in Seq(Places \union {"null"}) /\ Present(fields) = {}
      BY <3>1 DEF Present
    <3> QED
      BY <3>1, <3>2, <1>0, PlanOfNone
  <2>3. CASE kind = "ArrayLiteral"
    <3>1. visit(kind, fields) = <<>>
      BY <2>3 DEF visit, visitArrayLiteralExpr
    <3>2. fields = <<"ExprPattern">>
      BY <2>1, <2>3 DEF ExprFields
    <3>3. fields \in Seq(Places \union {"null"})
      BY <3>2, PlacesAre
    <3> QED
      BY <3>1, <3>3, <2>3, <1>0, PlanOfNone
  <2>4. CASE kind \in {"InOut", "Paren", "Prefix"}
    <3>1. visit(kind, fields) = Set(1)
      BY <2>4 DEF visit, visitInOutExpr, visitParenExpr, visitPrefixExpr
    <3>2. fields = <<"Expr">>
      BY <2>1, <2>4 DEF ExprFields
    <3>3. fields \in Seq(Places \union {"null"}) /\ Len(fields) = 1 /\ fields[1] = "Expr"
      BY <3>2, PlacesAre
    <3>9. Present(fields) = {1}
      BY <3>3 DEF Present
    <3> QED
      BY <3>9, <3>1, <3>3, <2>4, <1>0, PlanOfOne DEF Stores
  <2>5. CASE kind \in {"Infix", "Assign"}
    <3>1. visit(kind, fields) = Set(1) \o Set(2)
      BY <2>5 DEF visit, visitInfixExpr, visitAssignExpr
    <3>2. fields = <<"Expr", "Expr">>
      BY <2>1, <2>5 DEF ExprFields
    <3>3. /\ fields \in Seq(Places \union {"null"}) /\ Len(fields) = 2
          /\ fields[1] = "Expr" /\ fields[2] = "Expr"
      BY <3>2, PlacesAre
    <3>4. fields[1] # "null" /\ fields[2] # "null" /\ kind # "ArrayLiteral"
      BY <3>3, <2>5
    <3>5. Len(fields) \in 2 .. 3 /\ (Len(fields) = 3 => fields[3] = "null")
      BY <3>3
    <3>6. Plan(kind, fields, Set(1) \o Set(2))
      BY <3>3, <3>4, <3>5, <1>0, PlanOfTwoSets
    <3> QED
      BY <3>1, <3>6
  <2>6. CASE kind \in {"Call", "Subscript"}
    <3>1. visit(kind, fields) = Set(1) \o Walk(2)
      BY <2>6 DEF visit, visitCallExpr, visitSubscriptExpr
    <3>2. fields \in {<<"Expr", "ExprPattern">>, <<"Expr", "SubscriptStmt">>}
      BY <2>1, <2>6 DEF ExprFields
    <3>3. /\ fields \in Seq(Places \union {"null"}) /\ Len(fields) = 2
          /\ fields[1] = "Expr" /\ fields[2] \in {"ExprPattern", "SubscriptStmt"}
      BY <3>2, PlacesAre
    <3>4. fields[1] # "null" /\ fields[2] \notin {"null", "Expr"} /\ kind # "ArrayLiteral"
      BY <3>3, <2>6
    <3>5. Len(fields) \in 2 .. 3 /\ (Len(fields) = 3 => fields[3] = "null")
      BY <3>3
    <3>6. Plan(kind, fields, Set(1) \o Walk(2))
      BY <3>3, <3>4, <3>5, <1>0, PlanOfSetAndWalk
    <3> QED
      BY <3>1, <3>6
  <2> QED
    BY <1>2, <1>8, <2>2, <2>3, <2>4, <2>5, <2>6
<1>9. CASE kind \in Stmt
  <2>1. fields \in StmtFields[kind]
    BY <1>9, <1>1, <1>2, <1>3, <1>4, <1>5 DEF Fields
  <2>2. CASE kind = "Break"
    <3>1. visit(kind, fields) = <<>> /\ fields = <<>>
      BY <2>1, <2>2 DEF visit, visitBreakStmt, StmtFields
    <3>2. fields \in Seq(Places \union {"null"}) /\ Present(fields) = {}
      BY <3>1 DEF Present
    <3> QED
      BY <3>1, <3>2, <1>0, PlanOfNone
  <2>3. CASE kind = "Return"
    <3>1. visit(kind, fields) = Has(fields, 1, Set(1))
      BY <2>3 DEF visit, visitReturnStmt
    <3>2. fields = <<"Expr">> \/ fields = <<"null">>
      BY <2>1, <2>3 DEF StmtFields, Maybe
    <3>3. fields \in Seq(Places \union {"null"}) /\ Len(fields) = 1 /\ fields[1] \in {"null", "Expr"}
      <4>1. CASE fields = <<"Expr">>
        BY <4>1, PlacesAre
      <4>2. CASE fields = <<"null">>
        BY <4>2, PlacesAre
      <4> QED
        BY <3>2, <4>1, <4>2
    <3>4. CASE fields[1] = "null"
      BY <3>1, <3>3, <3>4, <1>0, PlanOfNone DEF Has, Present
    <3>5. CASE fields[1] # "null"
      <4>1. Present(fields) = {1}
        BY <3>3, <3>5 DEF Present
      <4> QED
        BY <4>1, <3>1, <3>3, <3>5, <2>3, <1>0, PlanOfOne DEF Has, Stores
    <3> QED
      BY <3>4, <3>5
  <2>4. CASE kind = "SubscriptStmt"
    <3>1. visit(kind, fields) = Set(1)
      BY <2>4 DEF visit, visitSubscriptStmt
    <3>2. fields = <<"Expr">>
      BY <2>1, <2>4 DEF StmtFields
    <3>3. fields \in Seq(Places \union {"null"}) /\ Len(fields) = 1 /\ fields[1] = "Expr"
      BY <3>2, PlacesAre
    <3>9. Present(fields) = {1}
      BY <3>3 DEF Present
    <3> QED
      BY <3>9, <3>1, <3>3, <2>4, <1>0, PlanOfOne DEF Stores
  <2>5. CASE kind = "Range"
    <3>1. visit(kind, fields) = Set(1) \o Set(2)
      BY <2>5 DEF visit, visitRangeStmt
    <3>2. fields = <<"Expr", "Expr">>
      BY <2>1, <2>5 DEF StmtFields
    <3>3. /\ fields \in Seq(Places \union {"null"}) /\ Len(fields) = 2
          /\ fields[1] = "Expr" /\ fields[2] = "Expr"
      BY <3>2, PlacesAre
    <3>4. fields[1] # "null" /\ fields[2] # "null" /\ kind # "ArrayLiteral"
      BY <3>3, <2>5
    <3>5. Len(fields) \in 2 .. 3 /\ (Len(fields) = 3 => fields[3] = "null")
      BY <3>3
    <3>6. Plan(kind, fields, Set(1) \o Set(2))
      BY <3>3, <3>4, <3>5, <1>0, PlanOfTwoSets
    <3> QED
      BY <3>1, <3>6
  <2>6. CASE kind = "Block"
    <3>1. fields \in Items({"VarDecl", "Expr", "Stmt"}) /\ visit(kind, fields) = Each(fields)
      BY <2>1, <2>6 DEF StmtFields, visit, visitBlockStmt
    <3> QED
      BY <3>1, <2>6, <1>0, ListPlan, PlacesAre
  <2>7. CASE kind = "FuncStmt"
    <3>1. visit(kind, fields) = Walk(1) \o Walk(2)
      BY <2>7 DEF visit, visitFuncStmt
    <3>2. fields = <<"FuncDecl", "Block">>
      BY <2>1, <2>7 DEF StmtFields
    <3>3. /\ fields \in Seq(Places \union {"null"}) /\ Len(fields) = 2
          /\ fields[1] = "FuncDecl" /\ fields[2] = "Block"
      BY <3>2, PlacesAre
    <3>4. fields[1] \notin {"null", "Expr"} /\ fields[2] \notin {"null", "Expr"} /\ kind # "ArrayLiteral"
      BY <3>3, <2>7
    <3>6. Plan(kind, fields, Walk(1) \o Walk(2))
      BY <3>3, <3>4, <1>0, PlanOfTwoWalks
    <3> QED
      BY <3>1, <3>6
  <2>8. CASE kind = "For"
    <3>1. visit(kind, fields) = Walk(1) \o Walk(2) \o Walk(3)
      BY <2>8 DEF visit, visitForStmt
    <3>2. fields = <<"Iterator", "Range", "Block">>
      BY <2>1, <2>8 DEF StmtFields
    <3>3. /\ fields \in Seq(Places \union {"null"}) /\ Len(fields) = 3
          /\ fields[1] = "Iterator" /\ fields[2] = "Range" /\ fields[3] = "Block"
      BY <3>2, PlacesAre
    <3>4. /\ fields[1] \notin {"null", "Expr"} /\ fields[2] \notin {"null", "Expr"}
          /\ fields[3] \notin {"null", "Expr"} /\ kind # "ArrayLiteral"
      BY <3>3, <2>8
    <3>6. Plan(kind, fields, Walk(1) \o Walk(2) \o Walk(3))
      BY <3>3, <3>4, <1>0, PlanOfThreeWalks
    <3> QED
      BY <3>1, <3>6
  <2>9. CASE kind = "While"
    <3>1. visit(kind, fields) = Set(1) \o Walk(2)
      BY <2>9 DEF visit, visitWhileStmt
    <3>2. fields = <<"Expr", "Block">>
      BY <2>1, <2>9 DEF StmtFields
    <3>3. /\ fields \in Seq(Places \union {"null"}) /\ Len(fields) = 2
          /\ fields[1] = "Expr" /\ fields[2] = "Block"
      BY <3>2, PlacesAre
    <3>4. fields[1] # "null" /\ fields[2] \notin {"null", "Expr"} /\ kind # "ArrayLiteral"
      BY <3>3, <2>9
    <3>5. Len(fields) \in 2 .. 3 /\ (Len(fields) = 3 => fields[3] = "null")
      BY <3>3
    <3>6. Plan(kind, fields, Set(1) \o Walk(2))
      BY <3>3, <3>4, <3>5, <1>0, PlanOfSetAndWalk
    <3> QED
      BY <3>1, <3>6
  <2>10. CASE kind = "If"
    <3>1. visit(kind, fields) = Set(1) \o Walk(2) \o Has(fields, 3, Walk(3))
      BY <2>10 DEF visit, visitIfStmt
    <3>2. fields = <<"Expr", "Block", "Block">> \/ fields = <<"Expr", "Block", "null">>
      BY <2>1, <2>10 DEF StmtFields, Maybe
    <3>3. /\ fields \in Seq(Places \union {"null"}) /\ Len(fields) = 3
          /\ fields[1] = "Expr" /\ fields[2] = "Block" /\ fields[3] \in {"null", "Block"}
      <4>1. CASE fields = <<"Expr", "Block", "Block">>
        BY <4>1, PlacesAre
      <4>2. CASE fields = <<"Expr", "Block", "null">>
        BY <4>2, PlacesAre
      <4> QED
        BY <3>2, <4>1, <4>2
    <3>4. CASE fields[3] = "null"
      <4>1. Set(1) \o Walk(2) \in Seq(Steps)
        BY OneStep
      <4>2. visit(kind, fields) = Set(1) \o Walk(2)
        BY <3>1, <3>4, <4>1 DEF Has
      <4>3. fields[1] # "null" /\ fields[2] \notin {"null", "Expr"} /\ kind # "ArrayLiteral"
        BY <3>3, <2>10
      <4>4. Len(fields) \in 2 .. 3 /\ (Len(fields) = 3 => fields[3] = "null")
        BY <3>3, <3>4
      <4>5. Plan(kind, fields, Set(1) \o Walk(2))
        BY <3>3, <4>3, <4>4, <1>0, PlanOfSetAndWalk
      <4> QED
        BY <4>2, <4>5
    <3>5. CASE fields[3] = "Block"
      <4>1. visit(kind, fields) = Set(1) \o Walk(2) \o Walk(3)
        BY <3>1, <3>5 DEF Has
      <4> QED
        BY <4>1, <3>3, <3>5, <2>10, <1>0, PlanOfSetAndTwoWalks
    <3> QED
      BY <3>3, <3>4, <3>5
  <2> QED
    BY <1>3, <1>9, <2>2, <2>3, <2>4, <2>5, <2>6, <2>7, <2>8, <2>9, <2>10
<1>10. CASE kind \in Pattern
  <2>1. fields \in PatternFields[kind]
    BY <1>10, <1>1, <1>2, <1>3, <1>4, <1>5 DEF Fields
  <2>2. PICK of \in {{"Expr"}, {"ParamDecl"}} : fields \in Items(of)
    BY <2>1, <1>4, <1>10 DEF PatternFields
  <2>3. visit(kind, fields) = Each(fields)
    BY <1>4, <1>10 DEF visit, visitExprPattern, visitVarPattern
  <2>4. of \subseteq Places \union {"null"} /\ "null" \notin of
    BY PlacesAre
  <2> QED
    BY <2>2, <2>3, <2>4, <1>0, <1>4, <1>10, ListPlan
<1>11. CASE kind \in DOMAIN TypeReprFields
  <2>1. fields \in TypeReprFields[kind]
    BY <1>11, <1>1, <1>2, <1>3, <1>4, <1>5 DEF Fields
  <2>2. CASE kind = "Ident"
    <3>1. visit(kind, fields) = <<>> /\ fields = <<>>
      BY <2>1, <2>2 DEF visit, visitIdentTypeRepr, TypeReprFields
    <3>2. fields \in Seq(Places \union {"null"}) /\ Present(fields) = {}
      BY <3>1 DEF Present
    <3> QED
      BY <3>1, <3>2, <1>0, PlanOfNone
  <2>3. CASE kind = "Array"
    <3>1. visit(kind, fields) = Walk(1) \o Walk(2)
      BY <2>3 DEF visit, visitArrayTypeRepr
    <3>2. fields = <<"TypeRepr", "SubscriptStmt">>
      BY <2>1, <2>3 DEF TypeReprFields
    <3>3. /\ fields \in Seq(Places \union {"null"}) /\ Len(fields) = 2
          /\ fields[1] = "TypeRepr" /\ fields[2] = "SubscriptStmt"
      BY <3>2, PlacesAre
    <3>4. fields[1] \notin {"null", "Expr"} /\ fields[2] \notin {"null", "Expr"} /\ kind # "ArrayLiteral"
      BY <3>3, <2>3
    <3>6. Plan(kind, fields, Walk(1) \o Walk(2))
      BY <3>3, <3>4, <1>0, PlanOfTwoWalks
    <3> QED
      BY <3>1, <3>6
  <2>4. CASE kind = "InOutRepr"
    <3>1. visit(kind, fields) = Walk(1)
      BY <2>4 DEF visit, visitInOutTypeRepr
    <3>2. fields = <<"TypeRepr">>
      BY <2>1, <2>4 DEF TypeReprFields
    <3>3. fields \in Seq(Places \union {"null"}) /\ Len(fields) = 1 /\ fields[1] = "TypeRepr"
      BY <3>2, PlacesAre
    <3>9. Present(fields) = {1}
      BY <3>3 DEF Present
    <3> QED
      BY <3>9, <3>1, <3>3, <2>4, <1>0, PlanOfOne DEF Stores
  <2> QED
    BY <1>5, <1>11, <2>2, <2>3, <2>4
<1> QED
  BY <1>6, <1>7, <1>8, <1>9, <1>10, <1>11

-----------------------------------------------------------------------------
(* What the steps do to one call *)
LEMMA TailIs ==
    ASSUME NEW S, NEW s \in Seq(S), s # <<>>
    PROVE  /\ Len(s) \in Nat \ {0} /\ Tail(s) \in Seq(S) /\ Len(Tail(s)) = Len(s) - 1
           /\ \A i \in 1 .. Len(Tail(s)) : Tail(s)[i] = s[i + 1]
           /\ Head(s) = s[1] /\ s[1] \in S
<1>1. Len(s) \in Nat \ {0}
  BY EmptySeq
<1>2. Tail(s) \in Seq(S) /\ Len(Tail(s)) = Len(s) - 1 /\ Head(s) = s[1]
  BY HeadTailProperties
<1>3. \A i \in 1 .. Len(Tail(s)) : Tail(s)[i] = s[i + 1]
  BY HeadTailProperties
<1> QED
  BY <1>1, <1>2, <1>3

(* The next child is taken. *)
LEMMA Takes ==
    ASSUME NEW call \in CallType, CallOK(call), Between(call), call.todo # <<>>,
           Place(call) # "null",
           NEW here, here = [call EXCEPT !.walked = Append(@, Head(call.todo).child)]
    PROVE  here \in CallType /\ CallOK(here) /\ Waiting(here) /\ Place(here) = Place(call)
<1> DEFINE n == Len(call.walked)
           next == call.todo[1].child
<1>1. /\ call.todo \in Seq(Steps) /\ call.walked \in Seq(Nat) /\ call.fields \in Seq(Places \union {"null"})
      /\ n \in Nat
  BY DEF CallType
<1>2. Len(call.todo) \in Nat \ {0} /\ Head(call.todo) = call.todo[1] /\ next \in Nat
  <2>1. Len(call.todo) \in Nat \ {0} /\ Head(call.todo) = call.todo[1] /\ call.todo[1] \in Steps
    BY <1>1, TailIs
  <2> QED
    BY <2>1 DEF Steps
<1>3. /\ here.kind = call.kind /\ here.fields = call.fields /\ here.todo = call.todo
      /\ here.stale = call.stale /\ here.walked = Append(call.walked, next)
  BY <1>2 DEF CallType
<1>4. /\ here.walked \in Seq(Nat) /\ Len(here.walked) = n + 1 /\ here.walked[n + 1] = next
      /\ \A i \in 1 .. n : here.walked[i] = call.walked[i]
      /\ DOMAIN here.walked = 1 .. n + 1 /\ n + 1 # 0
  BY <1>1, <1>2, <1>3
<1>5. here \in CallType
  BY <1>4 DEF CallType
<1>6. TodoOK(here)
  BY <1>3 DEF CallOK, TodoOK
<1>7. \A i \in 1 .. n : here.walked[i] < next
  BY <1>2, <1>4 DEF Between
<1>8. InOrder(here.walked)
  <2>1. SUFFICES ASSUME NEW i \in 1 .. n + 1, NEW j \in 1 .. n + 1, i < j
                 PROVE  here.walked[i] < here.walked[j]
    BY <1>4 DEF InOrder
  <2>2. CASE j = n + 1
    BY <2>1, <2>2, <1>1, <1>4, <1>7
  <2>3. CASE j # n + 1
    <3>0. n \in Nat /\ i \in 1 .. n + 1 /\ j \in 1 .. n + 1 /\ i < j /\ j # n + 1
      BY <2>1, <2>3, <1>1
    <3>1. i \in 1 .. n /\ j \in 1 .. n
      <4> HIDE DEF n
      <4> QED
        BY <3>0
    <3>2. i \in DOMAIN call.walked /\ j \in DOMAIN call.walked
      BY <3>1, <1>1
    <3>3. call.walked[i] < call.walked[j]
      BY <3>2, <2>1 DEF CallOK, WalkedOK, InOrder
    <3> QED
      BY <3>1, <3>3, <1>4
  <2> QED
    BY <2>2, <2>3
<1>9. WalkedOK(here)
  <2>1. next \in Children(call.fields)
    BY <1>1, <1>2 DEF CallOK, TodoOK, Place, Children
  <2>2. \A i \in 1 .. n : here.walked[i] \in Children(here.fields)
    BY <1>3, <1>4 DEF CallOK, WalkedOK
  <2>3. \A i \in 1 .. Len(here.walked) : here.walked[i] \in Children(here.fields)
    BY <1>1, <1>3, <1>4, <2>1, <2>2
  <2> QED
    BY <1>8, <2>3 DEF WalkedOK
<1>10. Complete(here)
  <2>1. call.kind # "ArrayLiteral"
    BY DEF CallOK, Complete
  <2>2. SUFFICES ASSUME NEW child \in Children(call.fields), NEW i \in 1 .. n, call.walked[i] = child
                 PROVE  \E j \in 1 .. Len(here.walked) : here.walked[j] = child
    BY <1>3, <2>1 DEF CallOK, Complete
  <2> QED
    BY <1>1, <1>4, <2>2
<1>11. Waiting(here)
  <2>1. here.todo # <<>> /\ here.walked # <<>>
    BY <1>3, <1>4, EmptySeq
  <2>2. here.walked[Len(here.walked)] = here.todo[1].child
    BY <1>3, <1>4
  <2>3. ASSUME NEW i \in 1 .. n + 1, NEW j \in 1 .. Len(call.todo), i < n + 1 \/ j > 1
        PROVE  here.walked[i] < call.todo[j].child
    <3>1. CASE i < n + 1
      <4>1. i \in 1 .. n
        BY <3>1, <1>1
      <4> QED
        BY <4>1, <1>4 DEF Between
    <3>2. CASE i = n + 1 /\ j > 1
      <4>1. 1 \in 1 .. Len(call.todo)
        BY <1>2
      <4>2. call.todo[1].child < call.todo[j].child
        BY <3>2, <4>1 DEF CallOK, TodoOK
      <4> QED
        BY <3>2, <4>2, <1>4
    <3> QED
      BY <2>3, <3>1, <3>2, <1>1
  <2> QED
    BY <1>3, <1>4, <2>1, <2>2, <2>3 DEF Waiting, Place
<1>12. Place(here) = Place(call)
  BY <1>3 DEF Place
<1> QED
  BY <1>5, <1>6, <1>9, <1>10, <1>11, <1>12 DEF CallOK

(* The child is behind it, walked or passed over. *)
LEMMA GoesOn ==
    ASSUME NEW call \in CallType, CallOK(call), call.todo # <<>>,
           Waiting(call) \/ (Between(call) /\ Place(call) = "null"),
           NEW here, here = [call EXCEPT !.todo = Tail(@)]
    PROVE  here \in CallType /\ CallOK(here) /\ Between(here)
<1> DEFINE m == Len(call.todo)
<1>1. /\ call.todo \in Seq(Steps) /\ call.walked \in Seq(Nat) /\ call.fields \in Seq(Places \union {"null"})
  BY DEF CallType
<1>2. m \in Nat \ {0} /\ Tail(call.todo) \in Seq(Steps) /\ Len(Tail(call.todo)) = m - 1
      /\ \A i \in 1 .. m - 1 : Tail(call.todo)[i] = call.todo[i + 1]
  BY <1>1, TailIs
<1>3. /\ here.kind = call.kind /\ here.fields = call.fields /\ here.todo = Tail(call.todo)
      /\ here.stale = call.stale /\ here.walked = call.walked
  BY DEF CallType
<1>4. Len(here.todo) = m - 1 /\ \A i \in 1 .. m - 1 : i + 1 \in 2 .. m /\ here.todo[i] = call.todo[i + 1]
  BY <1>2, <1>3
<1>5. here \in CallType
  BY <1>2 DEF CallType
<1>6. TodoOK(here)
  <2>1. \A i, j \in 1 .. m - 1 : i < j => here.todo[i].child < here.todo[j].child
    <3>1. SUFFICES ASSUME NEW i \in 1 .. m - 1, NEW j \in 1 .. m - 1, i < j
                   PROVE  call.todo[i + 1].child < call.todo[j + 1].child
      BY <1>4
    <3>2. i + 1 \in 1 .. m /\ j + 1 \in 1 .. m /\ i + 1 < j + 1
      BY <1>2, <3>1
    <3> QED
      BY <3>2 DEF CallOK, TodoOK
  <2>2. ASSUME NEW i \in 1 .. m - 1
        PROVE  /\ here.todo[i].child \in 1 .. Len(here.fields)
               /\ here.fields[here.todo[i].child] = "Expr" => here.todo[i].set
               /\ here.fields[here.todo[i].child] = "null" => here.kind = "Module"
    <3>1. i + 1 \in 1 .. m
      BY <1>2
    <3> QED
      BY <3>1, <1>3, <1>4 DEF CallOK, TodoOK
  <2> QED
    BY <1>4, <2>1, <2>2 DEF TodoOK
<1>7. WalkedOK(here)
  BY <1>3 DEF CallOK, WalkedOK
<1>8. Complete(here)
  <2>1. call.kind # "ArrayLiteral"
    BY DEF CallOK, Complete
  <2>2. ASSUME NEW child \in Children(call.fields)
        PROVE  \/ \E i \in 1 .. Len(here.walked) : here.walked[i] = child
               \/ \E i \in 1 .. m - 1 : here.todo[i].child = child
    <3>1. CASE \E i \in 1 .. Len(call.walked) : call.walked[i] = child
      BY <3>1, <1>3
    <3>2. ASSUME NEW j \in 1 .. m, call.todo[j].child = child, j # 1
          PROVE  \E i \in 1 .. m - 1 : here.todo[i].child = child
      <4>1. j - 1 \in 1 .. m - 1 /\ (j - 1) + 1 = j
        BY <3>2, <1>2
      <4>2. here.todo[j - 1] = call.todo[j]
        BY <4>1, <1>4
      <4> QED
        BY <3>2, <4>1, <4>2
    <3>3. CASE call.todo[1].child = child
      <4>1. Place(call) # "null"
        BY <3>3 DEF Place, Children
      <4>2. call.walked # <<>> /\ call.walked[Len(call.walked)] = child
        BY <3>3, <4>1 DEF Waiting
      <4>3. Len(call.walked) \in 1 .. Len(call.walked)
        BY <4>2, <1>1, TailIs
      <4> QED
        BY <4>2, <4>3, <1>3
    <3> QED
      BY <2>1, <3>1, <3>2, <3>3 DEF CallOK, Complete
  <2> QED
    BY <1>3, <1>4, <2>1, <2>2 DEF Complete
<1>9. Between(here)
  <2>1. SUFFICES ASSUME NEW i \in 1 .. Len(call.walked), NEW j \in 1 .. m - 1
                 PROVE  call.walked[i] < call.todo[j + 1].child
    BY <1>3, <1>4 DEF Between
  <2>2. j + 1 \in 1 .. m /\ j + 1 > 1
    BY <1>2
  <2> QED
    BY <2>2 DEF Between, Waiting
<1> QED
  BY <1>5, <1>6, <1>7, <1>8, <1>9 DEF CallOK

-----------------------------------------------------------------------------
(* What they do to the stack *)
LEMMA TopReplaced ==
    ASSUME NEW S, NEW s \in Seq(S), s # <<>>, NEW x \in S, NEW r, r = <<x>> \o Tail(s)
    PROVE  r \in Seq(S) /\ Len(r) = Len(s) /\ r[1] = x /\ \A k \in 2 .. Len(s) : r[k] = s[k]
<1>1. /\ Len(s) \in Nat \ {0} /\ Tail(s) \in Seq(S) /\ Len(Tail(s)) = Len(s) - 1
      /\ \A i \in 1 .. Len(s) - 1 : Tail(s)[i] = s[i + 1]
  BY TailIs
<1> DEFINE one == <<x>>
<1>2. one \in Seq(S) /\ Len(one) = 1 /\ one[1] = x
  OBVIOUS
<1> HIDE DEF one
<1>3. /\ r \in Seq(S) /\ Len(r) = Len(one) + Len(Tail(s))
      /\ \A i \in 1 .. Len(one) + Len(Tail(s)) :
            r[i] = IF i <= Len(one) THEN one[i] ELSE Tail(s)[i - Len(one)]
  BY <1>1, <1>2, ConcatProperties DEF one
<1>4. Len(r) = Len(s)
  BY <1>1, <1>2, <1>3
<1>5. r[1] = x
  BY <1>1, <1>2, <1>3
<1>6. ASSUME NEW k \in 2 .. Len(s) PROVE r[k] = s[k]
  <2>1. k \in 1 .. Len(one) + Len(Tail(s)) /\ ~(k <= Len(one)) /\ k - Len(one) = k - 1
    BY <1>1, <1>2
  <2>2. k - 1 \in 1 .. Len(s) - 1 /\ (k - 1) + 1 = k
    BY <1>1
  <2> QED
    BY <2>1, <2>2, <1>1, <1>3
<1> QED
  BY <1>3, <1>4, <1>5, <1>6

LEMMA Pushed ==
    ASSUME NEW S, NEW s \in Seq(S), s # <<>>, NEW x \in S, NEW y \in S, NEW r, r = <<y, x>> \o Tail(s)
    PROVE  /\ r \in Seq(S) /\ Len(r) = Len(s) + 1 /\ r[1] = y /\ r[2] = x
           /\ \A k \in 3 .. Len(s) + 1 : k - 1 \in 2 .. Len(s) /\ r[k] = s[k - 1]
<1>1. /\ Len(s) \in Nat \ {0} /\ Tail(s) \in Seq(S) /\ Len(Tail(s)) = Len(s) - 1
      /\ \A i \in 1 .. Len(s) - 1 : Tail(s)[i] = s[i + 1]
  BY TailIs
<1> DEFINE two == <<y, x>>
<1>2. two \in Seq(S) /\ Len(two) = 2 /\ two[1] = y /\ two[2] = x
  OBVIOUS
<1> HIDE DEF two
<1>3. /\ r \in Seq(S) /\ Len(r) = Len(two) + Len(Tail(s))
      /\ \A i \in 1 .. Len(two) + Len(Tail(s)) :
            r[i] = IF i <= Len(two) THEN two[i] ELSE Tail(s)[i - Len(two)]
  BY <1>1, <1>2, ConcatProperties DEF two
<1>4. Len(r) = Len(s) + 1
  BY <1>1, <1>2, <1>3
<1>5. r[1] = y
  BY <1>1, <1>2, <1>3
<1>6. r[2] = x
  BY <1>1, <1>2, <1>3
<1>7. ASSUME NEW k \in 3 .. Len(s) + 1 PROVE k - 1 \in 2 .. Len(s) /\ r[k] = s[k - 1]
  <2>1. k \in 1 .. Len(two) + Len(Tail(s)) /\ ~(k <= Len(two)) /\ k - Len(two) = k - 2
    BY <1>1, <1>2
  <2>2. k - 2 \in 1 .. Len(s) - 1 /\ (k - 2) + 1 = k - 1 /\ k - 1 \in 2 .. Len(s)
    BY <1>1
  <2> QED
    BY <2>1, <2>2, <1>1, <1>3
<1> QED
  BY <1>3, <1>4, <1>5, <1>6, <1>7

LEMMA StackReplaced ==
    ASSUME NEW s, Stack(s), s # <<>>, NEW x \in CallType, CallOK(x), x.kind = s[1].kind,
           NEW r, r = <<x>> \o Tail(s)
    PROVE  Stack(r) /\ r # <<>> /\ r[1] = x
<1>1. s \in Seq(CallType)
  BY DEF Stack
<1>2. /\ r \in Seq(CallType) /\ Len(r) = Len(s) /\ r[1] = x
      /\ \A k \in 2 .. Len(s) : r[k] = s[k]
  BY <1>1, TopReplaced
<1>3. Len(s) \in Nat \ {0}
  BY <1>1, EmptySeq
<1>4. ASSUME NEW k \in 1 .. Len(s) PROVE CallOK(r[k])
  <2>1. CASE k = 1
    BY <2>1, <1>2
  <2>2. CASE k # 1
    <3>1. k \in 2 .. Len(s)
      BY <2>2, <1>3
    <3> QED
      BY <3>1, <1>2 DEF Stack
  <2> QED
    BY <2>1, <2>2
<1>5. ASSUME NEW k \in 2 .. Len(s) PROVE Waiting(r[k]) /\ r[k - 1].kind \in Kinds[Place(r[k])]
  <2>1. r[k] = s[k] /\ Waiting(s[k]) /\ s[k - 1].kind \in Kinds[Place(s[k])]
    BY <1>2 DEF Stack
  <2>2. r[k - 1].kind = s[k - 1].kind
    <3>1. CASE k = 2
      BY <3>1, <1>2
    <3>2. CASE k # 2
      <4>1. k - 1 \in 2 .. Len(s)
        BY <3>2, <1>3
      <4> QED
        BY <4>1, <1>2
    <3> QED
      BY <3>1, <3>2
  <2> QED
    BY <2>1, <2>2
<1>6. Stack(r)
  BY <1>2, <1>4, <1>5 DEF Stack
<1>7. r # <<>>
  BY <1>2, <1>3, EmptySeq
<1> QED
  BY <1>2, <1>6, <1>7

TwoOnTail(y, x, s) == <<y, x>> \o Tail(s)

LEMMA StackPushed ==
    ASSUME NEW s, Stack(s), s # <<>>, NEW x \in CallType, CallOK(x), Waiting(x),
           NEW y \in CallType, CallOK(y), y.kind \in Kinds[Place(x)],
           x.kind = s[1].kind, NEW r, r = TwoOnTail(y, x, s)
    PROVE  Stack(r) /\ r # <<>> /\ r[1] = y
<1>1. s \in Seq(CallType)
  BY DEF Stack
<1>2. /\ r \in Seq(CallType) /\ Len(r) = Len(s) + 1 /\ r[1] = y /\ r[2] = x
      /\ \A k \in 3 .. Len(s) + 1 : k - 1 \in 2 .. Len(s) /\ r[k] = s[k - 1]
  BY <1>1, Pushed DEF TwoOnTail
<1>3. Len(s) \in Nat \ {0}
  BY <1>1, EmptySeq
<1>4. ASSUME NEW k \in 1 .. Len(s) + 1 PROVE CallOK(r[k])
  <2>1. CASE k = 1 \/ k = 2
    BY <2>1, <1>2
  <2>2. CASE k # 1 /\ k # 2
    <3>1. k \in 3 .. Len(s) + 1
      BY <2>2, <1>3
    <3>2. k - 1 \in 1 .. Len(s) /\ r[k] = s[k - 1]
      BY <3>1, <1>2, <1>3
    <3> QED
      BY <3>2 DEF Stack
  <2> QED
    BY <2>1, <2>2
<1>5. ASSUME NEW k \in 2 .. Len(s) + 1 PROVE Waiting(r[k]) /\ r[k - 1].kind \in Kinds[Place(r[k])]
  <2>1. CASE k = 2
    BY <2>1, <1>2
  <2>2. CASE k # 2
    <3>1. k \in 3 .. Len(s) + 1
      BY <2>2, <1>3
    <3>2. /\ k - 1 \in 2 .. Len(s) /\ r[k] = s[k - 1]
          /\ Waiting(s[k - 1]) /\ s[(k - 1) - 1].kind \in Kinds[Place(s[k - 1])]
      BY <3>1, <1>2 DEF Stack
    <3>3. r[k - 1].kind = s[(k - 1) - 1].kind
      <4>1. CASE k = 3
        BY <4>1, <1>2
      <4>2. CASE k # 3
        <5>1. k - 1 \in 3 .. Len(s) + 1
          BY <3>1, <4>2, <1>3
        <5> QED
          BY <5>1, <1>2
      <4> QED
        BY <4>1, <4>2
    <3> QED
      BY <3>2, <3>3
  <2> QED
    BY <2>1, <2>2
<1>6. Stack(r)
  BY <1>2, <1>4, <1>5 DEF Stack
<1>7. r # <<>>
  BY <1>2, <1>3, EmptySeq
<1> QED
  BY <1>2, <1>6, <1>7

LEMMA StackPopped ==
    ASSUME NEW s, Stack(s), s # <<>>, NEW r, r = Tail(s)
    PROVE  /\ Stack(r)
           /\ r # <<>> => /\ r[1] \in CallType /\ CallOK(r[1]) /\ Waiting(r[1])
                          /\ s[1].kind \in Kinds[Place(r[1])]
<1>1. s \in Seq(CallType)
  BY DEF Stack
<1>2. /\ r \in Seq(CallType) /\ Len(s) \in Nat \ {0} /\ Len(r) = Len(s) - 1
      /\ \A k \in 1 .. Len(s) - 1 : r[k] = s[k + 1]
  BY <1>1, TailIs
<1>3. ASSUME NEW k \in 1 .. Len(s) - 1 PROVE CallOK(r[k])
  <2>1. k + 1 \in 1 .. Len(s)
    BY <1>2
  <2> QED
    BY <2>1, <1>2 DEF Stack
<1>4. ASSUME NEW k \in 2 .. Len(s) - 1 PROVE Waiting(r[k]) /\ r[k - 1].kind \in Kinds[Place(r[k])]
  <2>1. k + 1 \in 2 .. Len(s) /\ (k + 1) - 1 = k /\ k \in 1 .. Len(s) - 1 /\ k - 1 \in 1 .. Len(s) - 1
        /\ (k - 1) + 1 = k
    BY <1>2
  <2>2. Waiting(s[k + 1]) /\ s[(k + 1) - 1].kind \in Kinds[Place(s[k + 1])]
    BY <2>1 DEF Stack
  <2>3. r[k] = s[k + 1] /\ r[k - 1] = s[k]
    BY <2>1, <1>2
  <2> QED
    BY <2>1, <2>2, <2>3
<1>5. Stack(r)
  BY <1>2, <1>3, <1>4 DEF Stack
<1>6. ASSUME r # <<>>
      PROVE  r[1] \in CallType /\ CallOK(r[1]) /\ Waiting(r[1]) /\ s[1].kind \in Kinds[Place(r[1])]
  <2>1. Len(s) - 1 \in Nat \ {0}
    BY <1>2, <1>6, EmptySeq
  <2>2. 2 \in 2 .. Len(s) /\ 1 \in 1 .. Len(s) - 1 /\ 2 - 1 = 1 /\ 1 + 1 = 2
    BY <2>1, <1>2
  <2>3. Waiting(s[2]) /\ s[2 - 1].kind \in Kinds[Place(s[2])]
    BY <2>2 DEF Stack
  <2>4. r[1] = s[2]
    BY <2>2, <1>2
  <2>5. r[1] \in CallType
    BY <2>1, <1>2
  <2> QED
    BY <2>2, <2>3, <2>4, <2>5, <1>3
<1> QED
  BY <1>5, <1>6

-----------------------------------------------------------------------------
(* The invariant *)
LEMMA TopIs ==
    ASSUME WalkInv, calls # <<>>
    PROVE  /\ This = calls[1] /\ calls[1] \in CallType /\ CallOK(calls[1])
           /\ calls[1].todo \in Seq(Steps)
           /\ calls[1].todo # <<>> => Head(calls[1].todo) = calls[1].todo[1] /\ calls[1].todo[1] \in Steps
<1>1. calls \in Seq(CallType)
  BY DEF WalkInv, Stack
<1>2. Len(calls) \in Nat \ {0} /\ This = calls[1] /\ calls[1] \in CallType
  BY <1>1, TailIs DEF This
<1>3. CallOK(calls[1])
  BY <1>2 DEF WalkInv, Stack
<1>4. calls[1].todo \in Seq(Steps)
  BY <1>2 DEF CallType
<1>5. calls[1].todo # <<>> => Head(calls[1].todo) = calls[1].todo[1] /\ calls[1].todo[1] \in Steps
  BY <1>4, TailIs
<1> QED
  BY <1>2, <1>3, <1>4, <1>5

LEMMA WalkInvInit == Init => WalkInv
<1> SUFFICES ASSUME Init PROVE WalkInv
  OBVIOUS
<1>1. PICK root \in Roots : calls = <<Call("root", <<root>>, Set(1))>>
  BY DEF Init
<1> DEFINE call == Call("root", <<root>>, Set(1))
<1>2. root \in {"Module", "Expr"}
  BY <1>1 DEF Roots
<1>3. Plan("root", <<root>>, Set(1))
  <2> DEFINE fields == <<root>>
  <2>1. fields \in Seq(Places \union {"null"}) /\ Len(fields) = 1 /\ fields[1] # "null"
    BY <1>2, PlacesAre
  <2> HIDE DEF fields
  <2>2. Present(fields) = {1}
    BY <2>1 DEF Present
  <2>3. Plan("root", fields, Set(1))
    BY <2>1, <2>2, PlanOfOne DEF Stores
  <2> QED
    BY <2>3 DEF fields
<1>4. call \in CallType /\ CallOK(call) /\ Between(call)
  BY <1>3, PlannedCall
<1> HIDE DEF call
<1>5. calls \in Seq(CallType) /\ Len(calls) = 1 /\ calls[1] = call
  BY <1>1, <1>4 DEF call
<1>6. Stack(calls)
  BY <1>4, <1>5 DEF Stack
<1> QED
  BY <1>4, <1>5, <1>6 DEF Init, WalkInv

LEMMA PassOverKeeps == WalkInv /\ passOver => WalkInv'
<1> SUFFICES ASSUME WalkInv, passOver PROVE WalkInv'
  OBVIOUS
<1> DEFINE here == [calls[1] EXCEPT !.todo = Tail(@)]
<1>1. /\ calls # <<>> /\ ret = "none" /\ ret' = "none" /\ walker' = walker
  BY DEF passOver, Running
<1>2. /\ This = calls[1] /\ calls[1] \in CallType /\ CallOK(calls[1])
      /\ calls[1].todo # <<>> /\ Place(calls[1]) = "null" /\ Between(calls[1])
  BY <1>1, TopIs DEF passOver, Place, WalkInv
<1>3. calls' = <<here>> \o Tail(calls)
  BY <1>2 DEF passOver
<1>4. here \in CallType /\ CallOK(here) /\ Between(here) /\ here.kind = calls[1].kind
  <2>1. here \in CallType /\ CallOK(here) /\ Between(here)
    BY <1>2, GoesOn
  <2> QED
    BY <1>2, <2>1 DEF CallType
<1> HIDE DEF here
<1>5. Stack(calls)
  BY DEF WalkInv
<1>6. Stack(calls') /\ calls' # <<>> /\ calls'[1] = here
  BY <1>1, <1>3, <1>4, <1>5, StackReplaced
<1> QED
  BY <1>1, <1>4, <1>6 DEF WalkInv

LEMMA TraverseKeeps == WalkInv /\ traverse => WalkInv'
<1> SUFFICES ASSUME WalkInv, traverse PROVE WalkInv'
  OBVIOUS
<1> DEFINE i == calls[1].todo[1].child
           here == [calls[1] EXCEPT !.walked = Append(@, Head(calls[1].todo).child)]
<1>1. /\ calls # <<>> /\ ret = "none" /\ walker' = walker
      /\ walker \in {"FwdDeclarator", "MutationResolver", "ExprSolver", "any"}
  BY DEF traverse, Running, WalkInv
<1>2. /\ This = calls[1] /\ calls[1] \in CallType /\ CallOK(calls[1])
      /\ calls[1].todo # <<>> /\ Between(calls[1])
      /\ Head(calls[1].todo) = calls[1].todo[1] /\ calls[1].todo \in Seq(Steps)
  BY <1>1, TopIs DEF traverse, WalkInv
<1>3. Place(calls[1]) # "null"
  <2>1. SUFFICES ASSUME Place(calls[1]) = "null" PROVE FALSE
    OBVIOUS
  <2>2. calls[1].kind # "Module"
    BY <1>2, <2>1 DEF traverse, Place
  <2>3. 1 \in 1 .. Len(calls[1].todo)
    BY <1>2, TailIs
  <2> QED
    BY <1>2, <2>1, <2>2, <2>3 DEF CallOK, TodoOK, Place
<1>4. here \in CallType /\ CallOK(here) /\ Waiting(here) /\ Place(here) = Place(calls[1])
  BY <1>2, <1>3, Takes
<1>5. here.kind = calls[1].kind
  BY <1>2 DEF CallType
<1> DEFINE Does(kind, answer) ==
         \/ /\ answer = "walk" /\ Len(calls) <= MaxCalls
            /\ \E fields \in Fields(kind) :
                  calls' = <<Call(kind, fields, visit(kind, fields)), here>> \o Tail(calls)
            /\ UNCHANGED <<ret, refused>>
         \/ /\ answer = "skip" \/ (answer = "walk" /\ Len(calls) > MaxCalls)
            /\ ret' = "same" /\ calls' = <<here>> \o Tail(calls)
            /\ UNCHANGED refused
         \/ /\ answer \in {"new", "refuse"}
            /\ ret' = answer /\ calls' = <<here>> \o Tail(calls)
            /\ refused' = (answer = "refuse")
<1>61. PICK kind \in Kinds[Place(calls[1])] : \E answer \in preWalk(kind) : Does(kind, answer)
  BY <1>2, <1>3 DEF traverse, Place
<1>6. PICK answer \in preWalk(kind) : Does(kind, answer)
  BY <1>61
<1>7. answer \in {"walk", "skip", "new", "refuse"} /\ (answer = "new" => kind \in Expr)
  BY <1>1, PreWalkAnswers
<1>8. Place(calls[1]) \in Places
  <2>1. 1 \in 1 .. Len(calls[1].todo)
    BY <1>2, TailIs
  <2>2. i \in 1 .. Len(calls[1].fields)
    BY <1>2, <2>1 DEF CallOK, TodoOK
  <2>3. calls[1].fields \in Seq(Places \union {"null"})
    BY <1>2 DEF CallType
  <2>4. calls[1].fields[i] \in Places \union {"null"}
    BY <2>2, <2>3
  <2> QED
    BY <2>4, <1>3 DEF Place
<1>9. answer = "new" => Place(calls[1]) = "Expr"
  BY <1>7, <1>8, OnlyExprPlace
<1> HIDE DEF here
<1>10. Stack(calls)
  BY DEF WalkInv
<1>11. CASE ret' = "none"
  <2>1. PICK fields \in Fields(kind) :
           calls' = <<Call(kind, fields, visit(kind, fields)), here>> \o Tail(calls)
    BY <1>6, <1>7, <1>11
  <2> DEFINE call == Call(kind, fields, visit(kind, fields))
  <2>2. Plan(kind, fields, visit(kind, fields))
    BY <1>8, VisitPlans
  <2>3. call \in CallType /\ CallOK(call) /\ Between(call)
    BY <2>2, PlannedCall
  <2>4. call.kind \in Kinds[Place(here)]
    BY <1>4 DEF Call
  <2>5. calls' = TwoOnTail(call, here, calls)
    BY <2>1 DEF TwoOnTail
  <2> HIDE DEF call
  <2>6. Stack(calls') /\ calls' # <<>> /\ calls'[1] = call
    <3>1. /\ here \in CallType /\ CallOK(here) /\ Waiting(here) /\ here.kind = calls[1].kind
          /\ call \in CallType /\ CallOK(call)
      BY <1>4, <1>5, <2>3
    <3> QED
      BY ONLY <1>1, <1>10, <2>4, <2>5, <3>1, StackPushed
  <2> QED
    BY <1>1, <1>11, <2>3, <2>6 DEF WalkInv
<1>12. CASE ret' # "none"
  <2>1. /\ calls' = <<here>> \o Tail(calls) /\ ret' \in {"same", "new", "refuse"}
        /\ ret' = "new" => answer = "new"
    BY <1>1, <1>6, <1>12
  <2>2. Stack(calls') /\ calls' # <<>> /\ calls'[1] = here
    BY <1>1, <1>4, <1>5, <1>10, <2>1, StackReplaced
  <2> QED
    BY <1>1, <1>4, <1>9, <1>12, <2>1, <2>2 DEF WalkInv
<1> QED
  BY <1>11, <1>12

LEMMA CheckKeeps == WalkInv /\ check => WalkInv'
<1> SUFFICES ASSUME WalkInv, check PROVE WalkInv'
  OBVIOUS
<1>1. calls # <<>> /\ ret # "none" /\ walker' = walker
  BY DEF check
<1>2. Stack(calls) /\ Waiting(calls[1])
  BY <1>1 DEF WalkInv
<1>3. /\ This = calls[1] /\ calls[1] \in CallType /\ CallOK(calls[1]) /\ calls[1].todo # <<>>
      /\ Head(calls[1].todo) = calls[1].todo[1] /\ calls[1].todo \in Seq(Steps)
  BY <1>1, <1>2, TopIs DEF Waiting
<1>4. CASE ret = "refuse" /\ calls' = Tail(calls) /\ ret' = ret
  <2>1. Stack(calls') /\ (calls' # <<>> => Waiting(calls'[1]))
    BY <1>1, <1>2, <1>4, StackPopped
  <2> QED
    BY <1>1, <1>4, <2>1 DEF WalkInv
<1>5. CASE /\ ret # "refuse" /\ ret' = "none"
           /\ calls' = <<[This EXCEPT !.todo = Tail(@),
                                      !.stale = @ \/ (ret = "new" /\ ~Head(This.todo).set)]>> \o Tail(calls)
  <2> DEFINE here == [calls[1] EXCEPT !.todo = Tail(@)]
  <2>1. ~(ret = "new" /\ ~Head(This.todo).set)
    <3>1. 1 \in 1 .. Len(calls[1].todo)
      BY <1>3, TailIs
    <3>2. Place(calls[1]) = "Expr" => calls[1].todo[1].set
      BY <1>3, <3>1 DEF CallOK, TodoOK, Place
    <3> QED
      BY <1>1, <1>3, <3>2 DEF WalkInv
  <2>2. calls[1].stale = FALSE
    BY <1>3 DEF CallType
  <2>3. [This EXCEPT !.todo = Tail(@), !.stale = @ \/ (ret = "new" /\ ~Head(This.todo).set)] = here
    BY <1>3, <2>1, <2>2 DEF CallType
  <2>4. calls' = <<here>> \o Tail(calls)
    BY <1>5, <2>3
  <2>5. here \in CallType /\ CallOK(here) /\ Between(here)
    BY <1>2, <1>3, GoesOn
  <2>6. here.kind = calls[1].kind
    BY <1>3 DEF CallType
  <2> HIDE DEF here
  <2>7. Stack(calls') /\ calls' # <<>> /\ calls'[1] = here
    BY <1>1, <1>2, <2>4, <2>5, <2>6, StackReplaced
  <2> QED
    BY <1>1, <1>5, <2>5, <2>7 DEF WalkInv
<1> QED
  BY <1>4, <1>5 DEF check

LEMMA LeaveKeeps == WalkInv /\ leave => WalkInv'
<1> SUFFICES ASSUME WalkInv, leave PROVE WalkInv'
  OBVIOUS
<1>1. /\ calls # <<>> /\ calls' = Tail(calls) /\ walker' = walker
      /\ walker \in {"FwdDeclarator", "MutationResolver", "ExprSolver", "any"}
  BY DEF leave, Running, WalkInv
<1>2. Stack(calls) /\ This = calls[1]
  BY <1>1, TopIs DEF WalkInv
<1>3. /\ Stack(calls')
      /\ calls' # <<>> => /\ calls'[1] \in CallType /\ CallOK(calls'[1]) /\ Waiting(calls'[1])
                          /\ calls[1].kind \in Kinds[Place(calls'[1])]
  BY <1>1, <1>2, StackPopped
<1>4. ret' \in {"same", "refuse"} \/ ret' \in postWalk(calls[1].kind)
  BY <1>2 DEF leave
<1>5. ret' \in {"same", "new", "refuse"} /\ (ret' = "new" => calls[1].kind \in Expr)
  BY <1>1, <1>4, PostWalkAnswers
<1>6. ASSUME calls' # <<>>, ret' = "new" PROVE Place(calls'[1]) = "Expr"
  <2> DEFINE call == calls'[1]
  <2>1. call \in CallType /\ CallOK(call) /\ call.todo # <<>> /\ calls[1].kind \in Kinds[Place(call)]
    BY <1>3, <1>6 DEF Waiting
  <2> HIDE DEF call
  <2>2. call.todo \in Seq(Steps) /\ call.fields \in Seq(Places \union {"null"})
    BY <2>1 DEF CallType
  <2>3. 1 \in 1 .. Len(call.todo)
    BY <2>1, <2>2, TailIs
  <2>4. call.todo[1].child \in 1 .. Len(call.fields)
    BY <2>1, <2>3 DEF CallOK, TodoOK
  <2>5. Place(call) \in Places \union {"null"}
    BY <2>2, <2>4 DEF Place
  <2>6. Place(call) # "null"
    BY <1>3, <1>6 DEF Waiting, call
  <2> QED
    BY <2>1, <2>5, <2>6, <1>5, <1>6, OnlyExprPlace DEF call
<1> QED
  BY <1>1, <1>3, <1>5, <1>6 DEF WalkInv

LEMMA WalkInvInductive == WalkInv /\ [Next]_vars => WalkInv'
<1>1. ASSUME WalkInv, UNCHANGED vars PROVE WalkInv'
  <2>1. WalkInv' <=> WalkInv
    BY <1>1 DEF vars, WalkInv
  <2> QED
    BY <1>1, <2>1
<1> QED
  BY <1>1, PassOverKeeps, TraverseKeeps, CheckKeeps, LeaveKeeps DEF Next

LEMMA WalkInvariant == Spec => []WalkInv
  BY WalkInvInit, WalkInvInductive, PTL DEF Spec

(* A node whose walk is over has had all its children walked, in order:    *)
(* nothing is left to be done to them, what was walked is before what is   *)
(* left, and no child is forgotten.                                        *)
THEOREM NodesAreWalked == Spec => []WalksTheTree
<1>1. ASSUME WalkInv PROVE WalksTheTree
  <2>1. ret # "crash"
    BY <1>1 DEF WalkInv
  <2>2. ASSUME Running, This.todo = <<>>
        PROVE  /\ {This.walked[i] : i \in DOMAIN This.walked} =
                     IF This.kind = "ArrayLiteral" THEN {} ELSE Children(This.fields)
               /\ InOrder(This.walked)
    <3> DEFINE call == calls[1]
    <3>1. This = call /\ call \in CallType /\ CallOK(call)
      BY <1>1, <2>2, TopIs DEF Running
    <3> HIDE DEF call
    <3>2. InOrder(call.walked)
      BY <3>1 DEF CallOK, WalkedOK
    <3>3. DOMAIN call.walked = 1 .. Len(call.walked)
      BY <3>1 DEF CallType
    <3>4. CASE call.kind = "ArrayLiteral"
      <4>1. call.walked = <<>>
        BY <3>1, <3>4 DEF CallOK, Complete
      <4>2. {call.walked[i] : i \in DOMAIN call.walked} = {}
        BY <4>1
      <4> QED
        BY <3>1, <3>2, <3>4, <4>2
    <3>5. CASE call.kind # "ArrayLiteral"
      <4>1. \A child \in Children(call.fields) : \E i \in DOMAIN call.walked : call.walked[i] = child
        BY <2>2, <3>1, <3>3, <3>5 DEF CallOK, Complete
      <4>2. \A i \in DOMAIN call.walked : call.walked[i] \in Children(call.fields)
        BY <3>1, <3>3 DEF CallOK, WalkedOK
      <4>3. {call.walked[i] : i \in DOMAIN call.walked} = Children(call.fields)
        BY <4>1, <4>2
      <4> QED
        BY <3>1, <3>2, <3>5, <4>3
    <3> QED
      BY <3>4, <3>5
  <2> QED
    BY <2>1, <2>2 DEF WalksTheTree
<1> QED
  BY <1>1, WalkInvariant, PTL

(* What a walker gives for an expression is stored: only a visitor of a    *)
(* place for an expression is ever given a new one, and each of those      *)
(* stores it.                                                              *)
THEOREM ReplacementsAreStored == Spec => []Replaced
<1>1. ASSUME WalkInv PROVE Replaced
  <2>1. calls \in Seq(CallType)
    BY <1>1 DEF WalkInv, Stack
  <2>2. ASSUME NEW i \in DOMAIN calls PROVE calls[i].stale = FALSE
    <3>1. calls[i] \in CallType
      BY <2>1
    <3> QED
      BY <3>1 DEF CallType
  <2> QED
    BY <2>2 DEF Replaced
<1> QED
  BY <1>1, WalkInvariant, PTL

-----------------------------------------------------------------------------
(* A walk that has been refused is called off: no visitor between the      *)
(* refusal and the root goes on, and a walk that nobody refused goes to    *)
(* its end.  The invariant is inductive as it stands, since a visitor that *)
(* runs is one that has been returned no refusal.                          *)
THEOREM RefusalsEndWalks == Spec => []RefusalEndsIt
<1>1. Init => RefusalEndsIt
  BY DEF Init, RefusalEndsIt
<1>2. RefusalEndsIt /\ [Next]_vars => RefusalEndsIt'
  <2> SUFFICES ASSUME RefusalEndsIt, [Next]_vars PROVE RefusalEndsIt'
    OBVIOUS
  <2>0. CASE passOver
    BY <2>0 DEF passOver, RefusalEndsIt
  <2>1. CASE traverse
    <3>1. ret = "none" /\ ~refused /\ ~cut /\ cut' = cut
      BY <2>1 DEF traverse, Running, RefusalEndsIt
    <3>2. CASE ret' = "crash" /\ UNCHANGED refused
      BY <3>1, <3>2 DEF RefusalEndsIt
    <3>3. CASE UNCHANGED <<ret, refused>> \/ (ret' = "same" /\ UNCHANGED refused)
      BY <3>1, <3>3 DEF RefusalEndsIt
    <3>4. ASSUME NEW answer, ret' = answer, refused' = (answer = "refuse")
          PROVE  RefusalEndsIt'
      BY <3>1, <3>4 DEF RefusalEndsIt
    <3> QED
      BY <2>1, <3>2, <3>3, <3>4 DEF traverse
  <2>2. CASE check
    BY <2>2 DEF check, RefusalEndsIt
  <2>3. CASE leave
    BY <2>3 DEF leave, Running, RefusalEndsIt
  <2>4. CASE UNCHANGED vars
    BY <2>4 DEF vars, RefusalEndsIt
  <2> QED
    BY <2>0, <2>1, <2>2, <2>3, <2>4 DEF Next
<1> QED
  BY <1>1, <1>2, PTL DEF Spec

=============================================================================
