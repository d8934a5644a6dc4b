----------------------------- MODULE NameLookup -----------------------------
(***************************************************************************)
(* The symbol table of the compiler (lib/AST/NameLookup.cpp): a chain of   *)
(* LookupImpl layers, each with a map of variables and a map of constants, *)
(* and one map of functions beside the chain.  The type checker and the    *)
(* code generator each have one of their own.                              *)
(*                                                                         *)
(* StringMap's operator[] inserts a key with a null value when the key is  *)
(* missing, so merely asking for a function leaves a trace: the map of     *)
(* functions is modelled with its null entries.                            *)
(***************************************************************************)
EXTENDS LookupChain

CONSTANTS
    VarDecl,    \* declarations made with declareVar
    LetDecl,    \* declarations made with declareLet
    FuncDecl,   \* declarations made with declareFunc
    MaxDepth    \* bound: the number of pushes without a pop

Value == VarDecl \union LetDecl

ASSUME DeclAssumption ==
    /\ \A d \in Value \union FuncDecl : NameOf(d) \in Name
    /\ NoDecl \notin Value \union FuncDecl
    /\ NoDecl \notin BOOLEAN
    /\ MaxDepth \in Nat

VARIABLES
    layers,  \* Impl and its parents, the innermost last
    Funcs,   \* the declared functions
    keys,    \* the keys Funcs has, with or without a declaration
    Depth,
    result   \* what the last call returned

vars == <<layers, Funcs, keys, Depth, result>>

-----------------------------------------------------------------------------
top == Len(layers)

Init ==
    /\ layers = <<EmptyLayer>>
    /\ Funcs = NoDecls
    /\ keys = {}
    /\ Depth = 0
    /\ result = NoDecl

(* Mutant: a scope may reuse the name of a function *)
TakenHere(n) == IsDeclared(layers[top], n)

(* Mutant: no scope may reuse a name that is visible in it *)
TakenAnywhere(n) == ImplGet(layers, top, n) # NoDecl \/ Funcs[n] # NoDecl

(* Declared in this scope, or a function; `Funcs[name] != nullptr' is *)
(* evaluated, and inserts its key, only when isDeclared is false      *)
Taken(n) == Refused(layers, Funcs, n)

DeclareIn(m, d) ==
    LET n == NameOf(d)
    IN  /\ keys' = IF IsDeclared(layers[top], n) THEN keys
                   ELSE keys \union {n}
        /\ layers' = IF Taken(n) THEN layers ELSE WithEntry(layers, m, d)
        /\ result' = ~Taken(n)
        /\ UNCHANGED <<Funcs, Depth>>

declareVar(d) == d \in VarDecl /\ DeclareIn("Vars", d)

declareLet(d) == d \in LetDecl /\ DeclareIn("Consts", d)

(* asserts Depth == 0 *)
declareFunc(d) ==
    /\ d \in FuncDecl
    /\ Depth = 0
    /\ Funcs' = IF Funcs[NameOf(d)] # NoDecl THEN Funcs
                ELSE [Funcs EXCEPT ![NameOf(d)] = d]
    /\ keys' = keys \union {NameOf(d)}
    /\ result' = (Funcs[NameOf(d)] = NoDecl)
    /\ UNCHANGED <<layers, Depth>>

getVal(n) ==
    /\ result' = ImplGet(layers, top, n)
    /\ UNCHANGED <<layers, Funcs, keys, Depth>>

getFunc(n) ==
    /\ result' = Funcs[n]
    /\ keys' = keys \union {n}
    /\ UNCHANGED <<layers, Funcs, Depth>>

(* NameLookup::contains: a key of Funcs is enough *)
Contains(n) == n \in keys \/ ImplGet(layers, top, n) # NoDecl

push ==
    /\ Depth < MaxDepth
    /\ Depth' = Depth + 1
    /\ layers' = Push(layers)
    /\ result' = NoDecl
    /\ UNCHANGED <<Funcs, keys>>

(* asserts Depth != 0 *)
pop ==
    /\ Depth # 0
    /\ Depth' = Depth - 1
    /\ layers' = Pop(layers)
    /\ result' = NoDecl
    /\ UNCHANGED <<Funcs, keys>>

Next ==
    \/ \E d \in VarDecl : declareVar(d)
    \/ \E d \in LetDecl : declareLet(d)
    \/ \E d \in FuncDecl : declareFunc(d)
    \/ \E n \in Name : getVal(n) \/ getFunc(n)
    \/ push
    \/ pop

Spec == Init /\ [][Next]_vars

-----------------------------------------------------------------------------
(* The chain has a layer for each push that was not popped, its maps hold  *)
(* declarations under their own names, and calls return decls or booleans. *)
OptionalDecl(S, n) == {d \in S : NameOf(d) = n} \union {NoDecl}

Layer == [Vars : [Name -> VarDecl \union {NoDecl}],
          Consts : [Name -> LetDecl \union {NoDecl}]]

ChainOK(ls) ==
    /\ ls \in Seq(Layer)
    /\ \A i \in 1 .. Len(ls), n \in Name :
        /\ ls[i].Vars[n] \in OptionalDecl(VarDecl, n)
        /\ ls[i].Consts[n] \in OptionalDecl(LetDecl, n)

TypeOK ==
    /\ Depth \in 0 .. MaxDepth
    /\ ChainOK(layers)
    /\ Len(layers) = Depth + 1
    /\ Funcs \in [Name -> FuncDecl \union {NoDecl}]
    /\ \A n \in Name : Funcs[n] \in OptionalDecl(FuncDecl, n)
    /\ keys \subseteq Name
    /\ result \in Value \union FuncDecl \union {NoDecl} \union BOOLEAN

(* What the names mean in each scope of a chain, and what it declares *)
EnvsOf(ls) == [i \in 1 .. Len(ls) |-> [n \in Name |-> ImplGet(ls, i, n)]]

DeclaredNames(layer) == {n \in Name : IsDeclared(layer, n)}

DeclaredOf(ls) == [i \in 1 .. Len(ls) |-> DeclaredNames(ls[i])]

Env == INSTANCE LexicalEnv WITH
    Decl <- Value \union FuncDecl,
    envs <- EnvsOf(layers),
    declared <- DeclaredOf(layers),
    funcs <- Funcs

NoConsts(ls) == \A i \in 1 .. Len(ls), n \in Name : ls[i].Consts[n] = NoDecl

(* As long as no scope holds what declareLet declares, which no one calls  *)
(* in this compiler, the table is a lexical environment: the walk over the *)
(* layers finds the innermost declaration, a refused declaration changes   *)
(* nothing a lookup can see, a popped scope leaves nothing behind and the  *)
(* null entries of Funcs are not mistaken for functions.                   *)
Implements ==
    Env!Init /\ [][NoConsts(layers) /\ NoConsts(layers') => Env!Next]_(Env!vars)

(* A name is a variable or a constant of a scope, never both, so that      *)
(* isDeclared and get cannot disagree within a scope.                      *)
OneMapPerName ==
    \A i \in 1 .. top, n \in Name :
        layers[i].Vars[n] = NoDecl \/ layers[i].Consts[n] = NoDecl

(* With declareLet in use lookups are still complete: a name resolves      *)
(* exactly when an open scope declares it, and to a declaration of it;     *)
(* contains() misses none.                                                 *)
(* (Which one differs from LexicalEnv: an outer variable hides an inner    *)
(* constant, since get asks getVar first.)  OneMapPerName is why a scope   *)
(* has one answer.                                                         *)
FindsVisible ==
    /\ OneMapPerName
    /\ \A n \in Name :
          LET d == ImplGet(layers, top, n)
          IN  IF \E i \in 1 .. top : IsDeclared(layers[i], n)
              THEN /\ \E i \in 1 .. top : d \in {layers[i].Vars[n], layers[i].Consts[n]} \ {NoDecl}
                   /\ Contains(n)
              ELSE d = NoDecl

(* A function is never hidden by a local value: functions are declared in  *)
(* the global scope, when no other scope is open, and declareVar and       *)
(* declareLet refuse their names from then on.  So the type checker, which *)
(* asks for a value before it asks for a function, and the code generator, *)
(* which asks for the function a call names, mean the same declaration.    *)
LocalsSpareFunctions ==
    \A i \in 2 .. top, n \in Name :
        Funcs[n] # NoDecl => ~IsDeclared(layers[i], n)

=============================================================================
