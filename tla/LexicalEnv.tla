----------------------------- MODULE LexicalEnv -----------------------------
(***************************************************************************)
(* What the users of NameLookup (the type checker and the code generator)  *)
(* rely on: lexical scoping.  A scope is entered with the environment of   *)
(* the enclosing one, a declaration changes the environment of the         *)
(* innermost scope only, and leaving a scope brings the enclosing          *)
(* environment back.  A name is declared at most once in a scope, and a    *)
(* value never takes the name of a function.                               *)
(***************************************************************************)
EXTENDS Integers, Sequences

CONSTANTS
    Name,       \* identifiers
    Decl,       \* declarations
    NameOf(_),  \* the name of a declaration
    NoDecl      \* no declaration: nullptr

VARIABLES
    envs,       \* the open scopes, outermost first: what each name means
    declared,   \* the names each open scope has declared itself
    funcs,      \* what each name means as a function
    result      \* what the last call returned

vars == <<envs, declared, funcs, result>>

top == Len(envs)

Init ==
    /\ envs = <<[n \in Name |-> NoDecl]>>
    /\ declared = <<{}>>
    /\ funcs = [n \in Name |-> NoDecl]
    /\ result = NoDecl

Enter ==
    /\ envs' = Append(envs, envs[top])
    /\ declared' = Append(declared, {})
    /\ result' = NoDecl
    /\ UNCHANGED funcs

Leave ==
    /\ top > 1
    /\ envs' = SubSeq(envs, 1, top - 1)
    /\ declared' = SubSeq(declared, 1, top - 1)
    /\ result' = NoDecl
    /\ UNCHANGED funcs

Declare(d) ==
    LET n == NameOf(d)
    IN  /\ n \notin declared[top]
        /\ funcs[n] = NoDecl
        /\ envs' = [envs EXCEPT ![top] = [@ EXCEPT ![n] = d]]
        /\ declared' = [declared EXCEPT ![top] = @ \union {n}]
        /\ result' = TRUE
        /\ UNCHANGED funcs

DeclareFunction(d) ==
    /\ top = 1
    /\ funcs[NameOf(d)] = NoDecl
    /\ funcs' = [funcs EXCEPT ![NameOf(d)] = d]
    /\ result' = TRUE
    /\ UNCHANGED <<envs, declared>>

(* A declaration that is refused: the name is taken *)
Refuse(d) ==
    /\ NameOf(d) \in declared[top] \/ funcs[NameOf(d)] # NoDecl
    /\ result' = FALSE
    /\ UNCHANGED <<envs, declared, funcs>>

Resolve(n) ==
    /\ result' = envs[top][n]
    /\ UNCHANGED <<envs, declared, funcs>>

ResolveFunction(n) ==
    /\ result' = funcs[n]
    /\ UNCHANGED <<envs, declared, funcs>>

Next ==
    \/ Enter
    \/ Leave
    \/ \E d \in Decl : Declare(d) \/ DeclareFunction(d) \/ Refuse(d)
    \/ \E n \in Name : Resolve(n) \/ ResolveFunction(n)

Spec == Init /\ [][Next]_vars

=============================================================================
