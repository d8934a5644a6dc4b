---------------------------- MODULE LookupChain ----------------------------
(***************************************************************************)
(* The data of a symbol table (LookupImpl in lib/AST/NameLookup.cpp): a    *)
(* chain of layers, the innermost last, each with a map of variables and a *)
(* map of constants.  The operators of this module are the functions that  *)
(* NameLookup and its users apply to it.                                   *)
(***************************************************************************)
EXTENDS Integers, Sequences

CONSTANTS
    Name,       \* identifiers
    NameOf(_),  \* Decl::getName()
    NoDecl      \* nullptr, or a key that a map does not have

NoDecls == [n \in Name |-> NoDecl]

EmptyLayer == [Vars |-> NoDecls, Consts |-> NoDecls]

-----------------------------------------------------------------------------
(* The layers up to i of a chain whose map m has an entry for n *)
Holding(ls, m, i, n) == {j \in 1 .. i : ls[j][m][n] # NoDecl}

Innermost(S) == CHOOSE j \in S : \A k \in S : k <= j

(* The entry met first on the way from layer i to its parents *)
Nearest(ls, m, i, n) ==
    LET S == Holding(ls, m, i, n)
    IN  IF S = {} THEN NoDecl ELSE ls[Innermost(S)][m][n]

(* LookupImpl::getVar: the walk over the Vars of the layer and its parents *)
ImplGetVar(ls, i, n) == Nearest(ls, "Vars", i, n)

(* Mutant: only the layer itself is searched for constants *)
ImplGetNear(ls, i, n) ==
    IF ImplGetVar(ls, i, n) # NoDecl THEN ImplGetVar(ls, i, n)
    ELSE ls[i].Consts[n]

(* LookupImpl::get asks getVar, which walks to the outermost layer, before *)
(* it looks at any Consts.                                                 *)
ImplGet(ls, i, n) ==
    IF ImplGetVar(ls, i, n) # NoDecl THEN ImplGetVar(ls, i, n)
    ELSE Nearest(ls, "Consts", i, n)

(* LookupImpl::isDeclared *)
IsDeclared(layer, n) == layer.Vars[n] # NoDecl \/ layer.Consts[n] # NoDecl

-----------------------------------------------------------------------------
(* The chain after `Impl->m[D->getName()] = D' *)
WithEntry(ls, m, d) == [ls EXCEPT ![Len(ls)][m][NameOf(d)] = d]

(* declareVar and declareLet refuse a name that this scope declares or that *)
(* is a function's; F is the map of functions.                             *)
Refused(ls, F, n) == IsDeclared(ls[Len(ls)], n) \/ F[n] # NoDecl

(* The chain after declareVar(d) *)
WithVar(ls, F, d) ==
    IF Refused(ls, F, NameOf(d)) THEN ls ELSE WithEntry(ls, "Vars", d)

Push(ls) == Append(ls, EmptyLayer)

Pop(ls) == SubSeq(ls, 1, Len(ls) - 1)

=============================================================================
