------------------------------- MODULE Syntax -------------------------------
(***************************************************************************)
(* The kinds of tokens of a dusk file and its grammar, from the rules in   *)
(* the comments of lib/Parser and, for what has none there, in             *)
(* docs/Language reference.  Extern declarations, which are documented and *)
(* which no method of the parser reaches, are left out.                    *)
(***************************************************************************)
EXTENDS Naturals, Sequences

Keyword == {"kw_var", "kw_let", "kw_inout", "kw_break", "kw_return", "kw_if", "kw_else",
            "kw_while", "kw_for", "kw_in", "kw_func", "kw_extern"}

BinaryOperator == {"assign", "plus", "minus", "mod", "divide", "multipy", "land", "lor",
                   "equals", "nequals", "less", "less_eq", "greater", "greater_eq"}

Ellipsis == {"elipsis_excl", "elipsis_incl"}

(* "bar" is the unknown token `|', the one the lexer does not diagnose. *)
Unknown == {"unknown", "bar"}

Kind == Keyword \union BinaryOperator \union Ellipsis \union Unknown \union
        {"arrow", "colon", "semi", "comma", "inout", "lnot", "l_paren", "r_paren",
         "l_bracket", "r_bracket", "l_brace", "r_brace", "number_literal",
         "identifier", "eof"}

(* The productions.  An empty Node stands for empty statements alone.  A   *)
(* `let' without a value is left to the type checker.                      *)
Rule ==
    [Nodes     |-> {<<>>, <<"Node", "Nodes">>},
     Node      |-> {<<>>, <<"VarDecl">>, <<"Statement">>},
     Statement |-> {<<>>, <<"semi", "Statement">>, <<"ExprStmt">>, <<"BreakStmt">>,
                    <<"ReturnStmt">>, <<"FuncStmt">>, <<"ForStmt">>, <<"IfStmt">>,
                    <<"WhileStmt">>},
     ExprStmt  |-> {<<"Expr", "semi">>},
     BreakStmt |-> {<<"kw_break", "semi">>},
     ReturnStmt |-> {<<"kw_return", "ReturnValue", "semi">>},
     ReturnValue |-> {<<>>, <<"Expr">>},
     Block     |-> {<<"l_brace", "Node", "Nodes", "r_brace">>},
     ForStmt   |-> {<<"kw_for", "identifier", "kw_in", "Expr", "Ellipsis", "Expr", "Block">>},
     WhileStmt |-> {<<"kw_while", "Expr", "Block">>},
     IfStmt    |-> {<<"kw_if", "Expr", "Block", "ElseStmt">>},
     ElseStmt  |-> {<<>>, <<"kw_else", "Block">>},
     FuncStmt  |-> {<<"FuncDecl", "Block">>},
     FuncDecl  |-> {<<"kw_func", "identifier", "l_paren", "Params", "r_paren", "FuncType">>},
     FuncType  |-> {<<>>, <<"arrow", "TypeRepr">>},
     Params    |-> {<<>>, <<"ParamDecl", "MoreParams">>},
     MoreParams |-> {<<>>, <<"comma", "ParamDecl", "MoreParams">>},
     ParamDecl |-> {<<"identifier", "colon", "TypeRepr">>},
     VarDecl   |-> {<<"kw_let", "identifier", "ValType", "DeclValue">>,
                    <<"kw_var", "identifier", "ValType", "DeclValue">>},
     ValType   |-> {<<>>, <<"colon", "TypeRepr">>},
     DeclValue |-> {<<"semi">>, <<"assign", "Expr", "semi">>},
     TypeRepr  |-> {<<"kw_inout", "IdentType">>, <<"IdentType">>},
     IdentType |-> {<<"identifier", "ArrayType">>},
     ArrayType |-> {<<>>, <<"l_bracket", "Expr", "r_bracket", "ArrayType">>},
     Expr      |-> {<<"Primary", "Operands">>},
     Operands  |-> {<<>>, <<"Operator", "Primary", "Operands">>},
     Primary   |-> {<<"l_paren", "Expr", "r_paren">>, <<"number_literal">>,
                    <<"identifier", "Postfix">>,
                    <<"l_bracket", "Items", "r_bracket", "Postfix">>,
                    <<"minus", "Primary">>, <<"lnot", "Primary">>, <<"inout", "Primary">>},
     Postfix   |-> {<<>>, <<"l_paren", "Items", "r_paren", "Postfix">>,
                    <<"l_bracket", "Expr", "r_bracket", "Postfix">>},
     Items     |-> {<<>>, <<"Expr", "MoreItems">>},
     MoreItems |-> {<<>>, <<"comma", "Expr", "MoreItems">>}]

Nonterminal == DOMAIN Rule

(* The tokens that a terminal stands for *)
Reads(t) == IF t = "Operator" THEN BinaryOperator
            ELSE IF t = "Ellipsis" THEN Ellipsis ELSE {t}

(* The forms that the leftmost derivation of `form' passes through first *)
Expansions(form) ==
    {form} \union
    IF form # <<>> /\ Head(form) \in Nonterminal
    THEN {p \o Tail(form) : p \in Rule[Head(form)]} ELSE {}

-----------------------------------------------------------------------------
(* The nonterminals from which nothing may be derived *)
Nullable == {X \in Nonterminal : <<>> \in Rule[X]}

(* What may come first in a sequence of symbols, if `of' says so of each *)
FirstIn(form, of) ==
    UNION {of[form[i]] : i \in {j \in DOMAIN form :
                                  \A k \in 1 .. j - 1 : form[k] \in Nullable}}

Symbol == Nonterminal \union Kind \union {"Operator", "Ellipsis"}

(* What may come first in each symbol, if `of' says so of the symbols that *)
(* its productions begin with: one round of derivations more               *)
Round(of) ==
    [s \in Symbol |-> IF s \in Nonterminal THEN UNION {FirstIn(p, of) : p \in Rule[s]}
                      ELSE Reads(s)]

NoTokens == [s \in Symbol |-> {}]

(* The tokens that derivations find first.  No symbol needs more rounds     *)
(* than a leftmost path has symbols; the longest is Nodes, Node, Statement, *)
(* ExprStmt, Expr, Primary and a token.                                     *)
First == Round(Round(Round(Round(Round(Round(Round(NoTokens)))))))

(* Some derivation of the form has the token t next. *)
MayComeNext(t, form) ==
    \/ t \in FirstIn(form, First)
    \/ t = "eof" /\ \A i \in DOMAIN form : form[i] \in Nullable

=============================================================================
