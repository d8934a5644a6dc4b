\* the whole interface, declareLet included
SPECIFICATION Spec
CONSTANTS 
    a = a
    b = b
    va1 = va1
    va2 = va2
    vb = vb
    la = la
    lb = lb
    fa1 = fa1
    fa2 = fa2
    fb = fb
    NoDecl = NoDecl
    Name <- MCName
    NameOf <- MCNameOf
    VarDecl <- Vars
    FuncDecl <- Functions
    LetDecl <- Lets
    MaxDepth = 3
INVARIANTS
    LocalsSpareFunctions
    FindsVisible
PROPERTIES
    Implements
