\* modules with any of the oddities
SPECIFICATION Spec
CONSTANTS
    a = a
    b = b
    va1 = va1
    la1 = la1
    la2 = la2
    lb = lb
    fa = fa
    fb1 = fb1
    fb2 = fb2
    NoDecl = NoDecl
    Literal = Literal
    None = None
    Name <- MCName
    NameOf <- MCNameOf
    Var <- Vars
    Let <- FewerLets
    Func <- Functions
    MaxFuncs = 1
    MaxFrames = 2
    ErrFrames = 0
    Odd <- OddModules
INVARIANTS
    InScope
\* the module ends anywhere
CHECK_DEADLOCK FALSE
