\* modules without the oddities, with any number of errors: both passes agree
SPECIFICATION Spec
CONSTANTS
    a = a
    b = b
    va1 = va1
    la1 = la1
    la2 = la2
    lb = lb
    fa = fa
    fb1 = fb1
    fb2 = fb2
    NoDecl = NoDecl
    Literal = Literal
    None = None
    Name <- MCName
    NameOf <- MCNameOf
    Var <- Vars
    Let <- Lets
    Func <- Functions
    MaxFuncs = 1
    MaxFrames = 3
    ErrFrames = 1
    Odd = {}
SYMMETRY Interchangeable
INVARIANTS
    LayersMatch
    Agree
    NoCrash
    ConstantsKept
\* the module ends anywhere
CHECK_DEADLOCK FALSE
