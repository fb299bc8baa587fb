CONSTANTS
    Size <- MCSize
    MaxWrite <- MCMaxWrite
    MaxTotal <- MCMaxTotal
SPECIFICATION Spec
INVARIANTS
    TypeOK
    Layout
PROPERTIES
    ImplementsScrollback
