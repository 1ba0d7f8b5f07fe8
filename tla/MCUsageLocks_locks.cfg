\* Three transactions at a time; three owners, two of them with a document.
SPECIFICATION Spec
CONSTANTS
    c1 = c1
    c2 = c2
    c3 = c3
    Connections = {c1, c2, c3}
    Owners = {1, 2, 3}
    Docs = {1, 2}
    OwnerOf <- OneDocumentEach
SYMMETRY ConnectionSymmetry
INVARIANTS
    TypeOK
    OnlySweepsDeadlock
