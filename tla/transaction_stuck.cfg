CONSTANTS
    Packages <- MCPackages
    Scripted <- MCScripted
SPECIFICATION Spec
INVARIANTS InterruptedPublicationIsResolved
