CONSTANTS
    Packages <- MCPackages
    Scripted <- MCScripted
SPECIFICATION FairSpec
INVARIANTS TransactionInvariant
PROPERTIES ImplementsAtomicInstall RootComesBack
