\* mdpkg install, live and offline, on every root of MCTrees.
CONSTANTS
    MaxHops = 3
    MaxNames = 3
    Names <- MCNames
    Trees <- MCTrees
    Packages <- MCPackages
    ScriptOps <- MCScriptOps
    OtherPaths <- MCOtherPaths
SPECIFICATION Spec
INVARIANTS NothingIsLeft InventoryIsLast InventoryExplains InstalledWhereNamed
PROPERTIES NothingIsReplaced
CHECK_DEADLOCK FALSE
