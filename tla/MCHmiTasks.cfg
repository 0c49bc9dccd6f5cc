SPECIFICATION Spec
CONSTANTS
    NULL = NULL
    Items <- MCItems
    menu_root = "Settings"
    parent <- MCparent
    child <- MCchild
    sibling <- MCsibling
    callback <- MCcallback
    Screens <- MCScreens
    Pressed = {"UP", "ENTER", "ESC_LONG"}
    Params = {2, 256}
INVARIANTS
    TypeOK
PROPERTIES
    AutoInOrder
    ModeIsShown
    TasksReturn
