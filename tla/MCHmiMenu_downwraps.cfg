SPECIFICATION Spec
CONSTANTS
    NULL = "NULL"
    Items <- MCItems
    menu_root = "Settings"
    parent <- MCparent
    child <- MCchild
    sibling <- MCsibling
    callback <- MCcallback
    Screens <- MCScreens
    Pressed = {"UP", "DOWN", "ENTER", "ESC"}
    Params = {}
PROPERTY DownWraps
