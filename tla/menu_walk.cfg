SPECIFICATION Spec
CONSTANTS
    Text <- MCText
    Upper <- MCUpper
    Users <- MCUsers
    Menus <- MCMenus
    ViewLines = 2
    MaxWidth = 2
    File <- MCFile
    Typed <- MCTyped
    MaxDepth = 3
INVARIANTS
    MenusAreForUsers
    PromptFits
    FileShown
PROPERTIES
    PasswordChecked
    InputRecovered
