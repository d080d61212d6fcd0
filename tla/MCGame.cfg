SPECIFICATION MCGameSpec
CONSTANTS
    c1 = c1
    c2 = c2
    c3 = c3
    Calls = {c1, c2, c3}
    ChatWindow = 3
    TypedSquares = {0, 1, 2, 4}
    ChatLevels = {"normal", "hard"}
    MaxTyped = 2
    MaxCalled = 4
    NoBoard = NoBoard
SYMMETRY AnyCall
INVARIANT TheChatIsSafe
PROPERTY OneGameAtATime
CHECK_DEADLOCK FALSE
