SPECIFICATION MCSpec
CONSTANTS
    None = None
    x = x
    y = y
    Element = {x, y}
    Content <- MCContent
    ToolCall = {c1}
    BrowserId = {b1}
    Page = {p1}
    MaxTabs = 1
    MaxStart = 1
    Null = Null
    Client = {work}
    Server = {s1}
    Call = {k1}
    Parts = {"pages"}
INVARIANT RefsAreReset
