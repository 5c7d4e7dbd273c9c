SPECIFICATION MCSpec
CONSTANTS
    None = None
    x = x
    y = y
    Element = {x, y}
    Content <- MCContent
    ToolCall = {c1, c2}
    BrowserId = {b1, b2}
    Page = {p1}
    MaxTabs = 2
    MaxStart = 1
    Null = Null
    Client = {work, home}
    Server = {s1, s2, s3, s4}
    Call = {k1, k2}
    Parts = {"pages", "life", "setup"}
SYMMETRY MCSymmetry
INVARIANTS BrowserTypeOK PrintedRefsAreKnown NoLostBrowser
PROPERTY TokensAreSavedWithTheirClient
