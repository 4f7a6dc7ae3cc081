CONSTANTS
    r = r
    a = a
    b = b
    t = t
    c1 = c1
    c2 = c2
    Doc = Doc
    Nobody = Nobody
    Elements = {r, a, b}
    Tasks = {t}
    TaskHost <- MCHostOf
    Requests = {c1, c2}
    RootOf <- MCRootOf
    Scenes <- MCScenes
    MaxFrames = 4
SPECIFICATION RenderSpec
INVARIANTS ResolvedIsRendered NobodyHangs
CHECK_DEADLOCK FALSE
