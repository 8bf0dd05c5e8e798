SPECIFICATION Spec
CONSTANTS
    r1 = r1  r2 = r2  r3 = r3
    text1 = text1  text2 = text2  name1 = name1  name2 = name2  file1 = file1  file2 = file2  dir1 = dir1  w1 = w1  w2 = w2
    root = root  gen = gen  clean = clean
    Runs = {r1, r2, r3}
    Content = {text1, text2}
    Names = {name1, name2}
    Paths = {file1, dir1}
    Cwds = {w1, w2}
    Roots = {root}
    Codes = {0, 1, 2}
    Opts <- SeparateOpts
    After <- SeparateOrder
    Behaviours <- SeparateBehaviours
    InitialNodes <- NoNodes
    Unreliable = {r1}
    Omitting = {r2}
    EvictableBlobs <- SharedBlobs
    EvictableActions <- SharedActions
    Nothing = Nothing
    Unusable = Unusable
    Failed = Failed
INVARIANTS OneExecution
PROPERTIES  ImplementsMemo
