SPECIFICATION MenuSpec
CONSTANTS
    root = root
    sub = sub
    pipe = pipe
    apps = apps
    inline = inline
    nested = nested
    deep = deep
    leaf = leaf
    Static = {root, sub, pipe, apps}
    Children = {inline, nested, deep, leaf}
    Pipes = {pipe, apps, nested, deep}
    Submenus <- MCSubmenus
    Outputs <- MCOutputs
    Plain = Plain
    Separator = Separator
    None = None
INVARIANTS
    OneIsAwaited
    OnlyTheOpenTree
PROPERTIES
    WaitingEnds
\* nothing follows once an assertion failed or freed memory was used
CHECK_DEADLOCK FALSE
