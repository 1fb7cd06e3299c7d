SPECIFICATION Spec
CONSTANTS
    c1 = c1
    c2 = c2
    c3 = c3
    Callers = {c1, c2}
    Scripts = {c2}
    Settings = {"first"}
    Reloading = {"first"}
    MaxTasks = 1
    MaxVersion = 3
    Broken = {}
PROPERTY NeverOlder
