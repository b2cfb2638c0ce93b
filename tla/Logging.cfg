CONSTANTS
    tag = tag  this = this  t1 = t1  t2 = t2
    Tags = {tag}
    ClassTags = {this}
    Threads = {t1, t2}
    Streams = {"cout", "cerr"}
    Levels = {1, 2}
    Error = 2
    None = None
SPECIFICATION Spec
INVARIANTS RegistryIsCore
PROPERTIES DeliveredExactly CerrNeedsClear
