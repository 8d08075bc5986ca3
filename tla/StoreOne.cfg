CONSTANTS
    linked = linked
    copied = copied
    alias1 = alias1
    w = w
    r = r
    s1 = s1
    s2 = s2
    None = None
    Ids = {linked, copied}
    CrossFs = {copied}
    Baked = {copied}
    Names = {alias1}
    Clients = {w, r}
    Writers = {w}
    Spare = {s1, s2}
SPECIFICATION FairSpec
CHECK_DEADLOCK TRUE
 
PROPERTIES Implements CallsReturn
