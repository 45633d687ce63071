\* Callbacks close their own connection, timers and other threads any.
CONSTANTS
    Conns = {k1, k2, k3}
    Fds = {3, 4}
    None = None
    ForeignClose = TRUE
    CrossClose = FALSE
SPECIFICATION FairSpec
INVARIANTS EventsAreOwn TableAgrees
PROPERTIES ImplementsConnTable CloseRemoves
