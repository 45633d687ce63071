\* Two clients and the loop's thread, three posts in all, at most two by one
\* thread.  The system may really stop: the loop has ended and every thread has
\* made its calls.
CONSTANTS
    Clients = {c1, c2}
    Loop = main
    NoThread = none
    MaxPosts = 2
    MaxAll = 3
SPECIFICATION FairSpec
INVARIANTS PostsAnnounced ExactlyOnce
PROPERTIES ImplementsTaskQueue StopEnds
CHECK_DEADLOCK FALSE
