\* The system may really stop: all connections are closed.
CONSTANTS
    Conns = {k1, k2}
    Fds = {3, 4}
    None = None
    MaxRequests = 1
    p1 = p1
    p2 = p2
    g1 = g1
    g2 = g2
    Paths = {p1, p2}
    Globs = {g1, g2}
    Matches <- MCMatches
    MaxAdds = 0
    MaxAddsServed = 0
    NoServlet = NoServlet
SPECIFICATION Spec
PROPERTY AnswersWhole
CHECK_DEADLOCK FALSE
