--------------------------- MODULE ServletDispatch ---------------------------
(***************************************************************************)
(* ServletDispatch (http/servlet.cc): the tables of servlets and how a     *)
(* request finds its own.  Every method is one critical section of _mtx,   *)
(* but getMatchedServlet returns a reference into a table: handle() loads  *)
(* the servlet through it, and runs it, after the mutex was released, and  *)
(* any thread may have changed the tables meanwhile.                       *)
(* A servlet is the number of its registration.                            *)
(***************************************************************************)
EXTENDS Integers, Sequences, SequencesExt, FiniteSets

CONSTANTS Paths,        \* what requests ask for, and what servlets are registered for
          Globs,        \* patterns
          Matches,      \* fnmatch: the pairs of a pattern and a path it matches
          MaxAdds,      \* how many servlets are ever registered
          NoServlet

\* A path and a pattern that are spelled alike are two values: they name entries
\* of two tables.
ASSUME DispatchAssumption == /\ Matches \subseteq Globs \X Paths
                             /\ Paths \cap Globs = {}
                             /\ MaxAdds \in Nat
                             /\ NoServlet \notin Nat

VARIABLES datas,        \* _datas: the servlet of each path, or none
          globs,        \* _globs
          default,      \* _default
          adds,         \* how many servlets were registered; NotFoundServlet is 0
          ref,          \* the reference getMatchedServlet returned, until it is read
          servlet,      \* the servlet whose handle() runs
          routes        \* history: the last registration of what was not deleted since

dispatch == <<datas, globs, default, adds, ref, servlet, routes>>

NoRef == [in |-> "none", path |-> NoServlet, servlet |-> NoServlet]

DispatchInit == /\ datas = [p \in Paths |-> NoServlet]
                /\ globs = <<>>
                /\ default = 0
                /\ adds = 0
                /\ ref = NoRef
                /\ servlet = NoServlet
                /\ routes = [u \in Paths \cup Globs |-> NoServlet]

-----------------------------------------------------------------------------
(* Registering.                                                            *)

\* A reference into the vector is lost when the vector grows or an element goes.
Moved == IF ref.in = "globs" THEN [ref EXCEPT !.in = "lost"] ELSE ref

Registers(u) == /\ adds < MaxAdds
                /\ adds' = adds + 1
                /\ routes' = [routes EXCEPT ![u] = adds']

Deletes(u) == /\ routes' = [routes EXCEPT ![u] = NoServlet]
              /\ UNCHANGED adds

\* The node of an unordered_map stays where it is.
addServlet(p) == /\ Registers(p)
                 /\ datas' = [datas EXCEPT ![p] = adds']
                 /\ UNCHANGED <<globs, default, ref, servlet>>

Without(g) == RemoveFirstMatch(globs, LAMBDA entry : entry.uri = g)

\* Mutant: what was registered for the pattern stays.
addGlobTwice(g) == /\ Registers(g)
                   /\ globs' = Append(globs, [uri |-> g, servlet |-> adds'])
                   /\ ref' = Moved
                   /\ UNCHANGED <<datas, default, servlet>>

addGlobServlet(g) == /\ Registers(g)
                     /\ globs' = Append(Without(g), [uri |-> g, servlet |-> adds'])
                     /\ ref' = Moved
                     /\ UNCHANGED <<datas, default, servlet>>

delServlet(p) == /\ Deletes(p)
                 /\ datas' = [datas EXCEPT ![p] = NoServlet]
                 /\ ref' = IF ref.in = "datas" /\ ref.path = p THEN [ref EXCEPT !.in = "lost"] ELSE ref
                 /\ UNCHANGED <<globs, default, servlet>>

delGlobServlet(g) == /\ Deletes(g)
                     /\ globs' = Without(g)
                     /\ ref' = IF Without(g) = globs THEN ref ELSE Moved
                     /\ UNCHANGED <<datas, default, servlet>>

setDefault == /\ adds < MaxAdds
              /\ adds' = adds + 1
              /\ default' = adds'
              /\ UNCHANGED <<datas, globs, ref, servlet, routes>>

\* Any change, at any time.
Configure == \/ \E p \in Paths : addServlet(p) \/ delServlet(p)
             \/ \E g \in Globs : addGlobServlet(g) \/ delGlobServlet(g)
             \/ setDefault

-----------------------------------------------------------------------------
(* Handling a request.                                                     *)

MatchingAt(p) == {i \in DOMAIN globs : <<globs[i].uri, p>> \in Matches}
FirstOf(S) == CHOOSE i \in S : \A j \in S : i <= j

\* The path itself, or the first pattern that matches it, or the default.
Matched(p) ==
    IF datas[p] # NoServlet THEN [in |-> "datas", path |-> p, servlet |-> datas[p]]
    ELSE IF MatchingAt(p) # {}
    THEN [in |-> "globs", path |-> p, servlet |-> globs[FirstOf(MatchingAt(p))].servlet]
    ELSE [in |-> "default", path |-> p, servlet |-> default]

getMatchedServlet(p) == /\ ref' = Matched(p)
                        /\ UNCHANGED <<datas, globs, default, adds, servlet, routes>>

\* What is where the reference points to when it is read.
Found == CASE ref.in = "datas" -> datas[ref.path]
           [] ref.in = "default" -> default
           [] OTHER -> ref.servlet

\* What a lost reference finds is undefined: a servlet that is there or one that was.
LoadServlet == /\ servlet' \in IF ref.in = "lost" THEN 0 .. adds ELSE {Found}
               /\ ref' = NoRef
               /\ UNCHANGED <<datas, globs, default, adds, routes>>

ServletReturns == /\ servlet' = NoServlet
                  /\ UNCHANGED <<datas, globs, default, adds, ref, routes>>

\* What the tables own; any other servlet was destroyed when it was replaced or deleted.
Registered == {default} \cup {datas[p] : p \in Paths} \cup {globs[i].servlet : i \in DOMAIN globs}

\* A destroyed reference is about to be read, or the servlet that runs was destroyed.
Dangling == ref.in = "lost" \/ servlet \notin Registered \cup {NoServlet}

-----------------------------------------------------------------------------
(* Properties.                                                             *)

\* Who should answer: what was registered last for the path, else for the pattern
\* that was registered longest ago; a pattern registered anew is the youngest.
Rivals(p) == {routes[g] : g \in {h \in Globs : routes[h] # NoServlet /\ <<h, p>> \in Matches}}
Expected(p) == IF routes[p] # NoServlet THEN routes[p]
               ELSE IF Rivals(p) # {} THEN FirstOf(Rivals(p))
               ELSE default

\* Whatever was registered, replaced and deleted in whatever order, a request is
\* answered by the one that should.
Routed == \A p \in Paths : Matched(p).servlet = Expected(p)
==============================================================================
