---------------------------- MODULE MCLevRequests ----------------------------
EXTENDS LevRequests, TLC

CONSTANTS t1, t2

Job(fn, cb, co) == [fn |-> fn, cb |-> cb, co |-> co]
Pair(j1, j2) == (t1 :> j1) @@ (t2 :> j2)

ReadFiles == {Job("readFile", cb, co) : cb \in BOOLEAN, co \in BOOLEAN}
OtherCalls ==
  {Job(f.name, cb, co) : f \in FsFunctions, cb \in BOOLEAN, co \in BOOLEAN}
    \cup {Job(f, TRUE, co) : f \in DnsFunctions, co \in BOOLEAN}

(* The coroutine that reads a file runs beside any other call, the other   *)
(* forms of readFile beside some; at most one uses the global variable.    *)
(* fs.exists is not given a callback inside a coroutine.                   *)
MCWorkloads ==
  LET some == {o \in OtherCalls : o.fn \in {"exists", "write", "unlink", "reverse", "resolveMx"}}
  IN {Pair(Job("readFile", FALSE, TRUE), o) : o \in OtherCalls \ {Job("exists", TRUE, TRUE)}}
       \cup {Pair(r, o) : r \in ReadFiles, o \in some \ {Job("exists", TRUE, TRUE)}}
       \cup {Pair(r, Job("readFile", TRUE, FALSE)) : r \in ReadFiles}

(* Two coroutines that each read a file. *)
MCCoroutines == {Pair(Job("readFile", FALSE, TRUE), Job("readFile", FALSE, TRUE))}
=============================================================================
