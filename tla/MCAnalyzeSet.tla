---------------------------- MODULE MCAnalyzeSet ----------------------------
(***************************************************************************)
(* Instance of AnalyzeSet: two files.  Any of the functions get and inc    *)
(* has storage accesses in either file, all and inc may call.  Every list  *)
(* of up to two calls in the first file and of up to one in the second,    *)
(* of functions defined in no file, in one or in both, with accesses or    *)
(* without, library-like by name (all, get) or not (inc, run).             *)
(***************************************************************************)
EXTENDS AnalyzeSet

MCNameOrder == <<"all", "get", "inc", "run">>

KeyName == <<[inc |-> "Count", get |-> "Total"], [inc |-> "Count2", get |-> "Total2"]>>

\* inc and get read and write a key of their file, inc reads it in a loop.
Accesses(source, names) ==
  LET Rec(f, kind, loop) ==
        [function |-> f, kind |-> kind, key |-> KeyName[source][f], in_loop |-> loop]
      Of(f) == IF f \in names THEN <<Rec(f, "read", FALSE), Rec(f, "write", f = "inc")>>
               ELSE <<>>
  IN Of("inc") \o Of("get")

CallLists(n) ==
  LET Rec(f, m) == [function |-> f, method |-> m, receiver |-> "client", in_loop |-> FALSE]
  IN BoundedSeq({Rec(f, m) : f \in {"all", "inc"}, m \in ToSet(MCNameOrder)}, n)

File(source, n) ==
  {[accesses |-> Accesses(source, names), calls |-> list] :
     names \in SUBSET {"inc", "get"}, list \in CallLists(n)}

\* What inc and get may do.
MCAccess == {"read", "write"} \X {"Count", "Total", "Count2", "Total2"}

MCFileSets == {<<one, two>> : one \in File(1, 2), two \in File(2, 1)}
=============================================================================
