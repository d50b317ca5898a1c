------------------------------ MODULE AnfCode ------------------------------
(***************************************************************************)
(* The direct-style LambdaANF programs that the C code generator           *)
(* (theories/Codegen/LambdaANF_to_Clight_stack.v) translates, and what it  *)
(* computes about them before it emits code: free variables, words         *)
(* allocated until the next call, slots of the roots array.                *)
(*                                                                         *)
(* A program is a record of expressions, functions and the function, of no *)
(* parameters, that it starts with.  Expressions are numbered, and refer   *)
(* to their subexpressions by smaller numbers.  Functions are not          *)
(* variables: a call is of one of a set of them, one if it is known, and   *)
(* their addresses never point into the heap.                              *)
(***************************************************************************)
EXTENDS Integers, Sequences, FiniteSets, Functions

Constr(x, ys, next) == [op |-> "constr", x |-> x, ys |-> ys, next |-> next]
Case(y, arms) == [op |-> "case", ys |-> <<y>>, arms |-> arms]
Proj(x, y, next) == [op |-> "proj", x |-> x, ys |-> <<y>>, next |-> next]
LetApp(x, fs, ys, next) == [op |-> "letapp", x |-> x, fs |-> fs, ys |-> ys, next |-> next]
App(fs, ys) == [op |-> "app", fs |-> fs, ys |-> ys]
PrimVal(x, words, next) ==
    [op |-> "primval", x |-> x, ys |-> <<>>, words |-> words, next |-> next]
Prim(x, ys, alloc, next) ==
    [op |-> "prim", x |-> x, ys |-> ys, alloc |-> alloc, next |-> next]
Halt(y) == [op |-> "halt", ys |-> <<y>>]

Larger(m, n) == IF m < n THEN n ELSE m
Largest(S) == CHOOSE n \in S : \A m \in S : m <= n

\* The elements of a set of variables in the order of the set (PS.elements).
Elements(S) ==
    CHOOSE xs \in [1 .. Cardinality(S) -> S] :
        \A k, l \in DOMAIN xs : k < l => xs[k] < xs[l]

Subs(exp) ==
    CASE exp.op = "case" -> exp.arms
      [] exp.op \in {"app", "halt"} -> {}
      [] OTHER -> {exp.next}

Binds(exp) == IF exp.op \in {"case", "app", "halt"} THEN {} ELSE {exp.x}

\* exp_fv, of every expression of a program; no variable is bound twice.
FreeVars(exps) ==
    LET fv[e \in DOMAIN exps] ==
            LET exp == exps[e]
            IN  Range(exp.ys) \cup ((UNION {fv[d] : d \in Subs(exp)}) \ Binds(exp))
    IN  fv

\* Mutant: the header of a boxed constructor is not counted.
MaxAllocsNoHeader(exps) ==
    LET words[e \in DOMAIN exps] ==
            LET exp == exps[e]
            IN  CASE exp.op = "constr" -> words[exp.next] + Len(exp.ys)
                  [] exp.op = "case" -> Largest({0} \cup {words[d] : d \in exp.arms})
                  [] exp.op \in {"letapp", "app", "halt"} -> 0
                  [] OTHER -> words[exp.next]
    IN  words

\* max_allocs: "max number of value-sized words allocated by the translation
\* of expression e until the next function call".
MaxAllocs(exps) ==
    LET words[e \in DOMAIN exps] ==
            LET exp == exps[e]
            IN  CASE exp.op = "constr" ->
                        IF exp.ys = <<>> THEN words[exp.next]
                        ELSE 1 + words[exp.next] + Len(exp.ys)
                  [] exp.op = "case" -> Largest({0} \cup {words[d] : d \in exp.arms})
                  [] exp.op \in {"letapp", "app", "halt"} -> 0
                  [] OTHER -> words[exp.next]
    IN  words

\* A call or a primitive that gets the thread_info: it may collect.
Calls(exp) == exp.op = "letapp" \/ (exp.op = "prim" /\ exp.alloc)

\* What is pushed before the call of expression e, and pushed on top of it if
\* the words that follow the call make a collection necessary.
LiveAcross(exps, e) ==
    Elements(FreeVars(exps)[exps[e].next] \ {exps[e].x})

Result(exps, e) ==
    IF exps[e].x \in FreeVars(exps)[exps[e].next]
    THEN <<exps[e].x>> ELSE <<>>

\* Mutant: the slot of the result is not counted.
SlotsForCall(exps, e) == Len(LiveAcross(exps, e))

\* The slots that the code of a call uses.
SlotsAt(exps, e) ==
    Len(LiveAcross(exps, e)) +
    (IF MaxAllocs(exps)[exps[e].next] = 0 THEN 0 ELSE Len(Result(exps, e)))

Slots(exps) ==
    LET slots[e \in DOMAIN exps] ==
            LET exp == exps[e]
            IN  Largest({0} \cup {slots[d] : d \in Subs(exp)} \cup
                        IF Calls(exp) THEN {SlotsAt(exps, e)} ELSE {})
    IN  slots

\* The live parameters of a function, pushed if it collects on entry.
LiveParams(prog, f) ==
    Elements(FreeVars(prog.exps)[prog.funs[f].body] \cap Range(prog.funs[f].params))

\* root_size: the length of its roots array.
RootSize(prog, f) ==
    Larger(Len(LiveParams(prog, f)), Slots(prog.exps)[prog.funs[f].body])

\* The terms of type exp, numbered: an expression binds at most one variable,
\* and what it continues with has a smaller number.
Numbered(exps) ==
    /\ DOMAIN exps \subseteq Nat
    /\ \A e \in DOMAIN exps : LET exp == exps[e] IN
          /\ exp.op \in {"constr", "case", "proj", "letapp", "app", "primval", "prim", "halt"}
          /\ exp.ys \in Seq(Nat)
          /\ Binds(exp) \subseteq Nat
          /\ Subs(exp) \subseteq DOMAIN exps \cap 0 .. e - 1

\* What the passes before the code generator leave: functions that are closed,
\* and calls with all their arguments.
WellFormed(prog) ==
    /\ Numbered(prog.exps)
    /\ \A e \in DOMAIN prog.exps : LET exp == prog.exps[e] IN
          /\ exp.op \in {"case", "proj", "halt"} => Len(exp.ys) = 1
          /\ exp.op = "primval" => exp.words \in Nat
          /\ exp.op = "prim" => exp.alloc \in BOOLEAN
          /\ exp.op \in {"letapp", "app"} =>
                \A f \in exp.fs :
                    f \in DOMAIN prog.funs /\ Len(exp.ys) = Len(prog.funs[f].params)
    /\ \A f \in DOMAIN prog.funs : LET fun == prog.funs[f] IN
          /\ fun.params \in Seq(Nat)
          /\ fun.body \in DOMAIN prog.exps
          /\ FreeVars(prog.exps)[fun.body] \subseteq Range(fun.params)
    /\ prog.main \in DOMAIN prog.funs /\ prog.funs[prog.main].params = <<>>

\* The program with all that, by expression and by function.
Compiled(prog) ==
    LET calls == {e \in DOMAIN prog.exps : Calls(prog.exps[e])}
    IN  [exps |-> prog.exps, funs |-> prog.funs, main |-> prog.main,
         fv |-> FreeVars(prog.exps), words |-> MaxAllocs(prog.exps),
         across |-> [e \in calls |-> LiveAcross(prog.exps, e)],
         result |-> [e \in calls |-> Result(prog.exps, e)],
         live |-> [f \in DOMAIN prog.funs |-> LiveParams(prog, f)],
         size |-> [f \in DOMAIN prog.funs |-> RootSize(prog, f)]]
=============================================================================
