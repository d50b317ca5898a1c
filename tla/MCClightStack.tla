--------------------------- MODULE MCClightStack ---------------------------
(* ClightStack on all programs of a shape: a main expression that calls a  *)
(* function of one parameter, whose body is two bindings and an end, and   *)
(* that calls itself or a function that returns a new object.              *)
EXTENDS ClightStack

\* Expressions that bind x with the variables S in scope.
Bindings(x, S, next) ==
    {Constr(x, <<>>, next), PrimVal(x, 0, next)} \cup
    {Constr(x, <<y>>, next) : y \in S} \cup
    {Constr(x, <<y, 1>>, next) : y \in S} \cup
    {Proj(x, y, next) : y \in S} \cup
    {Prim(x, <<y>>, al, next) : y \in S, al \in BOOLEAN} \cup
    {LetApp(x, {1, 3}, <<y>>, next) : y \in S}

\* How the body ends.
Ends == {Halt(y) : y \in {1, 3}} \cup {App({1, 3}, <<y>>) : y \in 2 .. 3}

\* Expressions 1 and 2 are alternatives of the choice at 3.
Program(first, second, choice, end) ==
    [exps |-> <<end, Halt(2), choice, second, first, App({1}, <<4>>), Constr(4, <<>>, 6), Halt(7),
               Constr(7, <<6>>, 8)>>,
     funs |-> <<[params |-> <<1>>, body |-> 5], [params |-> <<>>, body |-> 7],
                [params |-> <<6>>, body |-> 9]>>,
     main |-> 2]

AllPrograms ==
    {Program(first, second, choice, end) :
        first \in Bindings(2, {1}, 4), second \in Bindings(3, {1, 2}, 3),
        choice \in {Case(3, {1, 2}), Constr(5, <<1, 3>>, 1)}, end \in Ends}

\* A float literal, of two words, in place of the first binding.
WithLiterals ==
    {Program(PrimVal(2, 2, 4), Constr(3, <<1, 2>>, 3), Case(3, {1, 2}), end) :
        end \in Ends}
=============================================================================
