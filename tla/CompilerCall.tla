---------------------------- MODULE CompilerCall ----------------------------
(***************************************************************************)
(* How OCaml threads call the compiled compiler                            *)
(* (bootstrap/certirocqc/certirocqc_wrapper.c): the arguments are          *)
(* promoted out of the minor heap, the runtime lock of OCaml is released,  *)
(* a worker thread with a large stack takes it, runs the compiler on the   *)
(* arguments, which are no roots of it, and copies the result out of the   *)
(* CertiRocq heap; or, if that thread could not be had, the caller runs    *)
(* the compiler itself.                                                    *)
(*                                                                         *)
(* Threads interleave at every step.  The lock, the registration of        *)
(* threads and the minor collection are OCaml's: its collector moves the   *)
(* young values, and corrects the pointers that are registered as roots.   *)
(***************************************************************************)
EXTENDS Naturals

CONSTANTS
    Callers,    \* the OCaml threads that may call the compiler
    NoThread    \* who holds the runtime lock when no thread does

Caller(c) == <<"caller", c>>
Worker(c) == <<"worker", c>>
Threads == {"caller", "worker"} \X Callers

ASSUME NoThreadAssumption == NoThread \notin Threads \cup Callers

VARIABLES
    lock,            \* the thread that holds the runtime lock
    at,              \* where every thread is
    certirocq_heap,  \* static: the call whose heap is being copied
    call             \* the call each caller makes, or has made last

vars == <<lock, at, certirocq_heap, call>>

Steps == {"ocaml", "promote", "release", "create", "join", "reacquire", "back",
          "none", "register", "acquire", "run", "copying", "copy", "leave",
          "unregister", "ended", "exited"}

\* What a pointer to an OCaml value is worth: nothing yet, right, or left
\* behind by a minor collection.
Pointers == {"unset", "right", "stale"}

Calls ==
    [young : BOOLEAN,     \* whether the arguments are in the minor heap
     fields : Pointers,   \* opts and prog of struct pipeline_call: no roots
     kept : Pointers,     \* pointers to OCaml values in the heap of the call
     ran : BOOLEAN,       \* ran of the struct
     res : Pointers,      \* res of the struct: a root
     created : BOOLEAN,   \* created of certirocq_pipeline_wrapper
     answer : Pointers,   \* what the call has returned
     runs : {0, 1}]       \* ghost: how often it has run the compiler

NoCall == [young |-> FALSE, fields |-> "unset", kept |-> "unset", ran |-> FALSE,
           res |-> "unset", created |-> FALSE, answer |-> "unset", runs |-> 0]

Init ==
    /\ lock = NoThread
    /\ at = [t \in Threads |-> IF t[1] = "caller" THEN "ocaml" ELSE "none"]
    /\ certirocq_heap = NoThread
    /\ call = [c \in Callers |-> NoCall]

----------------------------------------------------------------------------
(* The OCaml runtime *)

Goes(t, step) == at' = [at EXCEPT ![t] = step]

\* A thread that holds the lock is at `step`.
Holding(t, step) == at[t] = step /\ lock = t

Acquire(t, step, then) ==
    /\ at[t] = step /\ lock = NoThread
    /\ lock' = t
    /\ Goes(t, then)
    /\ UNCHANGED <<certirocq_heap, call>>

Release(t, step, then) ==
    /\ Holding(t, step)
    /\ lock' = NoThread
    /\ Goes(t, then)
    /\ UNCHANGED <<certirocq_heap, call>>

\* A call after a minor collection: no root corrects its pointers.
Collected(k) ==
    LET Moved(pointer) == IF k.young /\ pointer = "right" THEN "stale" ELSE pointer
    IN  [k EXCEPT !.young = FALSE, !.fields = Moved(@), !.kept = Moved(@)]

MinorCollection == call' = [c \in Callers |-> Collected(call[c])]

\* Between calls, a caller is a thread like any other: it takes and yields the
\* lock, and allocates.
Takes(c) == Acquire(Caller(c), "ocaml", "ocaml")
Yields(c) == Release(Caller(c), "ocaml", "ocaml")

Allocates(c) ==
    /\ Holding(Caller(c), "ocaml")
    /\ MinorCollection
    /\ UNCHANGED <<lock, at, certirocq_heap>>

----------------------------------------------------------------------------
(* The caller: certirocq_pipeline_wrapper *)

\* OCaml calls with arguments that may have just been allocated.
Call(c) ==
    /\ Holding(Caller(c), "ocaml")
    /\ Goes(Caller(c), "promote")
    /\ \E b \in BOOLEAN : call' = [call EXCEPT ![c] = [NoCall EXCEPT !.young = b]]
    /\ UNCHANGED <<lock, certirocq_heap>>

\* Mutant: the arguments are not promoted first.
PromoteNot(c) ==
    /\ Holding(Caller(c), "promote")
    /\ Goes(Caller(c), "release")
    /\ \E b \in BOOLEAN :
          call' = [call EXCEPT ![c].fields = "right", ![c].created = b]
    /\ UNCHANGED <<lock, certirocq_heap>>

\* caml_minor_collection, and only then the struct is filled; the large stack
\* may be refused.
Promote(c) ==
    /\ Holding(Caller(c), "promote")
    /\ Goes(Caller(c), "release")
    /\ \E b \in BOOLEAN :
          call' = [d \in Callers |->
                     IF d = c
                     THEN [Collected(call[d]) EXCEPT !.fields = "right", !.created = b]
                     ELSE Collected(call[d])]
    /\ UNCHANGED <<lock, certirocq_heap>>

\* Mutant: the worker is waited for with the lock held.
KeepRuntime(c) ==
    /\ Holding(Caller(c), "release")
    /\ Goes(Caller(c), "create")
    /\ UNCHANGED <<lock, certirocq_heap, call>>

ReleaseRuntime(c) == Release(Caller(c), "release", "create")

\* pthread_create, which may fail.
Create(c) ==
    /\ at[Caller(c)] = "create"
    /\ \E b \in BOOLEAN :
          /\ call' = [call EXCEPT ![c].created = @ /\ b]
          /\ at' = IF call[c].created /\ b
                   THEN [at EXCEPT ![Caller(c)] = "join", ![Worker(c)] = "register"]
                   ELSE [at EXCEPT ![Caller(c)] = "reacquire"]
    /\ UNCHANGED <<lock, certirocq_heap>>

\* pthread_join
Join(c) ==
    /\ at[Caller(c)] = "join" /\ at[Worker(c)] = "ended"
    /\ at' = [at EXCEPT ![Caller(c)] = "reacquire", ![Worker(c)] = "none"]
    /\ UNCHANGED <<lock, certirocq_heap, call>>

ReacquireRuntime(c) == Acquire(Caller(c), "reacquire", "back")

\* The result is returned, or the compiler is run on the current stack.
BackIf(c, returned) ==
    /\ Holding(Caller(c), "back")
    /\ Goes(Caller(c), IF returned THEN "ocaml" ELSE "run")
    /\ call' = [call EXCEPT ![c].fields = "unset",
                            ![c].answer = IF returned THEN call[c].res ELSE @]
    /\ UNCHANGED <<lock, certirocq_heap>>

\* Mutant: whether the thread was created is looked at, not whether it ran.
BackIfCreated(c) == BackIf(c, call[c].created)

\* Mutant: what the worker has computed is computed again.
BackAgain(c) == BackIf(c, FALSE)

Back(c) == BackIf(c, call[c].ran)

----------------------------------------------------------------------------
(* The worker: pipeline_thread *)

\* caml_c_thread_register takes and releases the lock; it may fail.
Register(c) ==
    /\ at[Worker(c)] = "register" /\ lock = NoThread
    /\ \E step \in {"acquire", "ended"} : Goes(Worker(c), step)
    /\ UNCHANGED <<lock, certirocq_heap, call>>

\* Mutant: the worker runs without the lock.
AcquireNot(c) ==
    /\ at[Worker(c)] = "acquire"
    /\ Goes(Worker(c), "run")
    /\ UNCHANGED <<lock, certirocq_heap, call>>

AcquireRuntime(c) == Acquire(Worker(c), "acquire", "run")

LeaveRuntime(c) == Release(Worker(c), "leave", "unregister")

Unregister(c) ==
    /\ at[Worker(c)] = "unregister" /\ lock = NoThread
    /\ Goes(Worker(c), "ended")
    /\ UNCHANGED <<lock, certirocq_heap, call>>

----------------------------------------------------------------------------
(* run_pipeline, on a worker or on a caller: t[2] is whose call it is *)

\* body and both calls: the worker reads the arguments in the struct, the
\* caller in its own roots, and the result may point into them.
Run(t) ==
    /\ at[t] = "run"
    /\ Goes(t, "copying")
    /\ call' = [call EXCEPT
                  ![t[2]].kept = IF t[1] = "worker" THEN call[t[2]].fields ELSE "right",
                  ![t[2]].runs = @ + 1]
    /\ UNCHANGED <<lock, certirocq_heap>>

\* The runtime gives up: abort_with ends the process.
Exit(t) ==
    /\ at[t] = "run"
    /\ at' = [u \in Threads |-> "exited"]
    /\ UNCHANGED <<lock, certirocq_heap, call>>

\* Mutant: the heap is the one of the first call, ever.
CopyFirstHeap(t) ==
    /\ at[t] = "copying"
    /\ Goes(t, "copy")
    /\ certirocq_heap' = IF certirocq_heap = NoThread THEN t[2] ELSE certirocq_heap
    /\ UNCHANGED <<lock, call>>

CopyStart(t) ==
    /\ at[t] = "copying"
    /\ Goes(t, "copy")
    /\ certirocq_heap' = t[2]
    /\ UNCHANGED <<lock, call>>

\* copy_value: a block of the heap is allocated in OCaml's, which may collect.
CopyBlock(t) ==
    /\ at[t] = "copy"
    /\ MinorCollection
    /\ UNCHANGED <<lock, at, certirocq_heap>>

\* What the copy is worth: blocks are told from OCaml values by the heap they
\* are looked for in, and the OCaml values are kept as they are.
Copied(c) == IF certirocq_heap = c THEN call[c].kept ELSE "stale"

\* The copy is complete, and the heap is freed.
CopyEnd(t) ==
    /\ at[t] = "copy"
    /\ call' = [call EXCEPT ![t[2]] =
          IF t[1] = "worker"
          THEN [@ EXCEPT !.kept = "unset", !.res = Copied(t[2]), !.ran = TRUE]
          ELSE [@ EXCEPT !.kept = "unset", !.answer = Copied(t[2])]]
    /\ Goes(t, IF t[1] = "worker" THEN "leave" ELSE "ocaml")
    /\ UNCHANGED <<lock, certirocq_heap>>

----------------------------------------------------------------------------

\* The OCaml code of a caller.
Ocaml(c) == Takes(c) \/ Yields(c) \/ Allocates(c) \/ Call(c)

\* The steps of a call that wait for the lock, and the others.
Locking(c) == ReacquireRuntime(c) \/ Register(c) \/ AcquireRuntime(c) \/ Unregister(c)

Calling(c) ==
    \/ Promote(c) \/ ReleaseRuntime(c) \/ Create(c) \/ Join(c) \/ Back(c)
    \/ LeaveRuntime(c)

Pipeline(t) == Run(t) \/ Exit(t) \/ CopyStart(t) \/ CopyBlock(t) \/ CopyEnd(t)

Next ==
    \/ \E c \in Callers : Ocaml(c) \/ Calling(c) \/ Locking(c)
    \/ \E t \in Threads : Pipeline(t)

Spec == Init /\ [][Next]_vars

\* Threads run; the lock goes to a thread that waits for it, however often
\* others take it; OCaml code yields it; the compiler and the copy end.
Fairness ==
    /\ \A c \in Callers :
          /\ WF_vars(Calling(c)) /\ WF_vars(Yields(c))
          /\ SF_vars(ReacquireRuntime(c))
          /\ SF_vars(Register(c)) /\ SF_vars(AcquireRuntime(c)) /\ SF_vars(Unregister(c))
    /\ \A t \in Threads : WF_vars(Run(t) \/ CopyStart(t)) /\ WF_vars(CopyEnd(t))

FairSpec == Spec /\ Fairness

----------------------------------------------------------------------------
(* Properties *)

\* Every variable has its type: what the other properties rest on.
TypeOK ==
    /\ lock \in Threads \cup {NoThread}
    /\ at \in [Threads -> Steps]
    /\ certirocq_heap \in Callers \cup {NoThread}
    /\ call \in [Callers -> Calls]

\* A thread that reads or allocates OCaml values (CAMLparam, run_pipeline,
\* the struct, the root) holds the runtime lock: no two threads do at a time.
Inside == {"promote", "release", "back", "run", "copying", "copy", "leave"}

RuntimeHeld == \A t \in Threads : at[t] \in Inside => lock = t

\* "The result can point to the input, which must not move while the result
\* is copied", and "Only now that they have been promoted can the arguments be
\* read without the roots": no pointer that only C knows of is left behind by
\* a collection, of whatever thread, before it is used.
InputInPlace ==
    \A c \in Callers : call[c].fields # "stale" /\ call[c].kept # "stale"

\* The heap that copy_value compares addresses with, a static variable that all
\* calls share, is that of the call whose result is copied.
OwnHeap == \A t \in Threads : at[t] = "copy" => certirocq_heap = t[2]

\* A call that has returned has run the compiler once, on the worker or on the
\* caller, and returns what that run has computed.
RanOnce ==
    \A c \in Callers :
        LET k == call[c]
        IN  at[Caller(c)] = "ocaml" /\ k # NoCall => k.answer = "right" /\ k.runs = 1

\* A call returns, or the process has exited: nobody waits for a worker that
\* cannot get the lock.
CallReturns ==
    \A c \in Callers :
        at[Caller(c)] = "promote" ~> at[Caller(c)] \in {"ocaml", "exited"}
=============================================================================
