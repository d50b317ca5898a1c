------------------------ MODULE CompilerCall_proofs ------------------------
(***************************************************************************)
(* The safety properties of CompilerCall, for every set of callers.  The   *)
(* invariant has two layers: where the threads are and who holds the lock  *)
(* (Control, which no data disturbs), and what the calls have computed.    *)
(***************************************************************************)
EXTENDS CompilerCall, TLAPS

CallerSteps == {"ocaml", "promote", "release", "create", "join", "reacquire",
                "back", "run", "copying", "copy", "exited"}
WorkerSteps == {"none", "register", "acquire", "run", "copying", "copy", "leave",
                "unregister", "ended", "exited"}

\* Callers and workers keep to their steps, and a caller waits for its worker.
Paired(c) ==
    /\ at[Caller(c)] \in CallerSteps
    /\ at[Worker(c)] \in WorkerSteps
    /\ at[Worker(c)] \notin {"none", "exited"} => at[Caller(c)] = "join"

Control ==
    /\ lock \in Threads \cup {NoThread}
    /\ at \in [Threads -> Steps]
    /\ \A c \in Callers : Paired(c)
    /\ RuntimeHeld

\* Caller and worker are different threads, of one call.
LEMMA ThreadNames ==
    /\ \A c \in Callers : Caller(c) \in Threads /\ Worker(c) \in Threads
    /\ \A c \in Callers : /\ Caller(c)[1] = "caller" /\ Caller(c)[2] = c
                          /\ Worker(c)[1] = "worker" /\ Worker(c)[2] = c
    /\ \A c, d \in Callers : Caller(c) # Worker(d)
    /\ \A t \in Threads : t[2] \in Callers /\ (t = Caller(t[2]) \/ t = Worker(t[2]))
    /\ NoThread \notin Threads
BY NoThreadAssumption DEF Caller, Worker, Threads

\* One thread moves, and takes, keeps or gives back the lock accordingly.
LEMMA ControlMoves ==
    ASSUME Control, NEW t \in Threads, NEW step \in Steps, Goes(t, step),
           \A c \in Callers :
              /\ t = Caller(c) => step \in CallerSteps
              /\ t = Worker(c) => step \in WorkerSteps
              /\ t = Caller(c) /\ step # "join" => at[Worker(c)] \in {"none", "exited"}
              /\ t = Worker(c) /\ step \notin {"none", "exited"} => at[Caller(c)] = "join",
           \/ lock' = t /\ lock \in {t, NoThread}
           \/ lock' = NoThread /\ lock = t /\ step \notin Inside
           \/ UNCHANGED lock /\ step \notin Inside
    PROVE  Control'
<1>1. at' \in [Threads -> Steps] /\ lock' \in Threads \cup {NoThread}
  BY DEF Control, Goes
<1>2. \A c \in Callers : Paired(c)'
  <2> TAKE c \in Callers
  <2>1. CASE t = Caller(c)
    BY <2>1, ThreadNames DEF Control, Paired, Goes
  <2>2. CASE t = Worker(c)
    BY <2>2, ThreadNames DEF Control, Paired, Goes
  <2>3. CASE t # Caller(c) /\ t # Worker(c)
    BY <2>3, ThreadNames DEF Control, Paired, Goes
  <2> QED BY <2>1, <2>2, <2>3
<1>3. RuntimeHeld'
  <2> SUFFICES ASSUME NEW u \in Threads, at'[u] \in Inside PROVE lock' = u
    BY DEF RuntimeHeld
  <2>1. CASE u = t
    BY <2>1 DEF Control, Goes
  <2>2. CASE u # t
    <3>1. lock = u
      BY <2>2 DEF Control, Goes, RuntimeHeld
    <3> QED BY <3>1, <2>2, ThreadNames
  <2> QED BY <2>1, <2>2
<1> QED BY <1>1, <1>2, <1>3 DEF Control

\* No thread is in a call at first.
LEMMA ControlInit == Init => Control
<1> SUFFICES ASSUME Init PROVE Control
  OBVIOUS
<1>1. \A t \in Threads : at[t] \in {"ocaml", "none"}
  BY DEF Init
<1>2. \A c \in Callers : at[Caller(c)] = "ocaml" /\ at[Worker(c)] = "none"
  BY ThreadNames DEF Init
<1>3. at \in [Threads -> Steps] /\ lock \in Threads \cup {NoThread}
  BY <1>1 DEF Init, Steps
<1>4. RuntimeHeld
  BY <1>1 DEF RuntimeHeld, Inside
<1> QED BY <1>2, <1>3, <1>4 DEF Control, Paired, CallerSteps, WorkerSteps

\* The places of the threads go together after every step.
LEMMA ControlStep == Control /\ [Next]_vars => Control'
<1> SUFFICES ASSUME Control, [Next]_vars PROVE Control'
  OBVIOUS
<1> USE ThreadNames DEF CallerSteps, WorkerSteps, Inside
<1>0. CASE UNCHANGED <<lock, at>>
  BY <1>0 DEF Control, Paired, RuntimeHeld
<1>1. ASSUME NEW c \in Callers, Ocaml(c) PROVE Control'
  <2>0. at[Caller(c)] = "ocaml" => at[Worker(c)] \in {"none", "exited"}
    BY DEF Control, Paired
  <2>1. CASE Takes(c)
    BY <2>0, <2>1, ControlMoves DEF Takes, Acquire, Steps
  <2>2. CASE Yields(c)
    BY <2>0, <2>2, ControlMoves DEF Yields, Release, Holding, Steps
  <2>3. CASE Allocates(c)
    BY <2>3, <1>0 DEF Allocates
  <2>4. CASE Call(c)
    BY <2>0, <2>4, ControlMoves DEF Call, Holding, Steps
  <2> QED BY <1>1, <2>1, <2>2, <2>3, <2>4 DEF Ocaml
<1>2. ASSUME NEW c \in Callers, Calling(c) PROVE Control'
  <2>0. at[Caller(c)] # "join" => at[Worker(c)] \in {"none", "exited"}
    BY DEF Control, Paired
  <2>1. CASE Promote(c)
    <3>1. Holding(Caller(c), "promote") /\ Goes(Caller(c), "release") /\ UNCHANGED lock
      BY <2>1 DEF Promote
    <3> QED BY <2>0, <3>1, ControlMoves DEF Holding, Steps
  <2>2. CASE ReleaseRuntime(c)
    BY <2>0, <2>2, ControlMoves DEF ReleaseRuntime, Release, Holding, Steps
  <2>3. CASE Create(c)
    <3>1. \/ at' = [at EXCEPT ![Caller(c)] = "join", ![Worker(c)] = "register"]
          \/ at' = [at EXCEPT ![Caller(c)] = "reacquire"]
      BY <2>3 DEF Create
    <3>2. lock' = lock /\ at[Caller(c)] = "create"
      BY <2>3 DEF Create
    <3> QED BY <3>1, <3>2, <2>0 DEF Control, Paired, RuntimeHeld, Steps, Caller, Worker
  <2>4. CASE Join(c)
    <3>1. at' = [at EXCEPT ![Caller(c)] = "reacquire", ![Worker(c)] = "none"] /\ lock' = lock
      BY <2>4 DEF Join
    <3> QED BY <3>1 DEF Control, Paired, RuntimeHeld, Steps, Caller, Worker
  <2>5. CASE Back(c)
    BY <2>0, <2>5, ControlMoves DEF Back, BackIf, Holding, Steps
  <2>6. CASE LeaveRuntime(c)
    <3>1. at[Caller(c)] = "join"
      BY <2>6 DEF Control, Paired, LeaveRuntime, Release, Holding
    <3> QED BY <2>6, <3>1, ControlMoves DEF LeaveRuntime, Release, Holding, Steps
  <2> QED BY <1>2, <2>1, <2>2, <2>3, <2>4, <2>5, <2>6 DEF Calling
<1>3. ASSUME NEW c \in Callers, Locking(c) PROVE Control'
  <2>1. CASE ReacquireRuntime(c)
    <3>1. at[Worker(c)] \in {"none", "exited"}
      BY <2>1 DEF Control, Paired, ReacquireRuntime, Acquire
    <3> QED BY <2>1, <3>1, ControlMoves DEF ReacquireRuntime, Acquire, Steps
  <2>2. CASE Register(c)
    <3>1. at[Caller(c)] = "join"
      BY <2>2 DEF Control, Paired, Register
    <3> QED BY <2>2, <3>1, ControlMoves DEF Register, Steps
  <2>3. CASE AcquireRuntime(c)
    <3>1. at[Caller(c)] = "join"
      BY <2>3 DEF Control, Paired, AcquireRuntime, Acquire
    <3> QED BY <2>3, <3>1, ControlMoves DEF AcquireRuntime, Acquire, Steps
  <2>4. CASE Unregister(c)
    <3>1. at[Caller(c)] = "join"
      BY <2>4 DEF Control, Paired, Unregister
    <3> QED BY <2>4, <3>1, ControlMoves DEF Unregister, Steps
  <2> QED BY <1>3, <2>1, <2>2, <2>3, <2>4 DEF Locking
<1>4. ASSUME NEW t \in Threads, Pipeline(t) PROVE Control'
  <2>0. ASSUME at[t] \in {"run", "copying", "copy"}
        PROVE  /\ lock = t
               /\ \A c \in Callers : t = Caller(c) => at[Worker(c)] \in {"none", "exited"}
               /\ \A c \in Callers : t = Worker(c) => at[Caller(c)] = "join"
    BY <2>0 DEF Control, Paired, RuntimeHeld
  <2>1. CASE Run(t)
    BY <2>0, <2>1, ControlMoves DEF Run, Steps
  <2>2. CASE Exit(t)
    BY <2>2 DEF Exit, Control, Paired, RuntimeHeld, Steps
  <2>3. CASE CopyStart(t)
    BY <2>0, <2>3, ControlMoves DEF CopyStart, Steps
  <2>4. CASE CopyBlock(t)
    BY <2>4, <1>0 DEF CopyBlock
  <2>5. CASE CopyEnd(t)
    <3>1. \A c \in Callers : t = Caller(c) => t[1] = "caller"
      OBVIOUS
    <3>2. lock = t
      BY <2>0, <2>5 DEF CopyEnd
    <3>3. CASE t[1] = "worker"
      <4>1. Goes(t, "leave") /\ UNCHANGED lock
        BY <2>5, <3>3 DEF CopyEnd
      <4> QED BY <2>0, <2>5, <3>1, <3>2, <3>3, <4>1, ControlMoves DEF CopyEnd, Steps
    <3>4. CASE t[1] # "worker"
      <4>1. Goes(t, "ocaml") /\ UNCHANGED lock
        BY <2>5, <3>4 DEF CopyEnd
      <4> QED BY <2>0, <2>5, <3>2, <3>4, <4>1, ControlMoves DEF CopyEnd, Steps
    <3> QED BY <3>3, <3>4
  <2> QED BY <1>4, <2>1, <2>2, <2>3, <2>4, <2>5 DEF Pipeline
<1> QED BY <1>0, <1>1, <1>2, <1>3, <1>4 DEF Next, vars

----------------------------------------------------------------------------

\* The compiler is running, or its result is being copied, for c.
Copying(c) == "copying" \in {at[Caller(c)], at[Worker(c)]}
                \/ "copy" \in {at[Caller(c)], at[Worker(c)]}

\* The arguments are young only until they are promoted.
YoungUnread(c) ==
    call[c].young => /\ at[Caller(c)] \in {"promote", "exited"}
                     /\ call[c].fields = "unset" /\ call[c].kept = "unset"

\* What the struct holds while the caller is in certirocq_pipeline_wrapper.
Struct(c) ==
    /\ at[Caller(c)] \in {"release", "create", "join", "reacquire", "back"} =>
          call[c].fields = "right"
    /\ at[Caller(c)] \in CallerSteps \ {"ocaml", "exited"} =>
          /\ call[c].runs = (IF call[c].ran \/ Copying(c) THEN 1 ELSE 0)
          /\ call[c].ran => call[c].res = "right"
    /\ Copying(c) => call[c].kept = "right" /\ ~call[c].ran
    /\ at[Caller(c)] \in {"promote", "release", "create", "run"} => ~call[c].ran
    /\ at[Worker(c)] \in {"register", "acquire", "run"} => ~call[c].ran

CallInv(c) ==
    /\ call[c] \in Calls
    /\ YoungUnread(c)
    /\ Struct(c)
    /\ call[c].fields # "stale" /\ call[c].kept # "stale"
    /\ at[Caller(c)] = "ocaml" /\ call[c] # NoCall =>
          call[c].answer = "right" /\ call[c].runs = 1

Data ==
    /\ certirocq_heap \in Callers \cup {NoThread}
    /\ call = [c \in Callers |-> call[c]]
    /\ \A c \in Callers : CallInv(c)
    /\ OwnHeap

\* There is no call at first.
LEMMA DataInit == Init => Data
<1> SUFFICES ASSUME Init PROVE Data
  OBVIOUS
<1>1. \A c \in Callers : at[Caller(c)] = "ocaml" /\ at[Worker(c)] = "none"
  BY ThreadNames DEF Init
<1>2. \A t \in Threads : at[t] # "copy"
  BY DEF Init
<1>3. NoCall \in Calls
  BY DEF NoCall, Calls, Pointers
<1>4. call = [c \in Callers |-> NoCall] /\ certirocq_heap = NoThread
  BY DEF Init
<1>5. \A c \in Callers : YoungUnread(c) /\ Struct(c)
  BY <1>1, <1>4 DEF YoungUnread, Struct, Copying, NoCall
<1>6. \A c \in Callers : CallInv(c)
  BY <1>3, <1>4, <1>5 DEF CallInv, NoCall
<1> QED BY <1>2, <1>4, <1>6 DEF Data, OwnHeap

\* The arguments that a collection finds young have not been read yet.
LEMMA CollectedOnlyAges ==
    ASSUME NEW c \in Callers, CallInv(c)
    PROVE  Collected(call[c]) = [call[c] EXCEPT !.young = FALSE]
<1>1. call[c].young => call[c].fields = "unset" /\ call[c].kept = "unset"
  BY DEF CallInv, YoungUnread
<1> QED BY <1>1 DEF CallInv, Calls, Collected

\* A collection leaves the invariant of a call as it is.
LEMMA CallKept ==
    ASSUME NEW c \in Callers, CallInv(c),
           call'[c] \in {call[c], Collected(call[c])},
           at'[Caller(c)] = at[Caller(c)], at'[Worker(c)] = at[Worker(c)]
    PROVE  CallInv(c)'
<1>1. CASE call'[c] = call[c]
  BY <1>1 DEF CallInv, YoungUnread, Struct, Copying
<1>2. CASE call'[c] = [call[c] EXCEPT !.young = FALSE]
  <2>1. CASE call[c].young
    BY <1>2, <2>1 DEF CallInv, YoungUnread, Struct, Copying, Calls
  <2>2. CASE ~call[c].young
    <3>1. call[c].young = FALSE
      BY <2>2 DEF CallInv, Calls
    <3>2. call'[c] = call[c]
      BY <1>2, <3>1 DEF CallInv, Calls
    <3> QED BY <1>1, <3>2
  <2> QED BY <2>1, <2>2
<1> QED BY <1>1, <1>2, CollectedOnlyAges

\* One call changes, and the others at most go through a collection.
LEMMA OneCall ==
    ASSUME Data, NEW c \in Callers, CallInv(c)',
           call' = [d \in Callers |-> call'[d]],
           \A d \in Callers \ {c} :
              /\ call'[d] \in {call[d], Collected(call[d])}
              /\ at'[Caller(d)] = at[Caller(d)] /\ at'[Worker(d)] = at[Worker(d)],
           certirocq_heap' \in Callers \cup {NoThread}, OwnHeap'
    PROVE  Data'
<1>1. \A d \in Callers \ {c} : CallInv(d)'
  BY CallKept DEF Data
<1> QED BY <1>1 DEF Data

\* The threads of the other calls stay where they are.
LEMMA OneMoves ==
    ASSUME Control, NEW c \in Callers, NEW t \in {Caller(c), Worker(c)}, NEW step,
           Goes(t, step)
    PROVE  /\ at'[t] = step
           /\ \A u \in Threads \ {t} : at'[u] = at[u]
           /\ \A d \in Callers \ {c} :
                 at'[Caller(d)] = at[Caller(d)] /\ at'[Worker(d)] = at[Worker(d)]
           /\ OwnHeap /\ step # "copy" /\ UNCHANGED certirocq_heap => OwnHeap'
<1>1. t \in Threads
  BY ThreadNames
<1>2. \A d \in Callers \ {c} : Caller(d) # t /\ Worker(d) # t
  BY ThreadNames
<1>3. at'[t] = step /\ \A u \in Threads \ {t} : at'[u] = at[u]
  BY <1>1 DEF Control, Goes
<1> QED BY <1>1, <1>2, <1>3, ThreadNames DEF OwnHeap

\* A thread moves, and no call changes.
LEMMA OnlyMoves ==
    ASSUME Control, Data, NEW c \in Callers, NEW t \in {Caller(c), Worker(c)}, NEW step,
           Goes(t, step), step # "copy", UNCHANGED <<certirocq_heap, call>>, CallInv(c)'
    PROVE  Data'
BY OneMoves, OneCall DEF Data

\* OCaml code disturbs no call but by collecting, which finds nothing young.
LEMMA DataOcaml ==
    ASSUME Control, Data, NEW c \in Callers, Ocaml(c)
    PROVE  Data'
<1>0. CallInv(c) /\ Caller(c) \in Threads /\ at \in [Threads -> Steps]
  BY ThreadNames DEF Data, Control
<1>1. CASE Takes(c) \/ Yields(c)
  <2>1. at' = at /\ UNCHANGED <<certirocq_heap, call>>
    BY <1>0, <1>1 DEF Takes, Yields, Acquire, Release, Holding, Goes
  <2> QED BY <2>1 DEF Data, CallInv, YoungUnread, Struct, Copying, OwnHeap
<1>2. CASE Allocates(c)
  <2>1. \A d \in Callers : CallInv(d)'
    BY <1>2, CallKept DEF Allocates, MinorCollection, Data
  <2> QED BY <1>2, <2>1 DEF Allocates, MinorCollection, Data, OwnHeap
<1>3. CASE Call(c)
  <2>1. at[Caller(c)] = "ocaml" /\ Goes(Caller(c), "promote") /\ UNCHANGED certirocq_heap
    BY <1>3 DEF Call, Holding
  <2>2. PICK b \in BOOLEAN : call' = [call EXCEPT ![c] = [NoCall EXCEPT !.young = b]]
    BY <1>3 DEF Call
  <2>3. at'[Caller(c)] = "promote" /\ at'[Worker(c)] = at[Worker(c)]
    BY <2>1, OneMoves, ThreadNames
  <2>4. at[Worker(c)] \in {"none", "exited"}
    BY <2>1 DEF Control, Paired
  <2>5. call'[c] = [NoCall EXCEPT !.young = b]
    BY <2>2 DEF Data
  <2>6. CallInv(c)'
    BY <2>3, <2>4, <2>5 DEF CallInv, YoungUnread, Struct, Copying, NoCall, Calls, Pointers
  <2>7. call' = [d \in Callers |-> call'[d]] /\ \A d \in Callers \ {c} : call'[d] = call[d]
    BY <2>2 DEF Data
  <2>8. OwnHeap' /\ certirocq_heap' \in Callers \cup {NoThread}
    BY <2>1, OneMoves DEF Data
  <2> QED BY <2>1, <2>6, <2>7, <2>8, OneMoves, OneCall
<1> QED BY <1>1, <1>2, <1>3 DEF Ocaml

\* A call starts with the minor collection, after which nothing of it is young.
LEMMA DataPromote ==
    ASSUME Control, Data, NEW c \in Callers, Promote(c)
    PROVE  Data'
<1>0. CallInv(c) /\ at[Caller(c)] = "promote" /\ at[Worker(c)] \in {"none", "exited"}
  BY DEF Data, Control, Paired, Promote, Holding
<1>1. Goes(Caller(c), "release") /\ UNCHANGED certirocq_heap
  BY DEF Promote
<1>2. PICK b \in BOOLEAN :
         call' = [d \in Callers |->
                    IF d = c THEN [Collected(call[d]) EXCEPT !.fields = "right", !.created = b]
                    ELSE Collected(call[d])]
  BY DEF Promote
<1>3. call'[c] = [call[c] EXCEPT !.young = FALSE, !.fields = "right", !.created = b]
  BY <1>0, <1>2, CollectedOnlyAges DEF CallInv, Calls
<1>4. at'[Caller(c)] = "release" /\ at'[Worker(c)] = at[Worker(c)]
  BY <1>1, OneMoves, ThreadNames
<1>5. CallInv(c)'
  BY <1>0, <1>3, <1>4 DEF CallInv, YoungUnread, Struct, Copying, Calls, Pointers, CallerSteps
<1>6. OwnHeap' /\ certirocq_heap' \in Callers \cup {NoThread}
  BY <1>1, OneMoves DEF Data
<1> QED BY <1>1, <1>2, <1>5, <1>6, OneMoves, OneCall

\* A stack and a thread for the call, or neither.
LEMMA DataCreate ==
    ASSUME Control, Data, NEW c \in Callers, Create(c)
    PROVE  Data'
<1>0. CallInv(c) /\ at[Caller(c)] = "create" /\ at[Worker(c)] \in {"none", "exited"}
  BY DEF Data, Control, Paired, Create
<1>1. PICK b \in BOOLEAN : call' = [call EXCEPT ![c].created = @ /\ b]
  BY DEF Create
<1>2. call'[c] = [call[c] EXCEPT !.created = @ /\ b]
  BY <1>1 DEF Data
<1>3. /\ \/ at'[Caller(c)] = "join" /\ at'[Worker(c)] = "register"
         \/ at'[Caller(c)] = "reacquire" /\ at'[Worker(c)] = at[Worker(c)]
      /\ \A u \in Threads \ {Caller(c), Worker(c)} : at'[u] = at[u]
  BY ThreadNames DEF Create, Control
<1>4. CallInv(c)'
  BY <1>0, <1>2, <1>3 DEF CallInv, YoungUnread, Struct, Copying, Calls, CallerSteps
<1>5. \A d \in Callers \ {c} :
         at'[Caller(d)] = at[Caller(d)] /\ at'[Worker(d)] = at[Worker(d)]
  BY <1>3, ThreadNames
<1>6. OwnHeap' /\ certirocq_heap' \in Callers \cup {NoThread}
  BY <1>3 DEF Create, Data, OwnHeap
<1>7. call' = [d \in Callers |-> call'[d]] /\ \A d \in Callers \ {c} : call'[d] = call[d]
  BY <1>1 DEF Data
<1> QED BY <1>4, <1>5, <1>6, <1>7, OneCall

\* The caller takes the result, or runs the compiler itself.
LEMMA DataBack ==
    ASSUME Control, Data, NEW c \in Callers, Back(c)
    PROVE  Data'
<1>0. CallInv(c) /\ at[Caller(c)] = "back" /\ at[Worker(c)] \in {"none", "exited"}
  BY DEF Data, Control, Paired, Back, BackIf, Holding
<1>1. /\ Goes(Caller(c), IF call[c].ran THEN "ocaml" ELSE "run") /\ UNCHANGED certirocq_heap
      /\ call' = [call EXCEPT ![c].fields = "unset",
                              ![c].answer = IF call[c].ran THEN call[c].res ELSE @]
  BY DEF Back, BackIf
<1>2. call'[c] = [call[c] EXCEPT !.fields = "unset",
                                 !.answer = IF call[c].ran THEN call[c].res ELSE @]
  BY <1>1 DEF Data
<1>3. /\ at'[Caller(c)] = (IF call[c].ran THEN "ocaml" ELSE "run")
      /\ at'[Worker(c)] = at[Worker(c)]
  BY <1>1, OneMoves, ThreadNames
<1>4. CallInv(c)'
  BY <1>0, <1>2, <1>3 DEF CallInv, YoungUnread, Struct, Copying, Calls, CallerSteps, Pointers
<1>5. OwnHeap' /\ certirocq_heap' \in Callers \cup {NoThread}
  BY <1>1, OneMoves DEF Data
<1>6. call' = [d \in Callers |-> call'[d]] /\ \A d \in Callers \ {c} : call'[d] = call[d]
  BY <1>1 DEF Data
<1> QED BY <1>1, <1>4, <1>5, <1>6, OneMoves, OneCall

\* The steps of the caller.
LEMMA DataCalling ==
    ASSUME Control, Data, NEW c \in Callers, Calling(c)
    PROVE  Data'
<1>0. CallInv(c) /\ Paired(c)
  BY DEF Data, Control
<1>1. CASE ReleaseRuntime(c)
  <2>1. /\ at[Caller(c)] = "release" /\ Goes(Caller(c), "create")
        /\ UNCHANGED <<certirocq_heap, call>>
    BY <1>1 DEF ReleaseRuntime, Release, Holding
  <2>2. at'[Caller(c)] = "create" /\ at'[Worker(c)] = at[Worker(c)]
    BY <2>1, OneMoves, ThreadNames
  <2>3. CallInv(c)'
    BY <1>0, <2>1, <2>2 DEF CallInv, YoungUnread, Struct, Copying, CallerSteps
  <2> QED BY <2>1, <2>3, OnlyMoves
<1>2. CASE Join(c)
  <2>1. at'[Caller(c)] = "reacquire" /\ at'[Worker(c)] = "none"
    BY <1>2, ThreadNames DEF Join, Control
  <2>2. CallInv(c)'
    BY <1>0, <1>2, <2>1 DEF Join, CallInv, YoungUnread, Struct, Copying, CallerSteps
  <2>3. \A u \in Threads \ {Caller(c), Worker(c)} : at'[u] = at[u]
    BY <1>2 DEF Join, Control
  <2>4. OwnHeap' /\ certirocq_heap' \in Callers \cup {NoThread}
    BY <1>2, <2>1, <2>3 DEF Join, Data, OwnHeap
  <2>5. \A d \in Callers \ {c} :
           at'[Caller(d)] = at[Caller(d)] /\ at'[Worker(d)] = at[Worker(d)]
    BY <2>3, ThreadNames
  <2>6. call' = [d \in Callers |-> call'[d]] /\ \A d \in Callers : call'[d] = call[d]
    BY <1>2 DEF Join, Data
  <2> QED BY <2>2, <2>4, <2>5, <2>6, OneCall
<1>3. CASE LeaveRuntime(c)
  <2>1. /\ at[Worker(c)] = "leave" /\ Goes(Worker(c), "unregister")
        /\ UNCHANGED <<certirocq_heap, call>>
    BY <1>3 DEF LeaveRuntime, Release, Holding
  <2>2. at'[Worker(c)] = "unregister" /\ at'[Caller(c)] = at[Caller(c)]
    BY <2>1, OneMoves, ThreadNames
  <2>3. CallInv(c)'
    BY <1>0, <2>1, <2>2 DEF CallInv, YoungUnread, Struct, Copying, CallerSteps
  <2> QED BY <2>1, <2>3, OnlyMoves
<1> QED BY <1>1, <1>2, <1>3, DataPromote, DataCreate, DataBack DEF Calling

\* The steps that take and give back the lock.
LEMMA DataLocking ==
    ASSUME Control, Data, NEW c \in Callers, Locking(c)
    PROVE  Data'
<1>0. CallInv(c) /\ Paired(c)
  BY DEF Data, Control
<1>1. CASE ReacquireRuntime(c)
  <2>1. /\ at[Caller(c)] = "reacquire" /\ Goes(Caller(c), "back")
        /\ UNCHANGED <<certirocq_heap, call>>
    BY <1>1 DEF ReacquireRuntime, Acquire
  <2>2. at'[Caller(c)] = "back" /\ at'[Worker(c)] = at[Worker(c)]
    BY <2>1, OneMoves, ThreadNames
  <2>3. CallInv(c)'
    BY <1>0, <2>1, <2>2 DEF CallInv, YoungUnread, Struct, Copying, CallerSteps
  <2> QED BY <2>1, <2>3, OnlyMoves
<1>2. ASSUME NEW from \in {"register", "acquire", "unregister"},
             NEW step \in {"acquire", "run", "ended"},
             step # "ended" => from # "unregister",
             at[Worker(c)] = from, Goes(Worker(c), step), UNCHANGED <<certirocq_heap, call>>
      PROVE  Data'
  <2>1. at'[Worker(c)] = step /\ at'[Caller(c)] = at[Caller(c)]
    BY <1>2, OneMoves, ThreadNames
  <2>2. CallInv(c)'
    BY <1>0, <1>2, <2>1 DEF CallInv, YoungUnread, Struct, Copying, CallerSteps
  <2> QED BY <1>2, <2>2, OnlyMoves
<1>3. CASE Register(c)
  BY <1>2, <1>3 DEF Register
<1>4. CASE AcquireRuntime(c)
  BY <1>2, <1>4 DEF AcquireRuntime, Acquire
<1>5. CASE Unregister(c)
  BY <1>2, <1>5 DEF Unregister
<1> QED BY <1>1, <1>3, <1>4, <1>5 DEF Locking

\* A thread that copies holds the lock, so that no other one does.
LEMMA CopiesAlone ==
    ASSUME Control, NEW t \in Threads, at[t] \in Inside
    PROVE  lock = t /\ \A u \in Threads \ {t} : at[u] \notin Inside
BY DEF Control, RuntimeHeld

\* The compiler and the copy of its result, on either thread.
LEMMA DataPipeline ==
    ASSUME Control, Data, NEW t \in Threads, Pipeline(t)
    PROVE  Data'
<1>1. PICK c \in Callers : t[2] = c /\ (t = Caller(c) \/ t = Worker(c))
  BY ThreadNames
<1>2. /\ CallInv(c) /\ Paired(c)
      /\ t = Caller(c) => t[1] = "caller" /\ at[Worker(c)] \in {"none", "exited", "ended"}
      /\ t = Worker(c) => t[1] = "worker" /\ at[Caller(c)] = "join"
  BY <1>1, ThreadNames DEF Data, Control, Paired, Pipeline, Run, Exit, CopyStart, CopyBlock, CopyEnd
<1>3. ASSUME NEW step, Goes(t, step)
      PROVE  /\ t = Caller(c) => at'[Caller(c)] = step /\ at'[Worker(c)] = at[Worker(c)]
             /\ t = Worker(c) => at'[Worker(c)] = step /\ at'[Caller(c)] = at[Caller(c)]
             /\ \A u \in Threads \ {t} : at'[u] = at[u]
             /\ \A d \in Callers \ {c} :
                   at'[Caller(d)] = at[Caller(d)] /\ at'[Worker(d)] = at[Worker(d)]
             /\ OwnHeap /\ step # "copy" /\ UNCHANGED certirocq_heap => OwnHeap'
  <2>1. t \in {Caller(c), Worker(c)}
    BY <1>1
  <2> QED BY <1>3, <2>1, OneMoves, ThreadNames
<1>4. CASE Run(t)
  <2>1. /\ at[t] = "run" /\ Goes(t, "copying") /\ UNCHANGED certirocq_heap
        /\ call' = [call EXCEPT
                      ![c].kept = IF t[1] = "worker" THEN call[c].fields ELSE "right",
                      ![c].runs = @ + 1]
    BY <1>1, <1>4 DEF Run
  <2>2. call[c].runs = 0 /\ (t[1] = "worker" => call[c].fields = "right")
    BY <1>1, <1>2, <2>1 DEF CallInv, Struct, Copying, CallerSteps
  <2>3. call'[c] = [call[c] EXCEPT !.kept = "right", !.runs = 1]
    <3>1. call'[c] = [call[c] EXCEPT !.kept = "right", !.runs = call[c].runs + 1]
      BY <2>1, <2>2 DEF Data
    <3>2. call[c].runs + 1 = 1
      BY <2>2
    <3> QED BY <3>1, <3>2
  <2>4. CallInv(c)'
    <3>1. ~call[c].young /\ ~call[c].ran
      BY <1>1, <1>2, <2>1 DEF CallInv, YoungUnread, Struct
    <3>2. CASE t = Caller(c)
      <4>1. at'[Caller(c)] = "copying" /\ at'[Worker(c)] = at[Worker(c)]
        BY <1>3, <2>1, <3>2
      <4> QED BY <1>2, <2>3, <3>1, <3>2, <4>1
              DEF CallInv, YoungUnread, Struct, Copying, Calls, CallerSteps, Pointers
    <3>3. CASE t = Worker(c)
      <4>1. at'[Worker(c)] = "copying" /\ at'[Caller(c)] = "join"
        BY <1>2, <1>3, <2>1, <3>3
      <4> QED BY <1>2, <2>3, <3>1, <3>3, <4>1
              DEF CallInv, YoungUnread, Struct, Copying, Calls, CallerSteps, Pointers
    <3> QED BY <1>1, <3>2, <3>3
  <2>5. call' = [d \in Callers |-> call'[d]] /\ \A d \in Callers \ {c} : call'[d] = call[d]
    BY <2>1 DEF Data
  <2> QED BY <1>3, <2>1, <2>4, <2>5, OneCall DEF Data
<1>5. CASE Exit(t)
  <2>1. \A u \in Threads : at'[u] = "exited"
    BY <1>5 DEF Exit
  <2>2. UNCHANGED <<certirocq_heap, call>> /\ OwnHeap'
    BY <1>5, <2>1 DEF Exit, OwnHeap
  <2>3. \A d \in Callers : CallInv(d)'
    BY <2>1, <2>2, ThreadNames DEF Data, CallInv, YoungUnread, Struct, Copying, CallerSteps
  <2> QED BY <2>2, <2>3 DEF Data
<1>6. CASE CopyStart(t)
  <2>1. at[t] = "copying" /\ Goes(t, "copy") /\ certirocq_heap' = c /\ call' = call
    BY <1>1, <1>6 DEF CopyStart
  <2>2. CallInv(c)'
    BY <1>1, <1>2, <1>3, <2>1 DEF CallInv, YoungUnread, Struct, Copying, CallerSteps
  <2>3. OwnHeap'
    BY <1>1, <1>3, <2>1, CopiesAlone DEF OwnHeap, Inside
  <2>4. call' = [d \in Callers |-> call'[d]] /\ \A d \in Callers \ {c} : call'[d] = call[d]
    BY <2>1 DEF Data
  <2> QED BY <1>3, <2>1, <2>2, <2>3, <2>4, OneCall DEF Data
<1>7. CASE CopyBlock(t)
  <2>1. \A d \in Callers : CallInv(d)'
    BY <1>7, CallKept DEF CopyBlock, MinorCollection, Data
  <2> QED BY <1>7, <2>1 DEF CopyBlock, MinorCollection, Data, OwnHeap
<1>8. CASE CopyEnd(t)
  <2>0. at[t] = "copy" /\ UNCHANGED certirocq_heap /\ Copied(c) = "right"
    <3>1. certirocq_heap = c
      BY <1>1, <1>8 DEF CopyEnd, Data, OwnHeap
    <3>2. call[c].kept = "right"
      BY <1>1, <1>2, <1>8 DEF CopyEnd, CallInv, Struct, Copying
    <3> QED BY <1>8, <3>1, <3>2 DEF CopyEnd, Copied
  <2>1. call[c].runs = 1 /\ ~call[c].ran /\ ~call[c].young
    BY <1>1, <1>2, <2>0 DEF CallInv, YoungUnread, Struct, Copying, CallerSteps
  <2>2. CASE t = Worker(c)
    <3>1. /\ Goes(t, "leave")
          /\ call' = [call EXCEPT ![c] =
                        [@ EXCEPT !.kept = "unset", !.res = "right", !.ran = TRUE]]
      BY <1>1, <1>2, <1>8, <2>0, <2>2 DEF CopyEnd
    <3>2. call'[c] = [call[c] EXCEPT !.kept = "unset", !.res = "right", !.ran = TRUE]
      BY <3>1 DEF Data
    <3>3. CallInv(c)'
      <4>1. at'[Worker(c)] = "leave" /\ at'[Caller(c)] = "join"
        BY <1>2, <1>3, <2>2, <3>1
      <4> QED BY <1>2, <2>1, <2>2, <3>2, <4>1
              DEF CallInv, YoungUnread, Struct, Copying, Calls, CallerSteps, Pointers
    <3>4. call' = [d \in Callers |-> call'[d]] /\ \A d \in Callers \ {c} : call'[d] = call[d]
      BY <3>1 DEF Data
    <3> QED BY <1>3, <2>0, <3>1, <3>3, <3>4, OneCall DEF Data
  <2>3. CASE t = Caller(c)
    <3>1. /\ Goes(t, "ocaml")
          /\ call' = [call EXCEPT ![c] =
                        [@ EXCEPT !.kept = "unset", !.answer = "right"]]
      BY <1>1, <1>2, <1>8, <2>0, <2>3 DEF CopyEnd
    <3>2. call'[c] = [call[c] EXCEPT !.kept = "unset", !.answer = "right"]
      BY <3>1 DEF Data
    <3>3. CallInv(c)'
      <4>1. at'[Caller(c)] = "ocaml" /\ at'[Worker(c)] = at[Worker(c)]
        BY <1>3, <2>3, <3>1
      <4> QED BY <1>2, <2>1, <2>3, <3>2, <4>1
              DEF CallInv, YoungUnread, Struct, Copying, Calls, CallerSteps, Pointers
    <3>4. call' = [d \in Callers |-> call'[d]] /\ \A d \in Callers \ {c} : call'[d] = call[d]
      BY <3>1 DEF Data
    <3> QED BY <1>3, <2>0, <3>1, <3>3, <3>4, OneCall DEF Data
  <2> QED BY <1>1, <2>2, <2>3
<1> QED BY <1>4, <1>5, <1>6, <1>7, <1>8 DEF Pipeline

\* Every call is as it should be after every step.
LEMMA DataStep == Control /\ Data /\ [Next]_vars => Data'
<1>1. Data /\ UNCHANGED vars => Data'
  BY DEF vars, Data, CallInv, YoungUnread, Struct, Copying, OwnHeap
<1> QED BY <1>1, DataOcaml, DataCalling, DataLocking, DataPipeline DEF Next

----------------------------------------------------------------------------

\* Both layers of the invariant hold in every reachable state.
LEMMA Invariant == Spec => [](Control /\ Data)
<1>1. Init => Control /\ Data
  BY ControlInit, DataInit
<1>2. Control /\ Data /\ [Next]_vars => Control' /\ Data'
  BY ControlStep, DataStep
<1> QED BY <1>1, <1>2, PTL DEF Spec

\* The state of the threads and of the calls keeps its type, and no call runs
\* the compiler twice.
THEOREM TypeCorrect == Spec => []TypeOK
<1>1. Control /\ Data => TypeOK
  BY DEF Control, Data, CallInv, TypeOK
<1> QED BY <1>1, Invariant, PTL

\* Whoever reads or allocates OCaml values holds the runtime lock.
THEOREM RuntimeIsHeld == Spec => []RuntimeHeld
<1>1. Control => RuntimeHeld
  BY DEF Control
<1> QED BY <1>1, Invariant, PTL

\* No collection leaves behind a pointer that only the C code knows of: the
\* promotion of the arguments is enough.
THEOREM InputStaysInPlace == Spec => []InputInPlace
<1>1. Data => InputInPlace
  BY DEF Data, CallInv, InputInPlace
<1> QED BY <1>1, Invariant, PTL

\* The lock is what makes the static certirocq_heap safe: while a result is
\* copied, it is the heap of that call.
THEOREM HeapIsOwn == Spec => []OwnHeap
<1>1. Data => OwnHeap
  BY DEF Data
<1> QED BY <1>1, Invariant, PTL

\* A call that returns has run the compiler once, and returns its result.
THEOREM CompilerRanOnce == Spec => []RanOnce
<1>1. Data => RanOnce
  BY DEF Data, CallInv, RanOnce
<1> QED BY <1>1, Invariant, PTL
=============================================================================
