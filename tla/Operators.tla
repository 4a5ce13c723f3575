------------------------------ MODULE Operators ------------------------------
(***************************************************************************)
(* Operators, their functions and compiled code, and the reference counts   *)
(* that keep code (DG/Operator, DG/Function, DG/Code, DG/CodeManager,       *)
(* RC/Object).  Code is compiled once for a source and shared: the manager  *)
(* keeps a weak handle to it.  It runs unoptimised until a job of the pool  *)
(* has compiled it again, and then gives its functions the new machine      *)
(* code.  The job has a reference to the code, without a handle.            *)
(*                                                                          *)
(* Commands hold the context's mutex, so one is in progress at a time, but  *)
(* jobs run in between its steps.  What a job does to the functions of its  *)
(* code is one step: it holds both mutexes of the code, each of which is    *)
(* needed by a step of a command for a single access.  Objects are          *)
(* addresses, used again once freed.  A function has handles only in an     *)
(* operator and in the calls bound to it, which commands alone change: its  *)
(* count is left out.  Each operator is bound to one node.                  *)
(***************************************************************************)
EXTENDS Integers, FiniteSets

CONSTANTS
  Ops,        \* the operators
  Sources, Names,
  Given,      \* bound: pairs of an operator and a source that it may be given
  Named,      \* bound: pairs of an operator and an entry point that it may be given
  Codes,      \* bound: addresses of Code
  Functions,  \* bound: addresses of Function
  Has,        \* subset of Sources \X Names: the operators declared in a source
  Plain,      \* subset of Sources \X Names: its functions that are not operators
  Broken,     \* the sources with errors
  Jobs,       \* whether code is optimised by jobs: not optimizeSynchronously
  NoSource, NoName, NoCode, NoFunction

Dead == "dead"

ASSUME OperatorConstants ==
  /\ IsFiniteSet(Ops)
  /\ IsFiniteSet(Functions)
  /\ Given \subseteq Ops \X (Sources \union {NoSource})
  /\ Named \subseteq Ops \X (Names \union {NoName})
  /\ Has \subseteq Sources \X Names
  /\ Has \intersect Plain = {}
  /\ Broken \subseteq Sources
  /\ Jobs \in BOOLEAN
  /\ NoSource \notin Sources
  /\ NoName \notin Names
  /\ NoCode \notin Codes /\ Dead \notin Codes \union {NoCode}
  /\ NoFunction \notin Functions

VARIABLES
  source,      \* [Ops -> Sources \union {NoSource}], m_filename and m_sourceCode
  entry,       \* [Ops -> Names \union {NoName}], m_entryFunctionName
  ast,         \* [Ops -> Names \union {NoName}], m_astOperator
  code,        \* [Ops -> Codes \union {NoCode}], m_code
  function,    \* [Ops -> Functions \union {NoFunction}], m_function
  call,        \* [Ops -> Functions \union {NoFunction}], that of the call bound
               \* in the node's run state
  able,        \* the operators whose node had no errors when it was compiled
  marked,      \* the operators marked for recompilation
  of,          \* [Functions -> Codes \union {NoCode}], m_code; no code when freed
  stub,        \* [Functions -> Names \union {NoName}], m_functionName
  runs,        \* [Functions -> Engines], m_functionPtr
  alive,       \* the code not freed
  text,        \* [Codes -> Sources \union {NoSource}], m_sourceCode
  count,       \* [Codes -> Int], m_refCount
  engine,      \* [Codes -> Engines], m_executionEngine
  registered,  \* [Codes -> SUBSET Functions], m_registeredFunctionSet
  job,         \* [Codes -> the step its job is at]
  cache,       \* [Sources -> Codes \union {NoCode, Dead}], m_sourceCodeToCodeMap:
               \* the object of the weak handle, Dead when invalidated
  command,     \* the command in progress
  undefined    \* whether code was retained after its last release, or a call made
               \* that is not bound: no step after it is described

operators == <<source, entry, ast, code, function, call, able, marked>>
functions == <<of, stub, runs, registered>>
objects == <<alive, text, count, engine, job>>
vars == <<operators, functions, objects, cache, command, undefined>>

Engines == {"none", "first", "optimised"}
JobSteps == {"none", "queued", "optimised", "invalidate", "delete"}

Idle == [step |-> "idle"]
Command ==
  {Idle}
  \union [step : {"lookup", "resolve"}, op : Ops]
  \union [step : {"take"}, op : Ops, code : Codes]
  \union [step : {"read"}, op : Ops, function : Functions]
  \union [step : {"set"}, op : Ops, function : Functions, engine : Engines]
-----------------------------------------------------------------------------
(***************************************************************************)
(* Handles.                                                                 *)
(***************************************************************************)
\* A mutant of Forgotten: the weak handle is left as it is.
ForgottenLate(C) == cache

\* invalidate, for the code in C.
Forgotten(C) == [s \in Sources |-> IF cache[s] \in C THEN Dead ELSE cache[s]]

\* What the end of the functions F, and of the handles of the operators O, takes
\* from the count of c.
Lost(F, O, c) == Cardinality({f \in F : of[f] = c}) + Cardinality({o \in O : code[o] = c})

\* Handles go with the functions F and the m_code of the operators O.  A function
\* unregisters itself; no job has its last reference to a code that has others, so
\* the last release and what follows it are one step here.
Drop(F, O) ==
  LET last == {c \in Codes : Lost(F, O, c) > 0 /\ count[c] = Lost(F, O, c)}
  IN  /\ count' = [c \in Codes |-> count[c] - Lost(F, O, c)]
      /\ alive' = alive \ last
      /\ text' = [c \in Codes |-> IF c \in last THEN NoSource ELSE text[c]]
      /\ cache' = Forgotten(last)
      /\ of' = [f \in Functions |-> IF f \in F THEN NoCode ELSE of[f]]
      /\ stub' = [f \in Functions |-> IF f \in F THEN NoName ELSE stub[f]]
      /\ runs' = [f \in Functions |-> IF f \in F THEN "none" ELSE runs[f]]
      /\ engine' = [c \in Codes |-> IF c \in last THEN "none" ELSE engine[c]]
      /\ registered' = [c \in Codes |-> registered[c] \ F]

\* A mutant of Unused: a function goes while a call has it.
UnusedByOperator(o) == {function[o]} \ {NoFunction}

\* The function of o, when no call has it.
Unused(o) == {function[o]} \ {NoFunction, call[o]}
-----------------------------------------------------------------------------
(***************************************************************************)
(* Commands.                                                                *)
(***************************************************************************)
\* A call with the present source stands for one with another filename.  NoSource, an
\* empty source or filename, is not compiled, and does not mark o.
SetFilenameAndSourceCode(o, s) ==
  /\ command = Idle
  /\ source' = [source EXCEPT ![o] = s]
  /\ ast' = [ast EXCEPT ![o] = NoName]
  /\ code' = [code EXCEPT ![o] = NoCode]
  /\ function' = [function EXCEPT ![o] = NoFunction]
  /\ Drop(Unused(o), {o})
  /\ command' = IF s = NoSource THEN Idle ELSE [step |-> "lookup", op |-> o]
  /\ UNCHANGED <<entry, call, able, marked, job, undefined>>

\* makeStrong reads the pointer of the weak handle.
FindCode(o) ==
  /\ command = [step |-> "lookup", op |-> o]
  /\ cache[source[o]] \in Codes
  /\ command' = [step |-> "take", op |-> o, code |-> cache[source[o]]]
  /\ UNCHANGED <<operators, functions, objects, cache, undefined>>

\* A mutant of Retained: the job has no reference.
RetainedNot(jobs) == 0

Retained(jobs) == IF jobs THEN 1 ELSE 0

\* new Code, until its handle is made: linkModule may have retained it for the job.
\* optimised when found so in the bitcode cache, or not left to a job.
CreateCode(o, c, optimised) ==
  LET compiles == source[o] \notin Broken
      jobs == compiles /\ ~optimised
  IN  /\ command = [step |-> "lookup", op |-> o]
      /\ cache[source[o]] \notin Codes
      /\ c \notin alive
      /\ Jobs \/ optimised
      /\ alive' = alive \union {c}
      /\ text' = [text EXCEPT ![c] = source[o]]
      /\ count' = [count EXCEPT ![c] = Retained(jobs)]
      /\ job' = [job EXCEPT ![c] = IF jobs THEN "queued" ELSE "none"]
      /\ engine' = [engine EXCEPT ![c] =
           IF ~compiles THEN "none" ELSE IF optimised THEN "optimised" ELSE "first"]
      /\ command' = [step |-> "take", op |-> o, code |-> c]
      /\ UNCHANGED <<operators, functions, cache, undefined>>

\* A mutant of Inserted: the manager does not keep the code.
InsertedNot(s, c) == cache

\* insert, which replaces no entry.
Inserted(s, c) == IF cache[s] = NoCode THEN [cache EXCEPT ![s] = c] ELSE cache

\* Code that its job has released for good.
Released(c) == c \notin alive \/ job[c] \in {"invalidate", "delete"}

\* The handle is made, of code found or new, and kept.  Without errors and with an
\* entry point, that is looked up next.
TakeCode(o) ==
  LET c == command.code
      resolves == source[o] \notin Broken /\ entry[o] # NoName
  IN  /\ command.step = "take" /\ command.op = o
      /\ ~Released(c)
      /\ count' = [count EXCEPT ![c] = @ + 1]
      /\ code' = [code EXCEPT ![o] = c]
      /\ cache' = Inserted(source[o], c)
      /\ command' = IF resolves THEN [step |-> "resolve", op |-> o] ELSE Idle
      /\ marked' = IF resolves THEN marked ELSE marked \union {o}
      /\ UNCHANGED <<source, entry, ast, function, call, able, functions, alive, text, engine, job, undefined>>

TakeReleasedCode(o) ==
  /\ command.step = "take" /\ command.op = o
  /\ Released(command.code)
  /\ undefined' = TRUE
  /\ UNCHANGED <<operators, functions, objects, cache, command>>

SetEntryPoint(o, n) ==
  LET resolves == n # NoName /\ code[o] # NoCode /\ source[o] \notin Broken
  IN  /\ command = Idle
      /\ entry[o] # n
      /\ entry' = [entry EXCEPT ![o] = n]
      /\ function' = [function EXCEPT ![o] = NoFunction]
      /\ Drop(Unused(o), {})
      /\ command' = IF resolves THEN [step |-> "resolve", op |-> o] ELSE Idle
      /\ UNCHANGED <<source, ast, code, call, able, marked, job, undefined>>

\* resolveASTOperator: an operator found before, by another name, is kept when the
\* source has none of this name.  NoName stands for the exceptions.
Resolved(o) ==
  IF <<source[o], entry[o]>> \in Plain THEN NoName
  ELSE IF <<source[o], entry[o]>> \in Has THEN entry[o] ELSE ast[o]

\* An exception ends the command before it marks o.
FailToResolve(o) ==
  /\ command = [step |-> "resolve", op |-> o]
  /\ Resolved(o) = NoName
  /\ command' = Idle
  /\ UNCHANGED <<operators, functions, objects, cache, undefined>>

\* new Function, until it has asked for the engine.
CreateFunction(o, f) ==
  /\ command = [step |-> "resolve", op |-> o]
  /\ Resolved(o) # NoName
  /\ of[f] = NoCode
  /\ ast' = [ast EXCEPT ![o] = Resolved(o)]
  /\ of' = [of EXCEPT ![f] = code[o]]
  /\ stub' = [stub EXCEPT ![f] = Resolved(o)]
  /\ count' = [count EXCEPT ![code[o]] = @ + 1]
  /\ registered' = [registered EXCEPT ![code[o]] = @ \union {f}]
  /\ command' = [step |-> "read", op |-> o, function |-> f]
  /\ UNCHANGED <<source, entry, code, function, call, able, marked, runs, alive, text, engine, job, cache, undefined>>

\* getExecutionEngine.
ReadEngine(o, f) ==
  /\ command = [step |-> "read", op |-> o, function |-> f]
  /\ command' = [step |-> "set", op |-> o, function |-> f, engine |-> engine[of[f]]]
  /\ UNCHANGED <<operators, functions, objects, cache, undefined>>

\* A mutant of Recompiles: only the first function of an operator marks it.
RecompilesOnce(o) == IF call[o] = NoFunction THEN marked \union {o} ELSE marked

Recompiles(o) == marked \union {o}

\* onExecutionEngineChange, and the end of resolveEntryFunction.
SetFunction(o, f) ==
  /\ command.step = "set" /\ command.op = o /\ command.function = f
  /\ runs' = [runs EXCEPT ![f] = command.engine]
  /\ function' = [function EXCEPT ![o] = f]
  /\ marked' = Recompiles(o)
  /\ command' = Idle
  /\ UNCHANGED <<source, entry, ast, code, call, able, of, stub, registered, objects, cache, undefined>>

\* The nodes are compiled: they collect their errors, and their run states go.
PrepareForExecution ==
  /\ command = Idle
  /\ marked # {}
  /\ able' = (able \ marked) \union {o \in marked : function[o] # NoFunction}
  /\ call' = [o \in Ops |-> IF o \in marked THEN NoFunction ELSE call[o]]
  /\ Drop({call[o] : o \in {p \in marked : call[p] # function[p]}} \ {NoFunction}, {})
  /\ marked' = {}
  /\ UNCHANGED <<source, entry, ast, code, function, job, command, undefined>>

\* evaluateLocal, of a node compiled before, binds the call that is not bound.
Evaluates(o) == command = Idle /\ marked = {} /\ o \in able /\ call[o] = NoFunction

Bind(o) ==
  /\ Evaluates(o)
  /\ function[o] # NoFunction
  /\ call' = [call EXCEPT ![o] = function[o]]
  /\ UNCHANGED <<source, entry, ast, code, function, able, marked, functions, objects, cache, command, undefined>>

\* The operator lost its function after the node was compiled.
BindNothing(o) ==
  /\ Evaluates(o)
  /\ function[o] = NoFunction
  /\ undefined' = TRUE
  /\ UNCHANGED <<operators, functions, objects, cache, command>>

\* The node was resized: its calls are bound again by the next evaluation.
Unbind(o) ==
  /\ command = Idle /\ marked = {}
  /\ call[o] # NoFunction
  /\ call' = [call EXCEPT ![o] = NoFunction]
  /\ Drop({call[o]} \ {function[o]}, {})
  /\ UNCHANGED <<source, entry, ast, code, function, able, marked, job, command, undefined>>
-----------------------------------------------------------------------------
(***************************************************************************)
(* Jobs.                                                                    *)
(***************************************************************************)
\* A mutant of Told: only the functions not yet told anything are told.
ToldNew(c) == [f \in Functions |->
  IF f \in registered[c] /\ runs[f] = "none" THEN "optimised" ELSE runs[f]]

Told(c) == [f \in Functions |-> IF f \in registered[c] THEN "optimised" ELSE runs[f]]

\* linkModule of the optimised module.  LLVM is taken to succeed.
CompileOptimizedAST(c) ==
  /\ job[c] = "queued"
  /\ runs' = Told(c)
  /\ engine' = [engine EXCEPT ![c] = "optimised"]
  /\ job' = [job EXCEPT ![c] = "optimised"]
  /\ UNCHANGED <<operators, of, stub, registered, alive, text, count, cache, command, undefined>>

\* release, in which a command may find the code by its weak handle before that is
\* invalidated.
ReleaseCode(c) ==
  /\ job[c] = "optimised"
  /\ count' = [count EXCEPT ![c] = @ - 1]
  /\ job' = [job EXCEPT ![c] = IF count[c] = 1 THEN "invalidate" ELSE "none"]
  /\ UNCHANGED <<operators, functions, alive, text, engine, cache, command, undefined>>

InvalidateCode(c) ==
  /\ job[c] = "invalidate"
  /\ cache' = Forgotten({c})
  /\ job' = [job EXCEPT ![c] = "delete"]
  /\ UNCHANGED <<operators, functions, alive, text, count, engine, command, undefined>>

DeleteCode(c) ==
  /\ job[c] = "delete"
  /\ alive' = alive \ {c}
  /\ text' = [text EXCEPT ![c] = NoSource]
  /\ engine' = [engine EXCEPT ![c] = "none"]
  /\ job' = [job EXCEPT ![c] = "none"]
  /\ UNCHANGED <<operators, functions, count, cache, command, undefined>>

JobStep(c) ==
  ~undefined /\ (CompileOptimizedAST(c) \/ ReleaseCode(c) \/ InvalidateCode(c) \/ DeleteCode(c))
-----------------------------------------------------------------------------
Init ==
  /\ source = [o \in Ops |-> NoSource]
  /\ entry = [o \in Ops |-> NoName]
  /\ ast = [o \in Ops |-> NoName]
  /\ code = [o \in Ops |-> NoCode]
  /\ function = [o \in Ops |-> NoFunction]
  /\ call = [o \in Ops |-> NoFunction]
  /\ able = {}
  /\ marked = {}
  /\ of = [f \in Functions |-> NoCode]
  /\ stub = [f \in Functions |-> NoName]
  /\ runs = [f \in Functions |-> "none"]
  /\ alive = {}
  /\ text = [c \in Codes |-> NoSource]
  /\ count = [c \in Codes |-> 0]
  /\ engine = [c \in Codes |-> "none"]
  /\ registered = [c \in Codes |-> {}]
  /\ job = [c \in Codes |-> "none"]
  /\ cache = [s \in Sources |-> NoCode]
  /\ command = Idle
  /\ undefined = FALSE

Begin(o) ==
  \/ \E s \in Sources \union {NoSource} : <<o, s>> \in Given /\ SetFilenameAndSourceCode(o, s)
  \/ \E n \in Names \union {NoName} : <<o, n>> \in Named /\ SetEntryPoint(o, n)

Continue(o) ==
  \/ FindCode(o)
  \/ \E c \in Codes, optimised \in BOOLEAN : CreateCode(o, c, optimised)
  \/ TakeCode(o)
  \/ TakeReleasedCode(o)
  \/ FailToResolve(o)
  \/ \E f \in Functions : CreateFunction(o, f) \/ ReadEngine(o, f) \/ SetFunction(o, f)

Evaluate(o) == Bind(o) \/ BindNothing(o) \/ Unbind(o)

Next ==
  \/ ~undefined /\ \E o \in Ops : Begin(o) \/ Continue(o) \/ Evaluate(o)
  \/ ~undefined /\ PrepareForExecution
  \/ \E c \in Codes : JobStep(c)

Spec == Init /\ [][Next]_vars
-----------------------------------------------------------------------------
(***************************************************************************)
(* Properties.                                                              *)
(***************************************************************************)
\* Every variable has its type; no count is negative.
TypeOK ==
  /\ source \in [Ops -> Sources \union {NoSource}]
  /\ entry \in [Ops -> Names \union {NoName}]
  /\ ast \in [Ops -> Names \union {NoName}]
  /\ code \in [Ops -> Codes \union {NoCode}]
  /\ function \in [Ops -> Functions \union {NoFunction}]
  /\ call \in [Ops -> Functions \union {NoFunction}]
  /\ able \subseteq Ops
  /\ marked \subseteq Ops
  /\ of \in [Functions -> Codes \union {NoCode}]
  /\ stub \in [Functions -> Names \union {NoName}]
  /\ runs \in [Functions -> Engines]
  /\ alive \subseteq Codes
  /\ text \in [Codes -> Sources \union {NoSource}]
  /\ count \in [Codes -> Nat]
  /\ engine \in [Codes -> Engines]
  /\ registered \in [Codes -> SUBSET Functions]
  /\ job \in [Codes -> JobSteps]
  /\ cache \in [Sources -> Codes \union {NoCode, Dead}]
  /\ command \in Command
  /\ undefined \in BOOLEAN

JobRef(c) == IF job[c] \in {"queued", "optimised"} THEN 1 ELSE 0

OpsWith(c) == {o \in Ops : code[o] = c}
FunctionsOf(c) == {f \in Functions : of[f] = c}

CountsExact ==
  \A c \in Codes :
    count[c] = Cardinality(OpsWith(c)) + Cardinality(FunctionsOf(c)) + JobRef(c)

FreedAtZero ==
  /\ \A c \in Codes : count[c] > 0 => c \in alive
  /\ \A c \in alive : count[c] = 0 =>
       \/ job[c] \in {"invalidate", "delete"}
       \/ command.step = "take" /\ command.code = c

RegisteredExact == \A c \in Codes : registered[c] = FunctionsOf(c)

InUse(f) == \E o \in Ops : f \in {function[o], call[o]}
UnderWay(f) == command.step \in {"read", "set"} /\ command.function = f

FunctionsLive == \A f \in Functions : of[f] # NoCode <=> InUse(f) \/ UnderWay(f)

\* Until code is retained that its job has released for good, the count of each code
\* is the number of operators, functions and jobs that have it: none is freed while
\* one has it, and none stays when none has.  A function lives as long as an operator
\* or a call has it, and its code tells it, and no other, of new machine code.
RefsExact == CountsExact /\ FreedAtZero /\ RegisteredExact /\ FunctionsLive

\* Whether the entry point of o is an operator of its source.
Callable(o) ==
  /\ code[o] # NoCode
  /\ source[o] \notin Broken
  /\ <<source[o], entry[o]>> \in Has

\* Once a node is compiled, the call it has bound or will bind is of the entry point in
\* the code of its operator's present source, whatever sequence of sources and entry
\* points was set, unless the operator has lost its entry point: then the node may go
\* on with the code it had.
CallsCurrent ==
  command = Idle =>
    \A o \in Ops \ marked : Callable(o) =>
      /\ o \in able
      /\ function[o] # NoFunction
      /\ call[o] \in {function[o], NoFunction}
      /\ of[function[o]] = code[o]
      /\ text[code[o]] = source[o]
      /\ stub[function[o]] = entry[o]

\* Operators with the same source have the same code, unless code of that source was
\* freed before: the manager's dead entry is never replaced.
SharedUnlessDead ==
  \A o, p \in Ops :
    code[o] # NoCode /\ code[p] # NoCode /\ source[o] = source[p]
      => code[o] = code[p] \/ cache[source[o]] = Dead

\* A function that has the machine code its code has keeps up with it, while calls run
\* it: only one being created when the optimised code arrives may miss it.
FunctionsFollow ==
  [][\A f \in Functions :
       InUse(f) /\ runs[f] = engine[of[f]] /\ of'[f] # NoCode
         => runs'[f] = engine'[of'[f]]]_vars
=============================================================================
