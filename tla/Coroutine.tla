----------------------------- MODULE Coroutine ------------------------------
(***************************************************************************)
(* The scheduler of c-util/coroutine.c.  All coroutines run on the one     *)
(* stack of the schedule: coroutine_yield copies the used part of it away, *)
(* coroutine_resume copies it back.  The frames on a stack are modelled by *)
(* whose they are and how deep they go.                                    *)
(*                                                                         *)
(* The main program and a running coroutine call the scheduler in turn;    *)
(* running tells whose turn it is.  The assertions that coroutine_resume   *)
(* and coroutine_yield make about their caller are guards: they are the    *)
(* contract of the two calls.                                              *)
(***************************************************************************)
EXTENDS Integers, FiniteSets

CONSTANTS
  DEFAULT_COROUTINE,  \* initial length of the array
  MaxCreated,         \* bound: coroutines created in a behaviour
  MaxDepth,           \* bound: depth of a coroutine's frames
  NULL

ASSUME CoroutineAssumption ==
  /\ DEFAULT_COROUTINE \in Nat \ {0}
  /\ MaxCreated \in Nat
  /\ MaxDepth \in Nat \ {0}

VARIABLES
  co,       \* the array: a coroutine or NULL at every id
  nco,
  running,
  stack,    \* the frames on the shared stack
  created,  \* number of coroutines created so far
  depth     \* history: how deep the frames of a coroutine go, by its number

vars == <<co, nco, running, stack, created, depth>>

cap == Cardinality(DOMAIN co)
Alive == {i \in DOMAIN co : co[i] # NULL}

Frames(n, d) == [of |-> n, depth |-> d]
NoFrames == Frames(0, 0)

\* _co_new, for the coroutine number n: nothing is saved yet.
_co_new(n) == [number |-> n, status |-> "READY", cap |-> 0, saved |-> NoFrames]

-----------------------------------------------------------------------------

\* coroutine_open.
Init ==
  /\ co = [i \in 0 .. DEFAULT_COROUTINE - 1 |-> NULL]
  /\ nco = 0
  /\ running = -1
  /\ stack = NoFrames
  /\ created = 0
  /\ depth = [n \in 1 .. MaxCreated |-> 0]

\* The array is not searched.
BugFreeId == nco

\* The id coroutine_new picks: the first free one from nco on, round the array.
FreeId ==
  LET at(i) == (i + nco) % cap
  IN  at(CHOOSE i \in 0 .. cap - 1 :
           /\ co[at(i)] = NULL
           /\ \A j \in 0 .. i - 1 : co[at(j)] # NULL)

\* coroutine_new, called by the main program or by the running coroutine.
coroutine_new ==
  /\ created < MaxCreated
  /\ LET C == _co_new(created + 1)
     IN  co' = IF nco >= cap
               THEN [i \in 0 .. 2 * cap - 1 |->
                       IF i < cap THEN co[i] ELSE IF i = cap THEN C ELSE NULL]
               ELSE [co EXCEPT ![FreeId] = C]
  /\ nco' = nco + 1
  /\ created' = created + 1
  /\ UNCHANGED <<running, stack, depth>>

\* coroutine_resume of a coroutine that has not run: mainfunc starts on the
\* shared stack.
ResumeReady(id) ==
  /\ running = -1
  /\ co[id] # NULL
  /\ co[id].status = "READY"
  /\ running' = id
  /\ co' = [co EXCEPT ![id].status = "RUNNING"]
  /\ stack' = Frames(co[id].number, 1)
  /\ depth' = [depth EXCEPT ![co[id].number] = 1]
  /\ UNCHANGED <<nco, created>>

\* coroutine_resume of one that has yielded.
ResumeSuspended(id) ==
  /\ running = -1
  /\ co[id] # NULL
  /\ co[id].status = "SUSPEND"
  /\ stack' = co[id].saved
  /\ running' = id
  /\ co' = [co EXCEPT ![id].status = "RUNNING"]
  /\ UNCHANGED <<nco, created, depth>>

\* The running coroutine calls or returns from functions of its own.
Work(d) ==
  /\ running # -1
  /\ stack' = [stack EXCEPT !.depth = d]
  /\ depth' = [depth EXCEPT ![co[running].number] = d]
  /\ UNCHANGED <<co, nco, running, created>>

\* The buffer is allocated once and never again.
BugSave(C) ==
  LET room == IF C.cap = 0 THEN stack.depth ELSE C.cap
  IN  [C EXCEPT !.cap = room,
                !.saved = Frames(stack.of, IF stack.depth <= room THEN stack.depth ELSE room)]

\* _save_stack: the buffer is replaced when it is too small.
_save_stack(C) ==
  [C EXCEPT !.cap = IF C.cap < stack.depth THEN stack.depth ELSE C.cap,
            !.saved = stack]

coroutine_yield ==
  /\ running # -1
  /\ co' = [co EXCEPT ![running] = [_save_stack(co[running]) EXCEPT !.status = "SUSPEND"]]
  /\ running' = -1
  /\ UNCHANGED <<nco, stack, created, depth>>


\* The function of the running coroutine returns: the rest of mainfunc.
Finish ==
  /\ running # -1
  /\ co' = [co EXCEPT ![running] = NULL]
  /\ nco' = nco - 1
  /\ running' = -1
  /\ UNCHANGED <<stack, created, depth>>

Next ==
  \/ coroutine_new
  \/ \E id \in DOMAIN co : ResumeReady(id) \/ ResumeSuspended(id)
  \/ \E d \in 1 .. MaxDepth : Work(d)
  \/ coroutine_yield
  \/ Finish

Spec == Init /\ [][Next]_vars

-----------------------------------------------------------------------------
(* Properties.                                                             *)

Coroutines ==
  [number : 1 .. MaxCreated, status : {"READY", "RUNNING", "SUSPEND"}, cap : 0 .. MaxDepth,
   saved : [of : 0 .. MaxCreated, depth : 0 .. MaxDepth]]

TypeOK ==
  /\ DOMAIN co = 0 .. cap - 1
  /\ \A i \in Alive : co[i] \in Coroutines
  /\ nco \in 0 .. MaxCreated
  /\ running \in DOMAIN co \cup {-1}
  /\ stack \in [of : 0 .. MaxCreated, depth : 0 .. MaxDepth]
  /\ created \in 0 .. MaxCreated
  /\ depth \in [1 .. MaxCreated -> 0 .. MaxDepth]

(* "which coroutine is running, -1 if no coroutine running": running is    *)
(* the one coroutine whose status is RUNNING.  nco is the number of        *)
(* coroutines, so that coroutine_new finds a place whenever it looks for   *)
(* one and its assert(0) is out of reach.  All variables keep their types. *)
SchedulerAgrees ==
  /\ TypeOK
  /\ \A i \in DOMAIN co : (co[i] # NULL /\ co[i].status = "RUNNING") <=> running = i
  /\ nco = Cardinality(Alive) /\ nco <= cap

(* Every coroutine runs on its own frames, as it left them: neither the    *)
(* coroutines that ran meanwhile nor a buffer of an earlier yield show.    *)
StackIsOwn ==
  \A i \in Alive :
    LET own == Frames(co[i].number, depth[co[i].number])
    IN  /\ co[i].status = "RUNNING" => stack = own
        /\ co[i].status = "SUSPEND" => co[i].saved = own

(* coroutine_new takes nobody's place, and an id stays with its coroutine  *)
(* until that coroutine has returned.                                      *)
IdsAreStable ==
  [][\A i \in Alive : i = running \/ (i \in DOMAIN co' /\ co'[i] # NULL /\ co'[i].number = co[i].number)]_vars
=============================================================================
