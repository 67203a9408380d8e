---------------------------- MODULE AeEventLoop -----------------------------
(***************************************************************************)
(* The event loop of c-util/ae.cc: file events on top of epoll, and a list *)
(* of time events.  One thread runs the loop; the callbacks it calls are   *)
(* user code that calls back into the loop, and the clock moves at any     *)
(* moment, also backwards.                                                 *)
(*                                                                         *)
(* Contract of the callbacks: a time event that deletes itself returns     *)
(* AE_NOMORE (processTimeEvents still writes to the event otherwise), and  *)
(* a file descriptor is deleted from the loop before it is closed.         *)
(***************************************************************************)
EXTENDS Integers, SequencesExt, FiniteSetsExt

CONSTANTS
  setsize,    \* file descriptors are 0 .. setsize - 1
  Procs,      \* file callbacks
  Delays,     \* milliseconds a time event can be set to
  MaxTimers,  \* bound: time events created
  Ticks,      \* steps of the clock, in milliseconds
  StartTime,  \* the clock when the loop is created
  MaxTime,    \* bound: the clock
  MaxBacks,   \* bound: times the clock is set back
  IntMax,     \* INT_MAX
  NULL

VARIABLES
  mask, proc,     \* eventLoop->events: the mask and the two callbacks
  interest,       \* what epoll watches for
  maxfd, fired, rfired,
  timers,         \* the list of time events, head first
  timeEventNextId, lastTime, maxId,
  te,             \* id of the time event the loop is at, or NULL
  pc, flags, inMain, stop,
  until,          \* when epoll_wait gives up, or NULL
  clock, backs,   \* the time in milliseconds
  armed,          \* history: when a time event was asked to run, by id
  mustRun,        \* history: time events this pass must run
  began           \* history: when epoll_wait was called

fileVars == <<mask, proc, interest, maxfd>>
timeVars == <<timers, timeEventNextId, armed>>
passVars == <<lastTime, maxId, te>>
pollVars == <<until, began>>
clockVars == <<clock, backs>>
callVars == <<flags, inMain>>
vars == <<fileVars, timeVars, passVars, pollVars, clockVars, callVars, fired, rfired, pc, stop, mustRun>>

Fds == 0 .. setsize - 1
Kinds == {"READABLE", "WRITABLE"}
Flags == {"FILE", "TIME", "DONT_WAIT"}
AE_ALL_EVENTS == {"FILE", "TIME"}
AE_NOMORE == -1

-----------------------------------------------------------------------------
(* Time.                                                                   *)

\* aeGetTime.
Sec(t) == t \div 1000
Ms(t) == t % 1000

\* The carry is forgotten.
BugaeAddMillisecondsToNow(d) ==
  [sec |-> Sec(clock) + (d \div 1000), ms |-> (Ms(clock) + d) % 1000]


aeAddMillisecondsToNow(d) ==
  LET s == Sec(clock) + (d \div 1000)
      m == Ms(clock) + (d % 1000)
  IN  IF m >= 1000 THEN [sec |-> s + 1, ms |-> m - 1000] ELSE [sec |-> s, ms |-> m]

Due(t) ==
  \/ Sec(clock) > t.when.sec
  \/ Sec(clock) = t.when.sec /\ Ms(clock) >= t.when.ms

aeSearchNearestTimer ==
  CHOOSE t \in ToSet(timers) : \A u \in ToSet(timers) :
    t.when.sec < u.when.sec \/ (t.when.sec = u.when.sec /\ t.when.ms <= u.when.ms)

\* A value passed as an int.
AsInt(n) == ((n + IntMax + 1) % (2 * (IntMax + 1))) - (IntMax + 1)

\* The timeout of epoll_wait for the nearest time event; only the seconds
\* are ever negative.
Timeout(t) ==
  LET borrow == t.when.ms < Ms(clock)
      sec == t.when.sec - Sec(clock) - (IF borrow THEN 1 ELSE 0)
      ms == (IF borrow THEN t.when.ms + 1000 ELSE t.when.ms) - Ms(clock)
  IN  AsInt((IF sec < 0 THEN 0 ELSE sec) * 1000 + ms)

-----------------------------------------------------------------------------
(* The interface: called by the program and by the callbacks.              *)

InUserCode == pc \in {"user", "rfileProc", "wfileProc", "timeProc"}

\* aeCreateEventLoop.
Init ==
  /\ mask = [fd \in Fds |-> {}]
  /\ proc = [fd \in Fds |-> [k \in Kinds |-> NULL]]
  /\ interest = [fd \in Fds |-> {}]
  /\ maxfd = -1
  /\ fired = <<>> /\ rfired = FALSE
  /\ timers = <<>> /\ timeEventNextId = 0
  /\ lastTime = Sec(StartTime) /\ maxId = -1 /\ te = NULL
  /\ pc = "user" /\ flags = {} /\ inMain = FALSE /\ stop = FALSE
  /\ until = NULL /\ began = 0
  /\ clock = StartTime /\ backs = 0
  /\ armed = [id \in 0 .. MaxTimers - 1 |-> 0] /\ mustRun = {}

aeEpollAddEvent(fd, m) == interest' = [interest EXCEPT ![fd] = m \cup mask[fd]]

\* Called with the new mask in place.
aeApiDelEvent(fd, m) == interest' = [interest EXCEPT ![fd] = mask'[fd] \ m]

\* A call that epoll refuses changes nothing.
aeCreateFileEvent(fd, m, p) ==
  /\ InUserCode
  /\ aeEpollAddEvent(fd, m)
  /\ mask' = [mask EXCEPT ![fd] = @ \cup m]
  /\ proc' = [proc EXCEPT ![fd] = [k \in Kinds |-> IF k \in m THEN p ELSE @[k]]]
  /\ maxfd' = Max({fd, maxfd})
  /\ UNCHANGED <<timeVars, passVars, pollVars, clockVars, callVars, fired, rfired, pc, stop, mustRun>>

aeDeleteFileEvent(fd, m) ==
  /\ InUserCode
  /\ mask[fd] # {}
  /\ mask' = [mask EXCEPT ![fd] = @ \ m]
  /\ maxfd' = IF fd = maxfd /\ mask'[fd] = {}
              THEN Max({-1} \cup {j \in 0 .. maxfd - 1 : mask[j] # {}})
              ELSE maxfd
  /\ aeApiDelEvent(fd, m)
  /\ UNCHANGED <<proc, timeVars, passVars, pollVars, clockVars, callVars, fired, rfired, pc, stop, mustRun>>

aeCreateTimeEvent(d) ==
  /\ InUserCode
  /\ timeEventNextId < MaxTimers
  /\ timers' = <<[id |-> timeEventNextId, when |-> aeAddMillisecondsToNow(d)]>> \o timers
  /\ timeEventNextId' = timeEventNextId + 1
  /\ armed' = [armed EXCEPT ![timeEventNextId] = clock + d]
  /\ UNCHANGED <<fileVars, passVars, pollVars, clockVars, callVars, fired, rfired, pc, stop, mustRun>>

Without(id) == SelectSeq(timers, LAMBDA t : t.id # id)
HasTimer(id) == \E t \in ToSet(timers) : t.id = id

aeDeleteTimeEvent(id) ==
  /\ InUserCode
  /\ HasTimer(id)
  /\ timers' = Without(id)
  /\ mustRun' = mustRun \ {id}
  /\ UNCHANGED <<timeEventNextId, armed, fileVars, passVars, pollVars, clockVars, callVars, fired, rfired, pc, stop>>

aeStop ==
  /\ InUserCode
  /\ stop' = TRUE
  /\ UNCHANGED <<fileVars, timeVars, passVars, pollVars, clockVars, callVars, fired, rfired, pc, mustRun>>

\* aeMain, up to its loop.
aeMain ==
  /\ pc = "user"
  /\ stop' = FALSE
  /\ inMain' = TRUE
  /\ flags' = AE_ALL_EVENTS
  /\ pc' = "loop"
  /\ UNCHANGED <<fileVars, timeVars, passVars, pollVars, clockVars, fired, rfired, mustRun>>

\* The program calls aeProcessEvents itself.
aeProcessEvents(f) ==
  /\ pc = "user"
  /\ f \cap {"FILE", "TIME"} # {}
  /\ flags' = f
  /\ pc' = "process"
  /\ UNCHANGED <<inMain, fileVars, timeVars, passVars, pollVars, clockVars, fired, rfired, stop, mustRun>>

-----------------------------------------------------------------------------
(* aeProcessEvents.                                                        *)

\* aeMain's loop.
Loop ==
  /\ pc = "loop"
  /\ pc' = IF stop THEN "user" ELSE "process"
  /\ inMain' = ~stop
  /\ UNCHANGED <<flags, fileVars, timeVars, passVars, pollVars, clockVars, fired, rfired, stop, mustRun>>

\* How long to wait, up to the call of epoll_wait.
Poll ==
  /\ pc = "process"
  /\ IF maxfd # -1 \/ ("TIME" \in flags /\ "DONT_WAIT" \notin flags)
     THEN LET timed == "TIME" \in flags /\ "DONT_WAIT" \notin flags /\ timers # <<>>
              wait  == CASE timed -> Timeout(aeSearchNearestTimer)
                         [] ~timed /\ "DONT_WAIT" \in flags -> 0
                         [] OTHER -> -1
          IN  /\ until' = IF wait < 0 THEN NULL ELSE clock + wait
              /\ began' = clock
              /\ pc' = "wait"
     ELSE /\ pc' = "fired"
          /\ UNCHANGED pollVars
  /\ UNCHANGED <<fileVars, timeVars, passVars, clockVars, callVars, fired, rfired, stop, mustRun>>

\* epoll reports a descriptor for what it watches it for, and for an error or
\* a hang-up, which aeEpoll turns into WRITABLE.
Reports == {r \in [fd : Fds, mask : (SUBSET Kinds) \ {{}}] :
              interest[r.fd] # {} /\ r.mask \subseteq interest[r.fd] \cup {"WRITABLE"}}

\* aeEpoll: epoll_wait returns, with reports or because its time is over.
EpollWait ==
  /\ pc = "wait"
  /\ \E S \in SUBSET Reports :
       /\ \A r, s \in S : r.fd = s.fd => r = s
       /\ S = {} => (until # NULL /\ until <= clock)
       /\ fired' \in SetToSeqs(S)
  /\ pc' = "fired"
  /\ UNCHANGED <<fileVars, timeVars, passVars, pollVars, clockVars, callVars, rfired, stop, mustRun>>

Fd == Head(fired).fd

\* The mask is not looked at again.
BugValid(k) == k \in Head(fired).mask

\* The event fired and is still registered.
Valid(k) == k \in mask[Fd] \cap Head(fired).mask

ReadEvent ==
  /\ pc = "fired" /\ fired # <<>>
  /\ rfired' = Valid("READABLE")
  /\ pc' = IF Valid("READABLE") THEN "rfileProc" ELSE "write"
  /\ UNCHANGED <<fileVars, timeVars, passVars, pollVars, clockVars, callVars, fired, stop, mustRun>>

ReadReturn ==
  /\ pc = "rfileProc"
  /\ pc' = "write"
  /\ UNCHANGED <<fileVars, timeVars, passVars, pollVars, clockVars, callVars, fired, rfired, stop, mustRun>>

WriteEvent ==
  /\ pc = "write"
  /\ LET runs == Valid("WRITABLE") /\ (~rfired \/ proc[Fd]["WRITABLE"] # proc[Fd]["READABLE"])
     IN  /\ pc' = IF runs THEN "wfileProc" ELSE "fired"
         /\ fired' = IF runs THEN fired ELSE Tail(fired)
  /\ UNCHANGED <<fileVars, timeVars, passVars, pollVars, clockVars, callVars, rfired, stop, mustRun>>

WriteReturn ==
  /\ pc = "wfileProc"
  /\ pc' = "fired"
  /\ fired' = Tail(fired)
  /\ UNCHANGED <<fileVars, timeVars, passVars, pollVars, clockVars, callVars, rfired, stop, mustRun>>

Back == IF inMain THEN "loop" ELSE "user"

\* All file events are done.
FilesDone ==
  /\ pc = "fired" /\ fired = <<>>
  /\ pc' = IF "TIME" \in flags THEN "pass" ELSE Back
  /\ UNCHANGED <<fileVars, timeVars, passVars, pollVars, clockVars, callVars, fired, rfired, stop, mustRun>>

-----------------------------------------------------------------------------
(* processTimeEvents.                                                      *)

HeadId(ts) == IF ts = <<>> THEN NULL ELSE Head(ts).id

At(id) == CHOOSE i \in DOMAIN timers : timers[i].id = id
NextId(id) == IF At(id) = Len(timers) THEN NULL ELSE timers[At(id) + 1].id

\* Up to the walk along the list.  When the clock was set back every event is
\* made due.
StartPass ==
  /\ pc = "pass"
  /\ LET skew == Sec(clock) < lastTime
     IN  /\ timers' = IF skew THEN [i \in DOMAIN timers |-> [timers[i] EXCEPT !.when.sec = 0]] ELSE timers
         /\ armed' = IF skew THEN [id \in DOMAIN armed |-> 0] ELSE armed
         /\ mustRun' = {t.id : t \in {u \in ToSet(timers) : armed[u.id] <= clock \/ skew}}
  /\ lastTime' = Sec(clock)
  /\ maxId' = timeEventNextId - 1
  /\ te' = HeadId(timers)
  /\ pc' = "walk"
  /\ UNCHANGED <<timeEventNextId, fileVars, pollVars, clockVars, callVars, fired, rfired, stop>>

\* One turn of the loop: past the event or into its callback.
Walk ==
  /\ pc = "walk" /\ te # NULL
  /\ IF te <= maxId /\ Due(timers[At(te)])
     THEN pc' = "timeProc" /\ UNCHANGED te
     ELSE te' = NextId(te) /\ UNCHANGED pc
  /\ UNCHANGED <<fileVars, timeVars, lastTime, maxId, pollVars, clockVars, callVars, fired, rfired, stop, mustRun>>

\* The walk goes on behind the event, and ends when that is gone.
BugTimeReturn(retval) ==
  /\ pc = "timeProc"
  /\ retval # AE_NOMORE => HasTimer(te)
  /\ timers' = IF retval # AE_NOMORE
               THEN [timers EXCEPT ![At(te)].when = aeAddMillisecondsToNow(retval)]
               ELSE Without(te)
  /\ armed' = IF retval # AE_NOMORE THEN [armed EXCEPT ![te] = clock + retval] ELSE armed
  /\ mustRun' = mustRun \ {te}
  /\ te' = IF retval # AE_NOMORE THEN NextId(te) ELSE NULL
  /\ pc' = "walk"
  /\ UNCHANGED <<timeEventNextId, fileVars, lastTime, maxId, pollVars, clockVars, callVars, fired, rfired, stop>>

\* The callback returns: the event is set again or deleted, and the walk
\* starts over, for the callback may have changed the list.
TimeReturn(retval) ==
  /\ pc = "timeProc"
  /\ retval # AE_NOMORE => HasTimer(te)
  /\ timers' = IF retval # AE_NOMORE
               THEN [timers EXCEPT ![At(te)].when = aeAddMillisecondsToNow(retval)]
               ELSE Without(te)
  /\ armed' = IF retval # AE_NOMORE THEN [armed EXCEPT ![te] = clock + retval] ELSE armed
  /\ mustRun' = mustRun \ {te}
  /\ te' = HeadId(timers')
  /\ pc' = "walk"
  /\ UNCHANGED <<timeEventNextId, fileVars, lastTime, maxId, pollVars, clockVars, callVars, fired, rfired, stop>>

PassDone ==
  /\ pc = "walk" /\ te = NULL
  /\ pc' = Back
  /\ UNCHANGED <<fileVars, timeVars, passVars, pollVars, clockVars, callVars, fired, rfired, stop, mustRun>>

\* gettimeofday moves on.
Tick(d) ==
  /\ clock + d <= MaxTime
  /\ clock' = clock + d
  /\ UNCHANGED <<backs, fileVars, timeVars, passVars, pollVars, callVars, fired, rfired, pc, stop, mustRun>>

\* The system clock is set back while the loop waits.
SetBack(d) ==
  /\ pc = "wait" /\ backs < MaxBacks /\ clock - d >= 1000
  /\ clock' = clock - d
  /\ backs' = backs + 1
  /\ until' = IF until = NULL THEN NULL ELSE until - d
  /\ began' = began - d
  /\ UNCHANGED <<fileVars, timeVars, passVars, callVars, fired, rfired, pc, stop, mustRun>>

UserStep ==
  \/ \E fd \in Fds, m \in (SUBSET Kinds) \ {{}} :
       (\E p \in Procs : aeCreateFileEvent(fd, m, p)) \/ aeDeleteFileEvent(fd, m)
  \/ \E d \in Delays : aeCreateTimeEvent(d)
  \/ \E id \in DOMAIN armed : aeDeleteTimeEvent(id)
  \/ aeStop

LoopStep ==
  \/ Loop \/ Poll \/ ReadEvent \/ WriteEvent \/ FilesDone
  \/ StartPass \/ Walk \/ PassDone

Returns == ReadReturn \/ WriteReturn \/ \E r \in Delays \cup {AE_NOMORE} : TimeReturn(r)

Next ==
  \/ UserStep \/ LoopStep \/ Returns \/ EpollWait
  \/ aeMain \/ \E f \in SUBSET Flags : aeProcessEvents(f)
  \/ \E d \in Ticks : Tick(d) \/ SetBack(d)

Spec == Init /\ [][Next]_vars

\* The thread that runs the loop is scheduled and callbacks return.
LiveSpec == Spec /\ WF_vars(LoopStep) /\ WF_vars(Returns)

-----------------------------------------------------------------------------
(* Properties.                                                             *)

TypeOK ==
  /\ mask \in [Fds -> SUBSET Kinds] /\ interest \in [Fds -> SUBSET Kinds]
  /\ proc \in [Fds -> [Kinds -> Procs \cup {NULL}]]
  /\ maxfd \in Fds \cup {-1}
  /\ \A t \in ToSet(timers) : t.id \in 0 .. timeEventNextId - 1 /\ t.when.ms \in 0 .. 999
  /\ timeEventNextId \in 0 .. MaxTimers
  /\ te \in 0 .. MaxTimers - 1 \cup {NULL}
  /\ flags \subseteq Flags /\ {inMain, stop, rfired} \subseteq BOOLEAN
  /\ pc \in {"user", "loop", "process", "wait", "fired", "rfileProc", "write", "wfileProc",
             "pass", "walk", "timeProc"}

\* epoll watches every descriptor for exactly what is registered, and maxfd
\* is the largest one registered, or -1.
EpollAgrees ==
  /\ interest = mask
  /\ maxfd = Max({-1} \cup {fd \in DOMAIN mask : mask[fd] # {}})

(* "maybe an already processed event removed an element that fired": a     *)
(* file callback is only called for an event that is registered when it is *)
(* called, and there is a callback to call; what epoll watches, and maxfd, *)
(* always follow what is registered.                                       *)
CallsOnlyRegistered ==
  [][/\ EpollAgrees'
     /\ \A k \in Kinds :
          LET callback == IF k = "READABLE" THEN "rfileProc" ELSE "wfileProc"
          IN  pc # callback /\ pc' = callback => k \in mask[Fd] /\ proc[Fd][k] # NULL]_vars

(* A time callback is not called before the time it was set for, nor in    *)
(* the pass in which its event was created.                                *)
RunsWhenDue ==
  [][pc # "timeProc" /\ pc' = "timeProc" => armed[te] <= clock /\ te <= maxId]_vars

(* A pass over the time events leaves none out that was due when it began, *)
(* whatever the callbacks do to the list; a clock set back by a second or  *)
(* more makes every event due.                                             *)
PassRunsAllDue ==
  [][pc = "walk" /\ pc' # "walk" /\ pc' # "timeProc" => mustRun = {}]_vars

(* "Without special flags the function sleeps until some file event fires, *)
(* or when the next time event occurs": epoll_wait gives up by the time of *)
(* the nearest time event, at once when that event is late.                *)
SleepsUntilTimer ==
  pc = "wait" /\ flags = AE_ALL_EVENTS
    => \A t \in ToSet(timers) : until # NULL /\ until <= Max({began, armed[t.id]})

(* A pass over the time events comes to an end, when no callback asks to   *)
(* be called again after 0 milliseconds.                                   *)
PassEnds ==
  pc = "pass" ~> pc \notin {"pass", "walk", "timeProc"}
=============================================================================
