------------------------------- MODULE Workers -------------------------------
(***************************************************************************)
(* The threads behind the server's platform objects: the input capture and *)
(* the clipboard monitor, on macOS and on Windows.  Server::start starts   *)
(* them in this order and Server::stop stops them in this order; each      *)
(* stop() clears a flag, tries to tell the thread, and joins it.  What     *)
(* differs is how a thread can be told:                                    *)
(*                                                                         *)
(*   tap     capture, macOS    CFRunLoopStop on the run loop it published  *)
(*   hooks   capture, Windows  WM_QUIT to its message queue                *)
(*   window  clipboard, Windows  WM_QUIT to the window it published        *)
(*   poll    clipboard, macOS  it looks at the flag by itself              *)
(*                                                                         *)
(* Its specification is WorkersSpec: PlatformProofs extends Keyboard too.  *)
(***************************************************************************)
EXTENDS Naturals

Worker == {"capture", "clipboard"}

VARIABLES
  platform,   \* "macOS" or "Windows", for good
  main,       \* where the thread is that calls Server::start and Server::stop
  at,         \* the worker whose stop() it is in
  flag,       \* capturing_, running_
  thread,     \* tap_thread_, hook_thread_, poll_thread_, monitor_thread_
  address,    \* run_loop_ is set; the message queue exists; hwnd_ is set
  told,       \* a stop that the thread will find where it waits
  missed      \* history: stop() has found nobody to tell

WorkersVars == <<platform, main, at, flag, thread, address, told, missed>>

Kind(w) == IF platform = "macOS" THEN IF w = "capture" THEN "tap" ELSE "poll"
                                 ELSE IF w = "capture" THEN "hooks" ELSE "window"

Nothing == [w \in Worker |-> FALSE]

WorkersTypeOK ==
  /\ platform \in {"macOS", "Windows"}
  /\ main \in {"off", "half", "on", "clear", "tell", "join", "stopped"} /\ at \in Worker
  /\ thread \in [Worker -> {"none", "starting", "waiting", "busy", "ended"}]
  /\ {flag, address, told, missed} \subseteq [Worker -> BOOLEAN]

WorkersInit ==
  /\ platform \in {"macOS", "Windows"}
  /\ main = "off" /\ at = "capture"
  /\ thread = [w \in Worker |-> "none"]
  /\ flag = Nothing /\ address = Nothing /\ told = Nothing /\ missed = Nothing

-------------------------------------------------------------------------------
(* Server::start and Server::stop, on the main thread.                       *)

Starts(w, from, to) ==
  /\ main = from /\ main' = to
  /\ flag' = [flag EXCEPT ![w] = TRUE]
  /\ thread' = [thread EXCEPT ![w] = "starting"]
  /\ UNCHANGED <<platform, at, address, told, missed>>

StopBegins ==
  /\ main = "on" /\ main' = "clear" /\ at' = "capture"
  /\ UNCHANGED <<platform, flag, thread, address, told, missed>>

Clears(w) ==
  /\ main = "clear" /\ at = w /\ main' = "tell"
  /\ flag' = [flag EXCEPT ![w] = FALSE]
  /\ UNCHANGED <<platform, at, thread, address, told, missed>>

\* A message waits in its queue, if there is one; CFRunLoopStop stops a run, and is
\* nothing to a run loop that does not run yet.
Hears(w) == address[w] /\ (Kind(w) = "tap" => thread[w] \in {"waiting", "busy"})

Tells(w) ==
  /\ main = "tell" /\ at = w /\ main' = "join"
  /\ told' = [told EXCEPT ![w] = Hears(w)]
  /\ missed' = [missed EXCEPT ![w] = Kind(w) # "poll" /\ ~Hears(w)]
  /\ UNCHANGED <<platform, at, flag, thread, address>>

\* Mutant: a thread that is left to itself.
Detaches(w) ==
  /\ main = "join" /\ at = w
  /\ main' = IF w = "capture" THEN "clear" ELSE "stopped"
  /\ at' = "clipboard"
  /\ UNCHANGED <<platform, flag, thread, address, told, missed>>

Joins(w) ==
  /\ main = "join" /\ at = w /\ thread[w] = "ended"
  /\ main' = IF w = "capture" THEN "clear" ELSE "stopped"
  /\ at' = "clipboard"
  /\ UNCHANGED <<platform, flag, thread, address, told, missed>>

\* The next start makes new objects.
Renew ==
  /\ main = "stopped" /\ main' = "off"
  /\ thread' = [w \in Worker |-> "none"]
  /\ flag' = Nothing /\ address' = Nothing /\ told' = Nothing /\ missed' = Nothing
  /\ UNCHANGED <<platform, at>>

-------------------------------------------------------------------------------
(* The threads.                                                              *)

Becomes(w, state) ==
  thread' = [thread EXCEPT ![w] = state] /\ UNCHANGED <<platform, main, at, flag, told, missed>>

\* run_loop_ is assigned; SetWindowsHookEx makes the thread's queue; hwnd_ is assigned.
Publishes(w) ==
  /\ thread[w] = "starting" /\ ~address[w] /\ Kind(w) # "poll"
  /\ address' = [address EXCEPT ![w] = TRUE]
  /\ Becomes(w, "starting")

\* No window, no loop.
WindowFails(w) ==
  /\ thread[w] = "starting" /\ ~address[w] /\ Kind(w) = "window"
  /\ Becomes(w, "ended") /\ UNCHANGED address

\* CFRunLoopRun, the first GetMessage, the first round of the polling loop.
Loops(w) ==
  /\ thread[w] = "starting" /\ (address[w] \/ Kind(w) = "poll")
  /\ Becomes(w, "waiting") /\ UNCHANGED address

\* Mutant: a polling thread that never looks.
NeverPolls(w) == Kind(w) = "window"

\* What tests the flag on waking up: not the run loop, and not GetMessage inside of
\* which low-level hooks are called.
Tests(w) == Kind(w) \in {"poll", "window"}

\* An input event, a change of the clipboard, or a quarter of a second gone by.
Wakes(w) ==
  /\ thread[w] = "waiting"
  /\ \/ (flag[w] \/ ~Tests(w)) /\ Becomes(w, "busy")
     \/ ~flag[w] /\ Tests(w) /\ Becomes(w, "ended")
  /\ UNCHANGED address

Returns(w) == thread[w] = "busy" /\ Becomes(w, "waiting") /\ UNCHANGED address

Quits(w) == thread[w] = "waiting" /\ told[w] /\ Becomes(w, "ended") /\ UNCHANGED address

-------------------------------------------------------------------------------
Main == \/ \E w \in Worker : Clears(w) \/ Tells(w) \/ Joins(w)

Thread(w) == \/ Publishes(w) \/ WindowFails(w) \/ Loops(w) \/ Returns(w) \/ Quits(w)
             \/ Kind(w) = "poll" /\ Wakes(w)

WorkersNext == \/ Starts("capture", "off", "half") \/ Starts("clipboard", "half", "on")
               \/ StopBegins \/ Main \/ Renew
               \/ \E w \in Worker : Thread(w) \/ Wakes(w)

WorkersSpec == WorkersInit /\ [][WorkersNext]_WorkersVars

\* Threads run when they can, and the polling thread wakes up by itself; whether
\* there are events, and when the server is stopped, is up to the user.  A thread
\* that has been told quits in the end, however many events there are.
Fairness == /\ WF_WorkersVars(Main)
            /\ \A w \in Worker : WF_WorkersVars(Thread(w)) /\ SF_WorkersVars(Quits(w))

WorkersFairSpec == WorkersSpec /\ Fairness

-------------------------------------------------------------------------------
(* What should hold.                                                         *)

\* stop() returns, and so does Server::stop, unless it came before a thread was
\* ready to be told: then nobody ever tells it again.
StopReturns == main = "clear" ~> main = "stopped" \/ \E w \in Worker : missed[w]

\* Whatever is told or missed, no callback comes from a worker that has been stopped:
\* Server::stop goes on to destroy what they use.
StoppedIsQuiet ==
  \A w \in Worker :
    main = "stopped" \/ (w = "capture" /\ at = "clipboard" /\ main \in {"clear", "tell", "join"})
      => thread[w] \in {"none", "ended"}

-------------------------------------------------------------------------------
(* What the repository says and the code does not do (README, section 4).   *)

\* platform.h:21 "Stop capturing", clipboard.h:20 "Stop monitoring": stop() ends the thread
\* of a worker, whenever it is called, and returns.
StopAlwaysReturns == main = "clear" ~> main = "stopped"
===============================================================================
