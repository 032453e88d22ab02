----------------------------- MODULE Lifecycle -----------------------------
(***************************************************************************)
(* srv_main(): the initialization, the start of the logging thread, the    *)
(* two polling threads and the HTTP threads, the wait for a signal, and    *)
(* the end: stop, interrupt and join one after the other, then delete what *)
(* they shared.  The polling threads, SRV_RANDCONTST and SRV_TOPCONTST,    *)
(* fetch a list of contests each and store it in Config, where the HTTP    *)
(* threads find it; the lock in Config makes each store and each read one  *)
(* step.  What the logging thread writes is in module Logger, what the     *)
(* HTTP threads do in HttpServer, what a list shows in ContestEntries.     *)
(***************************************************************************)
EXTENDS Configuration

CONSTANTS
  Workers,      \* the threads that server::run() may create
  Files,        \* bound: the configuration files, each a sequence of lines
  MaxFaults     \* bound: exceptions that end the process, database outages

ASSUME LifecycleAssumption ==
  /\ MaxFaults \in Nat
  /\ \A f \in Files : f \in Seq(ToSet(f))

Pollers == {"rand", "top"}
Looping == Pollers \cup {"log"}     \* the threads with an atomic flag running
Threads == Looping \cup {"http"}
Objects == {"randContests", "topContests", "randDB", "topDB", "config", "log",
            "http"}

\* The objects a thread refers to as long as it has not ended.
Uses == [rand |-> {"randContests", "randDB", "config", "log"},
         top  |-> {"topContests", "topDB", "config", "log"},
         log  |-> {"config", "log"},
         http |-> {"http", "config", "log"}]

DatabaseOf == [rand |-> "randDB", top |-> "topDB"]

\* What Config holds of a poller: nothing yet, one of the error texts of the
\* list functions, or contests.
Lists == {"none", "1002", "1003", "rows"}

\* The connection of a poller's SRV_DB: no object, usable, or broken.
Sessions == {"none", "open", "lost"}

Closed == <<>>      \* the configuration file, once it was read

\* srv_main() as a numbered list of steps.
StartAt == [log |-> 1, rand |-> 2, top |-> 3, http |-> 5]
OpenAt == 4                 \* the constructor of http_main
WaitAt == 6                 \* sigwait()
StopAt == [http |-> 7, rand |-> 9, top |-> 12, log |-> 15]
InterruptAt == [rand |-> 10, top |-> 13]
JoinAt == [http |-> 8, rand |-> 11, top |-> 14, log |-> 16]
DeleteAt == [randContests |-> 17, topContests |-> 18, randDB |-> 19,
             topDB |-> 20, config |-> 21, log |-> 22, http |-> 23]
EndAt == 24

VARIABLES
  file,      \* the lines of srv.cfg, until they are read
  main,      \* the step srv_main() is at
  process,   \* "up", "exited" or "crashed"
  pc,        \* where each of Threads is
  wpc,       \* where each of Workers is
  running,   \* the flag of each of Looping
  intr,      \* pollers with an interruption requested and not delivered
  session,   \* the connection of each poller's SRV_DB
  list,      \* the list of each poller in Config
  db,        \* the MySQL server is up
  ioStopped, \* io_service_.stop() was called
  faults     \* faults so far

vars == <<file, main, process, pc, wpc, running, intr, session, list, db,
          ioStopped, faults>>
data == <<file, session, list, db>>
threadVars == <<pc, wpc, running, intr, data, ioStopped>>

Up == process = "up"
Live(t) == pc[t] \notin {"unborn", "done"}
WorkerLive(w) == wpc[w] \notin {"unborn", "done"}
Fault == faults < MaxFaults /\ faults' = faults + 1

-----------------------------------------------------------------------------
\* The steps of srv_main().
NextLine == main' = main + 1 /\ UNCHANGED <<process, faults>>

\* The threads that server::run() will create, by the setting HTTPThreads: a
\* value that was never set is whatever the memory held.  The others count as
\* done from the start.
Threading(setting) ==
  {chosen \in SUBSET Workers :
     setting = Unset \/ NumeralOf(Cardinality(chosen)) = setting}

\* Config, Logger and the two SRV_DBs, each of which tries to connect, and the
\* fork of a daemon; the model follows the child.  What fails is caught or
\* calls exit(); only a failed fork() is thrown as a pointer, caught by nobody.
Initialize ==
  LET config == ReadConfig(file)
  IN  /\ Up /\ main = 0
      /\ file' = Closed
      /\ \/ /\ config.status # "thrown"
            /\ \E chosen \in Threading(config.set["HTTPThreads"]) :
                 wpc' = [w \in Workers |-> IF w \in chosen THEN "unborn" ELSE "done"]
            /\ session' \in [Pollers -> IF db THEN {"none", "open"} ELSE {"none"}]
            /\ NextLine
         \/ /\ config.status = "thrown"
            /\ process' = "exited"
            /\ UNCHANGED <<main, wpc, session, faults>>
         \/ /\ process' \in IF config.set["Daemon"] = "true" THEN {"exited", "crashed"}
                            ELSE {"exited"}
            /\ Fault /\ UNCHANGED <<main, wpc, session>>
      /\ UNCHANGED <<pc, running, intr, list, db, ioStopped>>

Start(t) ==
  /\ Up /\ main = StartAt[t]
  /\ pc' = [pc EXCEPT ![t] = "start"]
  /\ NextLine
  /\ UNCHANGED <<wpc, running, intr, data, ioStopped>>

\* The constructor of the server throws when the port is taken; srv_main()
\* catches it and returns although its threads run.
Open ==
  /\ Up /\ main = OpenAt
  /\ \/ NextLine
     \/ process' = "exited" /\ Fault /\ UNCHANGED main
  /\ UNCHANGED threadVars

Signal ==
  /\ Up /\ main = WaitAt
  /\ NextLine
  /\ UNCHANGED threadVars

StopServer ==
  /\ Up /\ main = StopAt["http"]
  /\ ioStopped' = TRUE
  /\ NextLine
  /\ UNCHANGED <<pc, wpc, running, intr, data>>

Stopped(t) == [running EXCEPT ![t] = FALSE]

Stop(t) ==
  /\ Up /\ main = StopAt[t]
  /\ running' = Stopped(t)
  /\ NextLine
  /\ UNCHANGED <<pc, wpc, intr, data, ioStopped>>

NotInterrupted(p) == intr                        \* mutant: no interrupt()

Interrupted(p) == intr \cup {p}

Interrupt(p) ==
  /\ Up /\ main = InterruptAt[p]
  /\ intr' = Interrupted(p)
  /\ NextLine
  /\ UNCHANGED <<pc, wpc, running, data, ioStopped>>

JoinableServerSkipped(t) ==             \* mutant: the join of the server returns at once
  t = "http" \/ pc[t] = "done"

Joinable(t) == pc[t] = "done"

Join(t) ==
  /\ Up /\ main = JoinAt[t]
  /\ Joinable(t)
  /\ NextLine
  /\ UNCHANGED threadVars

\* ~SRV_DB() calls a method of its connection: without one the process dies.
\* The server deletes the SRV_DB of the connection it has ready for the next
\* client, with a session or without.
Sessionless(o) == \E p \in Pollers : session[p] = "none" /\ o = DatabaseOf[p]

Delete(o) ==
  /\ Up /\ main = DeleteAt[o]
  /\ \/ ~Sessionless(o) /\ NextLine
     \/ /\ Sessionless(o) \/ o = "http"
        /\ process' = "crashed" /\ UNCHANGED <<main, faults>>
  /\ UNCHANGED threadVars

EndForgotten ==                    \* mutant: srv_main() goes on past its end
  /\ Up /\ main = EndAt
  /\ NextLine
  /\ UNCHANGED threadVars

End ==
  /\ Up /\ main = EndAt
  /\ process' = "exited"
  /\ UNCHANGED <<main, faults, threadVars>>

-----------------------------------------------------------------------------
\* run() of the pollers and of the logger.
Goto(t, label) == pc' = [pc EXCEPT ![t] = label]
Others == UNCHANGED <<main, wpc, ioStopped>>

\* The flag is set by the thread itself: an earlier stop() is forgotten.
Run(t) ==
  /\ Up /\ pc[t] = "start"
  /\ running' = [running EXCEPT ![t] = TRUE]
  /\ Goto(t, "test")
  /\ UNCHANGED <<process, intr, data, faults>> /\ Others

Test(t) ==
  /\ Up /\ pc[t] = "test"
  /\ IF running[t] THEN Goto(t, "update") ELSE Goto(t, "end")
  /\ UNCHANGED <<process, running, intr, data, faults>> /\ Others

NotReopened(p) == session[p]           \* mutant: no second openConnection()

\* The session a list is fetched with.  Without a connection the method tries
\* to open one; one that is broken is kept, its status says connected.
Reopened(p) == IF session[p] = "none" /\ db THEN "open" ELSE session[p]

\* getRandomContests() and getTopContests(), by the session they have.
Fetched == [none |-> "1002", open |-> "rows", lost |-> "1003"]

\* One pass of a poller.  An exception while the rows are read leaves run()
\* and ends the process.
Update(p) ==
  /\ Up /\ pc[p] = "update"
  /\ \/ /\ session' = [session EXCEPT ![p] = Reopened(p)]
        /\ list' = [list EXCEPT ![p] = Fetched[Reopened(p)]]
        /\ Goto(p, "sleep")
        /\ UNCHANGED <<process, faults>>
     \/ /\ Reopened(p) # "none"
        /\ process' = "crashed" /\ Fault /\ UNCHANGED <<pc, session, list>>
  /\ UNCHANGED <<file, running, intr, db>> /\ Others

\* One pass of the logger.
Flush ==
  /\ Up /\ pc["log"] = "update"
  /\ Goto("log", "sleep")
  /\ UNCHANGED <<process, running, intr, data, faults>> /\ Others

\* Sixty seconds are over, or the few milliseconds of the logger.
Wake(t) ==
  /\ Up /\ pc[t] = "sleep"
  /\ Goto(t, "test")
  /\ UNCHANGED <<process, running, intr, data, faults>> /\ Others

\* The sleep throws thread_interrupted, which is caught.
WakeInterrupted(p) ==
  /\ Up /\ pc[p] = "sleep" /\ p \in intr
  /\ intr' = intr \ {p}
  /\ Goto(p, "test")
  /\ UNCHANGED <<process, running, data, faults>> /\ Others

Finish(t) ==
  /\ Up /\ pc[t] = "end"
  /\ running' = [running EXCEPT ![t] = FALSE]
  /\ Goto(t, "done")
  /\ UNCHANGED <<process, intr, data, faults>> /\ Others

-----------------------------------------------------------------------------
\* server::run() and the threads it creates.
WorkerGoto(w, label) == wpc' = [wpc EXCEPT ![w] = label]
ServerOnly == UNCHANGED <<main, process, running, intr, data, ioStopped, faults>>

Spawn(w) ==
  /\ Up /\ pc["http"] = "start" /\ wpc[w] = "unborn"
  /\ WorkerGoto(w, "run")
  /\ UNCHANGED pc /\ ServerOnly

AllSpawned ==
  /\ Up /\ pc["http"] = "start" /\ \A w \in Workers : wpc[w] # "unborn"
  /\ Goto("http", "join")
  /\ UNCHANGED wpc /\ ServerOnly

\* io_service::run() calls a handler, and returns after stop().
Handle(w) ==
  /\ Up /\ wpc[w] = "run" /\ ~ioStopped
  /\ WorkerGoto(w, "handler")
  /\ UNCHANGED pc /\ ServerOnly

Handled(w) ==
  /\ Up /\ wpc[w] = "handler"
  /\ WorkerGoto(w, "run")
  /\ UNCHANGED pc /\ ServerOnly

Leave(w) ==
  /\ Up /\ wpc[w] = "run" /\ ioStopped
  /\ WorkerGoto(w, "done")
  /\ UNCHANGED pc /\ ServerOnly

WorkersJoinedEarly == TRUE         \* mutant: run() does not wait for its threads

WorkersJoined == \A w \in Workers : wpc[w] = "done"

ServerRunEnds ==
  /\ Up /\ pc["http"] = "join" /\ WorkersJoined
  /\ Goto("http", "done")
  /\ UNCHANGED wpc /\ ServerOnly

-----------------------------------------------------------------------------
\* The MySQL server stops, which breaks every connection, and comes back.
DatabaseDown ==
  /\ Up /\ db /\ Fault
  /\ db' = FALSE
  /\ session' = [p \in Pollers |-> IF session[p] = "open" THEN "lost" ELSE session[p]]
  /\ UNCHANGED <<file, main, process, pc, wpc, running, intr, list, ioStopped>>

DatabaseUp ==
  /\ Up /\ ~db
  /\ db' = TRUE
  /\ UNCHANGED <<file, main, process, pc, wpc, running, intr, session, list,
                 ioStopped, faults>>

-----------------------------------------------------------------------------
Init ==
  /\ file \in Files
  /\ main = 0
  /\ process = "up"
  /\ pc = [t \in Threads |-> "unborn"]
  /\ wpc = [w \in Workers |-> "unborn"]
  /\ running = [t \in Looping |-> FALSE]
  /\ intr = {}
  /\ session = [p \in Pollers |-> "none"]
  /\ list = [p \in Pollers |-> "none"]
  /\ db \in BOOLEAN
  /\ ioStopped = FALSE
  /\ faults = 0

MainStep ==
  \/ Initialize \/ Open \/ StopServer \/ End
  \/ \E t \in Threads : Start(t) \/ Join(t)
  \/ \E t \in Looping : Stop(t)
  \/ \E p \in Pollers : Interrupt(p)
  \/ \E o \in Objects : Delete(o)

LoopStep(t) ==
  \/ Run(t) \/ Test(t) \/ Finish(t)
  \/ t \in Pollers /\ Update(t)
  \/ t = "log" /\ Flush

ServerStep ==
  \/ AllSpawned \/ ServerRunEnds
  \/ \E w \in Workers : Spawn(w)

WorkerStep(w) == Handle(w) \/ Handled(w) \/ Leave(w)

Next ==
  \/ MainStep
  \/ Signal
  \/ \E t \in Looping : LoopStep(t) \/ Wake(t)
  \/ \E p \in Pollers : WakeInterrupted(p)
  \/ ServerStep
  \/ \E w \in Workers : WorkerStep(w)
  \/ DatabaseDown \/ DatabaseUp

Spec == Init /\ [][Next]_vars

\* Every thread runs and a handler ends; nothing is said of the pollers'
\* sixty seconds, nor of the signal.
PromptSpec ==
  /\ Spec
  /\ WF_vars(MainStep)
  /\ \A t \in Looping : WF_vars(LoopStep(t))
  /\ WF_vars(Wake("log"))
  /\ \A p \in Pollers : WF_vars(WakeInterrupted(p))
  /\ WF_vars(ServerStep)
  /\ \A w \in Workers : WF_vars(WorkerStep(w))

\* The sixty seconds pass too.
FairSpec == PromptSpec /\ \A p \in Pollers : WF_vars(Wake(p))

-----------------------------------------------------------------------------
\* Every variable keeps its type; a poller's flag and its interruption are
\* touched by nobody else.
TypeOK ==
  /\ file \in Files \cup {Closed}
  /\ main \in 0 .. EndAt
  /\ process \in {"up", "exited", "crashed"}
  /\ pc \in [Threads -> {"unborn", "start", "test", "update", "sleep", "end",
                         "join", "done"}]
  /\ wpc \in [Workers -> {"unborn", "run", "handler", "done"}]
  /\ running \in [Looping -> BOOLEAN]
  /\ intr \subseteq Pollers
  /\ session \in [Pollers -> Sessions]
  /\ list \in [Pollers -> Lists]
  /\ db \in BOOLEAN
  /\ ioStopped \in BOOLEAN
  /\ faults \in 0 .. MaxFaults

Deleted(o) == main > DeleteAt[o]

\* The server is started with as many threads as the last line for them says
\* that stands before the first unreadable line; a malformed file is used as
\* far as it was read, and one without such a line leaves the number to chance
\* (config.cpp:25-118, srv_main.cpp:41 and 99).
StartsAsConfigured ==
  [][main = 0 /\ main' = 1 =>
       LET chosen == {w \in Workers : wpc'[w] # "done"}
           meant == Meant(file, "HTTPThreads")
       IN  /\ ~Throws(file)
           /\ meant # Unset => NumeralOf(Cardinality(chosen)) = meant]_vars

\* No thread is left that refers to a deleted object, however the signal
\* finds the threads: the joins of srv_main.cpp:119-133 and of server::run()
\* (server.cpp:54-55) come before every delete (srv_main.cpp:134-139).
NoUseAfterDelete ==
  Up => /\ \A t \in Threads : Live(t) => \A o \in Uses[t] : ~Deleted(o)
        /\ \A w \in Workers : WorkerLive(w) => \A o \in Uses["http"] : ~Deleted(o)

\* The logging thread ends after all the others, so what they log while they
\* end is written (srv_main.cpp:117-133).
LogOutlivesThreads ==
  pc["log"] = "done" =>
    /\ \A t \in Threads : ~Live(t)
    /\ \A w \in Workers : ~WorkerLive(w)

Begun == \A t \in Looping : pc[t] \notin {"unborn", "start"}

\* Once the signal has come to a program whose threads have begun run(), the
\* process ends, and no poller's sixty seconds are waited for: stop() comes
\* before interrupt(), so the poller that wakes finds its flag down
\* (srv_main.cpp:121-128, srv_randcontst.cpp:12-22).
PromptShutdown == (main = StopAt["http"] /\ Begun) ~> ~Up

\* Once the MySQL server stays up, the list that a poller's clients are given
\* is one of contests, and stays it: a poller that had no connection, at the
\* start or later, opens one within sixty seconds (srv_randcontst.cpp:10-23,
\* srv_db.cpp:1206-1213).  A connection that was lost is never replaced, so
\* this is all that can be said.
ListsRecover ==
  \A p \in Pollers :
    /\ WF_vars(Wake(p))
    /\ <>[](Up /\ main = WaitAt /\ db /\ session[p] # "lost")
    => <>[](list[p] = "rows")

\* "Wait for signal indicating time to shut down" (srv_main.cpp:106): once the
\* signal has come the process ends.  A signal that comes before a poller has
\* begun run() can leave it running, even when the sixty seconds pass.
ShutdownCompletes == (main > WaitAt) ~> ~Up
=============================================================================
