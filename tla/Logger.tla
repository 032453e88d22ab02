------------------------------- MODULE Logger -------------------------------
(***************************************************************************)
(* class Logger: any thread puts messages in messageList under msgMute and *)
(* the logging thread moves them to the log file, holding msgMute for a    *)
(* whole pass over the list; main() stops and joins the thread at the end. *)
(* A message is its number in the order of the calls of sendMsg().         *)
(***************************************************************************)
EXTENDS Integers, Sequences

CONSTANTS
  FlushOver,    \* 200 in the code: a longer list is dropped when a write fails
  MaxMessages,  \* bound: messages sent before main() calls stop()
  MaxFaults     \* bound: failing writes and exceptions

ASSUME LoggerAssumption ==
  /\ FlushOver \in Nat
  /\ MaxMessages \in Nat
  /\ MaxFaults \in Nat

VARIABLES
  queue,     \* messageList
  file,      \* the messages in the log file
  sent,      \* how many messages sendMsg() has been given
  running,   \* the atomic flag
  pc,        \* where the logging thread is
  main,      \* where main() is in the end of srv_main()
  faults     \* faults so far

vars == <<queue, file, sent, running, pc, main, faults>>

Fault == faults < MaxFaults /\ faults' = faults + 1

\* The logging thread holds msgMute for a whole pass over the list.
LockFree == pc \notin {"drain", "flush"}

-----------------------------------------------------------------------------
PoppedNone == queue          \* mutant: pop() forgotten
PoppedAll == << >>           \* mutant: the list is cleared

Popped == Tail(queue)

TooLongAt == Len(queue) >= FlushOver       \* mutant

TooLong == Len(queue) > FlushOver

AfterLoopNoFlush == IF running THEN "drain" ELSE "end"     \* mutant

AfterLoop == IF running THEN "drain" ELSE "flush"

\* writeMsg() when the file opens for appending, and when it only opens for
\* writing, which empties it first.  It tests that the file is open and nothing
\* else: a text that does not reach an open file (the disk is full) counts as
\* written.
Written(m) == Append(file, m)
Rewritten(m) == <<m>>

Write == file' = Written(Head(queue)) /\ UNCHANGED faults
Rewrite == file' = Rewritten(Head(queue)) /\ Fault
WriteLost == file' \in {file, << >>} /\ Fault
WriteFails == UNCHANGED file /\ Fault

-----------------------------------------------------------------------------
\* Any thread but the logging thread calls sendMsg().
SendMsg ==
  /\ main = "up" /\ LockFree
  /\ sent < MaxMessages
  /\ sent' = sent + 1
  /\ queue' = Append(queue, sent')
  /\ UNCHANGED <<file, running, pc, main, faults>>

\* main(): runningLog->stop(), then one more message, then join().
Stop ==
  /\ main = "up"
  /\ running' = FALSE
  /\ main' = "stopping"
  /\ UNCHANGED <<queue, file, sent, pc, faults>>

SendLast ==
  /\ main = "stopping" /\ LockFree
  /\ sent' = sent + 1
  /\ queue' = Append(queue, sent')
  /\ main' = "joining"
  /\ UNCHANGED <<file, running, pc, faults>>

Join ==
  /\ main = "joining" /\ pc = "done"
  /\ main' = "joined"
  /\ UNCHANGED <<queue, file, sent, running, pc, faults>>

-----------------------------------------------------------------------------
\* run() sets the flag itself: a stop() that came before is forgotten.
Run ==
  /\ pc = "start"
  /\ running' = TRUE
  /\ pc' = "loop"
  /\ UNCHANGED <<queue, file, sent, main, faults>>

\* The test of the while loop, and the lock.
Loop ==
  /\ pc = "loop"
  /\ pc' = AfterLoop
  /\ UNCHANGED <<queue, file, sent, running, main, faults>>

\* One message of a pass; the pass ends at the first file that does not open.
DrainOne ==
  /\ pc = "drain" /\ queue # << >>
  /\ \/ Write /\ queue' = Popped /\ UNCHANGED pc
     \/ Rewrite /\ queue' = Popped /\ UNCHANGED pc
     \/ WriteLost /\ queue' = Popped /\ UNCHANGED pc
     \/ /\ WriteFails
        /\ queue' = IF TooLong THEN << >> ELSE queue
        /\ pc' = "sleep"
  /\ UNCHANGED <<sent, running, main>>

DrainDone ==
  /\ pc = "drain" /\ queue = << >>
  /\ pc' = "sleep"
  /\ UNCHANGED <<queue, file, sent, running, main, faults>>

Sleep ==
  /\ pc = "sleep"
  /\ pc' = "loop"
  /\ UNCHANGED <<queue, file, sent, running, main, faults>>

\* "Flush remaining messages": what cannot be written is dropped.
FlushOne ==
  /\ pc = "flush" /\ queue # << >>
  /\ Write \/ Rewrite \/ WriteLost \/ WriteFails
  /\ queue' = Popped
  /\ UNCHANGED <<sent, running, pc, main>>

FlushDone ==
  /\ pc = "flush" /\ queue = << >>
  /\ pc' = "end"
  /\ UNCHANGED <<queue, file, sent, running, main, faults>>

\* "Logging thread stopped" goes to the file directly, without the lock.
End ==
  /\ pc = "end"
  /\ \/ UNCHANGED <<file, faults>>
     \/ file' = << >> /\ Fault
  /\ running' = FALSE
  /\ pc' = "done"
  /\ UNCHANGED <<queue, sent, main>>

\* An exception other than the one writeMsg() handles ends the thread.
Die ==
  /\ pc \in {"drain", "flush"}
  /\ Fault
  /\ running' = FALSE
  /\ pc' = "done"
  /\ UNCHANGED <<queue, file, sent, main>>

-----------------------------------------------------------------------------
Init ==
  /\ queue = << >>
  /\ file = << >>
  /\ sent = 0
  /\ running = FALSE
  /\ pc = "start"
  /\ main = "up"
  /\ faults = 0

LogThread ==
  \/ Run \/ Loop \/ DrainOne \/ DrainDone \/ Sleep
  \/ FlushOne \/ FlushDone \/ End \/ Die

Next == SendMsg \/ Stop \/ SendLast \/ Join \/ LogThread

Spec == Init /\ [][Next]_vars

\* The operating system runs the logging thread, whose sleep always ends.
FairSpec == Spec /\ WF_vars(LogThread)

-----------------------------------------------------------------------------
Labels == {"start", "loop", "drain", "sleep", "flush", "end", "done"}

MessagesOK ==
  /\ queue \in Seq(Nat)
  /\ file \in Seq(Nat)
  /\ sent \in Nat
  /\ Len(file) + Len(queue) <= sent

\* Every variable keeps its type, and the list and the file together never
\* hold more messages than were sent.
TypeOK ==
  /\ MessagesOK
  /\ running \in BOOLEAN
  /\ pc \in Labels
  /\ main \in {"up", "stopping", "joining", "joined"}
  /\ faults \in 0 .. MaxFaults

\* Whatever fails, the log shows messages in the order of their sendMsg(),
\* none of them twice, and nothing in the list is older than the log
\* (run(), logger.cpp:13-41 and 53-60).
FileInOrder ==
  LET all == file \o queue
  IN  \A i, j \in 1 .. Len(all) : i < j => all[i] < all[j]

\* As long as nothing fails, every message sent is in the log or in the list.
NothingLost == faults = 0 => file \o queue = [i \in 1 .. sent |-> i]

Queued(m) == m \in {queue[i] : i \in 1 .. Len(queue)}
Logged(m) == m \in {file[i] : i \in 1 .. Len(file)}

\* "If we've failed to write over 200 messages": while the thread has not
\* been told to end, a message leaves the list for anything but the log only
\* when the list is longer than that (logger.cpp:16-22), or alone, because its
\* own write failed after the file was open (logger.cpp:211-213).
DropsOnlyLongList ==
  [][\A m \in 1 .. sent :
       Queued(m) /\ ~Queued(m)' /\ ~Logged(m)' =>
         \/ Len(queue) > FlushOver \/ pc = "flush"
         \/ m = Head(queue) /\ queue' = Tail(queue) /\ faults' > faults]_vars

\* When nothing fails, a message that is in the list before the thread's last
\* pass is over reaches the log: also the message main() sends after stop()
\* (srv_main.cpp:131-132), also if the thread has not started yet, and also
\* when run() forgets the stop().  One that comes later stays in the list.
SentIsLogged ==
  \A m \in 1 .. MaxMessages + 1 :
    Queued(m) /\ pc \notin {"end", "done"} ~> Logged(m) \/ faults > 0
============================================================
