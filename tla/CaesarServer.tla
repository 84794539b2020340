---------------------------- MODULE CaesarServer ----------------------------
(***************************************************************************)
(* The Caesar cipher server and its clients (Project1/Problem4): main      *)
(* accepts connections and starts one thread per connection; serve()       *)
(* answers each line, encrypted if the thread has one of MAXCLIBUF service *)
(* slots and with "Please wait..." if not.  The slots are counted in nserv *)
(* under a mutex.  A client sends one line and waits for the answer.       *)
(*                                                                         *)
(* pc[c], start[c] and line[c] are the state of the thread that serves     *)
(* client c, nserv and mutex the shared globals of server.c.  The TCP      *)
(* connection (external) is a slot for the line under way (inq), a slot    *)
(* for the answer under way (out) and how the client ended it (peer).      *)
(***************************************************************************)
EXTENDS Integers, Sequences, FiniteSets

CONSTANTS Clients,     \* the client processes, each run once
          Texts,       \* the lines clients send, as sequences of char codes
          MAXCLIBUF,   \* the number of service slots (2 in server.h)
          CAESAR_SHIFT,
          None

ASSUME ServerConstants ==
  /\ IsFiniteSet(Clients) /\ None \notin Clients
  /\ Texts \subseteq Seq(0 .. 127)
  /\ MAXCLIBUF \in Nat \ {0}
  /\ CAESAR_SHIFT \in 0 .. 25

VARIABLES pc, start, line,   \* the serving thread of each client
          nserv, mutex,      \* the globals of server.c
          alive,             \* the server process has not exited
          cl, sent,          \* each client: what it does, the line it sent last
          inq, out, peer     \* each connection
vars == <<pc, start, line, nserv, mutex, alive, cl, sent, inq, out, peer>>
thread == <<pc, start, line, nserv, mutex, alive>>
wire == <<cl, sent, inq, out, peer>>

\* ":q\n", the line that ends a conversation.
QuitLine == <<58, 113, 10>>
Lines == Texts \cup {QuitLine}

\* Mutant of caesar: no wrap-around.
caesar_no_wrap(ch) ==
  IF (ch >= 97 /\ ch <= 122) \/ (ch >= 65 /\ ch <= 90) THEN ch + CAESAR_SHIFT ELSE ch

\* The loop over the characters of a line: letters are shifted in their case.
caesar(ch) ==
  IF ch >= 97 /\ ch <= 122 THEN ((ch - 97 + CAESAR_SHIFT) % 26) + 97
  ELSE IF ch >= 65 /\ ch <= 90 THEN ((ch - 65 + CAESAR_SHIFT) % 26) + 65
  ELSE ch
encrypt(l) == [i \in DOMAIN l |-> caesar(l[i])]

\* "Please wait...\n"
WaitText == <<80, 108, 101, 97, 115, 101, 32, 119, 97, 105, 116, 46, 46, 46, 10>>
Strings == Seq(0 .. 127)

\* What the threads are doing.  "idle": not accepted yet; "lock" .. "unlock":
\* the first critical section; "leave" .. "close": the second one.
Steps == {"idle", "read", "lock", "check", "inc", "unlock", "reply",
          "leave", "dec", "close", "gone"}

TypeOK ==
  /\ pc \in [Clients -> Steps] /\ start \in [Clients -> BOOLEAN]
  /\ line \in [Clients -> Strings]
  /\ nserv \in Int /\ mutex \in Clients \cup {None} /\ alive \in BOOLEAN
  /\ cl \in [Clients -> {"fresh", "prompt", "waiting", "closed"}]
  /\ sent \in [Clients -> Lines \cup {None}]
  /\ inq \in [Clients -> Lines \cup {None}]
  /\ out \in [Clients -> Strings \cup {None}]
  /\ peer \in [Clients -> {"open", "fin", "reset"}]

Init ==
  /\ pc = [c \in Clients |-> "idle"] /\ start = [c \in Clients |-> FALSE]
  /\ line \in [Clients -> Lines]   \* a local array, not initialised
  /\ nserv = 0 /\ mutex = None /\ alive = TRUE
  /\ cl = [c \in Clients |-> "fresh"] /\ sent = [c \in Clients |-> None]
  /\ inq = [c \in Clients |-> None] /\ out = [c \in Clients |-> None]
  /\ peer = [c \in Clients |-> "open"]

-----------------------------------------------------------------------------
(* The client program (client.c). *)

\* connect(); the kernel queues the connection until main accepts it.
Connect(c) ==
  /\ alive /\ cl[c] = "fresh"
  /\ cl' = [cl EXCEPT ![c] = "prompt"]
  /\ UNCHANGED <<sent, inq, out, peer, thread>>

\* fgets() and Write() of a line, then read().
SendLine(c, l) ==
  /\ alive /\ cl[c] = "prompt" /\ pc[c] # "gone"
  /\ cl' = [cl EXCEPT ![c] = "waiting"]
  /\ sent' = [sent EXCEPT ![c] = l]
  /\ inq' = [inq EXCEPT ![c] = l]
  /\ UNCHANGED <<out, peer, thread>>

\* fgets() at the end of the input leaves the buffer empty: nothing is written
\* and the client waits in read() all the same.
EndOfInput(c) ==
  /\ cl[c] = "prompt"
  /\ cl' = [cl EXCEPT ![c] = "waiting"]
  /\ sent' = [sent EXCEPT ![c] = None]
  /\ UNCHANGED <<inq, out, peer, thread>>

Receive(c) ==
  /\ cl[c] = "waiting" /\ out[c] # None
  /\ cl' = [cl EXCEPT ![c] = "prompt"]
  /\ out' = [out EXCEPT ![c] = None]
  /\ UNCHANGED <<sent, inq, peer, thread>>

\* read() returns 0, or the connection fails because the server is gone.
Closed(c) ==
  /\ \/ cl[c] = "waiting" /\ out[c] = None /\ (pc[c] = "gone" \/ ~alive)
     \/ cl[c] = "prompt" /\ (pc[c] = "gone" \/ ~alive)
  /\ cl' = [cl EXCEPT ![c] = "closed"]
  /\ UNCHANGED <<sent, inq, out, peer, thread>>

\* The client is interrupted.  TCP ends the connection in order, or resets it if
\* the client leaves an answer unread.
Interrupt(c) ==
  /\ cl[c] \in {"prompt", "waiting"}
  /\ cl' = [cl EXCEPT ![c] = "closed"]
  /\ peer' = [peer EXCEPT ![c] = IF out[c] = None THEN "fin" ELSE "reset"]
  /\ out' = [out EXCEPT ![c] = None]
  /\ UNCHANGED <<sent, inq, thread>>

-----------------------------------------------------------------------------
(* The server (server.c). *)

Goto(c, s) == pc' = [pc EXCEPT ![c] = s]

\* accept(), Pthread_create() and the first lines of serve().
Accept(c) ==
  /\ alive /\ pc[c] = "idle" /\ cl[c] # "fresh"
  /\ Goto(c, "read")
  /\ UNCHANGED <<start, line, nserv, mutex, alive, wire>>

\* After read_line has returned more than 0: only a thread without a slot enters
\* the critical section; ":q" from a thread with one ends the loop.
AfterRead(c, l) ==
  Goto(c, IF ~start[c] THEN "lock" ELSE IF l = QuitLine THEN "leave" ELSE "reply")

\* read_line() returns a line.
ReadLine(c) ==
  /\ alive /\ pc[c] = "read" /\ inq[c] # None
  /\ line' = [line EXCEPT ![c] = inq[c]]
  /\ inq' = [inq EXCEPT ![c] = None]
  /\ AfterRead(c, inq[c])
  /\ UNCHANGED <<start, nserv, mutex, alive, cl, sent, out, peer>>

\* Mutant of ReadEof: the end of the input is taken for a call to be repeated.
ReadEof_retried(c) ==
  /\ alive /\ pc[c] = "read" /\ inq[c] = None /\ peer[c] = "fin"
  /\ UNCHANGED vars

\* read_line() returns 0: the client has closed the connection.
ReadEof(c) ==
  /\ alive /\ pc[c] = "read" /\ inq[c] = None /\ peer[c] = "fin"
  /\ Goto(c, "leave")
  /\ UNCHANGED <<start, line, nserv, mutex, alive, wire>>

\* read() fails: read_line() returns -1 as an unsigned int, which is > 0, and the
\* loop body runs on what line holds.
ReadError(c) ==
  /\ alive /\ pc[c] = "read" /\ inq[c] = None /\ peer[c] = "reset"
  /\ AfterRead(c, line[c])
  /\ UNCHANGED <<start, line, nserv, mutex, alive, wire>>

\* Mutant of Lock: the mutex is not waited for.
Lock_unguarded(c) ==
  /\ alive /\ pc[c] = "lock"
  /\ mutex' = c
  /\ Goto(c, "check")
  /\ UNCHANGED <<start, line, nserv, alive, wire>>

\* pthread_mutex_lock() ahead of the test of nserv.
Lock(c) ==
  /\ alive /\ pc[c] = "lock" /\ mutex = None
  /\ mutex' = c
  /\ Goto(c, "check")
  /\ UNCHANGED <<start, line, nserv, alive, wire>>

Check(c) ==
  /\ alive /\ pc[c] = "check"
  /\ Goto(c, IF nserv < MAXCLIBUF THEN "inc" ELSE "unlock")
  /\ UNCHANGED <<start, line, nserv, mutex, alive, wire>>

\* Mutant of Increment: start is not set, so every line is counted.
Increment_each_line(c) ==
  /\ alive /\ pc[c] = "inc"
  /\ nserv' = nserv + 1
  /\ Goto(c, "unlock")
  /\ UNCHANGED <<start, line, mutex, alive, wire>>

\* start = 1; nserv++.
Increment(c) ==
  /\ alive /\ pc[c] = "inc"
  /\ start' = [start EXCEPT ![c] = TRUE]
  /\ nserv' = nserv + 1
  /\ Goto(c, "unlock")
  /\ UNCHANGED <<line, mutex, alive, wire>>

\* Mutant of Unlock: the mutex is kept when there is no slot.
Unlock_if_served(c) ==
  /\ alive /\ pc[c] = "unlock"
  /\ mutex' = IF start[c] THEN None ELSE mutex
  /\ Goto(c, IF start[c] /\ line[c] = QuitLine THEN "leave" ELSE "reply")
  /\ UNCHANGED <<start, line, nserv, alive, wire>>

\* pthread_mutex_unlock(), and on to the ":q" test or the answer.
Unlock(c) ==
  /\ alive /\ pc[c] = "unlock"
  /\ mutex' = None
  /\ Goto(c, IF start[c] /\ line[c] = QuitLine THEN "leave" ELSE "reply")
  /\ UNCHANGED <<start, line, nserv, alive, wire>>

\* Write() of the answer, which has replaced the line in its buffer.  On a
\* connection that was reset the write ends the whole process (SIGPIPE, or
\* exit(1) in Write); an answer to a client that has closed is dropped.
Reply(c) ==
  /\ alive /\ pc[c] = "reply"
  /\ LET answer == IF start[c] THEN encrypt(line[c]) ELSE WaitText IN
     /\ line' = [line EXCEPT ![c] = answer]
     /\ out' = IF peer[c] = "open" THEN [out EXCEPT ![c] = answer] ELSE out
  /\ alive' = (peer[c] # "reset")
  /\ Goto(c, "read")
  /\ UNCHANGED <<start, nserv, mutex, cl, sent, inq, peer>>

\* pthread_mutex_lock() after the loop.
Leave(c) ==
  /\ alive /\ pc[c] = "leave" /\ mutex = None
  /\ mutex' = c
  /\ Goto(c, "dec")
  /\ UNCHANGED <<start, line, nserv, alive, wire>>

Decrement(c) ==
  /\ alive /\ pc[c] = "dec"
  /\ nserv' = nserv - 1
  /\ Goto(c, "close")
  /\ UNCHANGED <<start, line, mutex, alive, wire>>

\* pthread_mutex_unlock() and Close().
CloseConnection(c) ==
  /\ alive /\ pc[c] = "close"
  /\ mutex' = None
  /\ Goto(c, "gone")
  /\ UNCHANGED <<start, line, nserv, alive, wire>>

-----------------------------------------------------------------------------
Client(c) ==
  \/ Connect(c) \/ EndOfInput(c) \/ Receive(c) \/ Closed(c) \/ Interrupt(c)
  \/ \E l \in Lines : SendLine(c, l)

Serve(c) ==
  \/ ReadLine(c) \/ ReadEof(c) \/ ReadError(c)
  \/ Lock(c) \/ Check(c) \/ Increment(c) \/ Unlock(c)
  \/ Reply(c) \/ Leave(c) \/ Decrement(c) \/ CloseConnection(c)

Next == \E c \in Clients : Client(c) \/ Accept(c) \/ Serve(c)

Spec == Init /\ [][Next]_vars

-----------------------------------------------------------------------------
(* Safety. *)

\* The threads that have counted themselves in nserv and not yet out again.
Counted == {c \in Clients : start[c] /\ pc[c] \notin {"close", "gone"}}

\* The threads that left without ever having had a slot.
LeftUnserved == {c \in Clients : ~start[c] /\ pc[c] \in {"close", "gone"}}

\* What nserv really counts, in every interleaving of the threads: serve()
\* decrements it for every connection that ends, also for one that was only told
\* to wait and never incremented it.
NservAccount == nserv = Cardinality(Counted) - Cardinality(LeftUnserved)

\* The limit on concurrent service that the mutex and the test of nserv do give:
\* MAXCLIBUF, raised by one for every client that left while waiting.
ServedBound == Cardinality(Counted) <= MAXCLIBUF + Cardinality(LeftUnserved)

\* A letter is moved by CAESAR_SHIFT within its own alphabet.
Shifted(a, b) ==
  IF a \in (97 .. 122) \cup (65 .. 90)
  THEN /\ b \in 97 .. 122 <=> a \in 97 .. 122
       /\ b \in (97 .. 122) \cup (65 .. 90)
       /\ \/ b = a + CAESAR_SHIFT \/ b = a + CAESAR_SHIFT - 26
  ELSE b = a

\* An answer under way answers the line its own client sent last, however the
\* threads interleave: the line encrypted, or "Please wait..." for a client
\* without a slot.  (client.c prints it as the answer to that line.)
AnswerFits ==
  \A c \in Clients : out[c] # None =>
    /\ cl[c] = "waiting" /\ sent[c] # None
    /\ IF start[c]
       THEN /\ Len(out[c]) = Len(sent[c])
            /\ \A i \in DOMAIN sent[c] : Shifted(sent[c][i], out[c][i])
       ELSE out[c] = WaitText

-----------------------------------------------------------------------------
(* Liveness.  The threads and the clients' reads are scheduled, and a thread     *)
(* waiting for the mutex gets it if it is free again and again.                  *)

Fairness ==
  \A c \in Clients :
    /\ WF_vars(Accept(c)) /\ WF_vars(Serve(c))
    /\ SF_vars(Lock(c)) /\ SF_vars(Leave(c))
    /\ WF_vars(Receive(c) \/ Closed(c))
FairSpec == Spec /\ Fairness

\* A client that has sent a line does not wait for ever.
LineAnswered ==
  \A c \in Clients : (cl[c] = "waiting" /\ sent[c] # None) ~> cl[c] # "waiting"

\* The slot of a client that is gone is given back, unless the server is gone.
SlotReleased ==
  \A c \in Clients : (cl[c] = "closed" /\ c \in Counted) ~> (c \notin Counted \/ ~alive)
=============================================================================
