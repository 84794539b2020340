--------------------------- MODULE Project1Proofs ---------------------------
(***************************************************************************)
(* Proofs about the programs of Project 1.  CaesarServer, for any number   *)
(* of clients and service slots: type correctness, what nserv counts, the  *)
(* limit on concurrent service, the answers.  PTree, for any tree and any  *)
(* size of buffer: the bound of the buffer and the tree that is printed.   *)
(***************************************************************************)
EXTENDS CaesarServer, PTree, SumProofs, FiniteSetTheorems, SequenceTheorems, TLAPS

\* The steps inside a critical section, and those after the decrement.
Critical == {"check", "inc", "unlock", "dec", "close"}
Done == {"close", "gone"}

\* The inductive invariant: only the owner of the mutex is in a critical section,
\* so the room it has seen is still there when it increments nserv.
IInv ==
  /\ TypeOK
  /\ \A c \in Clients : pc[c] \in Critical => mutex = c
  /\ \A c \in Clients : pc[c] \in {"lock", "check", "inc"} => ~start[c]
  /\ \A c \in Clients : pc[c] = "inc" => nserv < MAXCLIBUF
  /\ nserv <= MAXCLIBUF
  /\ NservAccount

\* The two sets of threads that nserv counts are finite.
LEMMA FiniteCounts ==
  /\ IsFiniteSet(Counted) /\ IsFiniteSet(LeftUnserved)
  /\ Cardinality(Counted) \in Nat /\ Cardinality(LeftUnserved) \in Nat
<1>1. Counted \subseteq Clients /\ LeftUnserved \subseteq Clients
  BY DEF Counted, LeftUnserved
<1>2. IsFiniteSet(Counted) /\ IsFiniteSet(LeftUnserved)
  BY <1>1, ServerConstants, FS_Subset
<1> QED BY <1>2, FS_CardinalityType

\* caesar stays within the characters.
LEMMA CaesarType ==
  ASSUME NEW ch \in 0 .. 127
  PROVE  caesar(ch) \in 0 .. 127
<1>1. \A x \in Int : x % 26 \in 0 .. 25
  OBVIOUS
<1>2. ch - 97 + CAESAR_SHIFT \in Int /\ ch - 65 + CAESAR_SHIFT \in Int
  BY ServerConstants
<1> QED BY <1>1, <1>2 DEF caesar

\* encrypt gives a string for a string.
LEMMA EncryptType ==
  ASSUME NEW l \in Strings
  PROVE  encrypt(l) \in Strings
<1> DEFINE Ch == 0 .. 127
<1>1. l \in Seq(Ch)
  BY DEF Strings
<1> HIDE DEF Ch
<1>2. DOMAIN l = 1 .. Len(l) /\ Len(l) \in Nat /\ \A i \in 1 .. Len(l) : l[i] \in Ch
  BY <1>1, LenProperties, ElementOfSeq
<1>3. \A ch \in Ch : caesar(ch) \in Ch
  BY CaesarType DEF Ch
<1>4. encrypt(l) \in [1 .. Len(l) -> Ch]
  BY <1>2, <1>3 DEF encrypt
<1>5. encrypt(l) \in Seq(Ch)
  BY <1>2, <1>4, SeqDef
<1> QED BY <1>5 DEF Strings, Ch

\* The texts, the quit line and "Please wait..." are strings.
LEMMA LineTypes == Lines \subseteq Strings /\ WaitText \in Strings
<1>1. Texts \subseteq Strings
  BY ServerConstants DEF Strings
<1>2. QuitLine \in Strings
  BY DEF QuitLine, Strings
<1>3. WaitText \in Strings
  BY DEF WaitText, Strings
<1> QED BY <1>1, <1>2, <1>3 DEF Lines

\* The initial states satisfy the invariant.
LEMMA InitOK == Init => IInv
<1> SUFFICES ASSUME Init PROVE IInv
  OBVIOUS
<1>1. TypeOK
  BY LineTypes DEF Init, TypeOK, Steps
<1>2. Counted = {} /\ LeftUnserved = {}
  BY DEF Init, Counted, LeftUnserved
<1>3. NservAccount
  BY <1>2, FS_EmptySet DEF Init, NservAccount
<1> QED BY <1>1, <1>3, ServerConstants DEF Init, IInv, Critical

\* Every step keeps the types.
LEMMA TypeStep ==
  ASSUME TypeOK, [Next]_vars
  PROVE  TypeOK'
<1>1. ASSUME NEW c \in Clients, Client(c) PROVE TypeOK'
  <2>1. CASE Connect(c)
    BY <2>1 DEF Connect, TypeOK, thread
  <2>2. CASE EndOfInput(c)
    BY <2>2 DEF EndOfInput, TypeOK, thread
  <2>3. CASE Receive(c)
    BY <2>3 DEF Receive, TypeOK, thread
  <2>4. CASE Closed(c)
    BY <2>4 DEF Closed, TypeOK, thread
  <2>5. CASE Interrupt(c)
    BY <2>5 DEF Interrupt, TypeOK, thread
  <2>6. ASSUME NEW l \in Lines, SendLine(c, l) PROVE TypeOK'
    BY <2>6 DEF SendLine, TypeOK, thread
  <2> QED BY <1>1, <2>1, <2>2, <2>3, <2>4, <2>5, <2>6 DEF Client
<1>2. ASSUME NEW c \in Clients, Accept(c) PROVE TypeOK'
  BY <1>2 DEF Accept, Goto, TypeOK, Steps, wire
<1>3. ASSUME NEW c \in Clients, Serve(c) PROVE TypeOK'
  <2>1. CASE ReadLine(c)
    BY <2>1, LineTypes DEF ReadLine, AfterRead, Goto, TypeOK, Steps, wire
  <2>2. CASE ReadEof(c)
    BY <2>2 DEF ReadEof, Goto, TypeOK, Steps, wire
  <2>3. CASE ReadError(c)
    BY <2>3 DEF ReadError, AfterRead, Goto, TypeOK, Steps, wire
  <2>4. CASE Lock(c)
    BY <2>4 DEF Lock, Goto, TypeOK, Steps, wire
  <2>5. CASE Check(c)
    BY <2>5 DEF Check, Goto, TypeOK, Steps, wire
  <2>6. CASE Increment(c)
    BY <2>6 DEF Increment, Goto, TypeOK, Steps, wire
  <2>7. CASE Unlock(c)
    BY <2>7 DEF Unlock, Goto, TypeOK, Steps, wire
  <2>8. CASE Reply(c)
    <3> DEFINE answer == IF start[c] THEN encrypt(line[c]) ELSE WaitText
    <3>1. answer \in Strings
      BY EncryptType, LineTypes DEF TypeOK
    <3>2. /\ line' = [line EXCEPT ![c] = answer]
          /\ out' = [out EXCEPT ![c] = answer] \/ out' = out
          /\ pc' = [pc EXCEPT ![c] = "read"] /\ alive' \in BOOLEAN
          /\ UNCHANGED <<start, nserv, mutex, cl, sent, inq, peer>>
      <4>1. (peer[c] # "reset") \in BOOLEAN
        BY Zenon
      <4> QED BY <2>8, <4>1 DEF Reply, Goto
    <3> HIDE DEF answer
    <3> QED BY <3>1, <3>2 DEF TypeOK, Steps
  <2>9. CASE Leave(c)
    BY <2>9 DEF Leave, Goto, TypeOK, Steps, wire
  <2>10. CASE Decrement(c)
    BY <2>10 DEF Decrement, Goto, TypeOK, Steps, wire
  <2>11. CASE CloseConnection(c)
    BY <2>11 DEF CloseConnection, Goto, TypeOK, Steps, wire
  <2> QED BY <1>3, <2>1, <2>2, <2>3, <2>4, <2>5, <2>6, <2>7, <2>8, <2>9, <2>10, <2>11
          DEF Serve
<1>4. CASE UNCHANGED vars
  BY <1>4 DEF vars, TypeOK
<1> QED BY <1>1, <1>2, <1>3, <1>4 DEF Next

\* A step that leaves start and nserv alone and does not take a thread past the
\* decrement keeps the account.
LEMMA SameAccount ==
  ASSUME TypeOK, NEW c \in Clients, NEW s \in Steps, pc' = [pc EXCEPT ![c] = s],
         start' = start, nserv' = nserv, s \in Done <=> pc[c] \in Done, NservAccount
  PROVE  NservAccount'
<1>1. Counted' = Counted /\ LeftUnserved' = LeftUnserved
  BY DEF Counted, LeftUnserved, Done, TypeOK
<1> QED BY <1>1 DEF NservAccount

\* Every step of the threads keeps the invariant; the clients leave it alone.
LEMMA Inductive ==
  ASSUME IInv, [Next]_vars
  PROVE  IInv'
<1>0. TypeOK /\ TypeOK' /\ NservAccount
  BY TypeStep DEF IInv
<1>1. ASSUME UNCHANGED thread PROVE IInv'
  BY <1>0, <1>1 DEF IInv, thread, NservAccount, Counted, LeftUnserved
<1>2. ASSUME NEW c \in Clients, Client(c) PROVE IInv'
  BY <1>1, <1>2 DEF Client, Connect, EndOfInput, Receive, Closed, Interrupt, SendLine
<1>3. ASSUME NEW c \in Clients, Accept(c) PROVE IInv'
  <2>1. pc' = [pc EXCEPT ![c] = "read"] /\ UNCHANGED <<start, nserv, mutex>> /\ pc[c] = "idle"
    BY <1>3 DEF Accept, Goto
  <2>2. NservAccount'
    BY <1>0, <2>1, SameAccount DEF Steps, Done
  <2> QED BY <1>0, <2>1, <2>2 DEF IInv, TypeOK, Critical
<1>4. ASSUME NEW c \in Clients, Serve(c) PROVE IInv'
  <2>1. CASE ReadLine(c) \/ ReadEof(c) \/ ReadError(c)
    <3>1. PICK s \in {"lock", "leave", "reply"} :
            /\ pc' = [pc EXCEPT ![c] = s] /\ pc[c] = "read"
            /\ UNCHANGED <<start, nserv, mutex>> /\ (s = "lock" => ~start[c])
      BY <2>1 DEF ReadLine, ReadEof, ReadError, AfterRead, Goto
    <3>2. NservAccount'
      BY <1>0, <3>1, SameAccount DEF Steps, Done
    <3> QED BY <1>0, <3>1, <3>2 DEF IInv, TypeOK, Critical
  <2>2. CASE Lock(c)
    <3>1. pc' = [pc EXCEPT ![c] = "check"] /\ UNCHANGED <<start, nserv>> /\ pc[c] = "lock"
          /\ mutex = None /\ mutex' = c
      BY <2>2 DEF Lock, Goto
    <3>2. NservAccount'
      BY <1>0, <3>1, SameAccount DEF Steps, Done
    <3> QED BY <1>0, <3>1, <3>2, ServerConstants DEF IInv, TypeOK, Critical
  <2>3. CASE Check(c)
    <3>1. PICK s \in {"inc", "unlock"} :
            /\ pc' = [pc EXCEPT ![c] = s] /\ pc[c] = "check"
            /\ UNCHANGED <<start, nserv, mutex>> /\ (s = "inc" => nserv < MAXCLIBUF)
      BY <2>3 DEF Check, Goto
    <3>2. NservAccount'
      BY <1>0, <3>1, SameAccount DEF Steps, Done
    <3> QED BY <1>0, <3>1, <3>2 DEF IInv, TypeOK, Critical
  <2>4. CASE Increment(c)
    <3>1. /\ pc' = [pc EXCEPT ![c] = "unlock"] /\ pc[c] = "inc" /\ mutex' = mutex
          /\ start' = [start EXCEPT ![c] = TRUE] /\ nserv' = nserv + 1 /\ ~start[c]
      BY <2>4 DEF Increment, Goto, IInv
    <3>2. c \notin Counted /\ Counted' = Counted \cup {c} /\ LeftUnserved' = LeftUnserved
      BY <1>0, <3>1 DEF Counted, LeftUnserved, TypeOK
    <3>3. Cardinality(Counted') = Cardinality(Counted) + 1
      BY <3>2, FiniteCounts, FS_AddElement
    <3>4. NservAccount'
      BY <1>0, <3>1, <3>2, <3>3, FiniteCounts DEF NservAccount
    <3>5. \A d \in Clients : pc[d] = "inc" => d = c
      BY <3>1 DEF IInv, Critical
    <3> QED BY <1>0, <3>1, <3>4, <3>5, ServerConstants DEF IInv, TypeOK, Critical
  <2>5. CASE Unlock(c)
    <3>1. PICK s \in {"leave", "reply"} :
            /\ pc' = [pc EXCEPT ![c] = s] /\ pc[c] = "unlock"
            /\ UNCHANGED <<start, nserv>> /\ mutex = c /\ mutex' = None
      BY <2>5 DEF Unlock, Goto, IInv, Critical
    <3>2. NservAccount'
      BY <1>0, <3>1, SameAccount DEF Steps, Done
    <3> QED BY <1>0, <3>1, <3>2 DEF IInv, TypeOK, Critical
  <2>6. CASE Reply(c)
    <3>1. pc' = [pc EXCEPT ![c] = "read"] /\ UNCHANGED <<start, nserv, mutex>> /\ pc[c] = "reply"
      BY <2>6 DEF Reply, Goto
    <3>2. NservAccount'
      BY <1>0, <3>1, SameAccount DEF Steps, Done
    <3> QED BY <1>0, <3>1, <3>2 DEF IInv, TypeOK, Critical
  <2>7. CASE Leave(c)
    <3>1. pc' = [pc EXCEPT ![c] = "dec"] /\ UNCHANGED <<start, nserv>> /\ pc[c] = "leave"
          /\ mutex = None /\ mutex' = c
      BY <2>7 DEF Leave, Goto
    <3>2. NservAccount'
      BY <1>0, <3>1, SameAccount DEF Steps, Done
    <3> QED BY <1>0, <3>1, <3>2, ServerConstants DEF IInv, TypeOK, Critical
  <2>8. CASE Decrement(c)
    <3>1. /\ pc' = [pc EXCEPT ![c] = "close"] /\ pc[c] = "dec"
          /\ UNCHANGED <<start, mutex>> /\ nserv' = nserv - 1
      BY <2>8 DEF Decrement, Goto
    <3>2. CASE start[c]
      <4>1. c \in Counted /\ Counted' = Counted \ {c} /\ LeftUnserved' = LeftUnserved
        BY <1>0, <3>1, <3>2 DEF Counted, LeftUnserved, TypeOK
      <4>2. Cardinality(Counted') = Cardinality(Counted) - 1
        BY <4>1, FiniteCounts, FS_RemoveElement
      <4> QED BY <1>0, <3>1, <4>1, <4>2, FiniteCounts, ServerConstants
              DEF NservAccount, IInv, TypeOK, Critical
    <3>3. CASE ~start[c]
      <4>1. c \notin LeftUnserved /\ LeftUnserved' = LeftUnserved \cup {c} /\ Counted' = Counted
        BY <1>0, <3>1, <3>3 DEF Counted, LeftUnserved, TypeOK
      <4>2. Cardinality(LeftUnserved') = Cardinality(LeftUnserved) + 1
        BY <4>1, FiniteCounts, FS_AddElement
      <4> QED BY <1>0, <3>1, <4>1, <4>2, FiniteCounts, ServerConstants
              DEF NservAccount, IInv, TypeOK, Critical
    <3> QED BY <3>2, <3>3
  <2>9. CASE CloseConnection(c)
    <3>1. pc' = [pc EXCEPT ![c] = "gone"] /\ UNCHANGED <<start, nserv>> /\ pc[c] = "close"
          /\ mutex = c /\ mutex' = None
      BY <2>9 DEF CloseConnection, Goto, IInv, Critical
    <3>2. NservAccount'
      BY <1>0, <3>1, SameAccount DEF Steps, Done
    <3> QED BY <1>0, <3>1, <3>2 DEF IInv, TypeOK, Critical
  <2> QED BY <1>4, <2>1, <2>2, <2>3, <2>4, <2>5, <2>6, <2>7, <2>8, <2>9 DEF Serve
<1>5. CASE UNCHANGED vars
  BY <1>1, <1>5 DEF vars, thread
<1> QED BY <1>2, <1>3, <1>4, <1>5 DEF Next

\* IInv holds in every reachable state.
LEMMA IInvAlways == Spec => []IInv
<1>1. IInv /\ [Next]_vars => IInv'
  BY Inductive
<1> QED BY <1>1, InitOK, PTL DEF Spec

\* Type correctness of server, clients and connections.
THEOREM TypeCorrect == Spec => []TypeOK
<1>1. IInv => TypeOK
  BY DEF IInv
<1> QED BY <1>1, IInvAlways, PTL

\* nserv is the number of served connections less the number of connections that
\* ended without having been served.
THEOREM AccountCorrect == Spec => []NservAccount
<1>1. IInv => NservAccount
  BY DEF IInv
<1> QED BY <1>1, IInvAlways, PTL

\* At most MAXCLIBUF clients are served at a time, plus one for each client that
\* left while waiting.
THEOREM BoundCorrect == Spec => []ServedBound
<1>1. IInv => ServedBound
  BY FiniteCounts, ServerConstants DEF IInv, TypeOK, NservAccount, ServedBound
<1> QED BY <1>1, IInvAlways, PTL

-----------------------------------------------------------------------------
(* The conversation of one client with its thread. *)

Busy == {"lock", "check", "inc", "unlock", "reply"}

\* A line is in one place at a time: under way to the server, held by the thread
\* that works on it, or answered.  Only a reset connection breaks the link between
\* the thread's line and the line the client sent, and then nobody reads answers.
Conversation(c) ==
  /\ peer[c] # "open" => cl[c] = "closed"
  /\ cl[c] = "fresh" => pc[c] = "idle"
  /\ cl[c] \in {"fresh", "prompt"} =>
       inq[c] = None /\ out[c] = None /\ pc[c] \in {"idle", "read"}
  /\ alive /\ peer[c] = "open" /\ (inq[c] # None \/ pc[c] \in Busy) => cl[c] = "waiting"
  /\ inq[c] # None => /\ inq[c] = sent[c] /\ out[c] = None
                      /\ pc[c] \in {"idle", "read"} /\ peer[c] # "reset"
  /\ pc[c] \in Busy => \/ peer[c] = "reset"
                       \/ /\ line[c] = sent[c] /\ sent[c] # None
                          /\ inq[c] = None /\ out[c] = None
  /\ out[c] # None => /\ pc[c] = "read" /\ cl[c] = "waiting" /\ peer[c] = "open"
                      /\ sent[c] # None /\ sent[c] \in Strings
                      /\ out[c] = IF start[c] THEN encrypt(sent[c]) ELSE WaitText

\* Every client's conversation starts in order.
LEMMA ConversationInit == Init => \A c \in Clients : Conversation(c)
  BY DEF Init, Conversation, Busy

\* Every step keeps the conversations in order.
LEMMA ConversationStep ==
  ASSUME TypeOK, \A c \in Clients : Conversation(c), [Next]_vars
  PROVE  \A c \in Clients : Conversation(c)'
<1>1. ASSUME NEW c \in Clients, Connect(c) PROVE \A d \in Clients : Conversation(d)'
  BY <1>1 DEF Connect, Conversation, Busy, TypeOK, thread
<1>2. ASSUME NEW c \in Clients, EndOfInput(c) PROVE \A d \in Clients : Conversation(d)'
  BY <1>2 DEF EndOfInput, Conversation, Busy, TypeOK, thread
<1>3. ASSUME NEW c \in Clients, Receive(c) PROVE \A d \in Clients : Conversation(d)'
  BY <1>3 DEF Receive, Conversation, Busy, TypeOK, thread
<1>4. ASSUME NEW c \in Clients, Closed(c) PROVE \A d \in Clients : Conversation(d)'
  BY <1>4 DEF Closed, Conversation, Busy, TypeOK, thread
<1>5. ASSUME NEW c \in Clients, Interrupt(c) PROVE \A d \in Clients : Conversation(d)'
  BY <1>5 DEF Interrupt, Conversation, Busy, TypeOK, thread
<1>6. ASSUME NEW c \in Clients, NEW l \in Lines, SendLine(c, l)
     PROVE  \A d \in Clients : Conversation(d)'
  BY <1>6 DEF SendLine, Conversation, Busy, TypeOK, thread
<1>7. ASSUME NEW c \in Clients, Accept(c) PROVE \A d \in Clients : Conversation(d)'
  BY <1>7 DEF Accept, Goto, Conversation, Busy, TypeOK, wire
<1>8. ASSUME NEW c \in Clients, ReadLine(c) PROVE \A d \in Clients : Conversation(d)'
  BY <1>8 DEF ReadLine, AfterRead, Goto, Conversation, Busy, TypeOK, wire
<1>9. ASSUME NEW c \in Clients, ReadEof(c) PROVE \A d \in Clients : Conversation(d)'
  BY <1>9 DEF ReadEof, Goto, Conversation, Busy, TypeOK, wire
<1>10. ASSUME NEW c \in Clients, ReadError(c) PROVE \A d \in Clients : Conversation(d)'
  BY <1>10 DEF ReadError, AfterRead, Goto, Conversation, Busy, TypeOK, wire
<1>11. ASSUME NEW c \in Clients, Lock(c) PROVE \A d \in Clients : Conversation(d)'
  BY <1>11 DEF Lock, Goto, Conversation, Busy, TypeOK, wire
<1>12. ASSUME NEW c \in Clients, Check(c) PROVE \A d \in Clients : Conversation(d)'
  BY <1>12 DEF Check, Goto, Conversation, Busy, TypeOK, wire
<1>13. ASSUME NEW c \in Clients, Increment(c) PROVE \A d \in Clients : Conversation(d)'
  BY <1>13 DEF Increment, Goto, Conversation, Busy, TypeOK, wire
<1>14. ASSUME NEW c \in Clients, Unlock(c) PROVE \A d \in Clients : Conversation(d)'
  BY <1>14 DEF Unlock, Goto, Conversation, Busy, TypeOK, wire
<1>15. ASSUME NEW c \in Clients, Reply(c) PROVE \A d \in Clients : Conversation(d)'
  BY <1>15 DEF Reply, Goto, Conversation, Busy, TypeOK, wire
<1>16. ASSUME NEW c \in Clients, Leave(c) PROVE \A d \in Clients : Conversation(d)'
  BY <1>16 DEF Leave, Goto, Conversation, Busy, TypeOK, wire
<1>17. ASSUME NEW c \in Clients, Decrement(c) PROVE \A d \in Clients : Conversation(d)'
  BY <1>17 DEF Decrement, Goto, Conversation, Busy, TypeOK, wire
<1>18. ASSUME NEW c \in Clients, CloseConnection(c) PROVE \A d \in Clients : Conversation(d)'
  BY <1>18 DEF CloseConnection, Goto, Conversation, Busy, TypeOK, wire
<1>19. CASE UNCHANGED vars
  BY <1>19 DEF vars, Conversation
<1> QED BY <1>1, <1>2, <1>3, <1>4, <1>5, <1>6, <1>7, <1>8, <1>9, <1>10, <1>11, <1>12, <1>13, <1>14, <1>15, <1>16, <1>17, <1>18, <1>19 DEF Next, Client, Serve

\* caesar moves a letter by CAESAR_SHIFT within its alphabet.
LEMMA CaesarShifts ==
  ASSUME NEW ch \in 0 .. 127
  PROVE  Shifted(ch, caesar(ch))
<1>1. \A x \in 0 .. 25 : \/ (x + CAESAR_SHIFT) % 26 = x + CAESAR_SHIFT /\ x + CAESAR_SHIFT <= 25
                         \/ (x + CAESAR_SHIFT) % 26 = x + CAESAR_SHIFT - 26 /\ x + CAESAR_SHIFT >= 26
  BY ServerConstants
<1>2. CASE ch \in 97 .. 122
  <2> DEFINE m == (ch - 97 + CAESAR_SHIFT) % 26
  <2>1. ch - 97 \in 0 .. 25
    BY <1>2
  <2>2. \/ m = ch - 97 + CAESAR_SHIFT /\ ch - 97 + CAESAR_SHIFT <= 25
        \/ m = ch - 97 + CAESAR_SHIFT - 26 /\ ch - 97 + CAESAR_SHIFT >= 26
    BY <1>1, <2>1, Zenon
  <2>3. caesar(ch) = m + 97
    BY <1>2 DEF caesar
  <2> HIDE DEF m
  <2>4. CAESAR_SHIFT \in 0 .. 25
    BY ServerConstants
  <2>5. /\ caesar(ch) \in 97 .. 122
        /\ caesar(ch) = ch + CAESAR_SHIFT \/ caesar(ch) = ch + CAESAR_SHIFT - 26
    BY <1>2, <2>2, <2>3, <2>4
  <2> QED BY <1>2, <2>5 DEF Shifted
<1>3. CASE ch \in 65 .. 90
  <2> DEFINE m == (ch - 65 + CAESAR_SHIFT) % 26
  <2>1. ch - 65 \in 0 .. 25
    BY <1>3
  <2>2. \/ m = ch - 65 + CAESAR_SHIFT /\ ch - 65 + CAESAR_SHIFT <= 25
        \/ m = ch - 65 + CAESAR_SHIFT - 26 /\ ch - 65 + CAESAR_SHIFT >= 26
    BY <1>1, <2>1, Zenon
  <2>3. caesar(ch) = m + 65
    BY <1>3 DEF caesar
  <2> HIDE DEF m
  <2>4. CAESAR_SHIFT \in 0 .. 25
    BY ServerConstants
  <2>5. /\ caesar(ch) \in 65 .. 90
        /\ caesar(ch) = ch + CAESAR_SHIFT \/ caesar(ch) = ch + CAESAR_SHIFT - 26
    BY <1>3, <2>2, <2>3, <2>4
  <2> QED BY <1>3, <2>5 DEF Shifted
<1>4. CASE ch \notin (97 .. 122) \cup (65 .. 90)
  BY <1>4 DEF caesar, Shifted
<1> QED BY <1>2, <1>3, <1>4

\* encrypt shifts every character and keeps the length.
LEMMA EncryptShifts ==
  ASSUME NEW l \in Strings
  PROVE  Len(encrypt(l)) = Len(l) /\ \A i \in DOMAIN l : Shifted(l[i], encrypt(l)[i])
<1> DEFINE Ch == 0 .. 127
<1>1. l \in Seq(Ch)
  BY DEF Strings
<1>2. \A ch \in Ch : Shifted(ch, caesar(ch))
  BY CaesarShifts
<1> HIDE DEF Ch
<1>3. DOMAIN l = 1 .. Len(l) /\ Len(l) \in Nat /\ \A i \in 1 .. Len(l) : l[i] \in Ch
  BY <1>1, LenProperties, ElementOfSeq
<1>4. \A i \in DOMAIN l : Shifted(l[i], encrypt(l)[i])
  BY <1>2, <1>3 DEF encrypt
<1>5. encrypt(l) \in Strings /\ DOMAIN encrypt(l) = 1 .. Len(l)
  BY <1>3, EncryptType DEF encrypt
<1>6. DOMAIN encrypt(l) = 1 .. Len(encrypt(l)) /\ Len(encrypt(l)) \in Nat
  BY <1>5, LenProperties DEF Strings
<1>7. Len(encrypt(l)) = Len(l)
  BY <1>3, <1>5, <1>6
<1> QED BY <1>4, <1>7

\* An answer under way is the answer to the line its client sent last.
THEOREM AnswersCorrect == Spec => []AnswerFits
<1> DEFINE Conv == \A c \in Clients : Conversation(c)
<1>1. Init => Conv
  BY ConversationInit
<1>2. TypeOK /\ Conv /\ [Next]_vars => Conv'
  BY ConversationStep
<1>3. Conv => AnswerFits
  BY EncryptShifts DEF Conversation, AnswerFits
<1> HIDE DEF Conv
<1> QED BY <1>1, <1>2, <1>3, TypeCorrect, PTL DEF Spec

-----------------------------------------------------------------------------
(***************************************************************************)
(* The ptree system call.                                                  *)
(***************************************************************************)

\* The types of the tree and of the walk.
TreeType == [parent : [Tasks -> Tasks], children : [Tasks -> Seq(Tasks)],
             state : [Tasks -> States]]
Entry == [parent_pid : Int, pid : Int, first_child_pid : Int, next_sibling_pid : Int,
          state : States \cup {"unset"}, comm : Int, layer : Int]

\* The points at which the entry with the number idx is being filled in.
Writing == {"ppid", "child", "sibling", "rest"}
WalkType == [pc : Writing \cup {"start", "enter", "advance", "finish", "done", "lost"},
             path : Seq(Tasks), idx : Nat, nr : Sizes]

\* Where the walk can be with the tasks s on its path, n entries of m being filled.
Shape(at, s, n, m) ==
  /\ Len(s) >= 1 /\ n <= m
  /\ at \in Writing => n < m /\ Len(s) >= 2
  /\ at = "advance" => Len(s) >= 2
  /\ at \in {"start", "finish", "done"} => Len(s) = 1
  /\ at = "start" => n = 0

\* The inductive invariant behind TypeOK.
TypeInv ==
  /\ tree \in TreeType
  /\ walk \in WalkType /\ Shape(walk.pc, walk.path, walk.idx, walk.nr)
  /\ resident \subseteq Entries
  /\ buf \in [Entries -> Entry]
  /\ \A i \in Entries : i >= walk.nr => buf[i] = EmptyEntry
  /\ hist \in [moved : BOOLEAN, steady : SUBSET Tasks]

\* The entries are the numbers up to the largest size and one more.
LEMMA EntriesAre ==
  /\ Entries \subseteq Nat /\ 0 \in Tasks /\ 1 \in Tasks /\ Tasks \subseteq Nat
  /\ Sizes \subseteq Nat /\ Residents \subseteq SUBSET Entries
  /\ \A m \in Sizes : \A i \in 0 .. m : i \in Entries
<1>1. PICK m \in Sizes : \A k \in Sizes : k <= m
  BY PTreeConstants
<1> DEFINE x == Max(Sizes)
<1>2. x \in Sizes /\ \A y \in Sizes : x >= y
  <2>1. Sizes \subseteq Nat
    BY PTreeConstants
  <2>2. \E z \in Sizes : \A y \in Sizes : z >= y
    BY <1>1, <2>1
  <2> QED BY <2>2 DEF Max
<1>3. Entries = 0 .. (x + 1)
  BY DEF Entries
<1> HIDE DEF x
<1> QED BY <1>2, <1>3, PTreeConstants

\* Process ids are numbers.
LEMMA TasksInt ==
  \A p \in Tasks : p \in Int
BY EntriesAre

\* The path without its last task.
LEMMA FrontIs ==
  ASSUME NEW s \in Seq(Tasks), Len(s) >= 1
  PROVE  /\ Front(s) \in Seq(Tasks) /\ Len(Front(s)) = Len(s) - 1
         /\ \A i \in 1 .. (Len(s) - 1) : Front(s)[i] = s[i]
<1> DEFINE n == Len(s) - 1
<1>1. n \in Nat /\ n = Len(s) - 1 /\ \A i \in 1 .. n : s[i] \in Tasks
  OBVIOUS
<1>2. Front(s) = SubSeq(s, 1, n)
  BY DEF Front
<1> HIDE DEF n
<1>3. /\ SubSeq(s, 1, n) \in Seq(Tasks) /\ Len(SubSeq(s, 1, n)) = IF 1 <= n THEN n - 1 + 1 ELSE 0
      /\ \A i \in 1 .. n - 1 + 1 : SubSeq(s, 1, n)[i] = s[1 + i - 1]
  BY <1>1, SubSeqProperties
<1> HIDE DEF Front
<1> DEFINE q == SubSeq(s, 1, n)
<1> HIDE DEF q
<1>4. q \in Seq(Tasks) /\ Len(q) = n /\ \A i \in 1 .. n : q[i] = s[i]
  <2>1. q \in Seq(Tasks) /\ (Len(q) = IF 1 <= n THEN n - 1 + 1 ELSE 0)
        /\ \A i \in 1 .. n - 1 + 1 : q[i] = s[1 + i - 1]
    BY <1>3 DEF q
  <2>2. Len(q) = n
    <3>1. n \in Nat /\ Len(q) = IF 1 <= n THEN n - 1 + 1 ELSE 0
      BY <2>1, <1>1
    <3>2. (1 <= n => n - 1 + 1 = n) /\ (~(1 <= n) => n = 0)
      BY <3>1
    <3> QED BY <3>1, <3>2
  <2>3. ASSUME NEW i \in 1 .. n PROVE q[i] = s[i]
    <3>1. i \in 1 .. n - 1 + 1 /\ 1 + i - 1 = i
      BY <1>1
    <3>2. q[i] = s[1 + i - 1]
      BY <3>1, <2>1
    <3> QED BY <3>1, <3>2
  <2> QED BY <2>1, <2>2, <2>3
<1> QED BY <1>1, <1>2, <1>4 DEF q

\* Another task at the end of the path.
LEMMA AppendIs ==
  ASSUME NEW s \in Seq(Tasks), NEW p \in Tasks
  PROVE  /\ Append(s, p) \in Seq(Tasks) /\ Len(Append(s, p)) = Len(s) + 1
         /\ Append(s, p)[Len(s) + 1] = p
         /\ \A i \in 1 .. Len(s) : Append(s, p)[i] = s[i]
OBVIOUS

\* What is read of the tree are tasks.
LEMMA ReadsTasks ==
  ASSUME tree \in TreeType, NEW p \in Tasks
  PROVE  /\ first_child(p) \in Tasks /\ next_sibling(p) \in Tasks
         /\ tree.parent[p] \in Tasks
         /\ tree.children[p] # <<>> => first_child(p) = tree.children[p][1]
<1>1. tree.parent[p] \in Tasks /\ tree.children \in [Tasks -> Seq(Tasks)]
  BY DEF TreeType
<1>2. first_child(p) \in Tasks /\ (tree.children[p] # <<>> => first_child(p) = tree.children[p][1])
  <2>1. tree.children[p] \in Seq(Tasks) /\ 0 \in Tasks
    BY <1>1, EntriesAre
  <2> QED BY <2>1 DEF first_child
<1>3. next_sibling(p) \in Tasks
  <2> DEFINE q == tree.children[tree.parent[p]]
             later == {i \in 1 .. (Len(q) - 1) : q[i] = p}
             k == CHOOSE i \in later : TRUE
  <2>1. q \in Seq(Tasks) /\ 0 \in Tasks
    BY <1>1, EntriesAre
  <2>2. later # {} => k \in 1 .. (Len(q) - 1)
    BY <2>1
  <2>3. next_sibling(p) = IF Linked(tree, p) /\ later # {} THEN q[k + 1] ELSE 0
    BY DEF next_sibling
  <2> HIDE DEF k, q, later
  <2>4. later # {} => q[k + 1] \in Tasks
    BY <2>1, <2>2
  <2> QED BY <2>1, <2>3, <2>4
<1> QED BY <1>1, <1>2, <1>3

\* A step that writes to entry n only.
Fills(b, d, n) == d \in [Entries -> Entry] /\ \A i \in Entries \ {n} : d[i] = b[i]

\* The walk goes on at another point, with another path or the next entry.
WalkGoes(at, s, n) ==
  /\ walk' \in WalkType
  /\ walk'.pc = at /\ walk'.path = s /\ walk'.idx = n /\ walk'.nr = walk.nr

\* The types with their parts named.
LEMMA Types ==
  ASSUME TypeInv
  PROVE  /\ walk.path \in Seq(Tasks) /\ Len(walk.path) \in Nat \ {0}
         /\ walk.path[Len(walk.path)] \in Tasks /\ t_child = walk.path[Len(walk.path)]
         /\ walk.idx \in Nat /\ walk.nr \in Nat /\ walk.nr \in Sizes /\ nr = walk.nr
         /\ walk.idx <= walk.nr /\ walk.idx \in Entries
<1>1. walk.path \in Seq(Tasks) /\ walk.idx \in Nat /\ walk.nr \in Sizes
  BY DEF TypeInv, WalkType
<1>2. Len(walk.path) >= 1 /\ walk.idx <= walk.nr
  BY DEF TypeInv, Shape
<1>3. walk.nr \in Nat
  BY <1>1, EntriesAre
<1>4. walk.idx \in 0 .. walk.nr
  BY <1>1, <1>2, <1>3
<1>5. walk.idx \in Entries
  BY <1>1, <1>4, EntriesAre
<1>6. t_child = walk.path[Len(walk.path)]
  BY DEF t_child, Last
<1> QED BY <1>1, <1>2, <1>3, <1>5, <1>6 DEF nr

\* ptree(): the entry of init_task.
LEMMA StartIs ==
  ASSUME TypeInv, ptree
  PROVE  /\ walk.pc = "start" /\ UNCHANGED <<tree, resident, hist>>
         /\ walk.idx < walk.nr => /\ WalkGoes("enter", walk.path, walk.idx + 1)
                                  /\ Fills(buf, buf', 0)
                                  /\ 0 \in resident => /\ buf'[0].pid = 0 /\ buf'[0].comm = 0
                                                       /\ buf'[0].layer = 0
         /\ ~(walk.idx < walk.nr) => WalkGoes("enter", walk.path, walk.idx) /\ buf' = buf
<1>1. walk \in WalkType /\ buf \in [Entries -> Entry] /\ tree \in TreeType
  BY DEF TypeInv
<1>2. walk.idx \in Nat /\ walk.nr = nr /\ 0 \in Tasks
  BY Types, EntriesAre
<1>3. walk.pc = "start" /\ UNCHANGED <<tree, resident, hist>>
  BY DEF ptree
<1>4. CASE walk.idx < walk.nr
  <2>1. walk' = [walk EXCEPT !.pc = "enter", !.idx = @ + 1]
    BY <1>2, <1>4 DEF ptree
  <2>2. WalkGoes("enter", walk.path, walk.idx + 1)
    <3> DEFINE n == walk.idx + 1
    <3>1. walk' = [[walk EXCEPT !.pc = "enter"] EXCEPT !.idx = n]
      BY <1>1, <2>1 DEF WalkType
    <3>2. n \in Nat
      BY <1>2
    <3> HIDE DEF n
    <3>3. WalkGoes("enter", walk.path, n)
      BY <1>1, <3>1, <3>2 DEF WalkGoes, WalkType
    <3> QED BY <3>3 DEF n
  <2> DEFINE r == [parent_pid |-> 0, pid |-> 0, next_sibling_pid |-> 0,
                   first_child_pid |-> first_child(0), comm |-> 0,
                   state |-> tree.state[0], layer |-> 0]
  <2>3. buf' = IF 0 \in resident THEN [buf EXCEPT ![0] = r] ELSE buf
    BY <1>2, <1>4 DEF ptree
  <2>4. r \in Entry /\ r.pid = 0 /\ r.comm = 0 /\ r.layer = 0
    <3>0. first_child(0) \in Tasks
      BY <1>1, <1>2, ReadsTasks
    <3>1. first_child(0) \in Int
      BY <3>0, TasksInt
    <3>2. tree.state[0] \in States
      BY <1>1, <1>2 DEF TreeType
    <3> QED BY <3>1, <3>2 DEF Entry
  <2> HIDE DEF r
  <2>5. Fills(buf, buf', 0)
    BY <1>1, <2>3, <2>4 DEF Fills
  <2>6. 0 \in resident => buf'[0] = r
    BY <1>1, <2>3 DEF TypeInv
  <2> QED BY <1>3, <1>4, <2>2, <2>4, <2>5, <2>6
<1>5. CASE ~(walk.idx < walk.nr)
  <2>1. walk' = [walk EXCEPT !.pc = "enter"] /\ buf' = buf
    BY <1>2, <1>5 DEF ptree, To
  <2> QED BY <1>1, <1>3, <1>5, <2>1 DEF WalkGoes, WalkType
<1> QED BY <1>4, <1>5

\* A call for the last task of the path goes to its first child, or it is done.
LEMMA EnterIs ==
  ASSUME TypeInv, dfs_enter,
         NEW x, x = walk.path[Len(walk.path)]
  PROVE  /\ walk.pc = "enter" /\ UNCHANGED <<tree, buf, resident, hist>>
         /\ tree.children[x] # <<>> =>
              WalkGoes(IF walk.idx < walk.nr THEN "ppid" ELSE "enter",
                       Append(walk.path, tree.children[x][1]), walk.idx)
         /\ tree.children[x] = <<>> =>
              WalkGoes(IF Len(walk.path) = 1 THEN "finish" ELSE "advance", walk.path, walk.idx)
<1>1. walk \in WalkType /\ tree \in TreeType
  BY DEF TypeInv
<1>2. walk.path \in Seq(Tasks) /\ x \in Tasks /\ t_child = x /\ nr = walk.nr
  BY Types
<1>3. walk.pc = "enter" /\ UNCHANGED <<tree, buf, resident, hist>>
  BY DEF dfs_enter
<1>4. CASE tree.children[x] # <<>>
  <2> DEFINE s == Append(walk.path, tree.children[x][1])
  <2>1. first_child(x) = tree.children[x][1] /\ tree.children[x][1] \in Tasks
    BY <1>1, <1>2, <1>4, ReadsTasks
  <2>2. walk' = Visit(s)
    BY <1>2, <1>4, <2>1 DEF dfs_enter
  <2>3. s \in Seq(Tasks)
    BY <1>2, <2>1
  <2> HIDE DEF s
  <2>4. WalkGoes(IF walk.idx < walk.nr THEN "ppid" ELSE "enter", s, walk.idx)
    BY <1>1, <1>2, <2>2, <2>3 DEF Visit, WalkGoes, WalkType, Writing
  <2> QED BY <1>3, <1>4, <2>4 DEF s
<1>5. CASE tree.children[x] = <<>>
  <2>1. walk' = [walk EXCEPT !.pc = IF Len(walk.path) = 1 THEN "finish" ELSE "advance"]
    BY <1>2, <1>5 DEF dfs_enter, To
  <2> QED BY <1>1, <1>3, <1>5, <2>1 DEF WalkGoes, WalkType
<1> QED BY <1>4, <1>5

\* dfs_ppid: the entry gets the task and its parent.
LEMMA PpidIs ==
  ASSUME TypeInv, dfs_ppid,
         NEW x, x = walk.path[Len(walk.path)]
  PROVE  /\ walk.pc = "ppid" /\ UNCHANGED <<tree, resident, hist>>
         /\ WalkGoes("child", walk.path, walk.idx) /\ Fills(buf, buf', walk.idx)
         /\ buf'[walk.idx].comm = buf[walk.idx].comm
         /\ walk.idx \in resident => /\ buf'[walk.idx].pid = x
                                     /\ buf'[walk.idx].parent_pid = tree.parent[x]
<1>1. walk \in WalkType /\ buf \in [Entries -> Entry] /\ tree \in TreeType
  BY DEF TypeInv
<1>2. /\ walk.path \in Seq(Tasks) /\ x \in Tasks /\ t_child = x
      /\ walk.idx \in Entries /\ Tasks \subseteq Nat
  BY Types, EntriesAre
<1>3. walk.pc = "ppid" /\ UNCHANGED <<tree, resident, hist>>
  BY DEF dfs_ppid
<1>4. WalkGoes("child", walk.path, walk.idx)
  BY <1>1 DEF dfs_ppid, To, WalkGoes, WalkType, Writing
<1> DEFINE n == walk.idx
           y == tree.parent[x]
           r == [buf[n] EXCEPT !.parent_pid = y, !.pid = x]
<1>5. y \in Tasks
  BY <1>1, <1>2 DEF TreeType
<1>6. x \in Int /\ y \in Int
  BY <1>2, <1>5, TasksInt
<1>7. buf' = IF n \in resident THEN [buf EXCEPT ![n] = r] ELSE buf
  BY <1>1, <1>2 DEF dfs_ppid
<1>8. buf[n] \in Entry /\ n \in Entries
  BY <1>1, <1>2
<1> HIDE DEF y, n
<1>9. r \in Entry /\ r.pid = x /\ r.parent_pid = y /\ r.comm = buf[n].comm
  BY <1>6, <1>8 DEF Entry
<1> HIDE DEF r
<1>10. Fills(buf, buf', n) /\ (n \in resident => buf'[n] = r) /\ (n \notin resident => buf' = buf)
  BY <1>1, <1>7, <1>8, <1>9 DEF Fills
<1> QED BY <1>3, <1>4, <1>9, <1>10 DEF n, y

\* dfs_children and dfs_sibling: the fields that no theorem reads.
LEMMA KinIs ==
  ASSUME TypeInv, dfs_children \/ dfs_sibling
  PROVE  /\ walk.pc \in {"child", "sibling"} /\ UNCHANGED <<tree, resident, hist>>
         /\ WalkGoes(IF walk.pc = "child" THEN "sibling" ELSE "rest", walk.path, walk.idx)
         /\ Fills(buf, buf', walk.idx)
         /\ buf'[walk.idx].comm = buf[walk.idx].comm
         /\ buf'[walk.idx].pid = buf[walk.idx].pid
         /\ buf'[walk.idx].parent_pid = buf[walk.idx].parent_pid
<1>1. walk \in WalkType /\ buf \in [Entries -> Entry] /\ tree \in TreeType
  BY DEF TypeInv
<1> DEFINE n == walk.idx
           x == t_child
<1>2. n \in Entries /\ x \in Tasks /\ Tasks \subseteq Nat
  BY Types, EntriesAre
<1>3. first_child(x) \in Tasks /\ next_sibling(x) \in Tasks
  BY <1>1, <1>2, ReadsTasks
<1>4. first_child(x) \in Int /\ next_sibling(x) \in Int
  BY <1>3, TasksInt
<1>5. buf[n] \in Entry
  BY <1>1, <1>2
<1>6. CASE dfs_children
  <2> DEFINE v == first_child(x)
             r == [buf[n] EXCEPT !.first_child_pid = v]
  <2>1. buf' = IF n \in resident THEN [buf EXCEPT ![n] = r] ELSE buf
    BY <1>1, <1>2, <1>6 DEF dfs_children, Put_user
  <2>2. walk.pc = "child" /\ UNCHANGED <<tree, resident, hist>>
    BY <1>6 DEF dfs_children
  <2>3. WalkGoes("sibling", walk.path, walk.idx)
    BY <1>1, <1>6 DEF dfs_children, To, WalkGoes, WalkType, Writing
  <2>4. v \in Int
    BY <1>4
  <2> HIDE DEF v, n, x
  <2>5. r \in Entry /\ r.pid = buf[n].pid /\ r.parent_pid = buf[n].parent_pid /\ r.comm = buf[n].comm
    BY <1>5, <2>4 DEF Entry
  <2> HIDE DEF r
  <2>6. Fills(buf, buf', n) /\ (n \in resident => buf'[n] = r) /\ (n \notin resident => buf' = buf)
    BY <1>1, <1>2, <2>1, <2>5 DEF Fills
  <2> QED BY <2>2, <2>3, <2>5, <2>6 DEF n
<1>7. CASE dfs_sibling
  <2> DEFINE v == next_sibling(x)
             r == [buf[n] EXCEPT !.next_sibling_pid = v]
  <2>1. buf' = IF n \in resident THEN [buf EXCEPT ![n] = r] ELSE buf
    BY <1>1, <1>2, <1>7 DEF dfs_sibling, Put_user
  <2>2. walk.pc = "sibling" /\ UNCHANGED <<tree, resident, hist>>
    BY <1>7 DEF dfs_sibling
  <2>3. WalkGoes("rest", walk.path, walk.idx)
    BY <1>1, <1>7 DEF dfs_sibling, To, WalkGoes, WalkType, Writing
  <2>4. v \in Int
    BY <1>4
  <2> HIDE DEF v, n, x
  <2>5. r \in Entry /\ r.pid = buf[n].pid /\ r.parent_pid = buf[n].parent_pid /\ r.comm = buf[n].comm
    BY <1>5, <2>4 DEF Entry
  <2> HIDE DEF r
  <2>6. Fills(buf, buf', n) /\ (n \in resident => buf'[n] = r) /\ (n \notin resident => buf' = buf)
    BY <1>1, <1>2, <2>1, <2>5 DEF Fills
  <2> QED BY <2>2, <2>3, <2>5, <2>6 DEF n
<1> QED BY <1>6, <1>7

\* dfs_rest: the entry is complete.
LEMMA RestIs ==
  ASSUME TypeInv, dfs_rest,
         NEW x, x = walk.path[Len(walk.path)]
  PROVE  /\ walk.pc = "rest" /\ UNCHANGED <<tree, resident, hist>>
         /\ WalkGoes("enter", walk.path, walk.idx + 1) /\ Fills(buf, buf', walk.idx)
         /\ buf'[walk.idx].pid = buf[walk.idx].pid
         /\ buf'[walk.idx].parent_pid = buf[walk.idx].parent_pid
         /\ walk.idx \in resident => /\ buf'[walk.idx].comm = x
                                     /\ buf'[walk.idx].layer = Len(walk.path) - 1
<1>1. walk \in WalkType /\ buf \in [Entries -> Entry] /\ tree \in TreeType
  BY DEF TypeInv
<1>2. /\ walk.path \in Seq(Tasks) /\ x \in Tasks /\ t_child = x /\ walk.idx \in Nat
      /\ walk.idx \in Entries /\ Tasks \subseteq Nat
  BY Types, EntriesAre
<1>3. walk.pc = "rest" /\ UNCHANGED <<tree, resident, hist>>
  BY DEF dfs_rest
<1>4. WalkGoes("enter", walk.path, walk.idx + 1)
  <2> DEFINE m == walk.idx + 1
  <2>1. walk' = [[walk EXCEPT !.idx = m] EXCEPT !.pc = "enter"]
    BY <1>1 DEF dfs_rest, WalkType
  <2>2. m \in Nat
    BY <1>2
  <2> HIDE DEF m
  <2>3. WalkGoes("enter", walk.path, m)
    BY <1>1, <2>1, <2>2 DEF WalkGoes, WalkType
  <2> QED BY <2>3 DEF m
<1> DEFINE n == walk.idx
           l == Len(walk.path) - 1
           z == tree.state[x]
           r == [buf[n] EXCEPT !.state = z, !.comm = x, !.layer = l]
<1>5. x \in Int /\ z \in States /\ l \in Int
  BY <1>1, <1>2 DEF TreeType
<1>6. buf' = IF n \in resident THEN [buf EXCEPT ![n] = r] ELSE buf
  BY <1>1, <1>2 DEF dfs_rest
<1>7. buf[n] \in Entry /\ n \in Entries
  BY <1>1, <1>2
<1> HIDE DEF z, n, l
<1>8. /\ r \in Entry /\ r.pid = buf[n].pid /\ r.parent_pid = buf[n].parent_pid
      /\ r.comm = x /\ r.layer = l
  BY <1>5, <1>7 DEF Entry
<1> HIDE DEF r
<1>9. Fills(buf, buf', n) /\ (n \in resident => buf'[n] = r) /\ (n \notin resident => buf' = buf)
  BY <1>1, <1>6, <1>7, <1>8 DEF Fills
<1> QED BY <1>3, <1>4, <1>8, <1>9 DEF n, l

\* The walk after the call for the last task of the path: on to its sibling, or up.
LEMMA AdvanceIs ==
  ASSUME TypeInv, dfs_advance,
         NEW v, v = next_sibling(walk.path[Len(walk.path)])
  PROVE  /\ walk.pc = "advance" /\ UNCHANGED <<tree, buf, resident, hist>>
         /\ ~OnWalkedList => WalkGoes("lost", walk.path, walk.idx)
         /\ OnWalkedList /\ v # 0 =>
              WalkGoes(IF walk.idx < walk.nr THEN "ppid" ELSE "enter",
                       Append(Front(walk.path), v), walk.idx)
         /\ OnWalkedList /\ v = 0 =>
              WalkGoes(IF Len(walk.path) = 2 THEN "finish" ELSE "advance",
                       Front(walk.path), walk.idx)
<1>1. walk \in WalkType /\ tree \in TreeType
  BY DEF TypeInv
<1> DEFINE x == walk.path[Len(walk.path)]
           f == Front(walk.path)
<1>2. walk.path \in Seq(Tasks) /\ x \in Tasks /\ t_child = x /\ nr = walk.nr /\ Len(walk.path) >= 1
  BY Types
<1>3. v \in Tasks
  BY <1>1, <1>2, ReadsTasks
<1>4. f \in Seq(Tasks)
  BY <1>2, FrontIs
<1>5. walk.pc = "advance" /\ UNCHANGED <<tree, buf, resident, hist>>
  BY DEF dfs_advance
<1>6. CASE ~OnWalkedList
  <2>1. walk' = [walk EXCEPT !.pc = "lost"]
    BY <1>6 DEF dfs_advance, To
  <2> QED BY <1>1, <1>5, <1>6, <2>1 DEF WalkGoes, WalkType
<1>7. CASE OnWalkedList /\ v # 0
  <2> DEFINE s == Append(f, v)
  <2>1. walk' = Visit(s)
    BY <1>2, <1>7 DEF dfs_advance
  <2>2. s \in Seq(Tasks)
    BY <1>3, <1>4
  <2> HIDE DEF s
  <2>3. WalkGoes(IF walk.idx < walk.nr THEN "ppid" ELSE "enter", s, walk.idx)
    BY <1>1, <1>2, <2>1, <2>2 DEF Visit, WalkGoes, WalkType, Writing
  <2> QED BY <1>5, <1>7, <2>3 DEF s
<1>8. CASE OnWalkedList /\ v = 0
  <2> DEFINE at == IF Len(walk.path) = 2 THEN "finish" ELSE "advance"
  <2>1. walk' = [walk EXCEPT !.path = f, !.pc = at]
    BY <1>1, <1>2, <1>8 DEF dfs_advance
  <2>2. at \in {"finish", "advance"}
    OBVIOUS
  <2> HIDE DEF at, f
  <2>3. WalkGoes(at, f, walk.idx)
    BY <1>1, <1>4, <2>1, <2>2 DEF WalkGoes, WalkType
  <2> QED BY <1>5, <1>8, <2>3 DEF at, f
<1> QED BY <1>6, <1>7, <1>8

\* ptree_finish: the end marker.
LEMMA FinishIs ==
  ASSUME TypeInv, ptree_finish
  PROVE  /\ walk.pc = "finish" /\ UNCHANGED <<tree, resident, hist>>
         /\ WalkGoes("done", walk.path, walk.idx)
         /\ Fills(buf, buf', walk.idx)
         /\ ~(walk.idx < walk.nr) => buf' = buf
         /\ walk.idx < walk.nr /\ walk.idx \in resident => buf'[walk.idx].comm = Finish
<1>1. walk \in WalkType /\ buf \in [Entries -> Entry]
  BY DEF TypeInv
<1>2. walk.pc = "finish" /\ UNCHANGED <<tree, resident, hist>>
  BY DEF ptree_finish
<1>3. WalkGoes("done", walk.path, walk.idx)
  BY <1>1 DEF ptree_finish, To, WalkGoes, WalkType
<1> DEFINE n == walk.idx
           r == [buf[n] EXCEPT !.comm = Finish]
<1>4. n \in Entries /\ nr = walk.nr
  BY Types
<1>5. buf' = IF n < walk.nr /\ n \in resident THEN [buf EXCEPT ![n] = r] ELSE buf
  BY <1>1, <1>4 DEF ptree_finish
<1>6. buf[n] \in Entry /\ Finish \in Int
  BY <1>1, <1>4 DEF Finish
<1> HIDE DEF n
<1>7. r \in Entry /\ r.comm = Finish
  BY <1>6 DEF Entry
<1> HIDE DEF r
<1>8. Fills(buf, buf', n) /\ (n < walk.nr /\ n \in resident => buf'[n] = r)
      /\ (~(n < walk.nr) => buf' = buf)
  BY <1>1, <1>4, <1>5, <1>7 DEF Fills
<1> QED BY <1>2, <1>3, <1>7, <1>8 DEF n

\* fork.
LEMMA ForkIs ==
  ASSUME TypeInv, NEW p \in Tasks, NEW c \in Tasks, copy_process(p, c)
  PROVE  /\ UNCHANGED <<walk, buf, resident, hist>> /\ tree' \in TreeType
         /\ tree.state[p] = "running" /\ tree.state[c] = "unused"
         /\ tree'.state = [tree.state EXCEPT ![c] = "running"]
         /\ tree'.parent = [tree.parent EXCEPT ![c] = p]
         /\ tree'.children = [tree.children EXCEPT ![p] = Append(tree.children[p], c)]
<1>1. tree \in TreeType
  BY DEF TypeInv
<1>2. /\ UNCHANGED <<walk, buf, resident, hist>>
      /\ tree.state[p] = "running" /\ tree.state[c] = "unused"
  BY DEF copy_process
<1> DEFINE S == [tree.state EXCEPT ![c] = "running"]
           Q == [tree.parent EXCEPT ![c] = p]
           L == [tree.children EXCEPT ![p] = Append(tree.children[p], c)]
<1>3. tree' = [[[tree EXCEPT !.state = S] EXCEPT !.parent = Q] EXCEPT !.children = L]
  BY <1>1 DEF copy_process, TreeType
<1>4. S \in [Tasks -> States] /\ Q \in [Tasks -> Tasks] /\ L \in [Tasks -> Seq(Tasks)]
  <2>1. tree.children[p] \in Seq(Tasks)
    BY <1>1 DEF TreeType
  <2>2. Append(tree.children[p], c) \in Seq(Tasks)
    BY <2>1
  <2> QED BY <1>1, <2>2 DEF TreeType, States
<1> HIDE DEF S, Q, L
<1>5. tree' \in TreeType /\ tree'.state = S /\ tree'.parent = Q /\ tree'.children = L
  BY <1>1, <1>3, <1>4 DEF TreeType
<1> QED BY <1>2, <1>5 DEF S, Q, L

\* exit, in types; and for a task without children, whose lists stay as they are.
LEMMA ExitIs ==
  ASSUME TypeInv, NEW p \in Tasks, exit_notify(p)
  PROVE  /\ UNCHANGED <<walk, buf, resident>> /\ tree' \in TreeType
         /\ hist' \in [moved : BOOLEAN, steady : SUBSET Tasks] /\ hist'.steady = hist.steady
         /\ p # 0 /\ p # 1 /\ tree.state[p] = "running"
         /\ ~hist'.moved =>
              /\ ~hist.moved /\ tree.children[p] = <<>>
              /\ tree'.state = [tree.state EXCEPT ![p] = "zombie"]
              /\ tree'.parent = tree.parent /\ tree'.children = tree.children
<1>1. tree \in TreeType /\ hist \in [moved : BOOLEAN, steady : SUBSET Tasks]
  BY DEF TypeInv
<1>2. UNCHANGED <<walk, buf, resident>> /\ p # 0 /\ p # 1 /\ tree.state[p] = "running"
  BY DEF exit_notify
<1> DEFINE h == hist.moved \/ tree.children[p] # <<>>
<1>3. hist' = [hist EXCEPT !.moved = h]
  BY <1>1 DEF exit_notify
<1>4. h \in BOOLEAN
  OBVIOUS
<1> HIDE DEF h
<1>5. /\ hist' \in [moved : BOOLEAN, steady : SUBSET Tasks]
      /\ hist'.steady = hist.steady /\ hist'.moved = h
  BY <1>1, <1>3, <1>4
<1> DEFINE S == [tree.state EXCEPT ![p] = "zombie"]
           Q == [c \in Tasks |-> IF Contains(tree.children[p], c) THEN 1 ELSE tree.parent[c]]
           L == [tree.children EXCEPT ![p] = <<>>, ![1] = tree.children[1] \o tree.children[p]]
<1>6. 1 \in Tasks /\ tree.children[1] \in Seq(Tasks) /\ tree.children[p] \in Seq(Tasks)
  BY <1>1, EntriesAre DEF TreeType
<1>7. tree' = [[[tree EXCEPT !.state = S] EXCEPT !.parent = Q] EXCEPT !.children = L]
  <2> DEFINE M == [tree.children EXCEPT ![p] = <<>>, ![1] = @ \o tree.children[p]]
  <2>1. tree' = [tree EXCEPT !.state = S, !.parent = Q, !.children = M]
    BY <1>1 DEF exit_notify, TreeType
  <2>2. M = L
    BY <1>1, <1>2, <1>6 DEF TreeType
  <2> HIDE DEF M, S, Q, L
  <2>3. tree' = [[[tree EXCEPT !.state = S] EXCEPT !.parent = Q] EXCEPT !.children = M]
    BY <1>1, <2>1 DEF TreeType
  <2> QED BY <2>2, <2>3
<1>8. S \in [Tasks -> States] /\ Q \in [Tasks -> Tasks] /\ L \in [Tasks -> Seq(Tasks)]
  <2>1. tree.children[1] \o tree.children[p] \in Seq(Tasks) /\ <<>> \in Seq(Tasks)
    BY <1>6, ConcatProperties
  <2>2. S \in [Tasks -> States]
    BY <1>1 DEF TreeType, States
  <2>3. Q \in [Tasks -> Tasks]
    BY <1>1, <1>6 DEF TreeType
  <2>4. L \in [Tasks -> Seq(Tasks)]
    BY <1>1, <2>1 DEF TreeType
  <2> QED BY <2>2, <2>3, <2>4
<1> HIDE DEF S, Q, L
<1>9. tree' \in TreeType /\ tree'.state = S /\ tree'.parent = Q /\ tree'.children = L
  BY <1>1, <1>7, <1>8 DEF TreeType
<1>10. ASSUME ~h
       PROVE  /\ ~hist.moved /\ tree.children[p] = <<>>
              /\ Q = tree.parent /\ L = tree.children
  <2>1. ~hist.moved /\ tree.children[p] = <<>>
    BY <1>10 DEF h
  <2>2. \A c : ~Contains(<<>>, c)
    BY DEF Contains
  <2>3. Q = tree.parent
    BY <1>1, <2>1, <2>2 DEF Q, TreeType
  <2>4. tree.children[1] \o <<>> = tree.children[1]
    BY <1>6, ConcatEmptySeq
  <2>5. L = tree.children
    BY <1>1, <1>6, <2>1, <2>4 DEF L, TreeType
  <2> QED BY <2>1, <2>3, <2>5
<1> QED BY <1>2, <1>5, <1>9, <1>10 DEF S

\* The list r is s without its place k, where p is.
Without(r, s, p, k) ==
  /\ s[k] = p /\ r \in Seq(Tasks) /\ Len(r) = Len(s) - 1
  /\ \A i \in 1 .. (Len(s) - 1) : r[i] = IF i < k THEN s[i] ELSE s[i + 1]

\* What RemoveFirst of the community modules returns for a task on the list.
LEMMA RemoveIs ==
  ASSUME NEW s \in Seq(Tasks), NEW p, NEW o \in 1 .. Len(s), s[o] = p,
         NEW r, r = RemoveFirst(s, p)
  PROVE  \E k \in 1 .. Len(s) : Without(r, s, p, k)
<1> DEFINE I == {i \in 1 .. Len(s) : s[i] = p}
           k == Min(I)
<1>0. Len(s) \in Nat /\ DOMAIN s = 1 .. Len(s) /\ \A i \in 1 .. Len(s) : s[i] \in Tasks
  OBVIOUS
<1>1. I # {} /\ I \subseteq Nat
  BY <1>0
<1>2. k \in I
  <2>1. \E m \in I : \A y \in I : m <= y
    BY <1>1, LeastNat
  <2> QED BY <2>1 DEF Min
<1>3. RemoveFirst(s, p) = SubSeq(s, 1, k - 1) \o SubSeq(s, k + 1, Len(s))
  <2>1. SelectInSeq(s, LAMBDA v : v = p) = k
    BY <1>1 DEF SelectInSeq
  <2>2. \E i \in 1 .. Len(s) : s[i] = p
    BY <1>1
  <2>3. RemoveFirst(s, p) = RemoveAt(s, k)
    BY <2>1, <2>2 DEF RemoveFirst
  <2> HIDE DEF k
  <2> QED BY <2>3 DEF RemoveAt
<1>4. k \in 1 .. Len(s) /\ s[k] = p
  BY <1>2
<1> HIDE DEF k, I
<1> DEFINE n == k - 1
           m == k + 1
           l == Len(s)
           a == SubSeq(s, 1, n)
           b == SubSeq(s, m, l)
           q == a \o b
<1>5. /\ n \in Int /\ m \in Int /\ l \in Int
      /\ \A i \in 1 .. n : s[i] \in Tasks
      /\ \A i \in m .. l : s[i] \in Tasks
  BY <1>0, <1>4
<1>6. RemoveFirst(s, p) = q
  BY <1>3
<1>7. l = Len(s) /\ n = k - 1 /\ m = k + 1
  OBVIOUS
<1> HIDE DEF n, m, l
<1>8. /\ a \in Seq(Tasks) /\ Len(a) = (IF 1 <= n THEN n - 1 + 1 ELSE 0)
      /\ \A i \in 1 .. n - 1 + 1 : a[i] = s[1 + i - 1]
  BY <1>5, SubSeqProperties
<1>9. /\ b \in Seq(Tasks) /\ Len(b) = (IF m <= l THEN l - m + 1 ELSE 0)
      /\ \A i \in 1 .. l - m + 1 : b[i] = s[m + i - 1]
  BY <1>5, SubSeqProperties
<1> HIDE DEF a, b
<1>10. /\ q \in Seq(Tasks) /\ Len(q) = Len(a) + Len(b)
       /\ \A i \in 1 .. Len(a) + Len(b) : q[i] = IF i <= Len(a) THEN a[i] ELSE b[i - Len(a)]
  BY <1>8, <1>9, ConcatProperties
<1> HIDE DEF q
<1>11. Len(a) = k - 1 /\ Len(b) = Len(s) - k /\ Len(q) = Len(s) - 1
  <2>1. Len(a) = k - 1
    BY <1>4, <1>7, <1>8
  <2>2. Len(b) = Len(s) - k
    <3>1. Len(b) = IF m <= l THEN l - m + 1 ELSE 0
      BY <1>9
    <3>2. k \in Nat /\ Len(s) \in Nat /\ k <= Len(s)
      BY <1>0, <1>4
    <3> QED BY <3>1, <3>2, <1>7
  <2> QED BY <2>1, <2>2, <1>0, <1>4, <1>10
<1>12. \A i \in 1 .. (k - 1) : a[i] = s[i]
  BY <1>0, <1>4, <1>7, <1>8
<1>13. ASSUME NEW i \in 1 .. (Len(s) - 1)
       PROVE  q[i] = IF i < k THEN s[i] ELSE s[i + 1]
  <2>1. CASE i < k
    <3>1. i \in 1 .. Len(a) + Len(b) /\ i <= Len(a) /\ i \in 1 .. (k - 1)
      BY <2>1, <1>0, <1>4, <1>11
    <3>2. q[i] = a[i]
      BY <3>1, <1>10
    <3> QED BY <2>1, <3>1, <3>2, <1>12
  <2>2. CASE i >= k
    <3> DEFINE j == i - (k - 1)
    <3>1. j \in 1 .. l - m + 1 /\ m + j - 1 = i + 1
      BY <2>2, <1>0, <1>4, <1>7
    <3>2. b[j] = s[m + j - 1]
      BY <3>1, <1>9
    <3>3. q[i] = b[j]
      BY <2>2, <1>0, <1>4, <1>10, <1>11
    <3> HIDE DEF j
    <3>4. q[i] = s[i + 1]
      BY <3>1, <3>2, <3>3
    <3> QED BY <3>4, <2>2, <1>4
  <2> QED BY <2>1, <2>2, <1>0, <1>4
<1> QED BY <1>4, <1>6, <1>10, <1>11, <1>13 DEF Without

\* release_task.
LEMMA ReleaseIs ==
  ASSUME TypeInv, NEW p \in Tasks, release_task(p),
         NEW y, y = tree.parent[p], NEW q, q = RemoveFirst(tree.children[y], p)
  PROVE  /\ UNCHANGED <<walk, buf, resident>> /\ tree' \in TreeType /\ y \in Tasks
         /\ hist' \in [moved : BOOLEAN, steady : SUBSET Tasks]
         /\ hist'.steady = hist.steady \ {p} /\ hist'.moved = hist.moved
         /\ tree.state[p] = "zombie" /\ q \in Seq(Tasks)
         /\ tree'.state = [tree.state EXCEPT ![p] = "reaped"]
         /\ tree'.parent = tree.parent
         /\ tree'.children = [tree.children EXCEPT ![y] = q]
<1>1. tree \in TreeType /\ hist \in [moved : BOOLEAN, steady : SUBSET Tasks]
  BY DEF TypeInv
<1>2. UNCHANGED <<walk, buf, resident>> /\ tree.state[p] = "zombie"
  BY DEF release_task
<1>3. y \in Tasks
  BY <1>1 DEF TreeType
<1>4. tree.children[y] \in Seq(Tasks)
  BY <1>1, <1>3 DEF TreeType
<1>5. q \in Seq(Tasks)
  <2>1. CASE \E o \in 1 .. Len(tree.children[y]) : tree.children[y][o] = p
    BY <1>4, <2>1, RemoveIs DEF Without
  <2>2. CASE ~(\E o \in 1 .. Len(tree.children[y]) : tree.children[y][o] = p)
    <3>1. q = tree.children[y]
      BY <2>2 DEF RemoveFirst
    <3> QED BY <1>4, <3>1
  <2> QED BY <2>1, <2>2
<1> DEFINE h == hist.steady \ {p}
<1>6. hist' = [hist EXCEPT !.steady = h]
  BY <1>1 DEF release_task
<1>7. h \in SUBSET Tasks
  BY <1>1
<1> HIDE DEF h
<1>8. /\ hist' \in [moved : BOOLEAN, steady : SUBSET Tasks]
      /\ hist'.steady = h /\ hist'.moved = hist.moved
  BY <1>1, <1>6, <1>7
<1> DEFINE S == [tree.state EXCEPT ![p] = "reaped"]
           L == [tree.children EXCEPT ![y] = q]
<1>9. tree' = [[tree EXCEPT !.state = S] EXCEPT !.children = L]
  <2>1. tree' = [tree EXCEPT !.state[p] = "reaped",
                             !.children[y] = RemoveFirst(tree.children[y], p)]
    BY <1>1, <1>3 DEF release_task, TreeType
  <2>2. tree' = [tree EXCEPT !.state[p] = "reaped", !.children[y] = q]
    BY <2>1
  <2> QED BY <1>1, <2>2 DEF TreeType
<1>10. S \in [Tasks -> States] /\ L \in [Tasks -> Seq(Tasks)]
  BY <1>1, <1>5 DEF TreeType, States
<1> HIDE DEF S, L
<1>11. tree' \in TreeType /\ tree'.state = S /\ tree'.parent = tree.parent /\ tree'.children = L
  BY <1>1, <1>9, <1>10 DEF TreeType
<1> QED BY <1>2, <1>3, <1>5, <1>8, <1>11 DEF S, L, h

\* What a step of the walk has to leave for the types to hold.
LEMMA WalkTyped ==
  ASSUME TypeInv, UNCHANGED <<tree, resident, hist>>,
         NEW at, NEW s, NEW n, WalkGoes(at, s, n), Shape(at, s, n, walk.nr),
         NEW k \in Entries, k < walk.nr \/ buf' = buf, Fills(buf, buf', k)
  PROVE  TypeInv'
<1>1. walk' \in WalkType /\ Shape(walk'.pc, walk'.path, walk'.idx, walk'.nr) /\ walk'.nr = walk.nr
  BY DEF WalkGoes
<1>2. k \in Nat /\ walk.nr \in Nat /\ Entries \subseteq Nat
  BY EntriesAre, Types
<1>3. buf' \in [Entries -> Entry] /\ \A i \in Entries : i >= walk.nr => buf'[i] = buf[i]
  BY <1>2 DEF Fills
<1>4. \A i \in Entries : i >= walk'.nr => buf'[i] = EmptyEntry
  BY <1>1, <1>3 DEF TypeInv
<1> QED BY <1>1, <1>3, <1>4 DEF TypeInv, TreeType

\* The types hold after every step.
LEMMA TypesKept ==
  ASSUME TypeInv, [PTreeNext]_PTreeVars
  PROVE  TypeInv'
<1> DEFINE s == walk.path
           n == walk.idx
           m == walk.nr
<1>0. /\ s \in Seq(Tasks) /\ Len(s) \in Nat \ {0} /\ n \in Nat /\ m \in Nat /\ n <= m
      /\ n \in Entries /\ 0 \in Entries /\ buf \in [Entries -> Entry]
      /\ Shape(walk.pc, s, n, m)
  <2>0. m \in Sizes /\ m \in Nat
    BY Types
  <2>1. 0 \in 0 .. m /\ m \in Sizes
    BY <2>0
  <2>2. 0 \in Entries
    BY <2>1, EntriesAre
  <2> QED BY <2>2, Types DEF TypeInv
<1>00. Fills(buf, buf, n)
  BY <1>0 DEF Fills
<1>1. CASE ptree
  <2>1. CASE n < m
    <3>1. WalkGoes("enter", s, n + 1) /\ Fills(buf, buf', 0) /\ UNCHANGED <<tree, resident, hist>>
      BY <1>1, <2>1, StartIs
    <3>2. Shape("enter", s, n + 1, m) /\ 0 < m
      BY <1>0, <2>1 DEF Shape, Writing
    <3> QED BY <1>0, <3>1, <3>2, WalkTyped
  <2>2. CASE ~(n < m)
    <3>1. WalkGoes("enter", s, n) /\ buf' = buf /\ UNCHANGED <<tree, resident, hist>>
      BY <1>1, <2>2, StartIs
    <3>2. Shape("enter", s, n, m)
      BY <1>0 DEF Shape, Writing
    <3> QED BY <1>0, <1>00, <3>1, <3>2, WalkTyped
  <2> QED BY <2>1, <2>2
<1>2. CASE dfs_enter
  <2> DEFINE x == s[Len(s)]
             c == tree.children[x][1]
             e == IF n < m THEN "ppid" ELSE "enter"
  <2>1. CASE tree.children[x] # <<>>
    <3>1. WalkGoes(e, Append(s, c), n) /\ UNCHANGED <<tree, buf, resident, hist>>
      BY <1>2, <2>1, EnterIs
    <3>2. Shape(e, Append(s, c), n, m)
      BY <1>0 DEF Shape, Writing
    <3> HIDE DEF e
    <3> QED BY <1>0, <1>00, <3>1, <3>2, WalkTyped
  <2>2. CASE tree.children[x] = <<>>
    <3> DEFINE d == IF Len(s) = 1 THEN "finish" ELSE "advance"
    <3>1. WalkGoes(d, s, n) /\ UNCHANGED <<tree, buf, resident, hist>>
      BY <1>2, <2>2, EnterIs
    <3>2. Shape(d, s, n, m)
      BY <1>0 DEF Shape, Writing
    <3> HIDE DEF d
    <3> QED BY <1>0, <1>00, <3>1, <3>2, WalkTyped
  <2> QED BY <2>1, <2>2
<1>3. CASE dfs_ppid
  <2>1. walk.pc = "ppid" /\ WalkGoes("child", s, n) /\ Fills(buf, buf', n) /\ UNCHANGED <<tree, resident, hist>>
    BY <1>3, PpidIs
  <2>2. Shape("child", s, n, m) /\ n < m
    BY <1>0, <2>1 DEF Shape, Writing
  <2> QED BY <1>0, <2>1, <2>2, WalkTyped
<1>4. CASE dfs_children \/ dfs_sibling
  <2> DEFINE e == IF walk.pc = "child" THEN "sibling" ELSE "rest"
  <2>1. /\ walk.pc \in {"child", "sibling"} /\ WalkGoes(e, s, n)
        /\ Fills(buf, buf', n) /\ UNCHANGED <<tree, resident, hist>>
    BY <1>4, KinIs
  <2>2. Shape(e, s, n, m) /\ n < m
    BY <1>0, <2>1 DEF Shape, Writing
  <2> HIDE DEF e
  <2> QED BY <1>0, <2>1, <2>2, WalkTyped
<1>5. CASE dfs_rest
  <2>1. /\ walk.pc = "rest" /\ WalkGoes("enter", s, n + 1)
        /\ Fills(buf, buf', n) /\ UNCHANGED <<tree, resident, hist>>
    BY <1>5, RestIs
  <2>2. Shape("enter", s, n + 1, m) /\ n < m
    BY <1>0, <2>1 DEF Shape, Writing
  <2> QED BY <1>0, <2>1, <2>2, WalkTyped
<1>6. CASE dfs_advance
  <2> DEFINE v == next_sibling(s[Len(s)])
             f == Front(s)
             e == IF n < m THEN "ppid" ELSE "enter"
             d == IF Len(s) = 2 THEN "finish" ELSE "advance"
  <2>1. walk.pc = "advance" /\ UNCHANGED <<tree, buf, resident, hist>>
    BY <1>6, AdvanceIs
  <2>2. Len(s) >= 2 /\ f \in Seq(Tasks) /\ Len(f) = Len(s) - 1
    BY <1>0, <2>1, FrontIs DEF Shape
  <2>3. CASE ~OnWalkedList
    <3>1. WalkGoes("lost", s, n)
      BY <1>6, <2>3, AdvanceIs
    <3>2. Shape("lost", s, n, m)
      BY <1>0 DEF Shape, Writing
    <3> QED BY <1>0, <1>00, <2>1, <3>1, <3>2, WalkTyped
  <2>4. CASE OnWalkedList /\ v # 0
    <3>1. WalkGoes(e, Append(f, v), n)
      BY <1>6, <2>4, AdvanceIs
    <3> HIDE DEF f, v
    <3>2. Shape(e, Append(f, v), n, m)
      BY <1>0, <2>2 DEF Shape, Writing
    <3> HIDE DEF e
    <3> QED BY <1>0, <1>00, <2>1, <3>1, <3>2, WalkTyped
  <2>5. CASE OnWalkedList /\ v = 0
    <3>1. WalkGoes(d, f, n)
      BY <1>6, <2>5, AdvanceIs
    <3> HIDE DEF f
    <3>2. Shape(d, f, n, m)
      <4> DEFINE a == Len(s)
                 c == Len(f)
      <4>0. a \in Nat /\ a >= 2 /\ c = a - 1
        BY <1>0, <2>2
      <4> HIDE DEF a, c
      <4>1. c >= 1 /\ (a # 2 => c >= 2) /\ (a = 2 => c = 1)
        BY <4>0
      <4>2. CASE d = "finish" /\ Len(s) = 2
        BY <1>0, <4>1, <4>2 DEF Shape, Writing, a, c
      <4>3. CASE d = "advance" /\ Len(s) # 2
        BY <1>0, <4>1, <4>3 DEF Shape, Writing, a, c
      <4> QED BY <4>2, <4>3
    <3> HIDE DEF d
    <3> QED BY <1>0, <1>00, <2>1, <3>1, <3>2, WalkTyped
  <2> QED BY <2>3, <2>4, <2>5
<1>7. CASE ptree_finish
  <2>1. /\ walk.pc = "finish" /\ WalkGoes("done", s, n) /\ UNCHANGED <<tree, resident, hist>>
        /\ Fills(buf, buf', n) /\ (n < m \/ buf' = buf)
    BY <1>7, FinishIs
  <2>2. Shape("done", s, n, m)
    BY <1>0, <2>1 DEF Shape, Writing
  <2> QED BY <1>0, <2>1, <2>2, WalkTyped
<1>8. ASSUME NEW p \in Tasks, NEW c \in Tasks, copy_process(p, c)
      PROVE  TypeInv'
  BY <1>8, ForkIs DEF TypeInv
<1>9. ASSUME NEW p \in Tasks, exit_notify(p)
      PROVE  TypeInv'
  BY <1>9, ExitIs DEF TypeInv
<1>10. ASSUME NEW p \in Tasks, release_task(p)
       PROVE  TypeInv'
  <2>1. /\ UNCHANGED <<walk, buf, resident>> /\ tree' \in TreeType
        /\ hist' \in [moved : BOOLEAN, steady : SUBSET Tasks]
    <3> DEFINE y == tree.parent[p]
               q == RemoveFirst(tree.children[y], p)
    <3> QED BY <1>10, ReleaseIs
  <2> QED BY <2>1 DEF TypeInv
<1>11. CASE UNCHANGED PTreeVars
  BY <1>11 DEF TypeInv, PTreeVars, TreeType, WalkType, Shape
<1> QED BY <1>1, <1>2, <1>3, <1>4, <1>5, <1>6, <1>7, <1>8, <1>9, <1>10, <1>11
        DEF PTreeNext, Walk, Others

\* They hold at the start.
LEMMA TypesStart ==
  ASSUME PTreeInit
  PROVE  TypeInv
<1>1. PICK t \in Trees :
        /\ tree = t
        /\ hist = [moved |-> FALSE, steady |-> {p \in Tasks : t.state[p] = "running"}]
  BY DEF PTreeInit
<1>2. tree \in TreeType
  BY <1>1, TreesFormed DEF TreeType
<1>3. hist \in [moved : BOOLEAN, steady : SUBSET Tasks]
  BY <1>1
<1>4. /\ walk \in [pc : {"start"}, path : {<<0>>}, idx : {0}, nr : Sizes]
      /\ resident \subseteq Entries
  BY EntriesAre DEF PTreeInit
<1>5. 0 \in Tasks /\ Sizes \subseteq Nat
  BY EntriesAre
<1> DEFINE z == <<0>>
<1>6. z \in Seq(Tasks) /\ Len(z) = 1
  BY <1>5
<1> HIDE DEF z
<1>7. walk \in [pc : {"start"}, path : {z}, idx : {0}, nr : Sizes]
  BY <1>4 DEF z
<1>8. walk \in WalkType
  BY <1>7, <1>6 DEF WalkType
<1>9. Shape(walk.pc, walk.path, walk.idx, walk.nr)
  <2>1. walk.pc = "start" /\ walk.path = z /\ walk.idx = 0 /\ walk.nr \in Nat
    BY <1>7, <1>5
  <2> QED BY <2>1, <1>6 DEF Shape, Writing
<1>10. EmptyEntry \in Entry
  BY DEF Entry, EmptyEntry, Unset
<1>11. buf \in [Entries -> Entry] /\ \A i \in Entries : buf[i] = EmptyEntry
  BY <1>10 DEF PTreeInit
<1> QED BY <1>2, <1>3, <1>4, <1>8, <1>9, <1>11 DEF TypeInv

\* What the types of the model ask for.
LEMMA TypesImply ==
  ASSUME TypeInv
  PROVE  PTreeTypeOK
<1>1. /\ tree.parent \in [Tasks -> Tasks] /\ tree.children \in [Tasks -> Seq(Tasks)]
      /\ tree.state \in [Tasks -> States]
  BY DEF TypeInv, TreeType
<1>2. walk.path \in Seq(Tasks) /\ walk.idx \in 0 .. nr
  BY Types
<1>3. walk.pc \in {"start", "enter", "ppid", "child", "sibling", "rest", "advance",
                  "finish", "done", "lost"}
  BY DEF TypeInv, WalkType, Writing
<1>4. /\ resident \subseteq Entries
      /\ \A i \in Entries : i >= nr => buf[i] = EmptyEntry
  BY DEF TypeInv, nr
<1> QED BY <1>1, <1>2, <1>3, <1>4 DEF PTreeTypeOK

\* Whatever the tree and its changes, ptree writes nothing beyond the nr entries that the
\* caller gave it, and the path of the recursion consists of tasks.
THEOREM BufferKept == PTreeSpec => []PTreeTypeOK
<1>1. PTreeInit => TypeInv
  BY TypesStart
<1>2. TypeInv /\ [PTreeNext]_PTreeVars => TypeInv'
  BY TypesKept
<1>3. TypeInv => PTreeTypeOK
  BY TypesImply
<1> QED BY <1>1, <1>2, <1>3, PTL DEF PTreeSpec

-----------------------------------------------------------------------------
(***************************************************************************)
(* The inductive invariant behind TreePrinted, for a walk that stands at   *)
(* the point at with the path s, n of m entries in the buffer b being      *)
(* complete, in the tree t of which the tasks S have been there from the   *)
(* beginning.                                                              *)
(***************************************************************************)

\* p has an entry.
Rec(n, b, p) == \E i \in 0 .. (n - 1) : b[i].pid = p

\* p comes after a in the list q.
Behind(q, a, p) == \E i, j \in 1 .. Len(q) : i < j /\ q[i] = a /\ q[j] = p

\* The path leads from init_task from parent to child.
PathOK(t, s) ==
  /\ s[1] = 0
  /\ \A k \in 1 .. (Len(s) - 1) :
       s[k + 1] # 0 /\ t.parent[s[k + 1]] = s[k] /\ t.state[s[k + 1]] # "unused"

\* Entry j is for the parent of the task of entry i, and what is between them is deeper.
Nested(b, i, j) ==
  /\ b[j].pid = b[i].parent_pid /\ b[i].layer = b[j].layer + 1
  /\ \A k \in (j + 1) .. (i - 1) : b[k].layer > b[j].layer

\* The complete entries: of different tasks, each after its parent's.
EntryOK(t, b, i) ==
  /\ b[i].pid \in Tasks /\ t.state[b[i].pid] # "unused"
  /\ b[i].comm = b[i].pid /\ b[i].layer \in Nat
  /\ i > 0 => /\ b[i].pid # 0 /\ b[i].parent_pid = t.parent[b[i].pid]
              /\ \E j \in 0 .. (i - 1) : Nested(b, i, j)
EntriesOK(t, n, b) ==
  /\ \A i \in 0 .. (n - 1) : EntryOK(t, b, i)
  /\ n > 0 => b[0].pid = 0 /\ b[0].layer = 0
  /\ \A i, j \in 0 .. (n - 1) : b[i].pid = b[j].pid => i = j

\* The entry under way, and the end marker.
ProgressOK(t, at, s, n, m, b) ==
  /\ at \in {"child", "sibling", "rest"} =>
       b[n].pid = s[Len(s)] /\ b[n].parent_pid = t.parent[s[Len(s)]]
  /\ \A i \in n .. (m - 1) :
       b[i].comm = IF at = "done" /\ i = n THEN Finish ELSE Unset

\* The tasks on the path have their entries, but for the one that is under way, and
\* what was entered since is deeper.
Logged(at, s) == IF at \in Writing THEN Len(s) - 1 ELSE Len(s)
RecordOK(at, s, n, b) ==
  \A k \in 1 .. Logged(at, s) :
    \E j \in 0 .. (n - 1) :
      /\ b[j].pid = s[k] /\ b[j].layer = k - 1
      /\ \A i \in (j + 1) .. (n - 1) : b[i].layer > k - 1

\* What lies ahead of the walk has no entry.
AheadOK(t, at, s, n, b) ==
  /\ \A k \in 1 .. (Len(s) - 1), p \in Tasks :
       Behind(t.children[s[k]], s[k + 1], p) => ~Rec(n, b, p)
  /\ at \in Writing => ~Rec(n, b, s[Len(s)])
  /\ at = "enter" => \A p \in Tasks \ {0} : Rec(n, b, p) => t.parent[p] # s[Len(s)]

\* What has no entry lies ahead or below what has none, unless a task on the path has
\* been released, which the walk will notice.
Ahead(t, at, s, p) ==
  \/ \E k \in 1 .. (Len(s) - 1) : t.parent[p] = s[k] /\ Behind(t.children[s[k]], s[k + 1], p)
  \/ at = "enter" /\ t.parent[p] = s[Len(s)]
  \/ at \in Writing /\ p = s[Len(s)]
CoverOK(t, S, at, s, n, b) ==
  (\A k \in 2 .. Len(s) : Linked(t, s[k])) =>
    \A p \in S \ {0} : Rec(n, b, p) \/ ~Rec(n, b, t.parent[p]) \/ Ahead(t, at, s, p)

\* All of it; the last three parts hold as long as there is room for another entry.
WalkOK(t, S, at, s, n, m, b) ==
  /\ PathOK(t, s) /\ EntriesOK(t, n, b) /\ ProgressOK(t, at, s, n, m, b)
  /\ n < m /\ at # "start" =>
       RecordOK(at, s, n, b) /\ AheadOK(t, at, s, n, b) /\ CoverOK(t, S, at, s, n, b)

\* The tasks S are on their lists, and with each of them its ancestors.
SteadyOK(t, S) ==
  /\ S \subseteq Tasks /\ Rooted(t, S)
  /\ \A p \in S : Linked(t, p) /\ (p # 0 => t.parent[p] \in S)

\* As long as no children have changed parent. A walk that was led astray is over.
PrintInv ==
  ~hist.moved =>
    /\ ListsMatch(tree) /\ SteadyOK(tree, hist.steady)
    /\ resident = Entries /\ walk.pc # "lost" =>
         WalkOK(tree, hist.steady, walk.pc, walk.path, walk.idx, walk.nr, buf)

\* The children of p, as their list has them.
ListOK(t, p) ==
  /\ \A i, j \in 1 .. Len(t.children[p]) : t.children[p][i] = t.children[p][j] => i = j
  /\ t.children[p] # <<>> => t.state[p] = "running"
  /\ \A i \in 1 .. Len(t.children[p]) :
       LET c == t.children[p][i] IN c # 0 /\ Linked(t, c) /\ t.parent[c] = p
  /\ \A c \in Tasks \ {0} : Linked(t, c) /\ t.parent[c] = p =>
       \E i \in 1 .. Len(t.children[p]) : t.children[p][i] = c

\* The lists of the model are right when each is.
LEMMA ListsAre ==
  ASSUME NEW t \in TreeType
  PROVE  ListsMatch(t) <=> /\ t.state[0] = "running" /\ t.state[1] = "running"
                             /\ \A p \in Tasks : ListOK(t, p)
<1>1. ASSUME NEW p \in Tasks
      PROVE  ListOK(t, p) <=>
               /\ IsInjective(t.children[p])
               /\ t.children[p] # <<>> => t.state[p] = "running"
               /\ \A c \in Tasks :
                    Contains(t.children[p], c) <=> c # 0 /\ Linked(t, c) /\ t.parent[c] = p
  <2> DEFINE q == t.children[p]
  <2>1. q \in Seq(Tasks)
    BY DEF TreeType
  <2>2. IsInjective(q) <=> \A i, j \in 1 .. Len(q) : q[i] = q[j] => i = j
    BY <2>1 DEF IsInjective
  <2>3. \A c \in Tasks : Contains(q, c) <=> \E i \in 1 .. Len(q) : q[i] = c
    BY DEF Contains
  <2>4. \A i \in 1 .. Len(q) : q[i] \in Tasks
    BY <2>1
  <2> HIDE DEF q
  <2>5. (\A c \in Tasks : Contains(q, c) <=> c # 0 /\ Linked(t, c) /\ t.parent[c] = p)
        <=> /\ \A i \in 1 .. Len(q) : q[i] # 0 /\ Linked(t, q[i]) /\ t.parent[q[i]] = p
            /\ \A c \in Tasks \ {0} : Linked(t, c) /\ t.parent[c] = p =>
                 \E i \in 1 .. Len(q) : q[i] = c
    BY <2>3, <2>4
  <2>6. ListOK(t, p) <=>
          /\ \A i, j \in 1 .. Len(q) : q[i] = q[j] => i = j
          /\ q # <<>> => t.state[p] = "running"
          /\ \A i \in 1 .. Len(q) : q[i] # 0 /\ Linked(t, q[i]) /\ t.parent[q[i]] = p
          /\ \A c \in Tasks \ {0} : Linked(t, c) /\ t.parent[c] = p =>
               \E i \in 1 .. Len(q) : q[i] = c
    BY DEF ListOK, q
  <2>7. ListOK(t, p) <=>
          /\ IsInjective(q)
          /\ q # <<>> => t.state[p] = "running"
          /\ \A c \in Tasks : Contains(q, c) <=> c # 0 /\ Linked(t, c) /\ t.parent[c] = p
    BY <2>2, <2>5, <2>6
  <2> QED BY <2>7 DEF q
<1> QED BY <1>1 DEF ListsMatch

\* The tree u follows t in a step that moves no children.
Evolves(t, u) ==
  /\ \A q \in Tasks : t.state[q] # "unused" =>
       /\ u.parent[q] = t.parent[q] /\ u.state[q] # "unused"
       /\ Linked(u, q) => Linked(t, q)
  /\ \A x, a, q \in Tasks : t.state[a] # "unused" /\ Behind(u.children[x], a, q) =>
       Behind(t.children[x], a, q) \/ t.state[q] = "unused"
  /\ \A x, a, q \in Tasks : Linked(u, a) /\ Linked(u, q) /\ Behind(t.children[x], a, q) =>
       Behind(u.children[x], a, q)

\* Forks and exits beside the walk leave what it has done and what it has before it.
LEMMA EvolvesKeeps ==
  ASSUME NEW t \in TreeType, NEW u \in TreeType, Evolves(t, u), t.state[0] = "running", 0 \in Tasks,
         NEW S, SteadyOK(t, S), NEW Z, Z \subseteq S, \A p \in Z : Linked(u, p),
         NEW s \in Seq(Tasks), Len(s) >= 1, NEW n \in Nat, NEW m \in Nat, NEW b, NEW at,
         WalkOK(t, S, at, s, n, m, b)
  PROVE  WalkOK(u, Z, at, s, n, m, b)
<1>1. \A k \in 1 .. Len(s) : s[k] \in Tasks /\ t.state[s[k]] # "unused"
  <2> SUFFICES ASSUME NEW k \in 1 .. Len(s)
               PROVE  t.state[s[k]] # "unused"
    OBVIOUS
  <2>1. CASE k = 1
    BY <2>1 DEF WalkOK, PathOK
  <2>2. CASE k # 1
    <3>1. k - 1 \in 1 .. (Len(s) - 1) /\ (k - 1) + 1 = k
      BY <2>2
    <3> QED BY <3>1 DEF WalkOK, PathOK
  <2> QED BY <2>1, <2>2
<1>2. \A q \in Tasks : t.state[q] # "unused" =>
        u.parent[q] = t.parent[q] /\ u.state[q] # "unused" /\ (Linked(u, q) => Linked(t, q))
  BY DEF Evolves
<1>3. PathOK(u, s)
  <2>1. s[1] = 0
    BY DEF WalkOK, PathOK
  <2>2. ASSUME NEW k \in 1 .. (Len(s) - 1)
        PROVE  s[k + 1] # 0 /\ u.parent[s[k + 1]] = s[k] /\ u.state[s[k + 1]] # "unused"
    <3>1. s[k + 1] # 0 /\ t.parent[s[k + 1]] = s[k] /\ t.state[s[k + 1]] # "unused"
      BY DEF WalkOK, PathOK
    <3>2. k + 1 \in 1 .. Len(s)
      OBVIOUS
    <3> QED BY <1>1, <1>2, <3>1, <3>2
  <2> QED BY <2>1, <2>2 DEF PathOK
<1>4. \A i \in 0 .. (n - 1) : EntryOK(t, b, i)
  BY DEF WalkOK, EntriesOK
<1>5. EntriesOK(u, n, b)
  <2>1. ASSUME NEW i \in 0 .. (n - 1)
        PROVE  EntryOK(u, b, i)
    BY <1>2, <1>4 DEF EntryOK
  <2> QED BY <2>1 DEF WalkOK, EntriesOK
<1>6. s[Len(s)] \in Tasks /\ u.parent[s[Len(s)]] = t.parent[s[Len(s)]]
  BY <1>1, <1>2
<1>7. ProgressOK(u, at, s, n, m, b)
  BY <1>6 DEF WalkOK, ProgressOK
<1>8. \A q \in Tasks : Rec(n, b, q) => t.state[q] # "unused"
  BY <1>4 DEF Rec, EntryOK
<1>9. ASSUME n < m, at # "start"
      PROVE  RecordOK(at, s, n, b) /\ AheadOK(u, at, s, n, b) /\ CoverOK(u, Z, at, s, n, b)
  <2>1. RecordOK(at, s, n, b) /\ AheadOK(t, at, s, n, b) /\ CoverOK(t, S, at, s, n, b)
    BY <1>9 DEF WalkOK
  <2>2. ASSUME NEW k \in 1 .. (Len(s) - 1), NEW p \in Tasks, Behind(u.children[s[k]], s[k + 1], p)
        PROVE  ~Rec(n, b, p)
    <3>1. k \in 1 .. Len(s) /\ k + 1 \in 1 .. Len(s)
      OBVIOUS
    <3>2. s[k] \in Tasks /\ s[k + 1] \in Tasks /\ t.state[s[k + 1]] # "unused"
      BY <1>1, <3>1
    <3>3. Behind(t.children[s[k]], s[k + 1], p) \/ t.state[p] = "unused"
      BY <2>2, <3>2 DEF Evolves
    <3> QED BY <1>8, <2>1, <3>3 DEF AheadOK
  <2>3. at = "enter" => \A p \in Tasks \ {0} : Rec(n, b, p) => u.parent[p] # s[Len(s)]
    BY <1>2, <1>8, <2>1 DEF AheadOK
  <2>4. AheadOK(u, at, s, n, b)
    BY <2>1, <2>2, <2>3 DEF AheadOK
  <2>5. ASSUME \A k \in 2 .. Len(s) : Linked(u, s[k]), NEW p \in Z \ {0}
        PROVE  Rec(n, b, p) \/ ~Rec(n, b, u.parent[p]) \/ Ahead(u, at, s, p)
    <3>1. p \in S \ {0} /\ p \in Tasks /\ Linked(t, p) /\ Linked(u, p)
      BY DEF SteadyOK
    <3>2. u.parent[p] = t.parent[p]
      BY <1>2, <3>1 DEF Linked
    <3>3. ASSUME NEW k \in 2 .. Len(s) PROVE Linked(t, s[k])
      BY <1>1, <1>2, <2>5
    <3>4. Rec(n, b, p) \/ ~Rec(n, b, t.parent[p]) \/ Ahead(t, at, s, p)
      BY <2>1, <3>1, <3>3 DEF CoverOK
    <3>5. ASSUME NEW k \in 1 .. (Len(s) - 1), t.parent[p] = s[k],
                 Behind(t.children[s[k]], s[k + 1], p)
          PROVE  Behind(u.children[s[k]], s[k + 1], p)
      <4>1. k \in 1 .. Len(s) /\ k + 1 \in 2 .. Len(s)
        OBVIOUS
      <4>2. s[k] \in Tasks /\ s[k + 1] \in Tasks /\ Linked(u, s[k + 1])
        BY <1>1, <2>5, <4>1
      <4> QED BY <3>1, <3>5, <4>2 DEF Evolves
    <3> QED BY <3>2, <3>4, <3>5 DEF Ahead
  <2>6. CoverOK(u, Z, at, s, n, b)
    BY <2>5 DEF CoverOK
  <2> QED BY <2>1, <2>4, <2>6
<1> QED BY <1>3, <1>5, <1>7, <1>9 DEF WalkOK

\* The tasks that are there from the beginning stay a tree.
LEMMA SteadyKept ==
  ASSUME NEW t, NEW u, NEW S, SteadyOK(t, S), NEW Z, Z \subseteq S,
         \A p \in Z : Linked(u, p) /\ u.parent[p] = t.parent[p],
         \A p \in Z : p # 0 => t.parent[p] \in Z
  PROVE  SteadyOK(u, Z)
<1>1. Rooted(u, Z)
  <2> SUFFICES ASSUME NEW U \in SUBSET Z, U # {}
               PROVE  0 \in U \/ \E p \in U : u.parent[p] \notin U
    BY DEF Rooted
  <2>1. 0 \in U \/ \E p \in U : t.parent[p] \notin U
    BY DEF SteadyOK, Rooted
  <2> QED BY <2>1
<1> QED BY <1>1 DEF SteadyOK

\* A fork adds a task that the walk does not know, at the end of a list.
LEMMA ForkEvolves ==
  ASSUME NEW t \in TreeType, NEW u \in TreeType, ListsMatch(t), NEW S, SteadyOK(t, S),
         0 \in Tasks, 1 \in Tasks, NEW p \in Tasks, NEW c \in Tasks,
         t.state[p] = "running", t.state[c] = "unused",
         u.state = [t.state EXCEPT ![c] = "running"], u.parent = [t.parent EXCEPT ![c] = p],
         u.children = [t.children EXCEPT ![p] = Append(t.children[p], c)]
  PROVE  Evolves(t, u) /\ ListsMatch(u) /\ SteadyOK(u, S)
<1>0. /\ t.state[0] = "running" /\ t.state[1] = "running"
      /\ \A x \in Tasks : ListOK(t, x)
  BY ListsAre
<1>1. /\ \A x \in Tasks : t.children[x] \in Seq(Tasks) /\ u.children[x] \in Seq(Tasks)
      /\ \A q \in Tasks \ {c} : u.state[q] = t.state[q] /\ u.parent[q] = t.parent[q]
      /\ u.state[c] = "running" /\ u.parent[c] = p
      /\ \A x \in Tasks \ {p} : u.children[x] = t.children[x]
      /\ u.children[p] = Append(t.children[p], c)
  BY DEF TreeType
<1>2. /\ Len(u.children[p]) = Len(t.children[p]) + 1 /\ u.children[p][Len(t.children[p]) + 1] = c
      /\ \A i \in 1 .. Len(t.children[p]) : u.children[p][i] = t.children[p][i]
  BY <1>1, AppendIs
<1> DEFINE a0 == t.children[p]
           a1 == u.children[p]
<1>3. \A q \in Tasks : t.state[q] # "unused" =>
        /\ u.parent[q] = t.parent[q] /\ u.state[q] # "unused"
        /\ Linked(u, q) => Linked(t, q)
  BY <1>1 DEF Linked
<1>4. \A x \in Tasks : \A i \in 1 .. Len(t.children[x]) : t.children[x][i] # c
  BY <1>0 DEF ListOK, Linked
<1>5. ASSUME NEW x \in Tasks, NEW a \in Tasks, NEW q \in Tasks,
             t.state[a] # "unused", Behind(u.children[x], a, q)
      PROVE  Behind(t.children[x], a, q) \/ t.state[q] = "unused"
  <2>1. CASE x # p
    BY <1>1, <1>5, <2>1
  <2>2. CASE x = p
    <3>1. PICK i, j \in 1 .. Len(a1) : i < j /\ a1[i] = a /\ a1[j] = q
      BY <1>5, <2>2 DEF Behind
    <3>2. Len(a0) \in Nat
      BY <1>1
    <3>3. i \in 1 .. Len(a0) /\ a0[i] = a
      BY <1>2, <3>1, <3>2
    <3>4. CASE j = Len(a0) + 1
      BY <1>2, <3>1, <3>4
    <3>5. CASE j # Len(a0) + 1
      <4>1. j \in 1 .. Len(a0) /\ a0[j] = q
        BY <1>2, <3>1, <3>2, <3>5
      <4> QED BY <2>2, <3>1, <3>3, <4>1 DEF Behind
    <3> QED BY <3>4, <3>5
  <2> QED BY <2>1, <2>2
<1>6. ASSUME NEW x \in Tasks, NEW a \in Tasks, NEW q \in Tasks, Behind(t.children[x], a, q)
      PROVE  Behind(u.children[x], a, q)
  <2>1. CASE x # p
    BY <1>1, <1>6, <2>1
  <2>2. CASE x = p
    <3>1. PICK i, j \in 1 .. Len(a0) : i < j /\ a0[i] = a /\ a0[j] = q
      BY <1>6, <2>2 DEF Behind
    <3>2. Len(a0) \in Nat
      BY <1>1
    <3>3. i \in 1 .. Len(a1) /\ j \in 1 .. Len(a1) /\ a1[i] = a /\ a1[j] = q
      BY <1>2, <3>1, <3>2
    <3> QED BY <2>2, <3>1, <3>3 DEF Behind
  <2> QED BY <2>1, <2>2
<1>7. Evolves(t, u)
  BY <1>3, <1>5, <1>6 DEF Evolves
<1>8. ASSUME NEW x \in Tasks
      PROVE  ListOK(u, x)
  <2>1. CASE x # p
    <3> DEFINE q == t.children[x]
    <3>1. u.children[x] = q /\ \A i, j \in 1 .. Len(q) : q[i] = q[j] => i = j
      BY <1>0, <1>1, <2>1 DEF ListOK
    <3>2. \A i \in 1 .. Len(q) : q[i] # 0 /\ Linked(u, q[i]) /\ u.parent[q[i]] = x
      BY <1>0, <1>1, <1>4 DEF ListOK, Linked
    <3>3. \A d \in Tasks \ {0} : Linked(u, d) /\ u.parent[d] = x =>
            \E i \in 1 .. Len(q) : q[i] = d
      BY <1>0, <1>1, <2>1 DEF ListOK, Linked
    <3>4. q # <<>> => u.state[x] = "running"
      BY <1>0, <1>1 DEF ListOK
    <3> HIDE DEF q
    <3> QED BY <3>1, <3>2, <3>3, <3>4 DEF ListOK
  <2>2. CASE x = p
    <3>0. Len(a0) \in Nat /\ ListOK(t, p)
      BY <1>0, <1>1
    <3>1. \A i, j \in 1 .. Len(a1) : a1[i] = a1[j] => i = j
      <4>1. \A i, j \in 1 .. Len(a0) : a0[i] = a0[j] => i = j
        BY <3>0 DEF ListOK
      <4>2. \A i \in 1 .. Len(a1) : i \in 1 .. Len(a0) \/ i = Len(a0) + 1
        BY <1>2, <3>0
      <4> HIDE DEF a0, a1
      <4>3. \A i \in 1 .. Len(a0) : a0[i] # c /\ a1[i] = a0[i]
        BY <1>2, <1>4 DEF a0, a1
      <4>4. a1[Len(a0) + 1] = c
        BY <1>2 DEF a0, a1
      <4> QED BY <4>1, <4>2, <4>3, <4>4
    <3>2. \A i \in 1 .. Len(a1) : a1[i] # 0 /\ Linked(u, a1[i]) /\ u.parent[a1[i]] = p
      <4> SUFFICES ASSUME NEW i \in 1 .. Len(a1)
                   PROVE  a1[i] # 0 /\ Linked(u, a1[i]) /\ u.parent[a1[i]] = p
        OBVIOUS
      <4>1. CASE i = Len(a0) + 1
        BY <1>0, <1>1, <1>2, <4>1 DEF Linked
      <4>2. CASE i # Len(a0) + 1
        <5>1. i \in 1 .. Len(a0) /\ a1[i] = a0[i]
          BY <1>2, <3>0, <4>2
        <5>2. a0[i] # 0 /\ Linked(t, a0[i]) /\ t.parent[a0[i]] = p /\ a0[i] # c /\ a0[i] \in Tasks
          BY <1>1, <1>4, <3>0, <5>1 DEF ListOK
        <5> QED BY <1>1, <5>1, <5>2 DEF Linked
      <4> QED BY <4>1, <4>2
    <3>3. \A d \in Tasks \ {0} : Linked(u, d) /\ u.parent[d] = p =>
            \E i \in 1 .. Len(a1) : a1[i] = d
      <4> SUFFICES ASSUME NEW d \in Tasks \ {0}, Linked(u, d), u.parent[d] = p
                   PROVE  \E i \in 1 .. Len(a1) : a1[i] = d
        OBVIOUS
      <4>1. CASE d = c
        <5>1. Len(a0) + 1 \in 1 .. Len(a1)
          BY <1>2, <3>0
        <5> QED BY <1>2, <4>1, <5>1
      <4>2. CASE d # c
        <5>1. PICK i \in 1 .. Len(a0) : a0[i] = d
          BY <1>1, <3>0, <4>2 DEF ListOK, Linked
        <5>2. i \in 1 .. Len(a1) /\ a1[i] = d
          BY <1>2, <3>0, <5>1
        <5> QED BY <5>2
      <4> QED BY <4>1, <4>2
    <3>4. u.state[p] = "running"
      BY <1>1
    <3> HIDE DEF a0
    <3>5. ListOK(u, p)
      BY <3>1, <3>2, <3>3, <3>4 DEF ListOK
    <3> QED BY <2>2, <3>5
  <2> QED BY <2>1, <2>2
<1>9. ListsMatch(u)
  <2>1. u.state[0] = "running" /\ u.state[1] = "running"
    BY <1>0, <1>1
  <2> QED BY <1>8, <2>1, ListsAre
<1>10. SteadyOK(u, S)
  <2>1. \A q \in S : q \in Tasks /\ Linked(t, q) /\ q # c /\ (q # 0 => t.parent[q] \in S)
    BY DEF SteadyOK, Linked
  <2>2. \A q \in S : Linked(u, q) /\ u.parent[q] = t.parent[q]
    BY <1>1, <2>1 DEF Linked
  <2> QED BY <2>1, <2>2, SteadyKept
<1> QED BY <1>7, <1>9, <1>10

\* A task without children becomes a zombie: the lists stay.
LEMMA ExitEvolves ==
  ASSUME NEW t \in TreeType, NEW u \in TreeType, ListsMatch(t), NEW S, SteadyOK(t, S),
         0 \in Tasks, 1 \in Tasks, NEW p \in Tasks, p # 0, p # 1,
         t.state[p] = "running", t.children[p] = <<>>,
         u.state = [t.state EXCEPT ![p] = "zombie"],
         u.parent = t.parent, u.children = t.children
  PROVE  Evolves(t, u) /\ ListsMatch(u) /\ SteadyOK(u, S)
<1>0. /\ t.state[0] = "running" /\ t.state[1] = "running"
      /\ \A x \in Tasks : ListOK(t, x)
  BY ListsAre
<1>1. u.state[p] = "zombie" /\ \A q \in Tasks \ {p} : u.state[q] = t.state[q]
  BY DEF TreeType
<1>2. \A q \in Tasks : /\ Linked(u, q) <=> Linked(t, q)
                       /\ t.state[q] # "unused" => u.state[q] # "unused"
  BY <1>1 DEF Linked
<1>3. Evolves(t, u)
  BY <1>2 DEF Evolves
<1>4. ASSUME NEW x \in Tasks
      PROVE  ListOK(u, x)
  <2> DEFINE q == t.children[x]
  <2>1. /\ q \in Seq(Tasks) /\ u.children[x] = q
        /\ \A i, j \in 1 .. Len(q) : q[i] = q[j] => i = j
    BY <1>0 DEF ListOK, TreeType
  <2>2. \A i \in 1 .. Len(q) : q[i] # 0 /\ Linked(t, q[i]) /\ t.parent[q[i]] = x
    BY <1>0 DEF ListOK
  <2>3. \A d \in Tasks \ {0} : Linked(t, d) /\ t.parent[d] = x =>
          \E i \in 1 .. Len(q) : q[i] = d
    BY <1>0 DEF ListOK
  <2>4. q # <<>> => u.state[x] = "running"
    BY <1>0, <1>1 DEF ListOK
  <2> HIDE DEF q
  <2>5. \A i \in 1 .. Len(q) : q[i] # 0 /\ Linked(u, q[i]) /\ u.parent[q[i]] = x
    BY <1>2, <2>1, <2>2
  <2>6. \A d \in Tasks \ {0} : Linked(u, d) /\ u.parent[d] = x =>
          \E i \in 1 .. Len(q) : q[i] = d
    BY <1>2, <2>3
  <2> QED BY <2>1, <2>4, <2>5, <2>6 DEF ListOK
<1>5. ListsMatch(u)
  BY <1>0, <1>1, <1>4, ListsAre
<1>6. SteadyOK(u, S)
  <2>1. \A q \in S : q \in Tasks /\ Linked(t, q) /\ (q # 0 => t.parent[q] \in S)
    BY DEF SteadyOK
  <2>2. \A q \in S : Linked(u, q) /\ u.parent[q] = t.parent[q]
    BY <1>2, <2>1
  <2> QED BY <2>1, <2>2, SteadyKept
<1> QED BY <1>3, <1>5, <1>6

\* A zombie leaves its parent's list; it has no children of its own.
LEMMA ReleaseEvolves ==
  ASSUME NEW t \in TreeType, NEW u \in TreeType, ListsMatch(t), NEW S, SteadyOK(t, S),
         0 \in Tasks, 1 \in Tasks, NEW p \in Tasks, t.state[p] = "zombie",
         NEW y \in Tasks, y = t.parent[p],
         u.state = [t.state EXCEPT ![p] = "reaped"], u.parent = t.parent,
         u.children = [t.children EXCEPT ![y] = RemoveFirst(t.children[y], p)]
  PROVE  Evolves(t, u) /\ ListsMatch(u) /\ SteadyOK(u, S \ {p})
<1>0. /\ t.state[0] = "running" /\ t.state[1] = "running"
      /\ \A x \in Tasks : ListOK(t, x)
  BY ListsAre
<1> DEFINE a == t.children[y]
           d == u.children[y]
<1>1. /\ u.state[p] = "reaped" /\ \A q \in Tasks \ {p} : u.state[q] = t.state[q]
      /\ \A x \in Tasks \ {y} : u.children[x] = t.children[x]
      /\ d = RemoveFirst(a, p) /\ a \in Seq(Tasks)
  BY DEF TreeType
<1>2. \E o \in 1 .. Len(a) : a[o] = p
  <2>1. ListOK(t, y) /\ Linked(t, p) /\ p # 0
    BY <1>0 DEF Linked
  <2> QED BY <2>1 DEF ListOK
<1>3. PICK k \in 1 .. Len(a) :
        /\ a[k] = p /\ d \in Seq(Tasks) /\ Len(d) = Len(a) - 1
        /\ \A i \in 1 .. (Len(a) - 1) : d[i] = IF i < k THEN a[i] ELSE a[i + 1]
  <2> HIDE DEF a, d
  <2>1. PICK o \in 1 .. Len(a) : a[o] = p
    BY <1>2 DEF a
  <2>2. a \in Seq(Tasks) /\ d = RemoveFirst(a, p)
    BY <1>1
  <2>3. \E k \in 1 .. Len(a) : Without(d, a, p, k)
    BY <2>1, <2>2, RemoveIs
  <2> QED BY <2>3, Zenon DEF Without
<1>4. Len(a) \in Nat /\ k \in Nat /\ \A i, j \in 1 .. Len(a) : a[i] = a[j] => i = j
  BY <1>0, <1>1 DEF ListOK
<1>5. \A q \in Tasks : /\ Linked(u, q) <=> Linked(t, q) /\ q # p
                       /\ t.state[q] # "unused" => u.state[q] # "unused"
  BY <1>1 DEF Linked
\* Each place of the new list is one of the old, in the same order, and back.
<1> DEFINE up(i) == IF i < k THEN i ELSE i + 1
           dn(i) == IF i < k THEN i ELSE i - 1
<1>6. \A i \in 1 .. Len(d) : up(i) \in 1 .. Len(a) /\ up(i) # k /\ d[i] = a[up(i)]
  <2> SUFFICES ASSUME NEW i \in 1 .. Len(d)
               PROVE  up(i) \in 1 .. Len(a) /\ up(i) # k /\ d[i] = a[up(i)]
    OBVIOUS
  <2>1. i \in 1 .. (Len(a) - 1)
    BY <1>3
  <2>2. d[i] = IF i < k THEN a[i] ELSE a[i + 1]
    BY <1>3, <2>1
  <2>3. CASE i < k
    BY <1>4, <2>1, <2>2, <2>3
  <2>4. CASE ~(i < k)
    BY <1>4, <2>1, <2>2, <2>4
  <2> QED BY <2>3, <2>4
<1>7. \A i \in 1 .. Len(a) : i # k => dn(i) \in 1 .. Len(d) /\ up(dn(i)) = i
  BY <1>3, <1>4
<1>8. \A i, j \in Nat : i < j => up(i) < up(j)
  BY <1>4
<1>9. \A i, j \in Nat : i < j /\ i # k /\ j # k => dn(i) < dn(j)
  BY <1>4
<1> HIDE DEF a, d, up, dn
<1>10. \A x, b, q \in Tasks : Behind(u.children[x], b, q) => Behind(t.children[x], b, q)
  <2> SUFFICES ASSUME NEW x \in Tasks, NEW b \in Tasks, NEW q \in Tasks, Behind(u.children[x], b, q)
               PROVE  Behind(t.children[x], b, q)
    OBVIOUS
  <2>1. CASE x # y
    BY <1>1, <2>1
  <2>2. CASE x = y
    <3>1. PICK i, j \in 1 .. Len(d) : i < j /\ d[i] = b /\ d[j] = q
      BY <2>2 DEF Behind, d
    <3>2. i \in Nat /\ j \in Nat
      BY <1>3
    <3>3. up(i) \in 1 .. Len(a) /\ up(j) \in 1 .. Len(a) /\ up(i) < up(j) /\ a[up(i)] = b /\ a[up(j)] = q
      BY <1>6, <1>8, <3>1, <3>2
    <3>4. Behind(a, b, q)
      BY <3>3 DEF Behind
    <3> QED BY <2>2, <3>4 DEF a
  <2> QED BY <2>1, <2>2
<1>11. ASSUME NEW x \in Tasks, NEW b \in Tasks, NEW q \in Tasks,
              b # p, q # p, Behind(t.children[x], b, q)
       PROVE  Behind(u.children[x], b, q)
  <2>1. CASE x # y
    BY <1>1, <1>11, <2>1
  <2>2. CASE x = y
    <3>1. PICK i, j \in 1 .. Len(a) : i < j /\ a[i] = b /\ a[j] = q
      BY <1>11, <2>2 DEF Behind, a
    <3>2. i \in Nat /\ j \in Nat /\ i # k /\ j # k
      BY <1>3, <1>4, <1>11, <3>1
    <3>3. /\ dn(i) \in 1 .. Len(d) /\ dn(j) \in 1 .. Len(d) /\ dn(i) < dn(j)
          /\ up(dn(i)) = i /\ up(dn(j)) = j
      BY <1>7, <1>9, <3>1, <3>2
    <3>4. d[dn(i)] = b /\ d[dn(j)] = q
      BY <1>6, <3>1, <3>3
    <3>5. Behind(d, b, q)
      BY <3>3, <3>4 DEF Behind
    <3> QED BY <2>2, <3>5 DEF d
  <2> QED BY <2>1, <2>2
<1>12. Evolves(t, u)
  BY <1>5, <1>10, <1>11 DEF Evolves
<1>13. ASSUME NEW x \in Tasks
       PROVE  ListOK(u, x)
  <2> DEFINE q == t.children[x]
  <2>1. /\ q \in Seq(Tasks) /\ \A i, j \in 1 .. Len(q) : q[i] = q[j] => i = j
        /\ \A i \in 1 .. Len(q) : q[i] # 0 /\ Linked(t, q[i]) /\ t.parent[q[i]] = x
        /\ \A c \in Tasks \ {0} : Linked(t, c) /\ t.parent[c] = x =>
             \E i \in 1 .. Len(q) : q[i] = c
        /\ q # <<>> => t.state[x] = "running"
    BY <1>0 DEF ListOK, TreeType
  <2>2. CASE x # y
    <3>1. u.children[x] = q
      BY <1>1, <2>2
    <3> HIDE DEF q
    <3>2. q # <<>> => u.state[x] = "running"
      BY <1>1, <2>1
    <3>3. \A i \in 1 .. Len(q) : q[i] # 0 /\ Linked(u, q[i]) /\ u.parent[q[i]] = x
      BY <1>5, <2>1, <2>2
    <3>4. \A c \in Tasks \ {0} : Linked(u, c) /\ u.parent[c] = x =>
            \E i \in 1 .. Len(q) : q[i] = c
      BY <1>5, <2>1
    <3> QED BY <2>1, <3>1, <3>2, <3>3, <3>4 DEF ListOK
  <2>3. CASE x = y
    <3>1. q = a
      BY <2>3 DEF a
    <3> HIDE DEF q
    <3>2. \A i, j \in 1 .. Len(d) : d[i] = d[j] => i = j
      <4> SUFFICES ASSUME NEW i \in 1 .. Len(d), NEW j \in 1 .. Len(d), d[i] = d[j]
                   PROVE  i = j
        OBVIOUS
      <4>1. up(i) = up(j)
        BY <1>4, <1>6
      <4>2. i \in Nat /\ j \in Nat
        BY <1>3
      <4> QED BY <1>4, <4>1, <4>2 DEF up
    <3>3. \A i \in 1 .. Len(d) : d[i] # 0 /\ Linked(u, d[i]) /\ u.parent[d[i]] = y
      <4> SUFFICES ASSUME NEW i \in 1 .. Len(d)
                   PROVE  d[i] # 0 /\ Linked(u, d[i]) /\ u.parent[d[i]] = y
        OBVIOUS
      <4>1. up(i) \in 1 .. Len(a) /\ up(i) # k /\ d[i] = a[up(i)]
        BY <1>6
      <4>2. d[i] # p /\ d[i] \in Tasks
        BY <1>3, <1>4, <4>1
      <4>3. d[i] # 0 /\ Linked(t, d[i]) /\ t.parent[d[i]] = y
        BY <2>1, <2>3, <3>1, <4>1
      <4> QED BY <1>5, <4>2, <4>3
    <3>4. \A c \in Tasks \ {0} : Linked(u, c) /\ u.parent[c] = y =>
            \E i \in 1 .. Len(d) : d[i] = c
      <4> SUFFICES ASSUME NEW c \in Tasks \ {0}, Linked(u, c), u.parent[c] = y
                   PROVE  \E i \in 1 .. Len(d) : d[i] = c
        OBVIOUS
      <4>1. PICK i \in 1 .. Len(a) : a[i] = c
        BY <1>5, <2>1, <2>3, <3>1
      <4>2. i # k
        BY <1>3, <1>5, <4>1
      <4>3. dn(i) \in 1 .. Len(d) /\ d[dn(i)] = c
        BY <1>6, <1>7, <4>1, <4>2
      <4> QED BY <4>3
    <3>5. u.state[y] = "running"
      <4>1. a # <<>>
        BY <1>3
      <4> QED BY <1>1, <2>1, <2>3, <3>1, <4>1
    <3>6. ListOK(u, y)
      BY <3>2, <3>3, <3>4, <3>5 DEF ListOK, d
    <3> QED BY <2>3, <3>6
  <2> QED BY <2>2, <2>3
<1>14. ListsMatch(u)
  BY <1>0, <1>1, <1>13, ListsAre
<1>15. SteadyOK(u, S \ {p})
  <2>1. \A q \in S : q \in Tasks /\ Linked(t, q) /\ (q # 0 => t.parent[q] \in S)
    BY DEF SteadyOK
  <2>2. \A q \in S \ {p} : Linked(u, q) /\ u.parent[q] = t.parent[q]
    BY <1>5, <2>1
  <2>3. ASSUME NEW q \in S \ {p}, q # 0
        PROVE  t.parent[q] \in S \ {p}
    <3>1. q \in Tasks /\ Linked(t, q) /\ ListOK(t, p) /\ t.children[p] \in Seq(Tasks)
      BY <1>0, <2>1 DEF TreeType
    <3>2. t.parent[q] # p
      <4> SUFFICES ASSUME t.parent[q] = p PROVE FALSE
        OBVIOUS
      <4>1. PICK i \in 1 .. Len(t.children[p]) : t.children[p][i] = q
        BY <2>3, <3>1 DEF ListOK
      <4>2. t.children[p] # <<>>
        BY <3>1, <4>1
      <4> QED BY <3>1, <4>2 DEF ListOK
    <3> QED BY <2>1, <2>3, <3>2
  <2> QED BY <2>2, <2>3, SteadyKept
<1> QED BY <1>12, <1>14, <1>15

-----------------------------------------------------------------------------
(* The steps of the walk. *)

\* What the steps of the walk are taken in: a tree whose lists are right.
Sound(t, S, s, n, m) ==
  /\ t \in TreeType /\ ListsMatch(t) /\ SteadyOK(t, S) /\ 0 \in Tasks
  /\ s \in Seq(Tasks) /\ Len(s) >= 1 /\ n \in Nat /\ m \in Nat /\ n <= m

\* Its parts, with the types that follow.
LEMMA SoundParts ==
  ASSUME NEW t, NEW S, NEW s, NEW n, NEW m, Sound(t, S, s, n, m)
  PROVE  /\ \A p \in Tasks : /\ ListOK(t, p) /\ t.parent[p] \in Tasks
                             /\ t.children[p] \in Seq(Tasks)
         /\ \A k \in 1 .. Len(s) : s[k] \in Tasks
         /\ Len(s) \in Nat \ {0} /\ s \in Seq(Tasks) /\ n \in Nat /\ m \in Nat /\ n <= m /\ 0 \in Tasks
         /\ t.state[0] = "running"
         /\ \A p \in S : p \in Tasks /\ Linked(t, p)
<1>1. t \in TreeType /\ \A p \in Tasks : ListOK(t, p)
  BY ListsAre DEF Sound
<1>2. \A p \in Tasks : t.parent[p] \in Tasks /\ t.children[p] \in Seq(Tasks)
  BY <1>1 DEF TreeType
<1>3. t.state[0] = "running"
  BY <1>1, ListsAre DEF Sound
<1>4. s \in Seq(Tasks) /\ Len(s) >= 1 /\ n \in Nat /\ m \in Nat /\ n <= m /\ 0 \in Tasks
  BY DEF Sound
<1>5. \A p \in S : p \in Tasks /\ Linked(t, p)
  BY DEF Sound, SteadyOK
<1> QED BY <1>1, <1>2, <1>3, <1>4, <1>5

\* What is behind a child on its list is another child of the same parent.
LEMMA BehindIs ==
  ASSUME NEW t, NEW y \in Tasks, ListOK(t, y)
  PROVE  \A a, p \in Tasks : Behind(t.children[y], a, p) =>
           p \in Tasks \ {0} /\ Linked(t, p) /\ t.parent[p] = y /\ p # a
<1> SUFFICES ASSUME NEW a \in Tasks, NEW p \in Tasks, Behind(t.children[y], a, p)
             PROVE  p # 0 /\ Linked(t, p) /\ t.parent[p] = y /\ p # a
  OBVIOUS
<1> DEFINE q == t.children[y]
<1>1. PICK i, j \in 1 .. Len(q) : i < j /\ q[i] = a /\ q[j] = p
  BY DEF Behind
<1>2. q[j] # 0 /\ Linked(t, q[j]) /\ t.parent[q[j]] = y
  BY <1>1 DEF ListOK
<1>3. q[i] # q[j]
  BY <1>1 DEF ListOK
<1> QED BY <1>1, <1>2, <1>3

\* Complete entries are not written again.
LEMMA SameBelow ==
  ASSUME NEW n \in Nat, NEW b, NEW d, \A i \in 0 .. (n - 1) : d[i] = b[i]
  PROVE  /\ \A t : EntriesOK(t, n, b) => EntriesOK(t, n, d)
         /\ \A at, s : RecordOK(at, s, n, b) => RecordOK(at, s, n, d)
         /\ \A p : Rec(n, d, p) <=> Rec(n, b, p)
<1>1. \A p : Rec(n, d, p) <=> Rec(n, b, p)
  BY DEF Rec
<1>2. ASSUME NEW at, NEW s, RecordOK(at, s, n, b)
      PROVE  RecordOK(at, s, n, d)
  <2> SUFFICES ASSUME NEW k \in 1 .. Logged(at, s)
               PROVE  \E j \in 0 .. (n - 1) :
                        /\ d[j].pid = s[k] /\ d[j].layer = k - 1
                        /\ \A i \in (j + 1) .. (n - 1) : d[i].layer > k - 1
    BY DEF RecordOK
  <2>1. PICK j \in 0 .. (n - 1) :
          /\ b[j].pid = s[k] /\ b[j].layer = k - 1
          /\ \A i \in (j + 1) .. (n - 1) : b[i].layer > k - 1
    BY <1>2 DEF RecordOK
  <2>2. \A i \in (j + 1) .. (n - 1) : i \in 0 .. (n - 1)
    BY <2>1
  <2> QED BY <2>1, <2>2
<1>3. ASSUME NEW t, EntriesOK(t, n, b)
      PROVE  EntriesOK(t, n, d)
  <2>1. ASSUME NEW i \in 0 .. (n - 1)
        PROVE  EntryOK(t, d, i)
    <3>1. EntryOK(t, b, i) /\ d[i] = b[i]
      BY <1>3 DEF EntriesOK
    <3>2. ASSUME NEW j \in 0 .. (i - 1), Nested(b, i, j)
          PROVE  Nested(d, i, j)
      <4>1. j \in 0 .. (n - 1) /\ \A k \in (j + 1) .. (i - 1) : k \in 0 .. (n - 1)
        OBVIOUS
      <4> QED BY <3>1, <3>2, <4>1 DEF Nested
    <3> QED BY <3>1, <3>2 DEF EntryOK
  <2>2. n > 0 => 0 \in 0 .. (n - 1)
    OBVIOUS
  <2> QED BY <1>3, <2>1, <2>2 DEF EntriesOK
<1> QED BY <1>1, <1>2, <1>3

\* The parent of a task that has an entry has one.
LEMMA ParentRec ==
  ASSUME NEW t, NEW n \in Nat, NEW b, EntriesOK(t, n, b), NEW p, p # 0, Rec(n, b, p)
  PROVE  Rec(n, b, t.parent[p])
<1>1. PICK i \in 0 .. (n - 1) : b[i].pid = p
  BY DEF Rec
<1>2. i > 0
  BY <1>1 DEF EntriesOK
<1>3. b[i].parent_pid = t.parent[p] /\ \E j \in 0 .. (i - 1) : Nested(b, i, j)
  BY <1>1, <1>2 DEF EntriesOK, EntryOK
<1>4. PICK j \in 0 .. (i - 1) : Nested(b, i, j)
  BY <1>3
<1>5. b[j].pid = t.parent[p] /\ j \in 0 .. (n - 1)
  BY <1>3, <1>4 DEF Nested
<1> QED BY <1>5 DEF Rec

\* A step that only works on the entry under way.
LEMMA EntryWritten ==
  ASSUME NEW t, NEW S, NEW s, NEW n, NEW m, Sound(t, S, s, n, m), NEW b, NEW d,
         NEW at \in Writing, NEW to \in Writing \ {"ppid"}, WalkOK(t, S, at, s, n, m, b),
         \A i \in 0 .. (m - 1) : i # n => d[i] = b[i],
         d[n].comm = b[n].comm, d[n].pid = s[Len(s)], d[n].parent_pid = t.parent[s[Len(s)]]
  PROVE  WalkOK(t, S, to, s, n, m, d)
<1>0. n \in Nat /\ m \in Nat /\ n <= m
  BY SoundParts
<1>1. \A i \in 0 .. (n - 1) : d[i] = b[i]
  BY <1>0
<1>2. PathOK(t, s) /\ EntriesOK(t, n, d)
  BY <1>0, <1>1, SameBelow DEF WalkOK
<1>3. \A i \in n .. (m - 1) : d[i].comm = Unset
  BY <1>0 DEF WalkOK, ProgressOK, Writing
<1>4. ProgressOK(t, to, s, n, m, d)
  BY <1>3 DEF ProgressOK, Writing
<1>5. ASSUME n < m
      PROVE  RecordOK(to, s, n, d) /\ AheadOK(t, to, s, n, d) /\ CoverOK(t, S, to, s, n, d)
  <2>1. RecordOK(at, s, n, b) /\ AheadOK(t, at, s, n, b) /\ CoverOK(t, S, at, s, n, b)
    BY <1>5 DEF WalkOK, Writing
  <2>2. \A p : Rec(n, d, p) <=> Rec(n, b, p)
    BY <1>0, <1>1, SameBelow
  <2>3. RecordOK(to, s, n, d)
    <3>1. RecordOK(at, s, n, d)
      BY <1>0, <1>1, <2>1, SameBelow
    <3> QED BY <3>1 DEF RecordOK, Logged
  <2>4. at # "enter" /\ to # "enter"
    BY DEF Writing
  <2>5. AheadOK(t, to, s, n, d)
    BY <2>1, <2>2, <2>4 DEF AheadOK
  <2>6. CoverOK(t, S, to, s, n, d)
    BY <2>1, <2>2, <2>4 DEF CoverOK, Ahead
  <2> QED BY <2>3, <2>5, <2>6
<1> QED BY <1>2, <1>4, <1>5 DEF WalkOK

\* ptree() enters init_task.
LEMMA StartKeeps ==
  ASSUME NEW t, NEW S, NEW s, NEW m, Sound(t, S, s, 0, m), NEW b, NEW d, Len(s) = 1,
         WalkOK(t, S, "start", s, 0, m, b), 0 < m,
         \A i \in 0 .. (m - 1) : i # 0 => d[i] = b[i],
         d[0].pid = 0, d[0].comm = 0, d[0].layer = 0
  PROVE  WalkOK(t, S, "enter", s, 1, m, d)
<1>0. m \in Nat /\ 0 \in Tasks /\ t.state[0] = "running" /\ s[1] = 0
  BY SoundParts DEF WalkOK, PathOK
<1>1. PathOK(t, s)
  BY DEF WalkOK
<1>2. EntriesOK(t, 1, d)
  <2>1. \A i \in 0 .. (1 - 1) : i = 0
    OBVIOUS
  <2>2. EntryOK(t, d, 0)
    BY <1>0 DEF EntryOK
  <2> QED BY <2>1, <2>2 DEF EntriesOK
<1>3. ProgressOK(t, "enter", s, 1, m, d)
  BY <1>0 DEF WalkOK, ProgressOK
<1>4. \A p : Rec(1, d, p) <=> p = 0
  BY DEF Rec
<1>5. RecordOK("enter", s, 1, d)
  <2>1. \A k \in 1 .. Logged("enter", s) : k = 1
    BY DEF Logged, Writing
  <2>2. 0 \in 0 .. (1 - 1) /\ (0 + 1) .. (1 - 1) = {}
    OBVIOUS
  <2> QED BY <1>0, <2>1, <2>2 DEF RecordOK
<1>6. AheadOK(t, "enter", s, 1, d)
  BY <1>4 DEF AheadOK, Writing
<1>7. CoverOK(t, S, "enter", s, 1, d)
  BY <1>0, <1>4 DEF CoverOK, Ahead
<1> QED BY <1>1, <1>2, <1>3, <1>5, <1>6, <1>7 DEF WalkOK

\* The call for a task with children takes the first of them.
LEMMA EnterKeeps ==
  ASSUME NEW t, NEW S, NEW s, NEW n, NEW m, Sound(t, S, s, n, m), NEW b,
         WalkOK(t, S, "enter", s, n, m, b),
         NEW x, x = s[Len(s)], t.children[x] # <<>>,
         NEW u \in Seq(Tasks), Len(u) = Len(s) + 1,
         \A i \in 1 .. Len(s) : u[i] = s[i], u[Len(s) + 1] = t.children[x][1],
         NEW to, to = IF n < m THEN "ppid" ELSE "enter"
  PROVE  WalkOK(t, S, to, u, n, m, b)
<1> DEFINE N == Len(s)
           q == t.children[x]
           c == q[1]
<1>0. /\ \A p \in Tasks : ListOK(t, p)
      /\ \A k \in 1 .. N : s[k] \in Tasks
      /\ N \in Nat \ {0} /\ n \in Nat /\ m \in Nat
      /\ \A p \in S : p \in Tasks /\ Linked(t, p)
  BY SoundParts
<1>1. x \in Tasks /\ q \in Seq(Tasks)
  BY <1>0, SoundParts
<1>2. 1 \in 1 .. Len(q) /\ c \in Tasks
  BY <1>1
<1>3. c # 0 /\ Linked(t, c) /\ t.parent[c] = x
  BY <1>0, <1>1, <1>2 DEF ListOK
<1>4. \A k \in 1 .. (Len(u) - 1) : \/ k = N /\ u[k] = x /\ u[k + 1] = c
                                   \/ k \in 1 .. (N - 1) /\ u[k] = s[k] /\ u[k + 1] = s[k + 1]
  BY <1>0
<1>5. PathOK(t, u)
  <2>1. u[1] = 0
    BY <1>0 DEF WalkOK, PathOK
  <2>2. ASSUME NEW k \in 1 .. (Len(u) - 1)
        PROVE  u[k + 1] # 0 /\ t.parent[u[k + 1]] = u[k] /\ t.state[u[k + 1]] # "unused"
    <3>1. CASE k = N /\ u[k] = x /\ u[k + 1] = c
      BY <1>3, <3>1 DEF Linked
    <3>2. CASE k \in 1 .. (N - 1) /\ u[k] = s[k] /\ u[k + 1] = s[k + 1]
      BY <3>2 DEF WalkOK, PathOK
    <3> QED BY <1>4, <3>1, <3>2
  <2> QED BY <2>1, <2>2 DEF PathOK
<1>6. EntriesOK(t, n, b) /\ ProgressOK(t, to, u, n, m, b)
  BY DEF WalkOK, ProgressOK
<1>7. ASSUME n < m
      PROVE  RecordOK(to, u, n, b) /\ AheadOK(t, to, u, n, b) /\ CoverOK(t, S, to, u, n, b)
  <2>0. to = "ppid" /\ to \in Writing /\ to # "enter"
    BY <1>7 DEF Writing
  <2>1. RecordOK("enter", s, n, b) /\ AheadOK(t, "enter", s, n, b) /\ CoverOK(t, S, "enter", s, n, b)
    BY <1>7 DEF WalkOK
  <2>2. RecordOK(to, u, n, b)
    <3>1. Logged(to, u) = N /\ Logged("enter", s) = N
      BY <1>0, <2>0 DEF Logged, Writing
    <3>2. \A k \in 1 .. N : u[k] = s[k]
      OBVIOUS
    <3> QED BY <2>1, <3>1, <3>2 DEF RecordOK
  <2>3. \A p \in Tasks \ {0} : Rec(n, b, p) => t.parent[p] # x
    BY <2>1 DEF AheadOK
  <2>4. ~Rec(n, b, c)
    BY <1>2, <1>3, <2>3
  <2>5. ASSUME NEW k \in 1 .. (Len(u) - 1), NEW p \in Tasks, Behind(t.children[u[k]], u[k + 1], p)
        PROVE  ~Rec(n, b, p)
    <3>1. CASE k = N /\ u[k] = x /\ u[k + 1] = c
      <4>1. Behind(t.children[x], c, p)
        BY <2>5, <3>1
      <4>2. ListOK(t, x)
        BY <1>0, <1>1
      <4> HIDE DEF c, q
      <4>3. p \in Tasks \ {0} /\ t.parent[p] = x
        BY <1>1, <1>2, <4>1, <4>2, BehindIs
      <4> QED BY <2>3, <4>3
    <3>2. CASE k \in 1 .. (N - 1) /\ u[k] = s[k] /\ u[k + 1] = s[k + 1]
      BY <2>1, <2>5, <3>2 DEF AheadOK
    <3> QED BY <1>4, <3>1, <3>2
  <2>6. u[Len(u)] = c
    OBVIOUS
  <2>7. AheadOK(t, to, u, n, b)
    BY <2>0, <2>4, <2>5, <2>6 DEF AheadOK
  <2>8. ASSUME \A k \in 2 .. Len(u) : Linked(t, u[k]), NEW p \in S \ {0}
        PROVE  Rec(n, b, p) \/ ~Rec(n, b, t.parent[p]) \/ Ahead(t, to, u, p)
    <3>1. ASSUME NEW k \in 2 .. N PROVE Linked(t, s[k])
      <4>1. k \in 2 .. Len(u) /\ u[k] = s[k]
        BY <1>0
      <4> QED BY <2>8, <4>1
    <3>2. Rec(n, b, p) \/ ~Rec(n, b, t.parent[p]) \/ Ahead(t, "enter", s, p)
      BY <2>1, <3>1 DEF CoverOK
    <3>3. ASSUME NEW k \in 1 .. (N - 1), t.parent[p] = s[k], Behind(t.children[s[k]], s[k + 1], p)
          PROVE  Ahead(t, to, u, p)
      <4>1. k \in 1 .. (Len(u) - 1) /\ u[k] = s[k] /\ u[k + 1] = s[k + 1]
        BY <1>0
      <4> QED BY <3>3, <4>1 DEF Ahead
    <3>4. ASSUME t.parent[p] = x
          PROVE  Ahead(t, to, u, p)
      <4>1. p \in Tasks \ {0} /\ Linked(t, p)
        BY <1>0
      <4>2. PICK i \in 1 .. Len(q) : q[i] = p
        BY <1>0, <1>1, <3>4, <4>1 DEF ListOK
      <4>3. CASE i = 1
        BY <2>0, <2>6, <4>2, <4>3 DEF Ahead
      <4>4. CASE i # 1
        <5>1. 1 < i
          BY <4>4
        <5>2. Behind(q, c, p)
          BY <1>2, <4>2, <5>1 DEF Behind
        <5>3. N \in 1 .. (Len(u) - 1) /\ u[N] = x /\ u[N + 1] = c
          BY <1>0
        <5>4. \E k \in 1 .. (Len(u) - 1) : t.parent[p] = u[k] /\ Behind(t.children[u[k]], u[k + 1], p)
          BY <3>4, <5>2, <5>3
        <5> QED BY <5>4 DEF Ahead
      <4> QED BY <4>3, <4>4
    <3> QED BY <3>2, <3>3, <3>4 DEF Ahead, Writing
  <2>9. CoverOK(t, S, to, u, n, b)
    BY <2>8 DEF CoverOK
  <2> QED BY <2>2, <2>7, <2>9
<1> QED BY <1>5, <1>6, <1>7 DEF WalkOK

\* The call for a task without children is over at once.
LEMMA LeafKeeps ==
  ASSUME NEW t, NEW S, NEW s, NEW n, NEW m, Sound(t, S, s, n, m), NEW b,
         WalkOK(t, S, "enter", s, n, m, b), t.children[s[Len(s)]] = <<>>,
         NEW to \in {"finish", "advance"}
  PROVE  WalkOK(t, S, to, s, n, m, b)
<1> DEFINE x == s[Len(s)]
<1>0. /\ \A p \in Tasks : ListOK(t, p)
      /\ x \in Tasks /\ \A p \in S : p \in Tasks /\ Linked(t, p)
  BY SoundParts
<1>1. to # "enter" /\ to \notin Writing /\ to # "done"
  BY DEF Writing
<1>2. PathOK(t, s) /\ EntriesOK(t, n, b) /\ ProgressOK(t, to, s, n, m, b)
  BY DEF WalkOK, ProgressOK
<1>3. ASSUME n < m
      PROVE  RecordOK(to, s, n, b) /\ AheadOK(t, to, s, n, b) /\ CoverOK(t, S, to, s, n, b)
  <2>1. RecordOK("enter", s, n, b) /\ AheadOK(t, "enter", s, n, b) /\ CoverOK(t, S, "enter", s, n, b)
    BY <1>3 DEF WalkOK
  <2>2. RecordOK(to, s, n, b) /\ AheadOK(t, to, s, n, b)
    BY <1>1, <2>1 DEF RecordOK, Logged, Writing, AheadOK
  <2>3. ASSUME NEW p \in S \ {0} PROVE t.parent[p] # x
    <3> SUFFICES ASSUME t.parent[p] = x PROVE FALSE
      OBVIOUS
    <3>1. ListOK(t, x) /\ p \in Tasks \ {0} /\ Linked(t, p)
      BY <1>0
    <3>2. \E i \in 1 .. Len(t.children[x]) : t.children[x][i] = p
      BY <3>1 DEF ListOK
    <3> QED BY <3>2
  <2>4. CoverOK(t, S, to, s, n, b)
    BY <2>1, <2>3 DEF CoverOK, Ahead, Writing
  <2> QED BY <2>2, <2>4
<1> QED BY <1>2, <1>3 DEF WalkOK

\* The end marker goes into the entry after the last.
LEMMA FinishKeeps ==
  ASSUME NEW t, NEW S, NEW s, NEW n, NEW m, Sound(t, S, s, n, m), NEW b, NEW d,
         WalkOK(t, S, "finish", s, n, m, b),
         \A i \in 0 .. (m - 1) : i # n => d[i] = b[i],
         n < m => d[n].comm = Finish
  PROVE  WalkOK(t, S, "done", s, n, m, d)
<1>0. n \in Nat /\ m \in Nat /\ n <= m
  BY SoundParts
<1>1. \A i \in 0 .. (n - 1) : d[i] = b[i]
  BY <1>0
<1>2. PathOK(t, s) /\ EntriesOK(t, n, d)
  BY <1>0, <1>1, SameBelow DEF WalkOK
<1>3. \A i \in n .. (m - 1) : d[i].comm = IF i = n THEN Finish ELSE Unset
  BY <1>0 DEF WalkOK, ProgressOK
<1>4. ProgressOK(t, "done", s, n, m, d)
  BY <1>3 DEF ProgressOK
<1>5. ASSUME n < m
      PROVE  RecordOK("done", s, n, d) /\ AheadOK(t, "done", s, n, d) /\ CoverOK(t, S, "done", s, n, d)
  <2>1. RecordOK("finish", s, n, b) /\ AheadOK(t, "finish", s, n, b) /\ CoverOK(t, S, "finish", s, n, b)
    BY <1>5 DEF WalkOK
  <2>2. \A p : Rec(n, d, p) <=> Rec(n, b, p)
    BY <1>0, <1>1, SameBelow
  <2>3. RecordOK("finish", s, n, d)
    BY <1>0, <1>1, <2>1, SameBelow
  <2>4. RecordOK("done", s, n, d)
    BY <2>3 DEF RecordOK, Logged, Writing
  <2>5. AheadOK(t, "done", s, n, d) /\ CoverOK(t, S, "done", s, n, d)
    BY <2>1, <2>2 DEF AheadOK, CoverOK, Ahead, Writing
  <2> QED BY <2>4, <2>5
<1> QED BY <1>2, <1>4, <1>5 DEF WalkOK

\* The entry of the last task of the path is complete, and the call for it begins.
LEMMA RestKeeps ==
  ASSUME NEW t, NEW S, NEW s, NEW n, NEW m, Sound(t, S, s, n, m), n < m, Len(s) >= 2,
         NEW b, NEW d, WalkOK(t, S, "rest", s, n, m, b), NEW x, x = s[Len(s)],
         \A i \in 0 .. (m - 1) : i # n => d[i] = b[i],
         d[n].pid = b[n].pid, d[n].parent_pid = b[n].parent_pid,
         d[n].comm = x, d[n].layer = Len(s) - 1
  PROVE  WalkOK(t, S, "enter", s, n + 1, m, d)
<1> DEFINE N == Len(s)
           y == s[N - 1]
<1>0. /\ \A p \in Tasks : ListOK(t, p)
      /\ \A k \in 1 .. N : s[k] \in Tasks
      /\ N \in Nat \ {0} /\ N >= 2 /\ n \in Nat /\ m \in Nat
      /\ \A p \in S : p \in Tasks
  BY SoundParts
<1>1. x \in Tasks /\ y \in Tasks
  BY <1>0
<1>2. PathOK(t, s) /\ x # 0 /\ t.parent[x] = y /\ t.state[x] # "unused"
  <2>1. N - 1 \in 1 .. (N - 1) /\ (N - 1) + 1 = N
    BY <1>0
  <2> QED BY <2>1 DEF WalkOK, PathOK
<1>3. (\A i \in 0 .. (n - 1) : d[i] = b[i]) /\ d[n].pid = x /\ d[n].parent_pid = y
  BY <1>0, <1>2 DEF WalkOK, ProgressOK
<1>4. /\ EntriesOK(t, n, b) /\ RecordOK("rest", s, n, b) /\ AheadOK(t, "rest", s, n, b)
      /\ CoverOK(t, S, "rest", s, n, b)
  BY DEF WalkOK
<1>5. EntriesOK(t, n, d) /\ RecordOK("rest", s, n, d) /\ \A p : Rec(n, d, p) <=> Rec(n, b, p)
  BY <1>0, <1>3, <1>4, SameBelow
<1>6. ~Rec(n, d, x)
  BY <1>4, <1>5 DEF AheadOK, Writing
<1>7. \A k \in 1 .. (N - 1) : \E j \in 0 .. (n - 1) :
         /\ d[j].pid = s[k] /\ d[j].layer = k - 1
         /\ \A i \in (j + 1) .. (n - 1) : d[i].layer > k - 1
  BY <1>5 DEF RecordOK, Logged, Writing
<1>8. N - 1 \in 1 .. (N - 1) /\ d[n].layer = N - 1
  BY <1>0
<1> HIDE DEF N, y
<1>9. PICK h \in 0 .. (n - 1) :
         /\ d[h].pid = y /\ d[h].layer = (N - 1) - 1
         /\ \A i \in (h + 1) .. (n - 1) : d[i].layer > (N - 1) - 1
  BY <1>7, <1>8 DEF y
<1>10. EntryOK(t, d, n)
  <2>1. Nested(d, n, h)
    BY <1>0, <1>3, <1>8, <1>9 DEF Nested
  <2> QED BY <1>0, <1>1, <1>2, <1>3, <1>8, <1>9, <2>1 DEF EntryOK
<1>11. EntriesOK(t, n + 1, d)
  <2>1. \A i \in 0 .. ((n + 1) - 1) : i = n \/ i \in 0 .. (n - 1)
    BY <1>0
  <2>2. \A i \in 0 .. ((n + 1) - 1) : EntryOK(t, d, i)
    BY <1>5, <1>10, <2>1 DEF EntriesOK
  <2>3. n > 0
    BY <1>0, <1>9
  <2>4. d[0].pid = 0 /\ d[0].layer = 0
    BY <1>5, <2>3 DEF EntriesOK
  <2>5. \A i \in 0 .. (n - 1) : d[i].pid # d[n].pid
    BY <1>3, <1>6 DEF Rec
  <2>6. \A i, j \in 0 .. (n - 1) : d[i].pid = d[j].pid => i = j
    BY <1>5 DEF EntriesOK
  <2>7. \A i, j \in 0 .. ((n + 1) - 1) : d[i].pid = d[j].pid => i = j
    BY <2>1, <2>5, <2>6
  <2> QED BY <2>2, <2>4, <2>7 DEF EntriesOK
<1>12. ProgressOK(t, "enter", s, n + 1, m, d)
  <2>1. \A i \in n .. (m - 1) : b[i].comm = Unset
    BY DEF WalkOK, ProgressOK
  <2>2. \A i \in (n + 1) .. (m - 1) : i \in n .. (m - 1) /\ i \in 0 .. (m - 1) /\ i # n
    BY <1>0
  <2>3. \A i \in (n + 1) .. (m - 1) : d[i].comm = Unset
    BY <2>1, <2>2
  <2> QED BY <2>3 DEF ProgressOK
<1>13. \A p : Rec(n + 1, d, p) <=> Rec(n, d, p) \/ p = x
  <2>1. \A i \in 0 .. ((n + 1) - 1) : i = n \/ i \in 0 .. (n - 1)
    BY <1>0
  <2>2. n \in 0 .. ((n + 1) - 1) /\ \A i \in 0 .. (n - 1) : i \in 0 .. ((n + 1) - 1)
    BY <1>0
  <2> QED BY <1>3, <2>1, <2>2 DEF Rec
<1>14. RecordOK("enter", s, n + 1, d)
  <2> SUFFICES ASSUME NEW k \in 1 .. N
               PROVE  \E j \in 0 .. ((n + 1) - 1) :
                        /\ d[j].pid = s[k] /\ d[j].layer = k - 1
                        /\ \A i \in (j + 1) .. ((n + 1) - 1) : d[i].layer > k - 1
    BY DEF RecordOK, Logged, Writing, N
  <2>1. CASE k = N
    <3>1. n \in 0 .. ((n + 1) - 1) /\ (n + 1) .. ((n + 1) - 1) = {}
      BY <1>0
    <3>2. d[n].pid = s[k] /\ d[n].layer = k - 1
      BY <1>3, <1>8, <2>1 DEF N
    <3> QED BY <3>1, <3>2
  <2>2. CASE k # N
    <3>1. k \in 1 .. (N - 1)
      BY <1>0, <2>2
    <3>2. PICK j \in 0 .. (n - 1) :
             /\ d[j].pid = s[k] /\ d[j].layer = k - 1
             /\ \A i \in (j + 1) .. (n - 1) : d[i].layer > k - 1
      BY <1>7, <3>1
    <3>3. j \in 0 .. ((n + 1) - 1) /\ \A i \in (j + 1) .. ((n + 1) - 1) : i = n \/ i \in (j + 1) .. (n - 1)
      BY <1>0
    <3>4. d[n].layer > k - 1
      BY <1>0, <1>8, <3>1
    <3> QED BY <3>2, <3>3, <3>4
  <2> QED BY <2>1, <2>2
<1>15. AheadOK(t, "enter", s, n + 1, d)
  <2>1. ASSUME NEW k \in 1 .. (N - 1), NEW p \in Tasks, Behind(t.children[s[k]], s[k + 1], p)
        PROVE  ~Rec(n + 1, d, p)
    <3>1. s[k] \in Tasks /\ s[k + 1] \in Tasks
      <4>1. k \in 1 .. N /\ k + 1 \in 1 .. N
        BY <1>0
      <4> QED BY <1>0, <4>1
    <3>2. ~Rec(n, d, p)
      BY <1>4, <1>5, <2>1 DEF AheadOK, N
    <3>3. ListOK(t, s[k])
      BY <1>0, <3>1
    <3>4. t.parent[p] = s[k] /\ p # s[k + 1]
      BY <2>1, <3>1, <3>3, BehindIs
    <3>5. p # x
      <4> SUFFICES ASSUME p = x PROVE FALSE
        OBVIOUS
      <4>1. s[k] = y
        BY <1>2, <3>4
      <4>2. PICK j \in 0 .. (n - 1) : d[j].pid = s[k] /\ d[j].layer = k - 1
        BY <1>7
      <4>3. j = h
        BY <1>5, <1>9, <4>1, <4>2 DEF EntriesOK
      <4>4. k = N - 1
        BY <1>0, <1>9, <4>2, <4>3
      <4>5. k + 1 = N
        BY <1>0, <4>4
      <4> QED BY <3>4, <4>5 DEF N
    <3> QED BY <1>13, <3>2, <3>5
  <2>2. ASSUME NEW p \in Tasks \ {0}, Rec(n + 1, d, p)
        PROVE  t.parent[p] # x
    <3> SUFFICES ASSUME t.parent[p] = x PROVE FALSE
      OBVIOUS
    <3>1. CASE p = x
      <4>1. Rec(n, d, y)
        BY <1>9 DEF Rec
      <4> QED BY <1>2, <1>6, <3>1, <4>1
    <3>2. CASE p # x
      <4>1. Rec(n, d, p) /\ p # 0 /\ n \in Nat
        BY <1>0, <1>13, <2>2, <3>2
      <4>2. Rec(n, d, t.parent[p])
        BY <1>5, <4>1, ParentRec
      <4> QED BY <1>6, <4>2
    <3> QED BY <3>1, <3>2
  <2> QED BY <2>1, <2>2 DEF AheadOK, Writing, N
<1>16. CoverOK(t, S, "enter", s, n + 1, d)
  <2> SUFFICES ASSUME \A k \in 2 .. Len(s) : Linked(t, s[k]), NEW p \in S \ {0}
               PROVE  \/ Rec(n + 1, d, p) \/ ~Rec(n + 1, d, t.parent[p])
                      \/ Ahead(t, "enter", s, p)
    BY DEF CoverOK
  <2>1. Rec(n, b, p) \/ ~Rec(n, b, t.parent[p]) \/ Ahead(t, "rest", s, p)
    BY <1>4 DEF CoverOK
  <2>2. Ahead(t, "rest", s, p) => Ahead(t, "enter", s, p) \/ p = x
    BY DEF Ahead, Writing
  <2>3. t.parent[p] = x => Ahead(t, "enter", s, p)
    BY DEF Ahead
  <2> QED BY <1>5, <1>13, <2>1, <2>2, <2>3
<1> QED BY <1>2, <1>11, <1>12, <1>14, <1>15, <1>16 DEF WalkOK

\* v is what follows x, the i-th of the list q: another child, or 0.
Follows(q, i, x, v) == q[i] = x /\ v = IF i < Len(q) THEN q[i + 1] ELSE 0

\* next_sibling() of a child that is on its parent's list.
LEMMA NextIs ==
  ASSUME tree \in TreeType, NEW x \in Tasks \ {0}, Linked(tree, x),
         NEW y \in Tasks, y = tree.parent[x], ListOK(tree, y),
         NEW v, v = next_sibling(x)
  PROVE  \E i \in 1 .. Len(tree.children[y]) : Follows(tree.children[y], i, x, v)
<1> DEFINE q == tree.children[y]
           later == {i \in 1 .. (Len(q) - 1) : q[i] = x}
           k == CHOOSE i \in later : TRUE
<1>1. q \in Seq(Tasks)
  BY DEF TreeType
<1>2. PICK i \in 1 .. Len(q) : q[i] = x
  BY DEF ListOK
<1>3. v = IF later # {} THEN q[k + 1] ELSE 0
  BY DEF next_sibling
<1>4. \A j \in 1 .. Len(q) : q[j] = x => j = i
  BY <1>2 DEF ListOK
<1>5. later # {} => k \in later
  OBVIOUS
<1>6. i < Len(q) => i \in later
  BY <1>1, <1>2
<1>7. \A j \in later : j = i /\ i < Len(q)
  BY <1>1, <1>4
<1> HIDE DEF k, later, q
<1>8. Follows(q, i, x, v)
  BY <1>2, <1>3, <1>5, <1>6, <1>7 DEF Follows
<1> QED BY <1>8 DEF q

\* The path u ends with the child after the one that s ends with, the i-th of the list q.
NextPath(q, i, s, u) ==
  /\ i \in 1 .. Len(q) /\ i < Len(q) /\ q[i] = s[Len(s)]
  /\ u \in Seq(Tasks) /\ Len(u) = Len(s) /\ u[Len(s)] = q[i + 1]
  /\ \A k \in 1 .. (Len(s) - 1) : u[k] = s[k]

\* The walk goes on to the next child of the same parent.
LEMMA SiblingKeeps ==
  ASSUME NEW t, NEW S, NEW s, NEW n, NEW m, Sound(t, S, s, n, m), NEW b, Len(s) >= 2,
         WalkOK(t, S, "advance", s, n, m, b),
         NEW q, q = t.children[s[Len(s) - 1]], NEW i, NEW u, NextPath(q, i, s, u),
         NEW to, to = IF n < m THEN "ppid" ELSE "enter"
  PROVE  WalkOK(t, S, to, u, n, m, b)
<1> SUFFICES ASSUME NEW x, x = s[Len(s)], i \in 1 .. Len(q), i < Len(q), q[i] = x,
                    u \in Seq(Tasks), Len(u) = Len(s), u[Len(s)] = q[i + 1],
                    \A k \in 1 .. (Len(s) - 1) : u[k] = s[k]
             PROVE  WalkOK(t, S, to, u, n, m, b)
  BY DEF NextPath
<1> DEFINE N == Len(s)
           y == s[N - 1]
           v == q[i + 1]
<1>0. /\ \A k \in 1 .. N : s[k] \in Tasks
      /\ N \in Nat \ {0} /\ N >= 2 /\ n \in Nat /\ m \in Nat
  BY SoundParts
<1>1. x \in Tasks /\ y \in Tasks
  BY <1>0
<1>2. q \in Seq(Tasks) /\ ListOK(t, y)
  BY <1>1, SoundParts
<1>3. i + 1 \in 1 .. Len(q) /\ v \in Tasks
  BY <1>2
<1>4. /\ v # 0 /\ Linked(t, v) /\ t.parent[v] = y /\ Linked(t, x)
      /\ \A j, k \in 1 .. Len(q) : q[j] = q[k] => j = k
  BY <1>2, <1>3 DEF ListOK
<1>5. ASSUME NEW k \in 1 .. (Len(u) - 1)
      PROVE  \/ k = N - 1 /\ u[k] = y /\ u[k + 1] = v
             \/ k \in 1 .. (N - 2) /\ u[k] = s[k] /\ u[k + 1] = s[k + 1]
  <2>1. k \in 1 .. (N - 1) /\ u[k] = s[k]
    BY <1>0
  <2>2. CASE k = N - 1
    <3>1. k + 1 = N
      BY <1>0, <2>2
    <3> QED BY <2>1, <2>2, <3>1
  <2>3. CASE k # N - 1
    <3>1. k \in 1 .. (N - 2) /\ k + 1 \in 1 .. (N - 1)
      BY <1>0, <2>1, <2>3
    <3>2. u[k + 1] = s[k + 1]
      BY <3>1
    <3> QED BY <2>1, <3>1, <3>2
  <2> QED BY <2>2, <2>3
<1>6. PathOK(t, u)
  <2>1. u[1] = 0
    BY <1>0 DEF WalkOK, PathOK
  <2>2. ASSUME NEW k \in 1 .. (Len(u) - 1)
        PROVE  u[k + 1] # 0 /\ t.parent[u[k + 1]] = u[k] /\ t.state[u[k + 1]] # "unused"
    <3>1. CASE k = N - 1 /\ u[k] = y /\ u[k + 1] = v
      BY <1>4, <3>1 DEF Linked
    <3>2. CASE k \in 1 .. (N - 2) /\ u[k] = s[k] /\ u[k + 1] = s[k + 1]
      BY <1>0, <3>2 DEF WalkOK, PathOK
    <3> QED BY <1>5, <3>1, <3>2
  <2> QED BY <2>1, <2>2 DEF PathOK
<1>7. EntriesOK(t, n, b) /\ ProgressOK(t, to, u, n, m, b)
  BY DEF WalkOK, ProgressOK
<1>8. \A p : Behind(q, v, p) => Behind(q, x, p)
  <2> SUFFICES ASSUME NEW p, Behind(q, v, p) PROVE Behind(q, x, p)
    OBVIOUS
  <2>1. PICK k, j \in 1 .. Len(q) : k < j /\ q[k] = v /\ q[j] = p
    BY DEF Behind
  <2>2. k = i + 1
    BY <1>3, <1>4, <2>1
  <2>3. i < j
    BY <2>1, <2>2
  <2> QED BY <2>1, <2>3 DEF Behind
<1>9. \A p : Behind(q, x, p) => p = v \/ Behind(q, v, p)
  <2> SUFFICES ASSUME NEW p, Behind(q, x, p), p # v PROVE Behind(q, v, p)
    OBVIOUS
  <2>1. PICK k, j \in 1 .. Len(q) : k < j /\ q[k] = x /\ q[j] = p
    BY DEF Behind
  <2>2. k = i /\ j # i + 1
    BY <1>4, <2>1
  <2>3. i + 1 < j
    BY <2>1, <2>2
  <2> QED BY <1>3, <2>1, <2>3 DEF Behind
<1>10. Behind(q, x, v)
  <2>1. i < i + 1
    OBVIOUS
  <2> QED BY <1>3, <2>1 DEF Behind
<1>11. N - 1 \in 1 .. (N - 1) /\ s[N - 1] = y /\ s[(N - 1) + 1] = x /\ u[N] = v /\ q = t.children[y]
  BY <1>0
<1>12. ASSUME n < m
       PROVE  RecordOK(to, u, n, b) /\ AheadOK(t, to, u, n, b) /\ CoverOK(t, S, to, u, n, b)
  <2>0. to = "ppid" /\ to \in Writing /\ to # "enter"
    BY <1>12 DEF Writing
  <2>1. /\ RecordOK("advance", s, n, b) /\ AheadOK(t, "advance", s, n, b)
        /\ CoverOK(t, S, "advance", s, n, b)
    BY <1>12 DEF WalkOK
  <2> HIDE DEF v, y, N
  <2>2. RecordOK(to, u, n, b)
    <3>1. Logged(to, u) = N - 1 /\ Logged("advance", s) = N
      BY <1>0, <2>0 DEF Logged, Writing, N
    <3>2. \A k \in 1 .. (N - 1) : u[k] = s[k] /\ k \in 1 .. N
      BY <1>0 DEF N
    <3> QED BY <2>1, <3>1, <3>2 DEF RecordOK
  <2>3. \A p \in Tasks : Behind(q, x, p) => ~Rec(n, b, p)
    BY <1>11, <2>1 DEF AheadOK, N
  <2>4. ~Rec(n, b, v)
    BY <1>3, <1>10, <2>3
  <2>5. ASSUME NEW k \in 1 .. (Len(u) - 1), NEW p \in Tasks, Behind(t.children[u[k]], u[k + 1], p)
        PROVE  ~Rec(n, b, p)
    <3>1. CASE k = N - 1 /\ u[k] = y /\ u[k + 1] = v
      <4>1. Behind(q, v, p)
        BY <1>11, <2>5, <3>1
      <4> QED BY <1>8, <2>3, <4>1
    <3>2. CASE k \in 1 .. (N - 2) /\ u[k] = s[k] /\ u[k + 1] = s[k + 1]
      <4>1. k \in 1 .. (Len(s) - 1)
        BY <1>0, <3>2 DEF N
      <4> QED BY <2>1, <2>5, <3>2, <4>1 DEF AheadOK
    <3> QED BY <1>5, <3>1, <3>2
  <2>6. u[Len(u)] = v
    BY <1>11 DEF N
  <2>7. AheadOK(t, to, u, n, b)
    BY <2>0, <2>4, <2>5, <2>6 DEF AheadOK
  <2>8. ASSUME \A k \in 2 .. Len(u) : Linked(t, u[k]), NEW p \in S \ {0}
        PROVE  Rec(n, b, p) \/ ~Rec(n, b, t.parent[p]) \/ Ahead(t, to, u, p)
    <3>1. ASSUME NEW k \in 2 .. Len(s) PROVE Linked(t, s[k])
      <4>1. CASE k = Len(s)
        BY <1>4, <4>1
      <4>2. CASE k # Len(s)
        <5>1. k \in 2 .. Len(u) /\ k \in 1 .. (Len(s) - 1)
          BY <1>0, <4>2 DEF N
        <5> QED BY <2>8, <5>1
      <4> QED BY <4>1, <4>2
    <3>2. Rec(n, b, p) \/ ~Rec(n, b, t.parent[p]) \/ Ahead(t, "advance", s, p)
      BY <2>1, <3>1 DEF CoverOK
    <3>3. ASSUME NEW k \in 1 .. (Len(s) - 1), t.parent[p] = s[k],
                 Behind(t.children[s[k]], s[k + 1], p)
          PROVE  Ahead(t, to, u, p)
      <4>1. k \in 1 .. (Len(u) - 1)
        OBVIOUS
      <4>2. CASE k = N - 1 /\ u[k] = y /\ u[k + 1] = v
        <5>1. Behind(q, x, p)
          BY <1>11, <3>3, <4>2
        <5>2. CASE p = v
          BY <2>0, <2>6, <5>2 DEF Ahead
        <5>3. CASE Behind(q, v, p)
          <6>1. t.parent[p] = u[k] /\ Behind(t.children[u[k]], u[k + 1], p)
            BY <1>11, <3>3, <4>2, <5>3
          <6> QED BY <4>1, <6>1 DEF Ahead
        <5> QED BY <1>9, <5>1, <5>2, <5>3
      <4>3. CASE k \in 1 .. (N - 2) /\ u[k] = s[k] /\ u[k + 1] = s[k + 1]
        BY <3>3, <4>1, <4>3 DEF Ahead
      <4> QED BY <1>5, <4>1, <4>2, <4>3
    <3> QED BY <3>2, <3>3 DEF Ahead, Writing
  <2>9. CoverOK(t, S, to, u, n, b)
    BY <2>8 DEF CoverOK
  <2> QED BY <2>2, <2>7, <2>9
<1> QED BY <1>6, <1>7, <1>12 DEF WalkOK

\* The last child of the list has been walked: the call for the parent is over.
LEMMA UpKeeps ==
  ASSUME NEW t, NEW S, NEW s, NEW n, NEW m, Sound(t, S, s, n, m), NEW b, Len(s) >= 2,
         WalkOK(t, S, "advance", s, n, m, b), NEW x, x = s[Len(s)],
         NEW q, q = t.children[s[Len(s) - 1]], NEW i \in 1 .. Len(q), i = Len(q), q[i] = x,
         NEW u \in Seq(Tasks), Len(u) = Len(s) - 1, \A k \in 1 .. (Len(s) - 1) : u[k] = s[k],
         NEW to \in {"finish", "advance"}
  PROVE  WalkOK(t, S, to, u, n, m, b)
<1> DEFINE N == Len(s)
           y == s[N - 1]
<1>0. /\ \A k \in 1 .. N : s[k] \in Tasks
      /\ N \in Nat \ {0} /\ N >= 2 /\ n \in Nat /\ m \in Nat
  BY SoundParts
<1>1. y \in Tasks
  BY <1>0
<1>2. q \in Seq(Tasks) /\ ListOK(t, y)
  BY <1>1, SoundParts
<1>3. Linked(t, x) /\ \A j, k \in 1 .. Len(q) : q[j] = q[k] => j = k
  BY <1>2 DEF ListOK
<1>4. \A p : ~Behind(q, x, p)
  <2> SUFFICES ASSUME NEW p, Behind(q, x, p) PROVE FALSE
    OBVIOUS
  <2>1. PICK k, j \in 1 .. Len(q) : k < j /\ q[k] = x /\ q[j] = p
    BY DEF Behind
  <2> QED BY <1>2, <1>3, <2>1
<1>5. to # "enter" /\ to \notin Writing /\ to # "done" /\ to # "start"
  BY DEF Writing
<1>6. \A k \in 1 .. (Len(u) - 1) : u[k] = s[k] /\ u[k + 1] = s[k + 1] /\ k \in 1 .. (N - 1)
  BY <1>0
<1>7. PathOK(t, u)
  BY <1>0, <1>6 DEF WalkOK, PathOK
<1>8. EntriesOK(t, n, b) /\ ProgressOK(t, to, u, n, m, b)
  BY <1>5 DEF WalkOK, ProgressOK
<1>9. ASSUME n < m
      PROVE  RecordOK(to, u, n, b) /\ AheadOK(t, to, u, n, b) /\ CoverOK(t, S, to, u, n, b)
  <2>1. /\ RecordOK("advance", s, n, b) /\ AheadOK(t, "advance", s, n, b)
        /\ CoverOK(t, S, "advance", s, n, b)
    BY <1>9 DEF WalkOK
  <2>2. RecordOK(to, u, n, b)
    <3>1. Logged(to, u) = N - 1 /\ Logged("advance", s) = N
      BY <1>0, <1>5 DEF Logged, Writing
    <3>2. \A k \in 1 .. (N - 1) : u[k] = s[k] /\ k \in 1 .. N
      BY <1>0
    <3> QED BY <2>1, <3>1, <3>2 DEF RecordOK
  <2>3. AheadOK(t, to, u, n, b)
    BY <1>5, <1>6, <2>1 DEF AheadOK
  <2>4. ASSUME \A k \in 2 .. Len(u) : Linked(t, u[k]), NEW p \in S \ {0}
        PROVE  Rec(n, b, p) \/ ~Rec(n, b, t.parent[p]) \/ Ahead(t, to, u, p)
    <3>1. ASSUME NEW k \in 2 .. Len(s) PROVE Linked(t, s[k])
      <4>1. CASE k = Len(s)
        BY <1>3, <4>1
      <4>2. CASE k # Len(s)
        <5>1. k \in 2 .. Len(u) /\ k \in 1 .. (Len(s) - 1)
          BY <1>0, <4>2
        <5> QED BY <2>4, <5>1
      <4> QED BY <4>1, <4>2
    <3>2. Rec(n, b, p) \/ ~Rec(n, b, t.parent[p]) \/ Ahead(t, "advance", s, p)
      BY <2>1, <3>1 DEF CoverOK
    <3>3. ASSUME NEW k \in 1 .. (Len(s) - 1), t.parent[p] = s[k],
                 Behind(t.children[s[k]], s[k + 1], p)
          PROVE  Ahead(t, to, u, p)
      <4>1. k # N - 1
        <5> SUFFICES ASSUME k = N - 1 PROVE FALSE
          OBVIOUS
        <5>1. s[k] = y /\ s[k + 1] = x
          BY <1>0
        <5> QED BY <1>4, <3>3, <5>1
      <4>2. k \in 1 .. (Len(u) - 1)
        BY <1>0, <4>1
      <4> QED BY <1>6, <3>3, <4>2 DEF Ahead
    <3> QED BY <3>2, <3>3 DEF Ahead, Writing
  <2>5. CoverOK(t, S, to, u, n, b)
    BY <2>4 DEF CoverOK
  <2> QED BY <2>2, <2>3, <2>5
<1> QED BY <1>7, <1>8, <1>9 DEF WalkOK

-----------------------------------------------------------------------------
(* The invariant and the theorem. *)

\* It holds at the start.
LEMMA PrintStart ==
  ASSUME PTreeInit
  PROVE  PrintInv
<1>1. PICK t \in Trees :
        /\ tree = t
        /\ hist = [moved |-> FALSE, steady |-> {p \in Tasks : t.state[p] = "running"}]
  BY DEF PTreeInit
<1> DEFINE S == {p \in Tasks : tree.state[p] = "running"}
<1>2. tree \in TreeType /\ ListsMatch(tree) /\ Rooted(tree, S) /\ hist.steady = S
  BY <1>1, TreesFormed DEF TreeType
<1>3. \A p \in Tasks : ListOK(tree, p)
  BY <1>2, ListsAre
<1>4. SteadyOK(tree, S)
  <2>1. ASSUME NEW p \in S
        PROVE  Linked(tree, p) /\ (p # 0 => tree.parent[p] \in S)
    <3>1. p \in Tasks /\ tree.state[p] = "running"
      OBVIOUS
    <3>2. Linked(tree, p)
      BY <3>1 DEF Linked
    <3>3. tree.parent[p] \in Tasks /\ tree.children[tree.parent[p]] \in Seq(Tasks)
      BY <1>2, <3>1 DEF TreeType
    <3>4. ListOK(tree, tree.parent[p])
      BY <1>3, <3>3
    <3>5. p # 0 => tree.children[tree.parent[p]] # <<>>
      <4> SUFFICES ASSUME p # 0 PROVE tree.children[tree.parent[p]] # <<>>
        OBVIOUS
      <4> DEFINE q == tree.children[tree.parent[p]]
      <4>1. \E i \in 1 .. Len(q) : q[i] = p
        BY <3>1, <3>2, <3>4 DEF ListOK
      <4> QED BY <3>3, <4>1
    <3> QED BY <3>2, <3>3, <3>4, <3>5 DEF ListOK
  <2> QED BY <1>2, <2>1 DEF SteadyOK
<1>5. walk.pc = "start" /\ walk.path = <<0>> /\ walk.idx = 0 /\ walk.nr \in Sizes
  BY DEF PTreeInit
<1>6. walk.nr \in Nat /\ \A i \in 0 .. walk.nr : i \in Entries
  BY <1>5, EntriesAre
<1>7. \A i \in 0 .. (walk.nr - 1) : buf[i].comm = Unset
  <2>1. \A i \in Entries : buf[i] = EmptyEntry
    BY DEF PTreeInit
  <2>2. EmptyEntry.comm = Unset
    BY DEF EmptyEntry
  <2>3. \A i \in 0 .. (walk.nr - 1) : i \in Entries
    BY <1>6
  <2> QED BY <2>1, <2>2, <2>3
<1>8. WalkOK(tree, S, "start", <<0>>, 0, walk.nr, buf)
  <2>1. PathOK(tree, <<0>>)
    BY DEF PathOK
  <2>2. EntriesOK(tree, 0, buf)
    BY DEF EntriesOK
  <2>3. ProgressOK(tree, "start", <<0>>, 0, walk.nr, buf)
    BY <1>7 DEF ProgressOK
  <2> HIDE DEF S
  <2> QED BY <2>1, <2>2, <2>3 DEF WalkOK
<1> HIDE DEF S
<1> QED BY <1>2, <1>4, <1>5, <1>8 DEF PrintInv

\* What the invariant says during a walk with the buffer present.
LEMMA InWalk ==
  ASSUME TypeInv, PrintInv, ~hist.moved, resident = Entries, walk.pc # "lost"
  PROVE  /\ Sound(tree, hist.steady, walk.path, walk.idx, walk.nr)
         /\ WalkOK(tree, hist.steady, walk.pc, walk.path, walk.idx, walk.nr, buf)
         /\ Shape(walk.pc, walk.path, walk.idx, walk.nr) /\ walk.idx \in resident
         /\ \A k : Fills(buf, buf', k) => \A i \in 0 .. (walk.nr - 1) : i # k => buf'[i] = buf[i]
<1>1. /\ walk.path \in Seq(Tasks) /\ Len(walk.path) >= 1 /\ walk.idx \in Nat /\ walk.nr \in Nat
      /\ walk.idx <= walk.nr /\ walk.nr \in Sizes /\ walk.idx \in Entries
  BY Types
<1>2. 0 \in Tasks /\ \A i \in 0 .. walk.nr : i \in Entries
  BY <1>1, EntriesAre
<1>3. \A i \in 0 .. (walk.nr - 1) : i \in Entries
  BY <1>1, <1>2
<1>4. Sound(tree, hist.steady, walk.path, walk.idx, walk.nr)
  BY <1>1, <1>2 DEF Sound, PrintInv, TypeInv
<1>5. ASSUME NEW k, Fills(buf, buf', k), NEW i \in 0 .. (walk.nr - 1), i # k
      PROVE  buf'[i] = buf[i]
  BY <1>3, <1>5 DEF Fills
<1> QED BY <1>1, <1>4, <1>5 DEF PrintInv, TypeInv

\* A step of the walk is judged by where it leads.
LEMMA WalkPrints ==
  ASSUME PrintInv, UNCHANGED <<tree, resident, hist>>,
         NEW at, NEW s, NEW n, WalkGoes(at, s, n),
         ~hist.moved /\ resident = Entries /\ at # "lost" =>
           WalkOK(tree, hist.steady, at, s, n, walk.nr, buf')
  PROVE  PrintInv'
<1>1. walk'.pc = at /\ walk'.path = s /\ walk'.idx = n /\ walk'.nr = walk.nr
  BY DEF WalkGoes
<1>2. tree' = tree /\ resident' = resident /\ hist' = hist
  OBVIOUS
<1>3. ASSUME ~hist'.moved
      PROVE  ListsMatch(tree') /\ SteadyOK(tree', hist'.steady)
  BY <1>2, <1>3 DEF PrintInv
<1>4. ASSUME ~hist'.moved, resident' = Entries, walk'.pc # "lost"
      PROVE  WalkOK(tree', hist'.steady, walk'.pc, walk'.path, walk'.idx, walk'.nr, buf')
  BY <1>1, <1>2, <1>4
<1> QED BY <1>3, <1>4 DEF PrintInv

\* The steps of the walk keep the invariant.
LEMMA WalkKeeps ==
  ASSUME TypeInv, PrintInv, Walk
  PROVE  PrintInv'
<1> DEFINE t == tree
           S == hist.steady
           s == walk.path
           n == walk.idx
           m == walk.nr
           x == s[Len(s)]
           Good == ~hist.moved /\ resident = Entries
<1>0. s \in Seq(Tasks) /\ Len(s) \in Nat \ {0} /\ n \in Nat /\ m \in Nat /\ n <= m /\ x \in Tasks
  BY Types
<1>1. ASSUME Good, walk.pc # "lost"
      PROVE  /\ Sound(t, S, s, n, m) /\ WalkOK(t, S, walk.pc, s, n, m, buf)
             /\ Shape(walk.pc, s, n, m) /\ n \in resident
             /\ \A k : Fills(buf, buf', k) => \A i \in 0 .. (m - 1) : i # k => buf'[i] = buf[i]
  BY <1>1, InWalk
<1>2. CASE ptree
  <2>1. walk.pc = "start" /\ UNCHANGED <<tree, resident, hist>>
    BY <1>2, StartIs
  <2>2. n = 0 /\ Len(s) = 1
    BY <2>1 DEF TypeInv, Shape
  <2>3. CASE n < m
    <3>1. /\ WalkGoes("enter", s, n + 1) /\ Fills(buf, buf', 0)
          /\ 0 \in resident => buf'[0].pid = 0 /\ buf'[0].comm = 0 /\ buf'[0].layer = 0
      BY <1>2, <2>3, StartIs
    <3>2. ASSUME Good PROVE WalkOK(t, S, "enter", s, n + 1, m, buf')
      <4>1. /\ Sound(t, S, s, 0, m) /\ WalkOK(t, S, "start", s, 0, m, buf)
            /\ \A i \in 0 .. (m - 1) : i # 0 => buf'[i] = buf[i]
            /\ 0 \in resident
        BY <1>1, <2>1, <2>2, <3>1, <3>2
      <4>2. 0 < m /\ n + 1 = 1
        BY <2>2, <2>3
      <4>3. WalkOK(t, S, "enter", s, 1, m, buf')
        <5> HIDE DEF t, S, s, n, m
        <5> QED BY <2>2, <3>1, <4>1, <4>2, StartKeeps
      <4> QED BY <4>2, <4>3
    <3> QED BY <2>1, <3>1, <3>2, WalkPrints
  <2>4. CASE ~(n < m)
    <3>1. WalkGoes("enter", s, n) /\ buf' = buf
      BY <1>2, <2>4, StartIs
    <3>2. ASSUME Good PROVE WalkOK(t, S, "enter", s, n, m, buf')
      <4>1. WalkOK(t, S, "start", s, n, m, buf)
        BY <1>1, <2>1, <3>2
      <4>2. ~(n < m)
        BY <2>4
      <4> HIDE DEF t, S, s, n, m
      <4> QED BY <3>1, <4>1, <4>2 DEF WalkOK, ProgressOK
    <3> QED BY <2>1, <3>1, <3>2, WalkPrints
  <2> QED BY <2>3, <2>4
<1>3. CASE dfs_enter
  <2>1. walk.pc = "enter" /\ UNCHANGED <<tree, buf, resident, hist>>
    BY <1>3, EnterIs
  <2>2. CASE t.children[x] # <<>>
    <3> DEFINE c == t.children[x][1]
               u == Append(s, c)
               to == IF n < m THEN "ppid" ELSE "enter"
    <3>1. WalkGoes(to, u, n)
      BY <1>3, <2>2, EnterIs
    <3>2. /\ u \in Seq(Tasks) /\ Len(u) = Len(s) + 1 /\ u[Len(s) + 1] = c
          /\ \A i \in 1 .. Len(s) : u[i] = s[i]
      <4>1. t.children[x] \in Seq(Tasks)
        BY <1>0 DEF TypeInv, TreeType
      <4>2. c \in Tasks
        BY <2>2, <4>1
      <4> HIDE DEF c
      <4> QED BY <1>0, <4>2, AppendIs
    <3> HIDE DEF u
    <3>3. ASSUME Good PROVE WalkOK(t, S, to, u, n, m, buf')
      <4>1. Sound(t, S, s, n, m) /\ WalkOK(t, S, "enter", s, n, m, buf) /\ buf' = buf
        BY <1>1, <2>1, <3>3
      <4> HIDE DEF t, S, s, n, m
      <4>2. WalkOK(t, S, to, u, n, m, buf)
        BY <2>2, <3>2, <4>1, EnterKeeps
      <4> QED BY <4>1, <4>2
    <3> HIDE DEF to
    <3> QED BY <2>1, <3>1, <3>3, WalkPrints
  <2>3. CASE t.children[x] = <<>>
    <3> DEFINE to == IF Len(s) = 1 THEN "finish" ELSE "advance"
    <3>1. WalkGoes(to, s, n)
      BY <1>3, <2>3, EnterIs
    <3>2. to \in {"finish", "advance"}
      OBVIOUS
    <3> HIDE DEF to
    <3>3. ASSUME Good PROVE WalkOK(t, S, to, s, n, m, buf')
      <4>1. Sound(t, S, s, n, m) /\ WalkOK(t, S, "enter", s, n, m, buf) /\ buf' = buf
        BY <1>1, <2>1, <3>3
      <4> HIDE DEF t, S, s, n, m
      <4>2. WalkOK(t, S, to, s, n, m, buf)
        BY <2>3, <3>2, <4>1, LeafKeeps
      <4> QED BY <4>1, <4>2
    <3> QED BY <2>1, <3>1, <3>3, WalkPrints
  <2> QED BY <2>2, <2>3
<1>4. CASE dfs_ppid
  <2>1. /\ walk.pc = "ppid" /\ UNCHANGED <<tree, resident, hist>>
        /\ WalkGoes("child", s, n) /\ Fills(buf, buf', n) /\ buf'[n].comm = buf[n].comm
        /\ n \in resident => buf'[n].pid = x /\ buf'[n].parent_pid = t.parent[x]
    BY <1>4, PpidIs
  <2>2. ASSUME Good PROVE WalkOK(t, S, "child", s, n, m, buf')
    <3>1. /\ Sound(t, S, s, n, m) /\ WalkOK(t, S, "ppid", s, n, m, buf) /\ n \in resident
          /\ \A i \in 0 .. (m - 1) : i # n => buf'[i] = buf[i]
      BY <1>1, <2>1, <2>2
    <3>2. "ppid" \in Writing /\ "child" \in Writing \ {"ppid"}
      BY DEF Writing
    <3> HIDE DEF t, S, s, n, m
    <3> QED BY <2>1, <3>1, <3>2, EntryWritten DEF x
  <2> QED BY <2>1, <2>2, WalkPrints
<1>5. CASE dfs_children \/ dfs_sibling
  <2> DEFINE to == IF walk.pc = "child" THEN "sibling" ELSE "rest"
  <2>1. /\ walk.pc \in {"child", "sibling"} /\ UNCHANGED <<tree, resident, hist>>
        /\ WalkGoes(to, s, n) /\ Fills(buf, buf', n) /\ buf'[n].comm = buf[n].comm
        /\ buf'[n].pid = buf[n].pid /\ buf'[n].parent_pid = buf[n].parent_pid
    BY <1>5, KinIs
  <2>2. to \in Writing \ {"ppid"} /\ walk.pc \in Writing
    BY <2>1 DEF Writing
  <2> HIDE DEF to
  <2>3. ASSUME Good PROVE WalkOK(t, S, to, s, n, m, buf')
    <3>1. /\ Sound(t, S, s, n, m) /\ WalkOK(t, S, walk.pc, s, n, m, buf)
          /\ \A i \in 0 .. (m - 1) : i # n => buf'[i] = buf[i]
      BY <1>1, <2>1, <2>3
    <3>2. buf[n].pid = x /\ buf[n].parent_pid = t.parent[x]
      BY <2>1, <3>1 DEF WalkOK, ProgressOK
    <3> HIDE DEF t, S, s, n, m
    <3> QED BY <2>1, <2>2, <3>1, <3>2, EntryWritten DEF x
  <2> QED BY <2>1, <2>3, WalkPrints
<1>6. CASE dfs_rest
  <2>1. /\ walk.pc = "rest" /\ UNCHANGED <<tree, resident, hist>>
        /\ WalkGoes("enter", s, n + 1) /\ Fills(buf, buf', n)
        /\ buf'[n].pid = buf[n].pid /\ buf'[n].parent_pid = buf[n].parent_pid
        /\ n \in resident => buf'[n].comm = x /\ buf'[n].layer = Len(s) - 1
    BY <1>6, RestIs
  <2>2. ASSUME Good PROVE WalkOK(t, S, "enter", s, n + 1, m, buf')
    <3>1. /\ Sound(t, S, s, n, m) /\ WalkOK(t, S, "rest", s, n, m, buf) /\ n \in resident
          /\ \A i \in 0 .. (m - 1) : i # n => buf'[i] = buf[i]
          /\ Shape("rest", s, n, m)
      BY <1>1, <2>1, <2>2
    <3>2. n < m /\ Len(s) >= 2
      BY <3>1 DEF Shape, Writing
    <3> HIDE DEF t, S, s, n, m
    <3> QED BY <2>1, <3>1, <3>2, RestKeeps DEF x
  <2> QED BY <2>1, <2>2, WalkPrints
<1>7. CASE dfs_advance
  <2> DEFINE v == next_sibling(x)
             f == Front(s)
             y == s[Len(s) - 1]
             q == t.children[y]
  <2>1. walk.pc = "advance" /\ UNCHANGED <<tree, buf, resident, hist>>
    BY <1>7, AdvanceIs
  <2>2. /\ Len(s) >= 2 /\ f \in Seq(Tasks) /\ Len(f) = Len(s) - 1
        /\ \A i \in 1 .. (Len(s) - 1) : f[i] = s[i]
    BY <1>0, <2>1, FrontIs DEF TypeInv, Shape
  <2>3. CASE ~OnWalkedList
    <3>1. WalkGoes("lost", s, n)
      BY <1>7, <2>3, AdvanceIs
    <3> QED BY <2>1, <3>1, WalkPrints
  <2>4. ASSUME OnWalkedList, Good
        PROVE  /\ Sound(t, S, s, n, m) /\ WalkOK(t, S, "advance", s, n, m, buf) /\ buf' = buf
               /\ v \in Tasks /\ \E i \in 1 .. Len(q) : Follows(q, i, x, v)
               /\ ListOK(t, y) /\ q \in Seq(Tasks)
    <3>1. Sound(t, S, s, n, m) /\ WalkOK(t, S, "advance", s, n, m, buf) /\ buf' = buf
      BY <1>1, <2>1, <2>4
    <3>2. y \in Tasks
      BY <1>0, <2>2
    <3>3. Linked(tree, x) /\ tree.parent[x] = y
      BY <2>4, Types DEF OnWalkedList
    <3>4. x # 0
      <4>1. Len(s) - 1 \in 1 .. (Len(s) - 1) /\ (Len(s) - 1) + 1 = Len(s)
        BY <1>0, <2>2
      <4> QED BY <3>1, <4>1 DEF WalkOK, PathOK
    <3>5. tree \in TreeType /\ ListOK(tree, y) /\ q \in Seq(Tasks)
      BY <3>1, <3>2, SoundParts DEF TypeInv
    <3>6. v \in Tasks
      BY <1>0, <3>5, ReadsTasks
    <3>7. \E i \in 1 .. Len(q) : Follows(q, i, x, v)
      BY <1>0, <3>2, <3>3, <3>4, <3>5, NextIs
    <3> QED BY <3>1, <3>5, <3>6, <3>7
  <2> HIDE DEF v, f
  <2>5. CASE OnWalkedList /\ v # 0
    <3> DEFINE u == Append(f, v)
               to == IF n < m THEN "ppid" ELSE "enter"
    <3>1. WalkGoes(to, u, n)
      BY <1>7, <2>5, AdvanceIs DEF v, f
    <3>2. ASSUME Good PROVE WalkOK(t, S, to, u, n, m, buf')
      <4>1. PICK i \in 1 .. Len(q) : Follows(q, i, x, v)
        BY <2>4, <2>5, <3>2
      <4>2. Sound(t, S, s, n, m) /\ WalkOK(t, S, "advance", s, n, m, buf) /\ buf' = buf /\ v \in Tasks
        BY <2>4, <2>5, <3>2
      <4>3. i < Len(q) /\ q[i] = x /\ v = q[i + 1]
        BY <2>5, <4>1 DEF Follows
      <4>4. /\ u \in Seq(Tasks) /\ Len(u) = Len(s) /\ u[Len(s)] = v
            /\ \A k \in 1 .. (Len(s) - 1) : u[k] = s[k]
        <5>1. /\ u \in Seq(Tasks) /\ Len(u) = Len(f) + 1 /\ u[Len(f) + 1] = v
              /\ \A k \in 1 .. Len(f) : u[k] = f[k]
          BY <2>2, <4>2, AppendIs
        <5>2. Len(f) + 1 = Len(s) /\ Len(f) = Len(s) - 1
          BY <1>0, <2>2
        <5> HIDE DEF u
        <5> QED BY <2>2, <5>1, <5>2
      <4> HIDE DEF t, S, s, n, m, u
      <4>5. WalkOK(t, S, to, u, n, m, buf)
        <5>1. q = t.children[s[Len(s) - 1]] /\ NextPath(q, i, s, u)
          BY <4>1, <4>3, <4>4 DEF NextPath
        <5>2. Len(s) >= 2 /\ to = IF n < m THEN "ppid" ELSE "enter"
          BY <2>2
        <5> HIDE DEF q, y, x, to
        <5> QED BY <4>2, <5>1, <5>2, SiblingKeeps
      <4> QED BY <4>2, <4>5
    <3> HIDE DEF to, u
    <3> QED BY <2>1, <3>1, <3>2, WalkPrints
  <2>6. CASE OnWalkedList /\ v = 0
    <3> DEFINE to == IF Len(s) = 2 THEN "finish" ELSE "advance"
    <3>1. WalkGoes(to, f, n)
      BY <1>7, <2>6, AdvanceIs DEF v, f
    <3>2. to \in {"finish", "advance"}
      OBVIOUS
    <3> HIDE DEF to
    <3>3. ASSUME Good PROVE WalkOK(t, S, to, f, n, m, buf')
      <4>1. PICK i \in 1 .. Len(q) : Follows(q, i, x, v)
        BY <2>4, <2>6, <3>3
      <4>2. /\ Sound(t, S, s, n, m) /\ WalkOK(t, S, "advance", s, n, m, buf) /\ buf' = buf
            /\ ListOK(t, y) /\ q \in Seq(Tasks)
        BY <2>4, <2>6, <3>3
      <4>3. q[i] = x /\ ~(i < Len(q))
        <5>1. i + 1 \in 1 .. Len(q) => q[i + 1] # 0
          BY <4>2 DEF ListOK
        <5>2. i < Len(q) => i + 1 \in 1 .. Len(q)
          BY <4>1, <4>2
        <5> QED BY <2>6, <4>1, <5>1, <5>2 DEF Follows
      <4>4. i = Len(q)
        BY <4>1, <4>2, <4>3
      <4> HIDE DEF t, S, s, n, m
      <4>5. WalkOK(t, S, to, f, n, m, buf)
        <5> DEFINE z == q
        <5>1. /\ z = t.children[s[Len(s) - 1]] /\ i \in 1 .. Len(z) /\ i = Len(z) /\ z[i] = x
              /\ x = s[Len(s)]
          BY <4>1, <4>3, <4>4
        <5> HIDE DEF z, q, y, x
        <5> QED BY <2>2, <3>2, <4>2, <5>1, UpKeeps
      <4> QED BY <4>2, <4>5
    <3> QED BY <2>1, <3>1, <3>3, WalkPrints
  <2> QED BY <2>3, <2>5, <2>6
<1>8. CASE ptree_finish
  <2>1. /\ walk.pc = "finish" /\ UNCHANGED <<tree, resident, hist>> /\ WalkGoes("done", s, n)
        /\ Fills(buf, buf', n) /\ (n < m /\ n \in resident => buf'[n].comm = Finish)
    BY <1>8, FinishIs
  <2>2. ASSUME Good PROVE WalkOK(t, S, "done", s, n, m, buf')
    <3>1. /\ Sound(t, S, s, n, m) /\ WalkOK(t, S, "finish", s, n, m, buf) /\ n \in resident
          /\ \A i \in 0 .. (m - 1) : i # n => buf'[i] = buf[i]
      BY <1>1, <2>1, <2>2
    <3> HIDE DEF t, S, s, n, m
    <3> QED BY <2>1, <3>1, FinishKeeps
  <2> QED BY <2>1, <2>2, WalkPrints
<1> QED BY <1>2, <1>3, <1>4, <1>5, <1>6, <1>7, <1>8 DEF Walk

\* A fork, an exit or the release of a zombie beside the walk keeps it: the walk stands
\* where it stood, in a tree that evolves.
LEMMA TreeKeeps ==
  ASSUME TypeInv, PrintInv, UNCHANGED <<walk, buf, resident>>,
         tree' \in TreeType, hist'.steady \subseteq hist.steady, ~hist'.moved => ~hist.moved,
         ~hist'.moved => /\ Evolves(tree, tree') /\ ListsMatch(tree')
                         /\ SteadyOK(tree', hist'.steady)
  PROVE  PrintInv'
<1>1. SUFFICES ASSUME ~hist'.moved
               PROVE  /\ ListsMatch(tree') /\ SteadyOK(tree', hist'.steady)
                      /\ resident' = Entries /\ walk'.pc # "lost" =>
                           WalkOK(tree', hist'.steady, walk'.pc, walk'.path, walk'.idx, walk'.nr, buf')
  BY DEF PrintInv
<1>2. ListsMatch(tree') /\ SteadyOK(tree', hist'.steady) /\ Evolves(tree, tree')
  BY <1>1
<1>3. walk' = walk /\ buf' = buf /\ resident' = resident
  OBVIOUS
<1>4. ASSUME resident = Entries, walk.pc # "lost"
      PROVE  WalkOK(tree', hist'.steady, walk.pc, walk.path, walk.idx, walk.nr, buf)
  <2> DEFINE t == tree
             u == tree'
             S == hist.steady
             Z == hist'.steady
             s == walk.path
             n == walk.idx
             m == walk.nr
             at == walk.pc
  <2>1. /\ WalkOK(t, S, at, s, n, m, buf) /\ SteadyOK(t, S) /\ t.state[0] = "running"
        /\ t \in TreeType /\ u \in TreeType
    <3>1. ListsMatch(tree)
      BY <1>1 DEF PrintInv
    <3>2. t.state[0] = "running"
      BY <3>1 DEF ListsMatch
    <3> QED BY <1>1, <1>4, <3>2 DEF PrintInv, TypeInv
  <2>2. s \in Seq(Tasks) /\ Len(s) >= 1 /\ n \in Nat /\ m \in Nat /\ 0 \in Tasks
    BY Types, EntriesAre
  <2>3. Z \subseteq S /\ \A p \in Z : Linked(u, p)
    BY <1>2 DEF SteadyOK
  <2>4. Evolves(t, u)
    BY <1>2
  <2> HIDE DEF t, u, S, Z, s, n, m, at
  <2>5. WalkOK(u, Z, at, s, n, m, buf)
    BY <2>1, <2>2, <2>3, <2>4, EvolvesKeeps
  <2> QED BY <2>5 DEF t, u, S, Z, s, n, m, at
<1> QED BY <1>2, <1>3, <1>4

\* The steps of the other processes keep the invariant.
LEMMA OthersKeep ==
  ASSUME TypeInv, PrintInv, Others
  PROVE  PrintInv'
<1>0. tree \in TreeType /\ 0 \in Tasks /\ 1 \in Tasks
  BY EntriesAre DEF TypeInv
<1>1. ~hist.moved => ListsMatch(tree) /\ SteadyOK(tree, hist.steady)
  BY DEF PrintInv
<1> DEFINE t == tree
           u == tree'
           S == hist.steady
<1>2. ASSUME NEW p \in Tasks, NEW c \in Tasks, copy_process(p, c)
      PROVE  PrintInv'
  <2>1. /\ UNCHANGED <<walk, buf, resident, hist>> /\ u \in TreeType
        /\ t.state[p] = "running" /\ t.state[c] = "unused"
        /\ u.state = [t.state EXCEPT ![c] = "running"]
        /\ u.parent = [t.parent EXCEPT ![c] = p]
        /\ u.children = [t.children EXCEPT ![p] = Append(t.children[p], c)]
    BY <1>2, ForkIs
  <2>2. ASSUME ~hist.moved
        PROVE  Evolves(t, u) /\ ListsMatch(u) /\ SteadyOK(u, S)
    <3>1. t \in TreeType /\ ListsMatch(t) /\ SteadyOK(t, S)
      BY <1>0, <1>1, <2>2
    <3> HIDE DEF t, u, S
    <3>2. Evolves(t, u)
      BY <1>0, <2>1, <3>1, ForkEvolves
    <3>3. ListsMatch(u)
      BY <1>0, <2>1, <3>1, ForkEvolves
    <3>4. SteadyOK(u, S)
      BY <1>0, <2>1, <3>1, ForkEvolves
    <3> QED BY <3>2, <3>3, <3>4
  <2>3. hist' = hist
    BY <2>1
  <2> QED BY <2>1, <2>2, <2>3, TreeKeeps
<1>3. ASSUME NEW p \in Tasks, exit_notify(p)
      PROVE  PrintInv'
  <2>1. /\ UNCHANGED <<walk, buf, resident>> /\ u \in TreeType
        /\ hist'.steady = hist.steady
        /\ p # 0 /\ p # 1 /\ t.state[p] = "running"
        /\ ~hist'.moved =>
             /\ ~hist.moved /\ t.children[p] = <<>>
             /\ u.state = [t.state EXCEPT ![p] = "zombie"]
             /\ u.parent = t.parent /\ u.children = t.children
    BY <1>3, ExitIs
  <2>2. ASSUME ~hist'.moved
        PROVE  Evolves(t, u) /\ ListsMatch(u) /\ SteadyOK(u, S)
    <3>1. t \in TreeType /\ ListsMatch(t) /\ SteadyOK(t, S)
      BY <1>0, <1>1, <2>1, <2>2
    <3>2. /\ t.children[p] = <<>> /\ u.state = [t.state EXCEPT ![p] = "zombie"]
          /\ u.parent = t.parent /\ u.children = t.children
      BY <2>1, <2>2
    <3> HIDE DEF t, u, S
    <3> QED BY <1>0, <2>1, <3>1, <3>2, ExitEvolves
  <2> QED BY <2>1, <2>2, TreeKeeps
<1>4. ASSUME NEW p \in Tasks, release_task(p)
      PROVE  PrintInv'
  <2> DEFINE y == t.parent[p]
  <2>0. y \in Tasks
    BY <1>0 DEF TreeType
  <2>1. /\ UNCHANGED <<walk, buf, resident>> /\ u \in TreeType
        /\ hist'.moved = hist.moved /\ hist'.steady = hist.steady \ {p}
        /\ t.state[p] = "zombie"
        /\ u.state = [t.state EXCEPT ![p] = "reaped"] /\ u.parent = t.parent
        /\ u.children = [t.children EXCEPT ![y] = RemoveFirst(t.children[y], p)]
    BY <1>4, ReleaseIs
  <2>2. ASSUME ~hist.moved
        PROVE  Evolves(t, u) /\ ListsMatch(u) /\ SteadyOK(u, S \ {p})
    <3>1. t \in TreeType /\ ListsMatch(t) /\ SteadyOK(t, S)
      BY <1>0, <1>1, <2>2
    <3>2. y = t.parent[p]
      OBVIOUS
    <3> HIDE DEF t, u, S, y
    <3> QED BY <1>0, <2>0, <2>1, <3>1, <3>2, ReleaseEvolves
  <2> QED BY <2>1, <2>2, TreeKeeps
<1> QED BY <1>2, <1>3, <1>4 DEF Others

\* At the end the program prints the entries that are complete, and no others.
LEMMA PrintedIs ==
  ASSUME TypeInv, PrintInv, Undisturbed
  PROVE  /\ Len(Printed) = walk.idx
         /\ \A i \in 1 .. walk.idx : Printed[i] = buf[i - 1]
<1> DEFINE n == walk.idx
           m == walk.nr
           ends == {i \in 0 .. nr : i = nr \/ buf[i].comm = Finish}
           e == CHOOSE e \in ends : \A f \in ends : e <= f
<1>1. walk.pc = "done" /\ ~hist.moved /\ resident = Entries
  BY DEF Undisturbed
<1>2. n \in Nat /\ m \in Nat /\ n <= m /\ nr = m
  BY Types
<1>3. WalkOK(tree, hist.steady, "done", walk.path, n, m, buf)
  BY <1>1 DEF PrintInv
<1>4. n \in ends
  <2>1. n < m => buf[n].comm = Finish
    BY <1>2, <1>3 DEF WalkOK, ProgressOK
  <2> QED BY <1>2, <2>1
<1>5. \A f \in ends : n <= f
  <2> SUFFICES ASSUME NEW f \in ends, f < n PROVE FALSE
    BY <1>2
  <2>1. f \in 0 .. (n - 1) /\ buf[f].comm = Finish
    BY <1>2
  <2>2. buf[f].comm = buf[f].pid /\ buf[f].pid \in Tasks
    BY <1>3, <2>1 DEF WalkOK, EntriesOK, EntryOK
  <2>3. buf[f].pid \in Nat
    BY <2>2, EntriesAre
  <2> QED BY <2>1, <2>2, <2>3 DEF Finish
<1>6. e = n
  <2>1. e \in ends /\ \A f \in ends : e <= f
    BY <1>4, <1>5
  <2>2. e \in Nat
    BY <1>2, <2>1
  <2> HIDE DEF e
  <2> QED BY <1>2, <1>4, <1>5, <2>1, <2>2
<1>7. Printed = [i \in 1 .. e |-> buf[i - 1]]
  BY DEF Printed
<1> HIDE DEF e, ends
<1> DEFINE r == [i \in 1 .. n |-> buf[i - 1]]
<1>8. Printed = r
  BY <1>6, <1>7
<1>9. Len(r) = n /\ \A i \in 1 .. n : r[i] = buf[i - 1]
  BY <1>2
<1> QED BY <1>8, <1>9

\* It follows that the tree is printed.
LEMMA PrintsTree ==
  ASSUME TypeInv, PrintInv
  PROVE  TreePrinted
<1> SUFFICES ASSUME Undisturbed
             PROVE  PrintedOnce /\ LayersNest
  BY DEF TreePrinted, PrintedOnce, LayersNest
<1> DEFINE t == tree
           S == hist.steady
           s == walk.path
           n == walk.idx
           m == walk.nr
           r == Printed
<1>1. walk.pc = "done" /\ ~hist.moved /\ resident = Entries
  BY DEF Undisturbed
<1>2. n \in Nat /\ m \in Nat /\ n <= m /\ nr = m /\ s \in Seq(Tasks)
  BY Types
<1>3. Len(s) = 1
  BY <1>1 DEF TypeInv, Shape
<1>4. WalkOK(t, S, "done", s, n, m, buf) /\ SteadyOK(t, S)
  BY <1>1 DEF PrintInv
<1>5. Len(r) = n /\ \A i \in 1 .. n : r[i] = buf[i - 1]
  BY PrintedIs
<1> HIDE DEF r, t, S, s, n, m
<1>6. /\ \A i \in 0 .. (n - 1) : EntryOK(t, buf, i)
      /\ \A i, j \in 0 .. (n - 1) : buf[i].pid = buf[j].pid => i = j
  BY <1>4 DEF WalkOK, EntriesOK
<1>7. ASSUME NEW i \in 1 .. n, NEW j \in 1 .. n, r[i].pid = r[j].pid
      PROVE  i = j
  <2>1. i - 1 \in 0 .. (n - 1) /\ j - 1 \in 0 .. (n - 1)
    BY <1>2
  <2>2. i - 1 = j - 1
    BY <1>5, <1>6, <1>7, <2>1
  <2> QED BY <2>2
<1>8. ASSUME n < m, NEW p \in S
      PROVE  \E i \in 1 .. n : r[i].pid = p
  <2>1. RecordOK("done", s, n, buf) /\ CoverOK(t, S, "done", s, n, buf) /\ s[1] = 0
    BY <1>4, <1>8 DEF WalkOK, PathOK
  <2>2. Rec(n, buf, 0)
    <3>1. 1 \in 1 .. Logged("done", s)
      BY <1>3 DEF Logged, Writing
    <3> QED BY <2>1, <3>1 DEF RecordOK, Rec
  <2>3. \A q \in S \ {0} : Rec(n, buf, q) \/ ~Rec(n, buf, t.parent[q])
    <3>1. \A q : ~Ahead(t, "done", s, q)
      BY <1>3 DEF Ahead, Writing
    <3>2. 2 .. Len(s) = {}
      BY <1>3
    <3> QED BY <2>1, <3>1, <3>2 DEF CoverOK
  <2> DEFINE U == {q \in S : ~Rec(n, buf, q)}
  <2>4. U = {}
    <3> SUFFICES ASSUME U # {} PROVE FALSE
      OBVIOUS
    <3>1. U \in SUBSET S /\ Rooted(t, S)
      BY <1>4 DEF SteadyOK
    <3>2. 0 \in U \/ \E q \in U : t.parent[q] \notin U
      BY <3>1 DEF Rooted
    <3>3. PICK q \in U : t.parent[q] \notin U
      BY <2>2, <3>2
    <3>4. q \in S \ {0} /\ ~Rec(n, buf, q)
      BY <2>2
    <3>5. t.parent[q] \in S
      BY <1>4, <3>4 DEF SteadyOK
    <3> QED BY <2>3, <3>3, <3>4, <3>5
  <2>5. PICK i \in 0 .. (n - 1) : buf[i].pid = p
    BY <2>4 DEF Rec
  <2>6. i + 1 \in 1 .. n /\ (i + 1) - 1 = i
    BY <1>2
  <2> QED BY <1>5, <2>5, <2>6
<1>9. ASSUME NEW i \in 2 .. n
      PROVE  \E j \in 1 .. (i - 1) :
               /\ r[j].pid = r[i].parent_pid /\ r[i].layer = r[j].layer + 1
               /\ \A k \in (j + 1) .. (i - 1) : r[k].layer > r[j].layer
  <2>1. i - 1 \in 0 .. (n - 1) /\ i - 1 > 0 /\ r[i] = buf[i - 1]
    BY <1>2, <1>5
  <2>2. PICK h \in 0 .. ((i - 1) - 1) : Nested(buf, i - 1, h)
    BY <1>6, <2>1 DEF EntryOK
  <2>3. h + 1 \in 1 .. (i - 1) /\ h + 1 \in 1 .. n /\ (h + 1) - 1 = h
    BY <1>2, <2>2
  <2>4. r[h + 1] = buf[h]
    BY <1>5, <2>3
  <2>5. ASSUME NEW k \in ((h + 1) + 1) .. (i - 1)
        PROVE  r[k].layer > r[h + 1].layer
    <3>1. k - 1 \in (h + 1) .. ((i - 1) - 1) /\ k \in 1 .. n
      BY <1>2, <2>2
    <3> QED BY <1>5, <2>2, <2>4, <3>1 DEF Nested
  <2>6. r[h + 1].pid = r[i].parent_pid /\ r[i].layer = r[h + 1].layer + 1
    BY <2>1, <2>2, <2>4 DEF Nested
  <2> QED BY <2>3, <2>5, <2>6
<1>10. PrintedOnce
  BY <1>2, <1>5, <1>7, <1>8 DEF PrintedOnce, r, S
<1>11. LayersNest
  BY <1>5, <1>9 DEF LayersNest, r
<1> QED BY <1>10, <1>11

\* A walk that is over, whose buffer was present and during which no children changed
\* parent, leaves in the buffer a tree that the program prints as it is: no task twice,
\* with room for it every task that was there throughout, and each under its parent. It
\* holds for any tree, any size of buffer and any forks, exits and releases meanwhile.
THEOREM TreeIsPrinted == PTreeSpec => []TreePrinted
<1>1. PTreeInit => TypeInv /\ PrintInv
  BY TypesStart, PrintStart
<1>2. TypeInv /\ PrintInv /\ [PTreeNext]_PTreeVars => TypeInv' /\ PrintInv'
  <2> SUFFICES ASSUME TypeInv, PrintInv, [PTreeNext]_PTreeVars
               PROVE  TypeInv' /\ PrintInv'
    OBVIOUS
  <2>1. TypeInv'
    BY TypesKept
  <2>2. CASE Walk
    BY <2>1, <2>2, WalkKeeps
  <2>3. CASE Others
    BY <2>1, <2>3, OthersKeep
  <2>4. CASE UNCHANGED PTreeVars
    BY <2>1, <2>4 DEF PTreeVars, PrintInv
  <2> QED BY <2>2, <2>3, <2>4 DEF PTreeNext
<1>3. TypeInv /\ PrintInv => TreePrinted
  BY PrintsTree
<1> QED BY <1>1, <1>2, <1>3, PTL DEF PTreeSpec
=============================================================================
