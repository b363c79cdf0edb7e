---------------------------- MODULE SessionProofs ----------------------------
(***************************************************************************)
(* Proofs about what clients are owed and how long they are served, for    *)
(* every set of clients and commands, whoever crashes and whichever PIDs   *)
(* are used again: the framing of one line, then the invariants of the     *)
(* session.                                                                *)
(***************************************************************************)
EXTENDS ConnectionProofs, FiniteSetTheorems, SequenceTheorems

-----------------------------------------------------------------------------
(* A line that arrives alone is submitted as it is.                        *)

LineOf(command) == <<command, Newline>>

\* A sequence of one element.
LEMMA OneElement ==
    ASSUME NEW f, NEW x, f = [i \in 1 .. 1 |-> x]
    PROVE  f = <<x>>
OBVIOUS

LEMMA LineFacts ==
    ASSUME NEW command
    PROVE  LET line == LineOf(command) IN
           /\ line \in Seq({command, Newline}) /\ Len(line) = 2
           /\ line[1] = command /\ line[2] = Newline /\ line # <<>>
           /\ DOMAIN line = {1, 2}
           /\ SubSeq(line, 1, 2) = line
           /\ SubSeq(line, 3, 2) = <<>>
           /\ <<>> \o line = line
<1> DEFINE line == LineOf(command)
<1>1. /\ line \in Seq({command, Newline}) /\ Len(line) = 2
      /\ line[1] = command /\ line[2] = Newline /\ line # <<>>
  BY DEF LineOf
<1>2. DOMAIN line = {1, 2}
  BY DEF LineOf
<1> HIDE DEF line
<1>3. SubSeq(line, 1, 2) = line
  BY <1>1, SubSeqFull
<1>4. SubSeq(line, 3, 2) = <<>>
  BY SubSeqEmpty
<1>5. <<>> \o line = line
  BY <1>1, ConcatEmptySeq
<1> QED  BY <1>1, <1>2, <1>3, <1>4, <1>5 DEF line

LEMMA OneNewline ==
    ASSUME NEW command, command # Newline
    PROVE  Newlines(LineOf(command)) = <<2>>
<1> DEFINE line == LineOf(command)
           at == {i \in DOMAIN line : line[i] = Newline}
<1>1. at = {2}
  BY DEF LineOf
<1>2. Cardinality(at) = 1
  BY <1>1, FS_Singleton
<1>3. [1 .. Cardinality(at) -> at] = {<<2>>}
  <2>1. <<2>> \in [1 .. 1 -> {2}]
    OBVIOUS
  <2>2. \A f \in [1 .. 1 -> {2}] : f = <<2>>
    <3> SUFFICES ASSUME NEW f \in [1 .. 1 -> {2}] PROVE f = <<2>>
      OBVIOUS
    <3>1. f = [i \in 1 .. 1 |-> 2]
      OBVIOUS
    <3> QED  BY <3>1, OneElement
  <2> QED  BY <1>1, <1>2, <2>1, <2>2
<1>4. Newlines(line) = CHOOSE stops \in {<<2>>} :
         \A j, k \in DOMAIN stops : j < k => stops[j] < stops[k]
  BY <1>3 DEF Newlines
<1>5. \A j, k \in DOMAIN <<2>> : j < k => <<2>>[j] < <<2>>[k]
  OBVIOUS
<1> HIDE DEF line
<1> QED  BY <1>4, <1>5 DEF line

LEMMA OneLine ==
    ASSUME NEW command, command # Newline
    PROVE  ProcessBufferedLines(LineOf(command))
               = [lines |-> <<LineOf(command)>>, rest |-> <<>>]
<1> DEFINE line == LineOf(command)
           stops == Newlines(line)
           lines == [k \in DOMAIN stops |-> SubSeq(line, LineStart(stops, k), stops[k])]
           rest == SubSeq(line, LineStart(stops, Len(stops) + 1), Len(line))
<1>1. stops = <<2>>
  BY OneNewline
<1>2. /\ SubSeq(line, 1, 2) = line /\ SubSeq(line, 3, 2) = <<>>
      /\ Len(line) = 2
  BY LineFacts
<1> HIDE DEF line, stops
<1>3. /\ stops[1] = 2 /\ Len(stops) = 1 /\ DOMAIN stops = 1 .. 1
      /\ LineStart(stops, 1) = 1 /\ LineStart(stops, 2) = 3
  BY <1>1 DEF LineStart
<1>4. lines = <<line>>
  <2>1. lines = [k \in 1 .. 1 |-> line]
    BY <1>2, <1>3
  <2> QED  BY <2>1, OneElement
<1>5. rest = <<>>
  BY <1>2, <1>3
<1>6. ~BufferFull(<<>>)
  BY BufferAssumption DEF BufferFull
<1> HIDE DEF lines, rest
<1>7. ProcessBufferedLines(line) = 
        IF BufferFull(rest) THEN [lines |-> Append(lines, rest), rest |-> <<>>]
        ELSE [lines |-> lines, rest |-> rest]
  BY DEF ProcessBufferedLines, lines, rest, stops
<1> QED  BY <1>4, <1>5, <1>6, <1>7 DEF line

\* A line that fits the buffer is read at once and submitted as it is.
LEMMA ReadLine ==
    ASSUME NEW command, command # Newline
    PROVE  ReadUntilEmpty(<<>>, LineOf(command))
             = [buffer |-> <<>>, submitted |-> <<LineOf(command)>>, unread |-> <<>>]
<1> DEFINE line == LineOf(command)
           Step(so) ==
               LET count == Min({Room(so.buffer), Len(so.unread)})
                   cut == ProcessBufferedLines(so.buffer
                                               \o SubSeq(so.unread, 1, count))
               IN  IF so.unread = <<>> THEN so
                   ELSE [buffer    |-> cut.rest,
                         submitted |-> so.submitted \o cut.lines,
                         unread    |-> SubSeq(so.unread, count + 1,
                                              Len(so.unread))]
           before == [buffer |-> <<>>, submitted |-> <<>>, unread |-> line]
           after == [buffer |-> <<>>, submitted |-> <<line>>, unread |-> <<>>]
           D == DOMAIN [i \in DOMAIN line |-> i]
           E(g) == [s \in SUBSET D |->
                      IF s = {} THEN before ELSE Step(g[s \ {Max(s)}])]
           it == CHOOSE g : g = E(g)
<1>1. ReadUntilEmpty(<<>>, line) = it[D]
  BY DEF ReadUntilEmpty, FoldLeft, MapThenFoldSet
<1>2. D = {1, 2}
  BY LineFacts
<1>3. Step(before) = after
  <2>1. /\ Len(line) = 2 /\ line # <<>> /\ SubSeq(line, 1, 2) = line
        /\ SubSeq(line, 3, 2) = <<>> /\ <<>> \o line = line
    BY LineFacts
  <2>2. ProcessBufferedLines(line) = [lines |-> <<line>>, rest |-> <<>>]
    BY OneLine
  <2> HIDE DEF line
  <2>3. Min({Room(<<>>), 2}) = 2
    BY BufferAssumption, LinesFit DEF Room, Min
  <2>4. <<>> \o <<line>> = <<line>>
    OBVIOUS
  <2>5. /\ before.buffer = <<>> /\ before.submitted = <<>>
        /\ before.unread = line
    OBVIOUS
  <2> HIDE DEF before
  <2> DEFINE count == Min({Room(before.buffer), Len(before.unread)})
             cut == ProcessBufferedLines(before.buffer
                                         \o SubSeq(before.unread, 1, count))
  <2>6. count = 2
    BY <2>1, <2>3, <2>5
  <2>7. cut = [lines |-> <<line>>, rest |-> <<>>]
    BY <2>1, <2>2, <2>5, <2>6
  <2>8. Step(before) = [buffer    |-> cut.rest,
                        submitted |-> before.submitted \o cut.lines,
                        unread    |-> SubSeq(before.unread, count + 1,
                                             Len(before.unread))]
    BY <2>1, <2>5
  <2> HIDE DEF count, cut, Step
  <2>9. cut.lines = <<line>> /\ cut.rest = <<>>
    BY <2>7
  <2>10. SubSeq(before.unread, count + 1, Len(before.unread)) = <<>>
    <3>1. count + 1 = 3 /\ Len(before.unread) = 2
      BY <2>1, <2>5, <2>6
    <3> QED  BY <2>1, <2>5, <3>1
  <2> QED  BY <2>4, <2>5, <2>8, <2>9, <2>10
<1>4. Step(after) = after
  OBVIOUS
<1> HIDE DEF line, before, after, Step, D
<1>5. Max({1}) = 1 /\ Max({2}) = 2 /\ Max({1, 2}) = 2
  BY DEF Max
<1>6. /\ {1} \ {Max({1})} = {} /\ {2} \ {Max({2})} = {}
      /\ {1, 2} \ {Max({1, 2})} = {1}
  BY <1>5
<1> DEFINE h == [s \in SUBSET D |-> IF s = {} THEN before ELSE after]
<1>7. h = E(h)
  <2>1. ASSUME NEW s \in SUBSET D
        PROVE  s = {} \/ s = {1} \/ s = {2} \/ s = {1, 2}
    BY <1>2
  <2>2. ASSUME NEW s \in SUBSET D PROVE h[s] = E(h)[s]
    BY <1>2, <1>3, <1>4, <1>6, <2>1
  <2> QED  BY <2>2
<1>8. it = E(it)
  BY <1>7
<1> HIDE DEF it
<1>9. it[{}] = before
  BY <1>8
<1>10. it[{1}] = after
  BY <1>2, <1>3, <1>6, <1>8, <1>9
<1>11. it[{1, 2}] = after
  BY <1>2, <1>4, <1>6, <1>8, <1>10
<1> QED  BY <1>1, <1>2, <1>11 DEF after, line

-----------------------------------------------------------------------------
(* The inductive invariant of the replies.                                 *)

SessionTypes ==
    /\ process \in [Clients -> ProcessPlaces]
    /\ sigusr2 \in [Clients -> BOOLEAN]
    /\ c2s \in [Clients -> {<<>>} \cup Lines]
    /\ s2c \in [Clients -> {<<>>} \cup {<<r>> : r \in Replies}]
    /\ session \in [Clients -> {"out", "in", "misled"}]
    /\ second \subseteq ReusedPids
    /\ buffer \in [Clients -> {<<>>}]
    /\ requests \in [Clients -> {<<>>} \cup {<<l>> : l \in Lines}]
    /\ response \in [Clients -> Replies \cup {NoReply}]

\* Where a client has both ends of its FIFOs, and where it is on the way there.
Talking == {"prompt", "hangup", "closing"} \cup AwaitingReply
OnTheWay == {"openC2S", "blockedC2S", "openS2C", "blockedS2C"}

NothingUnderWay(c) ==
    /\ c2s[c] = <<>> /\ requests[c] = <<>>
    /\ s2c[c] = <<>> /\ response[c] = NoReply

\* One command or reply of c is under way at most: none while c prompts, one
\* while it waits.  A client that has lost its server may leave one behind.
Owed(c) ==
    /\ c2s[c] # <<>> =>
         requests[c] = <<>> /\ s2c[c] = <<>> /\ response[c] = NoReply
    /\ requests[c] # <<>> => s2c[c] = <<>> /\ response[c] = NoReply
    /\ s2c[c] # <<>> => response[c] = NoReply
    /\ process[c] = "prompt" => NothingUnderWay(c)
    /\ process[c] = "hangup" => NothingUnderWay(c) \/ "c2sReader" \notin ends[c]
    /\ process[c] \in AwaitingReply /\ client[c].state \in {"none", "open"} =>
         ~NothingUnderWay(c)

\* Who talks has met the server, in the open of the S2C FIFO; nobody gets there
\* twice under one PID, and nothing of a client without a record is under way
\* before.
Wired(c) ==
    /\ process[c] \in Talking =>
         /\ "s2cReader" \in ends[c]
         /\ "c2sReader" \in ends[c] => "s2cWriter" \in ends[c]
         /\ client[c].state = "none" /\ main # "killed" =>
              Opening(c) /\ "s2cWriter" \in ends[c]
    /\ client[c].state # "none" \/ "s2cWriter" \in ends[c] =>
         process[c] \notin OnTheWay /\ ~(process[c] = "asking" /\ sigusr2[c])
    /\ process[c] = "start" => ~sigusr2[c]
    /\ client[c].state = "none" =>
         /\ client[c] = NoRecord
         /\ requests[c] = <<>> /\ response[c] = NoReply /\ s2c[c] = <<>>
         /\ "s2cWriter" \in ends[c] => Opening(c)
    /\ /\ main \in {"signal", "openC2S", "openS2C"} /\ accepting = c
       /\ "s2cWriter" \notin ends[c]
       => c2s[c] = <<>>

SessionInvariant ==
    /\ LeakInvariant /\ SessionTypes
    /\ \A c \in Clients : Owed(c) /\ Wired(c)

\* A step leaves everything of client d as it is.
Same(d) ==
    /\ process'[d] = process[d] /\ sigusr2'[d] = sigusr2[d]
    /\ ends'[d] = ends[d] /\ c2s'[d] = c2s[d] /\ s2c'[d] = s2c[d]
    /\ client'[d] = client[d] /\ requests'[d] = requests[d]
    /\ response'[d] = response[d]

\* The main thread neither leaves the open in which it has met client d nor gets
\* near it.
SameForMain(d) ==
    /\ main = "killed" => main' = "killed"
    /\ Opening(d) /\ "s2cWriter" \in ends[d] => Opening(d)'
    /\ main' \in {"signal", "openC2S", "openS2C"} /\ accepting' = d =>
         main \in {"signal", "openC2S", "openS2C"} /\ accepting = d

LEMMA SameKept ==
    ASSUME NEW d \in Clients, Owed(d), Wired(d), Same(d), SameForMain(d)
    PROVE  Owed(d)' /\ Wired(d)'
<1>1. Owed(d)'
  BY DEF Owed, Same, NothingUnderWay
<1>2. Wired(d)'
  BY DEF Wired, Same, SameForMain, Opening
<1> QED  BY <1>1, <1>2

-----------------------------------------------------------------------------
(* The steps of the clients.                                               *)

LEMMA EndedKeeps ==
    ASSUME LeakInvariant, SessionTypes, NEW c \in Clients, Owed(c), Wired(c),
           Ended(c), UNCHANGED <<serverVars, sigusr2, c2s>>
    PROVE  Owed(c)' /\ Wired(c)'
<1>1. /\ process'[c] = "gone" /\ s2c'[c] = <<>>
      /\ ends'[c] = ends[c] \ ClientEnds
      /\ UNCHANGED <<main, accepting, client, requests, response, sigusr2, c2s>>
  BY DEF Ended, SessionTypes, LeakInvariant, Types, serverVars
<1>2. "s2cWriter" \in ends'[c] <=> "s2cWriter" \in ends[c]
  BY <1>1 DEF ClientEnds
<1>3. Owed(c)'
  BY <1>1 DEF Owed, AwaitingReply
<1>4. Wired(c)'
  BY <1>1, <1>2 DEF Wired, Opening, Talking, OnTheWay, AwaitingReply
<1> QED  BY <1>3, <1>4

\* A command is sent only when nothing is under way.
LEMMA SendKeeps ==
    ASSUME LeakInvariant, SessionTypes, NEW c \in Clients, Owed(c), Wired(c),
           process[c] \in {"prompt", "hangup"}, NEW command,
           LineOf(command) \in Lines,
           NEW where \in {"closing", "login", "reply", "farewell"},
           Send(c, command, where), UNCHANGED <<serverVars, sigusr2>>
    PROVE  /\ Owed(c)' /\ Wired(c)'
           /\ c2s' \in [Clients -> {<<>>} \cup Lines]
<1>1. CASE ~({"c2sReader", "c2sWriter"} \subseteq ends[c])
  BY <1>1, EndedKeeps DEF Send, SessionTypes
<1>2. CASE {"c2sReader", "c2sWriter"} \subseteq ends[c]
  <2>1. NothingUnderWay(c)
    BY <1>2 DEF Owed
  <2>2. /\ process'[c] = where /\ UNCHANGED <<ends, s2c>>
        /\ c2s' = [c2s EXCEPT ![c] = c2s[c] \o <<command, Newline>>]
        /\ UNCHANGED <<main, accepting, client, requests, response, sigusr2>>
    BY <1>2 DEF Send, GoOn, SessionTypes, serverVars
  <2>3. c2s[c] \o <<command, Newline>> = LineOf(command)
    BY <2>1, LineFacts DEF NothingUnderWay, LineOf
  <2>4. LineOf(command) # <<>>
    BY LineFacts
  <2>5. c2s' = [c2s EXCEPT ![c] = LineOf(command)]
    BY <2>2, <2>3
  <2>6. c2s'[c] = LineOf(command) /\ c2s' \in [Clients -> {<<>>} \cup Lines]
    BY <2>5 DEF SessionTypes
  <2>7. Owed(c)'
    BY <2>1, <2>2, <2>4, <2>6 DEF Owed, NothingUnderWay
  <2>8. "s2cWriter" \in ends[c]
    BY <1>2 DEF Wired, Talking
  <2>9. Wired(c)'
    BY <2>2, <2>8 DEF Wired, Opening, Talking, OnTheWay, AwaitingReply
  <2> QED  BY <2>6, <2>7, <2>9
<1> QED  BY <1>1, <1>2

\* A step of a client's process touches nothing of the other clients.
LEMMA ClientAlone ==
    ASSUME LeakInvariant, SessionTypes, NEW c \in Clients, UNCHANGED serverVars,
           ClientStep(c, Opening(c)) \/ UserStep(c), NEW d \in Clients \ {c}
    PROVE  Same(d) /\ SameForMain(d)
<1>1. UNCHANGED <<main, accepting, client, requests, response>>
  BY DEF serverVars
<1>2. SameForMain(d)
  BY <1>1 DEF SameForMain, Opening
<1> DEFINE Alone == /\ process'[d] = process[d] /\ sigusr2'[d] = sigusr2[d]
                    /\ ends'[d] = ends[d] /\ c2s'[d] = c2s[d] /\ s2c'[d] = s2c[d]
<1> USE DEF LeakInvariant, Types, SessionTypes, Ended, Open, GoOn
<1>3. ASSUME NEW command, NEW where, Send(c, command, where), sigusr2' = sigusr2
      PROVE  Alone
  BY <1>3 DEF Send
<1>4. SeeReady(c) \/ TimeOut(c) \/ NotFound(c) \/ OpenC2S(c) \/ CloseFifos(c)
        => Alone
  BY DEF SeeReady, TimeOut, NotFound, OpenC2S, CloseFifos
<1>5. OpenS2C(c, Opening(c)) => Alone
  BY DEF OpenS2C
<1>6. ReadReply(c) \/ ReadEnd(c) \/ RequestConnection(c) \/ EndOfInput(c)
        => Alone
  BY DEF ReadReply, ReadEnd, RequestConnection, EndOfInput
<1>7. Crash(c) \/ ReusePid(c) => Alone
  BY DEF Crash, ReusePid
<1>8. SayGoodbye(c) \/ TypeCommand(c) => Alone
  BY <1>3 DEF SayGoodbye, TypeCommand
<1>9. Alone
  BY <1>4, <1>5, <1>6, <1>7, <1>8 DEF ClientStep, UserStep
<1> QED  BY <1>1, <1>2, <1>9 DEF Same

LEMMA ClientMoves ==
    ASSUME SessionInvariant, NEW c \in Clients, UNCHANGED serverVars,
           ClientStep(c, Opening(c)) \/ UserStep(c)
    PROVE  /\ Owed(c)' /\ Wired(c)'
           /\ c2s' \in [Clients -> {<<>>} \cup Lines]
<1> DEFINE Done == /\ Owed(c)' /\ Wired(c)'
                   /\ c2s' \in [Clients -> {<<>>} \cup Lines]
<1>1. UNCHANGED <<main, accepting, client, requests, response>>
  BY DEF serverVars
<1> USE DEF SessionInvariant, LeakInvariant, Types, SessionTypes, GoOn
<1>2. Owed(c) /\ Wired(c)
  OBVIOUS
<1>3. ASSUME Ended(c), UNCHANGED <<sigusr2, c2s>> PROVE Done
  BY <1>2, <1>3, EndedKeeps
<1>4. SeeReady(c) => Done
  BY <1>1, <1>2 DEF SeeReady, Owed, Wired, NothingUnderWay, Opening, Talking,
                    OnTheWay, AwaitingReply
<1>5. TimeOut(c) \/ NotFound(c) \/ CloseFifos(c) \/ Crash(c) => Done
  BY <1>3 DEF TimeOut, NotFound, CloseFifos, Crash
<1>6. ASSUME OpenC2S(c) PROVE Done
  <2>1. /\ "s2cWriter" \in ends'[c] <=> "s2cWriter" \in ends[c]
        /\ process[c] \in OnTheWay /\ process'[c] \in OnTheWay
        /\ UNCHANGED <<sigusr2, c2s, s2c>>
    BY <1>6 DEF OpenC2S, Open, OnTheWay
  <2>2. Owed(c)'
    BY <1>1, <1>2, <2>1 DEF Owed, NothingUnderWay, OnTheWay, AwaitingReply
  <2>3. Wired(c)'
    BY <1>1, <1>2, <2>1 DEF Wired, Opening, Talking, OnTheWay, AwaitingReply
  <2> QED  BY <2>1, <2>2, <2>3
<1>7. ASSUME OpenS2C(c, Opening(c)) PROVE Done
  <2>1. process[c] = "openS2C" /\ UNCHANGED <<sigusr2, c2s, s2c>>
    BY <1>7 DEF OpenS2C
  <2>2. CASE ~Opening(c)
    <3>1. process'[c] = "blockedS2C" /\ ends'[c] = ends[c]
      BY <1>7, <2>2 DEF OpenS2C
    <3>2. Owed(c)'
      BY <1>1, <1>2, <2>1, <3>1 DEF Owed, NothingUnderWay, AwaitingReply
    <3>3. Wired(c)'
      BY <1>1, <1>2, <2>1, <3>1 DEF Wired, Opening, Talking, OnTheWay,
                                    AwaitingReply
    <3> QED  BY <2>1, <3>2, <3>3
  <2>3. CASE Opening(c)
    <3>1. /\ process'[c] = "prompt"
          /\ ends'[c] = ends[c] \cup {"s2cReader", "s2cWriter"}
      BY <1>7, <2>3 DEF OpenS2C, Open
    <3>2. client[c].state = "none" /\ NothingUnderWay(c)
      BY <1>2, <2>1, <2>3 DEF AcceptingIsNew, Accepting, Opening, Wired,
                              OnTheWay, NothingUnderWay
    <3>3. Owed(c)'
      BY <1>1, <2>1, <3>1, <3>2 DEF Owed, NothingUnderWay, AwaitingReply
    <3>4. Wired(c)'
      BY <1>1, <1>2, <2>1, <2>3, <3>1, <3>2
         DEF Wired, Opening, Talking, OnTheWay, AwaitingReply
    <3> QED  BY <2>1, <3>3, <3>4
  <2> QED  BY <2>2, <2>3
<1>8. ASSUME ReadReply(c) PROVE Done
  <2>1. PICK r \in Replies : s2c[c] = <<r>>
    BY <1>8 DEF ReadReply
  <2>2. s2c'[c] = <<>> /\ UNCHANGED <<sigusr2, c2s, ends>>
    BY <1>8, <2>1 DEF ReadReply
  <2>3. process[c] \in Talking /\ process'[c] \in {"prompt", "closing"}
    BY <1>8 DEF ReadReply, AfterReply, Talking
  <2>4. s2c[c] # <<>>
    BY <1>8 DEF ReadReply
  <2>5. Owed(c)'
    BY <1>1, <1>2, <2>2, <2>3, <2>4 DEF Owed, NothingUnderWay, AwaitingReply
  <2>6. Wired(c)'
    BY <1>1, <1>2, <2>2, <2>3 DEF Wired, Opening, Talking, OnTheWay,
                                  AwaitingReply
  <2> QED  BY <2>2, <2>5, <2>6
<1>9. ASSUME ReadEnd(c) PROVE Done
  <2>1. /\ process[c] \in Talking /\ process'[c] \in {"hangup", "closing"}
        /\ "s2cWriter" \notin ends[c]
        /\ UNCHANGED <<sigusr2, c2s, s2c, ends>>
    BY <1>9 DEF ReadEnd, Talking
  <2>2. "c2sReader" \notin ends[c]
    BY <1>2, <2>1 DEF Wired
  <2>3. Owed(c)'
    BY <1>1, <1>2, <2>1, <2>2 DEF Owed, NothingUnderWay, AwaitingReply
  <2>4. Wired(c)'
    BY <1>1, <1>2, <2>1 DEF Wired, Opening, Talking, OnTheWay, AwaitingReply
  <2> QED  BY <2>1, <2>3, <2>4
<1>10. EndOfInput(c) => Done
  BY <1>1, <1>2 DEF EndOfInput, Owed, Wired, NothingUnderWay, Opening, Talking,
                    OnTheWay, AwaitingReply
<1>11. RequestConnection(c) => Done
  BY <1>1, <1>2 DEF RequestConnection, Owed, Wired, NothingUnderWay, Opening,
                    Talking, OnTheWay, AwaitingReply
<1>12. ReusePid(c) => Done
  BY <1>1, <1>2 DEF ReusePid, Owed, Wired, NothingUnderWay, Opening, Talking,
                    OnTheWay, AwaitingReply
<1>13. ASSUME NEW command \in Commands \cup {"Disconnect"}
       PROVE  LineOf(command) \in Lines
  BY DEF Lines, LineOf
<1>14. SayGoodbye(c) => Done
  BY <1>2, <1>13, SendKeeps DEF SayGoodbye
<1>15. ASSUME TypeCommand(c) PROVE Done
  <2>1. PICK command \in Commands : Send(c, command, AfterSending(command))
    BY <1>15 DEF TypeCommand
  <2>2. AfterSending(command) \in {"closing", "login", "reply", "farewell"}
    BY DEF AfterSending
  <2> QED  BY <1>2, <1>13, <1>15, <2>1, <2>2, SendKeeps DEF TypeCommand
<1> QED  BY <1>4, <1>5, <1>6, <1>7, <1>8, <1>9, <1>10, <1>11, <1>12, <1>14,
            <1>15
         DEF ClientStep, UserStep

LEMMA ClientSession ==
    ASSUME SessionInvariant, NEW c \in Clients, UNCHANGED serverVars,
           ClientStep(c, Opening(c)) \/ UserStep(c)
    PROVE  SessionTypes' /\ \A d \in Clients : Owed(d)' /\ Wired(d)'
<1>1. SessionTypes'
  <2> DEFINE Typed == /\ process' \in [Clients -> ProcessPlaces]
                      /\ sigusr2' \in [Clients -> BOOLEAN]
                      /\ s2c' \in [Clients -> {<<>>} \cup {<<r>> : r \in Replies}]
                      /\ session' \in [Clients -> {"out", "in", "misled"}]
                      /\ second' \subseteq ReusedPids
  <2> USE DEF SessionInvariant, SessionTypes, clientVars, GoOn, ProcessPlaces,
              Handshake, Connecting, Blocked, AwaitingReply
  <2>1. UNCHANGED <<sigusr2, clientVars>> /\ Ended(c) => Typed
    BY DEF Ended
  <2>2. ASSUME NEW command, NEW where \in AwaitingReply \cup {"closing"},
               Send(c, command, where), UNCHANGED <<sigusr2, clientVars>>
        PROVE  Typed
    BY <2>1, <2>2 DEF Send
  <2>3. SeeReady(c) \/ OpenC2S(c) \/ RequestConnection(c) \/ EndOfInput(c)
          => Typed
    BY DEF SeeReady, OpenC2S, RequestConnection, EndOfInput
  <2>4. OpenS2C(c, Opening(c)) \/ ReadEnd(c) \/ ReusePid(c) => Typed
    BY DEF OpenS2C, ReadEnd, ReusePid
  <2>5. TimeOut(c) \/ NotFound(c) \/ CloseFifos(c) \/ Crash(c) => Typed
    BY <2>1 DEF TimeOut, NotFound, CloseFifos, Crash
  <2>6. SayGoodbye(c) \/ TypeCommand(c) => Typed
    BY <2>2 DEF SayGoodbye, TypeCommand, AfterSending
  <2>7. ASSUME ReadReply(c) PROVE Typed
    <3>1. PICK r \in Replies : s2c[c] = <<r>>
      BY <2>7 DEF ReadReply
    <3>2. /\ Tail(s2c[c]) = <<>>
          /\ SessionAfter(c, Head(s2c[c])) \in {"out", "in", "misled"}
          /\ AfterReply(c, Head(s2c[c])) \in ProcessPlaces
      BY <3>1 DEF SessionAfter, AfterReply
    <3> QED  BY <2>7, <3>2 DEF ReadReply
  <2>8. Typed
    BY <2>3, <2>4, <2>5, <2>6, <2>7 DEF ClientStep, UserStep
  <2> QED  BY <2>8, ClientMoves DEF serverVars
<1>2. ASSUME NEW d \in Clients
      PROVE  Owed(d)' /\ Wired(d)'
  BY ClientMoves, ClientAlone, SameKept DEF SessionInvariant
<1> QED  BY <1>1, <1>2

-----------------------------------------------------------------------------
(* The steps of the main thread.                                           *)

\* A step that only moves the main thread, not past the open in which it has met
\* the client it accepts.
LEMMA MainMoves ==
    ASSUME SessionInvariant,
           UNCHANGED <<process, sigusr2, ends, c2s, s2c, clientVars, recordVars>>,
           main = "killed" => main' = "killed",
           \/ UNCHANGED <<main, accepting>>
           \/ main # "openS2C" /\ main' \notin {"signal", "openC2S", "openS2C"}
           \/ main = "openS2C" /\ main' = "abandon" /\ ~Met /\ accepting' = accepting
    PROVE  SessionTypes' /\ \A d \in Clients : Owed(d)' /\ Wired(d)'
<1>1. SessionTypes'
  BY DEF SessionInvariant, SessionTypes, clientVars, recordVars
<1>2. ASSUME NEW d \in Clients
      PROVE  Same(d) /\ SameForMain(d)
  BY DEF Same, SameForMain, Opening, Met, recordVars
<1> QED  BY <1>1, <1>2, SameKept DEF SessionInvariant

LEMMA TakeSession ==
    ASSUME SessionInvariant, UNCHANGED clientVars, TakePending \/ ResetPending
    PROVE  SessionTypes' /\ \A d \in Clients : Owed(d)' /\ Wired(d)'
BY MainMoves DEF TakePending, ResetPending, EmptyMailbox, Proceed, channels

LEMMA Sigusr1Session ==
    ASSUME SessionInvariant, UNCHANGED clientVars, Sigusr1Handler
    PROVE  SessionTypes' /\ \A d \in Clients : Owed(d)' /\ Wired(d)'
BY MainMoves DEF Sigusr1Handler, Proceed

\* What accept_client does is done to one client, who does not talk yet.
LEMMA AcceptSession ==
    ASSUME SessionInvariant, UNCHANGED clientVars,
           \/ CreateFifos \/ SignalReady \/ OpenForReading \/ Abandon \/ Unlink
    PROVE  SessionTypes' /\ \A d \in Clients : Owed(d)' /\ Wired(d)'
<1>1. PICK a \in Clients : /\ a = accepting
                           /\ main \in Accepting \ {"openS2C"}
                           /\ client[a].state = "none"
  BY DEF SessionInvariant, LeakInvariant, AcceptingIsNew, Accepting,
         CreateFifos, SignalReady, OpenForReading, Abandon, Unlink
<1> DEFINE Typed == /\ process' \in [Clients -> ProcessPlaces]
                    /\ sigusr2' \in [Clients -> BOOLEAN]
                    /\ c2s' \in [Clients -> {<<>>} \cup Lines]
                    /\ s2c' \in [Clients -> {<<>>} \cup {<<r>> : r \in Replies}]
           Alone == \A d \in Clients \ {a} : Same(d) /\ SameForMain(d)
           Done == Typed /\ Alone /\ Owed(a)' /\ Wired(a)'
<1> USE DEF SessionInvariant, LeakInvariant, Types, SessionTypes, Proceed,
            GiveUpAccepting
<1>2. /\ Owed(a) /\ Wired(a) /\ UNCHANGED recordVars
      /\ "s2cWriter" \notin ends[a] /\ process[a] \notin Talking
  BY <1>1 DEF Wired, Opening, Accepting, CreateFifos, SignalReady,
              OpenForReading, Abandon, Unlink
<1>3. CreateFifos => Done
  <2> SUFFICES ASSUME CreateFifos PROVE Done
    OBVIOUS
  <2>1. /\ UNCHANGED <<process, sigusr2, ends>>
        /\ UNCHANGED c2s \/ c2s' = [c2s EXCEPT ![a] = <<>>]
        /\ UNCHANGED s2c \/ s2c' = [s2c EXCEPT ![a] = <<>>]
        /\ main' \in {"signal", "cleanup"}
        /\ main' = "signal" => c2s'[a] = <<>> /\ accepting' = a
    BY <1>1 DEF CreateFifos
  <2>2. Typed
    BY <2>1
  <2>3. Alone
    BY <1>1, <1>2, <2>1 DEF Same, SameForMain, Opening, recordVars, Accepting
  <2>4. Owed(a)'
    BY <1>1, <1>2, <2>1 DEF Owed, Wired, NothingUnderWay, recordVars, Talking
  <2>5. Wired(a)'
    BY <1>1, <1>2, <2>1 DEF Wired, Opening, recordVars
  <2> QED  BY <2>2, <2>3, <2>4, <2>5
<1>4. SignalReady => Done
  <2> SUFFICES ASSUME SignalReady PROVE Done
    OBVIOUS
  <2>1. /\ UNCHANGED c2s /\ main' \in {"openC2S", "cleanup"}
        /\ main' = "openC2S" => accepting' = a
        /\ ends'[a] \subseteq ends[a] /\ UNCHANGED s2c
        /\ main = "signal"
        /\ \/ process'[a] = "gone" /\ sigusr2'[a] = sigusr2[a]
           \/ /\ process'[a] = process[a] /\ process[a] # "start"
              /\ ends'[a] = ends[a]
    <3>1. s2c[a] = <<>> /\ [s2c EXCEPT ![a] = <<>>] = s2c
      BY <1>1, <1>2 DEF Wired
    <3> QED  BY <1>1, <3>1 DEF SignalReady, UnlinkFifos, Unlinked, Exists,
                               Ended, Blocked
  <2>2. Typed
    BY <1>1 DEF SignalReady, UnlinkFifos, Unlinked, Exists, Ended,
                ProcessPlaces, Handshake, Connecting, Blocked
  <2>3. Alone
    BY <1>1, <1>2 DEF SignalReady, UnlinkFifos, Unlinked, Exists, Ended,
                      Same, SameForMain, Opening, recordVars
  <2>4. Owed(a)'
    BY <1>1, <1>2, <2>1 DEF Owed, NothingUnderWay, recordVars, Talking,
                            AwaitingReply
  <2>5. Wired(a)'
    BY <1>1, <1>2, <2>1 DEF Wired, Opening, recordVars, Talking, OnTheWay,
                            AwaitingReply
  <2> QED  BY <2>2, <2>3, <2>4, <2>5
<1>5. OpenForReading => Done
  <2> SUFFICES ASSUME OpenForReading PROVE Done
    OBVIOUS
  <2>1. /\ UNCHANGED <<sigusr2, c2s, s2c, accepting>>
        /\ main' \in {"openS2C", "abandon", "unlink"} /\ main = "openC2S"
        /\ "s2cWriter" \notin ends'[a]
        /\ \/ process'[a] = process[a]
           \/ process[a] = "blockedC2S" /\ process'[a] = "openS2C"
    BY <1>1, <1>2 DEF OpenForReading, Open
  <2>2. Typed
    BY <1>1 DEF OpenForReading, Open, ProcessPlaces, Handshake,
                Connecting, Blocked
  <2>3. Alone
    BY <1>1, <1>2 DEF OpenForReading, Open, Same, SameForMain, Opening,
                      recordVars
  <2>4. Owed(a)'
    BY <1>1, <1>2, <2>1 DEF Owed, NothingUnderWay, recordVars, Talking,
                            AwaitingReply
  <2>5. Wired(a)'
    BY <1>1, <1>2, <2>1 DEF Wired, Opening, recordVars, Talking, OnTheWay,
                            AwaitingReply
  <2> QED  BY <2>2, <2>3, <2>4, <2>5
<1>6. Abandon \/ Unlink => Done
  <2> SUFFICES ASSUME Abandon \/ Unlink PROVE Done
    OBVIOUS
  <2>1. /\ UNCHANGED <<sigusr2, c2s, s2c>>
        /\ main' \in {"unlink", "cleanup"} /\ main # "killed"
        /\ ends'[a] \subseteq ends[a]
        /\ process'[a] = process[a] \/ process'[a] = "blockedUnlinked"
    BY <1>1 DEF Abandon, Unlink, UnlinkFifos, Unlinked
  <2>2. Typed
    BY <1>1 DEF Abandon, Unlink, UnlinkFifos, Unlinked, ProcessPlaces,
                  Handshake, Connecting, Blocked
  <2>3. Alone
    BY <1>1, <1>2 DEF Abandon, Unlink, UnlinkFifos, Unlinked, Same,
                      SameForMain, Opening, recordVars
  <2>4. Owed(a)'
    BY <1>1, <1>2, <2>1 DEF Owed, NothingUnderWay, recordVars, Talking,
                            AwaitingReply
  <2>5. Wired(a)'
    BY <1>1, <1>2, <2>1 DEF Wired, Opening, recordVars, Talking, OnTheWay,
                            AwaitingReply
  <2> QED  BY <2>2, <2>3, <2>4, <2>5
<1>7. Done
  BY <1>3, <1>4, <1>5, <1>6
<1> QED  BY <1>2, <1>7, SameKept DEF clientVars, recordVars

\* The client that the main thread meets prompts, with nothing under way.
LEMMA MeetSession ==
    ASSUME SessionInvariant, UNCHANGED clientVars, OpenForWriting
    PROVE  SessionTypes' /\ \A d \in Clients : Owed(d)' /\ Wired(d)'
<1>1. PICK a \in Clients : a = accepting /\ Opening(a) /\ client[a] = NoRecord
  BY DEF SessionInvariant, LeakInvariant, AcceptingIsNew, Accepting, Opening,
         OpenForWriting, Wired
<1> USE DEF SessionInvariant, LeakInvariant, Types, SessionTypes, Proceed,
            GiveUpAccepting
<1>2. /\ Owed(a) /\ Wired(a) /\ requests[a] = <<>> /\ response[a] = NoReply
      /\ UNCHANGED <<sigusr2, c2s, s2c, buffer, requests, response, clientVars>>
      /\ main' = "cleanup" /\ client'[a].state = "open"
  BY <1>1 DEF Wired, NoRecord, OpenForWriting
<1>3. \/ /\ process[a] = "blockedS2C" /\ process'[a] = "prompt"
         /\ ends'[a] = ends[a] \cup {"s2cReader", "s2cWriter"}
      \/ /\ process'[a] = process[a] /\ ends'[a] = ends[a]
         /\ "s2cWriter" \in ends[a]
  BY <1>1 DEF OpenForWriting, Open, Met
<1>4. SessionTypes'
  BY <1>1, <1>2 DEF OpenForWriting, ProcessPlaces, clientVars
<1>5. ASSUME NEW d \in Clients \ {a} PROVE Same(d) /\ SameForMain(d)
  BY <1>1 DEF OpenForWriting, Open, Same, SameForMain, Opening
<1>6. Owed(a)'
  BY <1>1, <1>2, <1>3 DEF Owed, Wired, NothingUnderWay, NoRecord, OnTheWay,
                          AwaitingReply, Opening
<1>7. Wired(a)'
  BY <1>1, <1>2, <1>3 DEF Wired, Opening, Talking, OnTheWay, AwaitingReply,
                          NoRecord
<1> QED  BY <1>4, <1>5, <1>6, <1>7, SameKept

\* Clients that are closed had a record, and have no requests any more.
LEMMA CloseSession ==
    ASSUME SessionInvariant, NEW cs \in SUBSET Clients, CloseClients(cs),
           \A c \in cs : client[c].state = "open",
           main' \notin {"signal", "openC2S", "openS2C", "killed"},
           main \notin {"openS2C", "killed"},
           UNCHANGED <<process, sigusr2, c2s, s2c, buffer, response, clientVars>>
    PROVE  SessionTypes' /\ \A d \in Clients : Owed(d)' /\ Wired(d)'
<1> USE DEF SessionInvariant, LeakInvariant, Types, SessionTypes
<1>1. SessionTypes'
  BY DEF CloseClients, clientVars
<1>2. ASSUME NEW d \in Clients \ cs PROVE Same(d) /\ SameForMain(d)
  BY DEF CloseClients, Same, SameForMain, Opening
<1>3. ASSUME NEW d \in cs PROVE Owed(d)' /\ Wired(d)'
  <2>1. /\ Owed(d) /\ Wired(d) /\ client[d].state = "open" /\ d \in Clients
        /\ client'[d].state = "closed" /\ requests'[d] = <<>>
        /\ "c2sReader" \notin ends'[d] /\ "s2cWriter" \notin ends'[d]
        /\ "s2cReader" \in ends[d] => "s2cReader" \in ends'[d]
    BY DEF CloseClients, ServerEnds
  <2>2. Owed(d)'
    BY <2>1 DEF Owed, NothingUnderWay
  <2>3. Wired(d)'
    BY <2>1 DEF Wired, Opening, NoRecord
  <2> QED  BY <2>2, <2>3
<1> QED  BY <1>1, <1>2, <1>3, SameKept

LEMMA EndSession ==
    ASSUME SessionInvariant, UNCHANGED clientVars,
           CleanupInactiveClients \/ CloseAtEnd
    PROVE  SessionTypes' /\ \A d \in Clients : Owed(d)' /\ Wired(d)'
<1>1. CASE CleanupInactiveClients
  <2> DEFINE cs == {c \in Clients : /\ client[c].state = "open"
                                    /\ client[c].due = "past" \/ ~Exists(c)}
  <2>1. CloseClients(cs) /\ cs \in SUBSET Clients
    BY <1>1 DEF CleanupInactiveClients
  <2>2. \A c \in cs : client[c].state = "open"
    OBVIOUS
  <2> HIDE DEF cs
  <2> QED  BY <1>1, <2>1, <2>2, CloseSession DEF CleanupInactiveClients, Proceed
<1>2. CASE CloseAtEnd
  <2> DEFINE cs == {c \in Clients : /\ client[c].state = "open"
                                    /\ c2s[c] = <<>> /\ AtEnd(c)}
  <2>1. CloseClients(cs) /\ cs \in SUBSET Clients
    BY <1>2 DEF CloseAtEnd
  <2>2. \A c \in cs : client[c].state = "open"
    OBVIOUS
  <2> HIDE DEF cs
  <2> QED  BY <1>2, <2>1, <2>2, CloseSession DEF CloseAtEnd, Proceed
<1> QED  BY <1>1, <1>2

\* What the main thread reads of a client is the one line that is under way.
Ready == {c \in Clients : client[c].state = "open" /\ c2s[c] # <<>>}

LEMMA ReadStep ==
    ASSUME SessionInvariant, SelectAndRead
    PROVE  /\ \A d \in Ready : c2s[d] \in Lines
           /\ buffer' = [c \in Clients |-> IF c \in Ready THEN <<>> ELSE buffer[c]]
           /\ requests' = [c \in Clients |->
                              IF c \in Ready THEN <<c2s[c]>> ELSE requests[c]]
           /\ c2s' = [c \in Clients |-> IF c \in Ready THEN <<>> ELSE c2s[c]]
           /\ UNCHANGED <<process, sigusr1, sigusr2, ends, s2c, pending,
                          accepting, client, response>>
           /\ main = "select" /\ main' = "read"
<1>1. ASSUME NEW d \in Ready
      PROVE  /\ c2s[d] \in Lines
             /\ ReadUntilEmpty(buffer[d], c2s[d])
                  = [buffer |-> <<>>, submitted |-> <<c2s[d]>>, unread |-> <<>>]
             /\ requests[d] \o <<c2s[d]>> = <<c2s[d]>>
  <2>1. buffer[d] = <<>> /\ requests[d] = <<>> /\ c2s[d] \in Lines
    BY DEF Ready, SessionInvariant, SessionTypes, Owed
  <2>2. PICK command \in Commands \cup {"Disconnect"} :
           c2s[d] = LineOf(command)
    BY <2>1 DEF Lines, LineOf
  <2>3. command # Newline
    BY CommandsAssumption
  <2>4. ReadUntilEmpty(<<>>, c2s[d])
          = [buffer |-> <<>>, submitted |-> <<c2s[d]>>, unread |-> <<>>]
    BY <2>2, <2>3, ReadLine
  <2>5. <<>> \o <<c2s[d]>> = <<c2s[d]>>
    OBVIOUS
  <2> QED  BY <2>1, <2>4, <2>5
<1> DEFINE read == [c \in Ready |-> ReadUntilEmpty(buffer[c], c2s[c])]
<1>2. ASSUME NEW c \in Ready
      PROVE  /\ read[c].buffer = <<>> /\ read[c].unread = <<>>
             /\ requests[c] \o read[c].submitted = <<c2s[c]>>
  <2>1. read[c] = ReadUntilEmpty(buffer[c], c2s[c])
    OBVIOUS
  <2>2. read[c] = [buffer |-> <<>>, submitted |-> <<c2s[c]>>, unread |-> <<>>]
    BY <1>1, <2>1
  <2> HIDE DEF read
  <2> QED  BY <1>1, <2>2
<1>3. /\ buffer' = [c \in Clients |->
           IF c \in Ready THEN read[c].buffer ELSE buffer[c]]
      /\ requests' = [c \in Clients |->
           IF c \in Ready THEN requests[c] \o read[c].submitted
           ELSE requests[c]]
      /\ c2s' = [c \in Clients |->
           IF c \in Ready THEN read[c].unread ELSE c2s[c]]
  BY Zenon DEF SelectAndRead, Ready
<1>4. /\ UNCHANGED <<process, sigusr1, sigusr2, ends, s2c, pending, accepting,
                     client, response>>
      /\ main = "select" /\ main' = "read"
  BY DEF SelectAndRead, Proceed
<1> HIDE DEF read
<1> QED  BY <1>1, <1>2, <1>3, <1>4

LEMMA ReadSession ==
    ASSUME SessionInvariant, UNCHANGED clientVars, SelectAndRead
    PROVE  SessionTypes' /\ \A d \in Clients : Owed(d)' /\ Wired(d)'
<1> USE DEF SessionInvariant, LeakInvariant, Types, SessionTypes
<1>1. Ready \subseteq Clients /\ \A c \in Ready : client[c].state = "open"
  BY DEF Ready
<1>2. SessionTypes'
  BY <1>1, ReadStep DEF clientVars
<1>3. ASSUME NEW d \in Clients \ Ready PROVE Same(d) /\ SameForMain(d)
  BY ReadStep DEF Same, SameForMain, Opening
<1>4. ASSUME NEW d \in Ready PROVE Owed(d)' /\ Wired(d)'
  <2>1. /\ Owed(d) /\ Wired(d) /\ d \in Clients /\ client[d].state = "open"
        /\ c2s[d] # <<>>
    BY <1>1 DEF Ready
  <2>2. c2s'[d] = <<>> /\ requests'[d] = <<c2s[d]>> /\ <<c2s[d]>> # <<>>
    BY <1>1, ReadStep
  <2>3. Owed(d)'
    BY <2>1, <2>2, ReadStep DEF Owed, NothingUnderWay
  <2>4. Wired(d)'
    BY <2>1, <2>2, ReadStep DEF Wired, Opening, NoRecord
  <2> QED  BY <2>3, <2>4
<1> QED  BY <1>2, <1>3, <1>4, SameKept

-----------------------------------------------------------------------------
(* The steps of the workers, and of time.                                  *)

LEMMA TimeSession ==
    ASSUME SessionInvariant, UNCHANGED clientVars, NEW c \in Clients, TimePasses(c)
    PROVE  SessionTypes' /\ \A d \in Clients : Owed(d)' /\ Wired(d)'
<1> USE DEF SessionInvariant, LeakInvariant, Types, SessionTypes, TimePasses,
            channels
<1>1. SessionTypes'
  BY DEF clientVars
<1>2. ASSUME NEW d \in Clients \ {c} PROVE Same(d) /\ SameForMain(d)
  BY DEF Same, SameForMain, Opening
<1>3. client'[c].state = client[c].state
  OBVIOUS
<1>4. Owed(c)'
  BY <1>3 DEF Owed, NothingUnderWay
<1>5. Wired(c)'
  BY <1>3 DEF Wired, Opening
<1> QED  BY <1>1, <1>2, <1>4, <1>5, SameKept

\* A request becomes its response.
LEMMA HandleSession ==
    ASSUME SessionInvariant, UNCHANGED clientVars, NEW c \in Clients,
           HandleRequest(c)
    PROVE  SessionTypes' /\ \A d \in Clients : Owed(d)' /\ Wired(d)'
<1> USE DEF SessionInvariant, LeakInvariant, Types, SessionTypes, channels
<1>1. PICK line \in Lines : requests[c] = <<line>>
  BY DEF HandleRequest
<1>2. PICK command : /\ response' = [response EXCEPT ![c] = Reply(c, command)]
                     /\ client' = [client EXCEPT ![c] = After(c, command)]
  BY DEF HandleRequest
<1>3. Reply(c, command) \in Replies /\ Reply(c, command) # NoReply
  BY NoReplyAssumption DEF Reply, Replies
<1>4. /\ requests' = [requests EXCEPT ![c] = <<>>] /\ requests[c] # <<>>
      /\ UNCHANGED <<process, sigusr2, ends, c2s, s2c, main, accepting, buffer>>
  BY <1>1 DEF HandleRequest
<1>5. After(c, command).state = client[c].state
  BY DEF After, Records
<1>6. client'[c].state = client[c].state /\ client[c].state # "none"
  BY <1>2, <1>4, <1>5 DEF Wired
<1>7. SessionTypes'
  BY <1>2, <1>3, <1>4 DEF clientVars
<1>8. ASSUME NEW d \in Clients \ {c} PROVE Same(d) /\ SameForMain(d)
  BY <1>2, <1>4 DEF Same, SameForMain, Opening
<1>9. Owed(c)'
  BY <1>2, <1>3, <1>4, <1>6 DEF Owed, NothingUnderWay
<1>10. Wired(c)'
  BY <1>4, <1>6 DEF Wired, Opening
<1> QED  BY <1>7, <1>8, <1>9, <1>10, SameKept

\* A response becomes a reply, or is lost with the connection.
LEMMA RespondSession ==
    ASSUME SessionInvariant, UNCHANGED clientVars, NEW c \in Clients,
           SendResponse(c)
    PROVE  SessionTypes' /\ \A d \in Clients : Owed(d)' /\ Wired(d)'
<1> USE DEF SessionInvariant, LeakInvariant, Types, SessionTypes
<1>1. /\ response[c] # NoReply /\ response' = [response EXCEPT ![c] = NoReply]
      /\ UNCHANGED <<process, sigusr2, c2s, accepting, buffer, requests>>
      /\ main # "killed" /\ Owed(c) /\ Wired(c) /\ client[c].state # "none"
      /\ c2s[c] = <<>> /\ requests[c] = <<>> /\ s2c[c] = <<>>
      /\ process[c] \notin {"prompt"}
  BY DEF SendResponse, Owed, Wired, NothingUnderWay
<1> DEFINE Done == SessionTypes' /\ \A d \in Clients : Owed(d)' /\ Wired(d)'
<1>2. ASSUME client[c].state # "open", UNCHANGED <<ends, s2c, client, main>>
      PROVE  Done
  <2>1. SessionTypes'
    BY <1>1, <1>2 DEF clientVars
  <2>2. ASSUME NEW d \in Clients \ {c} PROVE Same(d) /\ SameForMain(d)
    BY <1>1, <1>2 DEF Same, SameForMain, Opening
  <2>3. Owed(c)'
    BY <1>1, <1>2 DEF Owed, NothingUnderWay
  <2>4. Wired(c)'
    BY <1>1, <1>2 DEF Wired, Opening
  <2> QED  BY <2>1, <2>2, <2>3, <2>4, SameKept
<1>3. ASSUME client[c].state = "open", UNCHANGED <<ends, client, main>>,
             s2c' = [s2c EXCEPT ![c] = Append(@, response[c])]
      PROVE  Done
  <2>1. s2c' = [s2c EXCEPT ![c] = <<response[c]>>] /\ response[c] \in Replies
    BY <1>1, <1>3
  <2>2. SessionTypes'
    BY <1>1, <2>1 DEF clientVars
  <2>3. ASSUME NEW d \in Clients \ {c} PROVE Same(d) /\ SameForMain(d)
    BY <1>1, <1>3 DEF Same, SameForMain, Opening
  <2>4. Owed(c)'
    BY <1>1, <1>3, <2>1 DEF Owed, NothingUnderWay
  <2>5. Wired(c)'
    BY <1>1, <1>3 DEF Wired, Opening
  <2> QED  BY <2>2, <2>3, <2>4, <2>5, SameKept
<1>4. ASSUME client[c].state = "open", "s2cReader" \notin ends[c],
             UNCHANGED s2c,
             \/ /\ main' = "killed" /\ UNCHANGED client
                /\ ends' = [d \in Clients |-> ends[d] \ ServerEnds]
             \/ /\ client' = [client EXCEPT ![c].state = "lost"]
                /\ UNCHANGED <<ends, main>>
      PROVE  Done
  <2>1. process[c] \notin Talking
    BY <1>1, <1>4 DEF Wired
  <2>2. SessionTypes'
    BY <1>1, <1>4 DEF clientVars
  <2>3. Owed(c)'
    BY <1>1, <1>4, <2>1 DEF Owed, NothingUnderWay, Talking
  <2>4. Wired(c)'
    <3>1. /\ process'[c] \notin Talking \cup OnTheWay
          /\ ~(process'[c] = "asking" /\ sigusr2'[c])
          /\ process'[c] = "start" => ~sigusr2'[c]
          /\ c2s'[c] = <<>>
      BY <1>1, <2>1 DEF Wired
    <3>2. client'[c].state # "none"
      BY <1>1, <1>4 DEF Records
    <3> QED  BY <3>1, <3>2 DEF Wired
  <2>5. ASSUME NEW d \in Clients \ {c}, main' = "killed", UNCHANGED client,
               ends' = [e \in Clients |-> ends[e] \ ServerEnds]
        PROVE  Owed(d)' /\ Wired(d)'
    <3>1. /\ Owed(d) /\ Wired(d) /\ response'[d] = response[d]
          /\ "c2sReader" \notin ends'[d] /\ "s2cWriter" \notin ends'[d]
          /\ "s2cReader" \in ends[d] => "s2cReader" \in ends'[d]
      BY <1>1, <2>5 DEF ServerEnds
    <3>2. Owed(d)'
      BY <1>1, <1>4, <2>5, <3>1 DEF Owed, NothingUnderWay
    <3>3. Wired(d)'
      BY <1>1, <1>4, <2>5, <3>1 DEF Wired, Opening
    <3> QED  BY <3>2, <3>3
  <2>6. ASSUME NEW d \in Clients \ {c}, UNCHANGED <<ends, main>>,
               client' = [client EXCEPT ![c].state = "lost"]
        PROVE  Same(d) /\ SameForMain(d)
    BY <1>1, <1>4, <2>6 DEF Same, SameForMain, Opening
  <2> QED  BY <1>4, <2>2, <2>3, <2>4, <2>5, <2>6, SameKept
<1> QED  BY <1>2, <1>3, <1>4 DEF SendResponse

-----------------------------------------------------------------------------
(* The theorems.                                                           *)

LEMMA SessionInit == Init => SessionInvariant
<1> SUFFICES ASSUME Init PROVE SessionInvariant
  OBVIOUS
<1>1. LeakInvariant
  BY LeakInit
<1>2. SessionTypes
  BY DEF Init, ChannelsInit, ClientInit, ServerInit, SessionTypes, ProcessPlaces
<1>3. ASSUME NEW c \in Clients PROVE Owed(c) /\ Wired(c)
  BY DEF Init, ChannelsInit, ServerInit, Owed, Wired, NothingUnderWay, Talking,
         OnTheWay, AwaitingReply, NoRecord, Opening
<1> QED  BY <1>1, <1>2, <1>3 DEF SessionInvariant

LEMMA SessionStep == SessionInvariant /\ [Next]_vars => SessionInvariant'
<1> SUFFICES ASSUME SessionInvariant, [Next]_vars
             PROVE  SessionInvariant'
  OBVIOUS
<1> DEFINE Done == SessionTypes' /\ \A d \in Clients : Owed(d)' /\ Wired(d)'
<1>1. LeakInvariant'
  BY LeakStep DEF SessionInvariant
<1>2. ASSUME NEW c \in Clients, UNCHANGED serverVars,
             ClientStep(c, Opening(c)) \/ UserStep(c)
      PROVE  Done
  BY <1>2, ClientSession
<1>3. ASSUME NEW c \in Clients, UNCHANGED clientVars,
             TimePasses(c) \/ WorkerStep(c)
      PROVE  Done
  BY <1>3, TimeSession, HandleSession, RespondSession DEF WorkerStep
<1>4. ASSUME UNCHANGED clientVars, MainStep \/ Sigusr1Handler
      PROVE  Done
  BY <1>4, TakeSession, Sigusr1Session, AcceptSession, MeetSession, EndSession,
     ReadSession
     DEF MainStep
<1>5. ASSUME UNCHANGED vars PROVE Done
  <2>1. UNCHANGED <<channels, clientVars, serverVars>>
    BY <1>5 DEF vars
  <2>2. SessionTypes'
    BY <2>1 DEF channels, clientVars, serverVars, SessionInvariant, SessionTypes
  <2>3. ASSUME NEW d \in Clients PROVE Same(d) /\ SameForMain(d)
    BY <2>1 DEF channels, serverVars, Same, SameForMain, Opening
  <2> QED  BY <2>2, <2>3, SameKept DEF SessionInvariant
<1>6. Done
  BY <1>2, <1>3, <1>4, <1>5 DEF Next
<1> QED  BY <1>1, <1>6 DEF SessionInvariant

\* A client that waits is owed exactly one reply, whoever crashes, times out or
\* is given a PID again (main of client_main.c, process_buffered_lines and
\* send_ordered_response).
THEOREM OwedTheorem == Spec => []OneReplyOwed
<1>1. SessionInvariant => OneReplyOwed
  <2> SUFFICES ASSUME SessionInvariant, NEW c \in Clients
               PROVE  /\ process[c] = "prompt" => InFlight(c) = 0
                      /\ /\ process[c] \in AwaitingReply
                         /\ client[c].state \in {"none", "open"}
                         => InFlight(c) = 1
    BY DEF OneReplyOwed
  <2> USE DEF SessionInvariant, SessionTypes
  <2>1. Owed(c)
    OBVIOUS
  <2>2. /\ c2s[c] = <<>> => Len(c2s[c]) = 0
        /\ requests[c] = <<>> => Len(requests[c]) = 0
        /\ s2c[c] = <<>> => Len(s2c[c]) = 0
    OBVIOUS
  <2>3. c2s[c] # <<>> => Len(c2s[c]) = 2
    BY DEF Lines
  <2>4. requests[c] # <<>> => Len(requests[c]) = 1
    OBVIOUS
  <2>5. s2c[c] # <<>> => Len(s2c[c]) = 1
    OBVIOUS
  <2>6. 0 \div 2 = 0 /\ 2 \div 2 = 1
    OBVIOUS
  <2>7. NothingUnderWay(c) => InFlight(c) = 0
    BY <2>2, <2>6 DEF NothingUnderWay, InFlight
  <2>8. ~NothingUnderWay(c) => InFlight(c) = 1
    <3> SUFFICES ASSUME ~NothingUnderWay(c) PROVE InFlight(c) = 1
      OBVIOUS
    <3> DEFINE answers == IF response[c] = NoReply THEN 0 ELSE 1
    <3> HIDE DEF SessionInvariant, SessionTypes
    <3>1. InFlight(c) = Len(c2s[c]) \div 2 + Len(requests[c]) + Len(s2c[c])
                          + answers
      BY DEF InFlight
    <3>2. \/ /\ Len(c2s[c]) = 2 /\ Len(requests[c]) = 0
             /\ Len(s2c[c]) = 0 /\ answers = 0
          \/ /\ Len(c2s[c]) = 0 /\ Len(requests[c]) = 1
             /\ Len(s2c[c]) = 0 /\ answers = 0
          \/ /\ Len(c2s[c]) = 0 /\ Len(requests[c]) = 0
             /\ Len(s2c[c]) = 1 /\ answers = 0
          \/ /\ Len(c2s[c]) = 0 /\ Len(requests[c]) = 0
             /\ Len(s2c[c]) = 0 /\ answers = 1
      BY <2>1, <2>2, <2>3, <2>4, <2>5 DEF NothingUnderWay, Owed
    <3> HIDE DEF answers
    <3>3. /\ Len(c2s[c]) = 2 => Len(c2s[c]) \div 2 = 1
          /\ Len(c2s[c]) = 0 => Len(c2s[c]) \div 2 = 0
      BY <2>6
    <3>4. 1 + 0 + 0 + 0 = 1 /\ 0 + 1 + 0 + 0 = 1 /\ 0 + 0 + 1 + 0 = 1
          /\ 0 + 0 + 0 + 1 = 1
      OBVIOUS
    <3> QED  BY <3>1, <3>2, <3>3, <3>4
  <2> QED  BY <2>1, <2>7, <2>8 DEF Owed
<1> QED  BY <1>1, SessionInit, SessionStep, PTL DEF Spec

\* Every variable of the session has its type; in particular a line is submitted
\* as it was written, and nothing of it stays in the read buffer
\* (process_buffered_lines, read_client).
THEOREM SessionTypeTheorem == Spec => []TypeOK
<1>1. SessionInvariant => TypeOK
  BY DEF SessionInvariant, SessionTypes, LeakInvariant, Types, TypeOK
<1> QED  BY <1>1, SessionInit, SessionStep, PTL DEF Spec

-----------------------------------------------------------------------------
(* The inductive invariant of those who are connected.  It leaves out who  *)
(* has been given a PID again: the server may take the first process and   *)
(* the second for one, or accept both.                                     *)

\* The server has c's SIGUSR1, or its PID, and has not answered yet.
Asked(c) ==
    \/ sigusr1 = c \/ pending = c
    \/ accepting = c /\ main \in {"reset", "create", "signal"}

\* The one request of c for a connection is in one place, and unanswered there.
OneRequest(c) ==
    /\ process[c] = "start" => sigusr1 # c /\ pending # c /\ accepting # c
    /\ sigusr1 = c => pending # c /\ accepting # c
    /\ pending = c /\ accepting = c => main \in {"reset", "killed"}
    /\ Asked(c) => process[c] \in {"asking", "gone"} /\ ~sigusr2[c]

\* Who talks holds the C2S FIFO open, and is served while it prompts or waits.
Connected(c) ==
    /\ process[c] \in Talking => "c2sWriter" \in ends[c]
    /\ /\ process[c] \in {"openS2C", "blockedS2C"} /\ accepting = c
       /\ main \in {"openC2S", "openS2C"}
       => "c2sWriter" \in ends[c]
    /\ process[c] \in {"prompt", "login", "reply"} /\ main # "killed" =>
           \/ client[c].state = "open"
           \/ client[c].state = "none" /\ Opening(c)
           \/ process[c] = "login" /\ client[c].due # "no"

\* Line l of c waits to be handled; r is the reply to the last one.
Sent(c, l) == c2s[c] = l \/ requests[c] = <<l>>
Answered(c, r) == response[c] = r \/ s2c[c] = <<r>>

\* Only a login, rejected, makes the server disconnect a client that goes on;
\* only one that succeeds logs in, before its reply is read.
InStep(c) ==
    /\ process[c] \in {"prompt", "reply"} => client[c].due = "no"
    /\ process[c] = "reply" =>
           \A l \in Lines : Sent(c, l) => l[1] \notin LoginCommands \cup {"Disconnect"}
    /\ process[c] = "login" =>
           /\ \A l \in Lines :
                  Sent(c, l) => l[1] \in LoginCommands /\ client[c].due = "no"
           /\ \A r \in Replies :
                  Answered(c, r) => r = "reject" \/ client[c].due = "no"
           /\ Answered(c, "balance") => client[c].loggedIn
    /\ client[c].state = "none" => session[c] = "out"
    /\ /\ process[c] \in {"prompt", "login", "reply"}
       /\ session[c] = "in" /\ client[c].state = "open"
       => client[c].loggedIn

ServedInvariant ==
    /\ SessionInvariant
    /\ \A c \in Clients \ second : OneRequest(c) /\ Connected(c) /\ InStep(c)

\* The main thread does not start to wait for client d.
FarFromMain(d) ==
    accepting' = d /\ main' \in {"openC2S", "openS2C"} =>
        accepting = d /\ main \in {"openC2S", "openS2C"}

LEMMA SameServed ==
    ASSUME SessionInvariant, NEW d \in Clients, Connected(d), InStep(d), Same(d),
           SameForMain(d), FarFromMain(d), session'[d] = session[d]
    PROVE  Connected(d)' /\ InStep(d)'
<1>1. Wired(d)
  BY DEF SessionInvariant
<1>2. Connected(d)'
  BY <1>1 DEF Connected, Same, SameForMain, FarFromMain, Wired, Opening, Talking,
              AwaitingReply
<1>3. InStep(d)'
  BY DEF InStep, Same, Sent, Answered
<1> QED  BY <1>2, <1>3

\* A client that neither talks nor opens its S2C FIFO.
LEMMA SilentServed ==
    ASSUME NEW c \in Clients, InStep(c), process'[c] \notin Talking,
           client'[c].state = "none" => client[c].state = "none",
           session'[c] = session[c],
           /\ process'[c] \in {"openS2C", "blockedS2C"} /\ accepting' = c
           /\ main' \in {"openC2S", "openS2C"}
           => "c2sWriter" \in ends'[c]
    PROVE  Connected(c)' /\ InStep(c)'
<1>1. process'[c] \notin {"prompt", "login", "reply"}
  BY DEF Talking, AwaitingReply
<1>2. Connected(c)'
  BY <1>1 DEF Connected
<1>3. InStep(c)'
  BY <1>1 DEF InStep
<1> QED  BY <1>2, <1>3

-----------------------------------------------------------------------------
(* The requests for a connection.                                          *)

LEMMA ClientRequest ==
    ASSUME SessionInvariant, NEW c \in Clients, UNCHANGED serverVars,
           ClientStep(c, Opening(c)) \/ UserStep(c),
           NEW d \in Clients, d \notin second', OneRequest(d)
    PROVE  OneRequest(d)'
<1> USE DEF SessionInvariant, LeakInvariant, Types, SessionTypes, GoOn
<1>1. UNCHANGED <<main, accepting, pending>>
  BY DEF serverVars
<1> DEFINE First == /\ process[c] = "start" /\ process'[c] = "asking"
                    /\ sigusr1' \in {sigusr1, c} /\ sigusr2' = sigusr2
           Later == /\ process[c] \notin {"start", "gone"}
                    /\ process'[c] # "start"
                    /\ process[c] = "asking" => process'[c] = "gone" \/ sigusr2[c]
                    /\ UNCHANGED <<sigusr1, sigusr2>>
           Again == c \in second' /\ UNCHANGED sigusr1
<1>2. First \/ Later \/ Again
  <2>1. ASSUME NEW command, NEW where \in AwaitingReply \cup {"closing"},
               Send(c, command, where)
        PROVE  process'[c] \in {"gone", where}
    BY <2>1 DEF Send, Ended
  <2>2. RequestConnection(c) => First
    BY DEF RequestConnection, SendSigusr1
  <2>3. SeeReady(c) \/ OpenC2S(c) \/ EndOfInput(c) \/ ReadEnd(c) => Later
    BY DEF SeeReady, OpenC2S, EndOfInput, ReadEnd, AwaitingReply
  <2>4. OpenS2C(c, Opening(c)) \/ ReadReply(c) => Later
    BY DEF OpenS2C, ReadReply, AfterReply, AwaitingReply
  <2>5. TimeOut(c) \/ NotFound(c) \/ CloseFifos(c) \/ Crash(c) => Later
    BY DEF TimeOut, NotFound, CloseFifos, Crash, Ended
  <2>6. SayGoodbye(c) => Later
    BY <2>1 DEF SayGoodbye, AwaitingReply
  <2>7. ASSUME TypeCommand(c) PROVE Later
    <3>1. PICK command \in Commands : Send(c, command, AfterSending(command))
      BY <2>7 DEF TypeCommand
    <3>2. AfterSending(command) \in {"closing", "login", "reply"}
      BY DEF AfterSending
    <3>3. process'[c] \in {"gone", "closing", "login", "reply"}
      BY <2>1, <3>1, <3>2 DEF AwaitingReply
    <3> QED  BY <2>7, <3>3 DEF TypeCommand
  <2>8. ReusePid(c) => Again
    BY DEF ReusePid
  <2> QED  BY <2>2, <2>3, <2>4, <2>5, <2>6, <2>7, <2>8 DEF ClientStep, UserStep
<1>3. CASE d # c
  <2>1. process'[d] = process[d] /\ sigusr2'[d] = sigusr2[d]
    BY <1>3, ClientAlone DEF Same
  <2>2. sigusr1' = d => sigusr1 = d
    BY <1>2, <1>3
  <2> QED  BY <1>1, <2>1, <2>2 DEF OneRequest, Asked
<1>4. CASE d = c
  <2>1. process[c] = "start" => ~sigusr2[c]
    BY DEF Wired
  <2>2. CASE First
    BY <1>1, <1>4, <2>1, <2>2 DEF OneRequest, Asked
  <2>3. CASE Later
    BY <1>1, <1>4, <2>3 DEF OneRequest, Asked
  <2> QED  BY <1>2, <1>4, <2>2, <2>3
<1> QED  BY <1>3, <1>4

LEMMA MainRequest ==
    ASSUME SessionInvariant, MainStep \/ Sigusr1Handler,
           NEW d \in Clients, OneRequest(d)
    PROVE  OneRequest(d)'
<1> USE ClientsAssumption
    DEF SessionInvariant, LeakInvariant, Types, SessionTypes, Proceed,
        GiveUpAccepting
<1>1. Sigusr1Handler => OneRequest(d)'
  BY DEF Sigusr1Handler, OneRequest, Asked
<1>2. TakePending => OneRequest(d)'
  BY DEF TakePending, OneRequest, Asked, channels, AcceptingIsNew
<1>3. ResetPending => OneRequest(d)'
  BY DEF ResetPending, EmptyMailbox, OneRequest, Asked, channels
<1>4. CreateFifos => OneRequest(d)'
  BY DEF CreateFifos, OneRequest, Asked
<1>5. SignalReady => OneRequest(d)'
  BY DEF SignalReady, OneRequest, Asked, UnlinkFifos, Unlinked, Exists, Ended
<1>6. OpenForReading => OneRequest(d)'
  BY DEF OpenForReading, OneRequest, Asked
<1>7. OpenForWriting => OneRequest(d)'
  BY DEF OpenForWriting, OneRequest, Asked
<1>8. Abandon \/ Unlink => OneRequest(d)'
  BY DEF Abandon, Unlink, UnlinkFifos, Unlinked, OneRequest, Asked
<1>9. CleanupInactiveClients \/ SelectAndRead \/ CloseAtEnd => OneRequest(d)'
  BY DEF CleanupInactiveClients, SelectAndRead, CloseAtEnd, OneRequest, Asked
<1> QED  BY <1>1, <1>2, <1>3, <1>4, <1>5, <1>6, <1>7, <1>8, <1>9 DEF MainStep

LEMMA WorkerRequest ==
    ASSUME SessionInvariant, NEW c \in Clients, TimePasses(c) \/ WorkerStep(c),
           NEW d \in Clients, OneRequest(d)
    PROVE  OneRequest(d)'
<1>1. /\ UNCHANGED <<process, sigusr1, sigusr2, pending, accepting>>
      /\ main' = main \/ main' = "killed"
  BY DEF TimePasses, WorkerStep, HandleRequest, SendResponse, channels
<1> QED  BY <1>1 DEF OneRequest, Asked

-----------------------------------------------------------------------------
(* Who is connected is served: the steps of the clients.                   *)

\* A command is sent by a client that is served, in step with the server.
LEMMA SendServed ==
    ASSUME SessionInvariant, NEW c \in Clients, Connected(c), InStep(c),
           NEW command, LineOf(command) \in Lines,
           NEW where \in {"closing", "login", "reply", "farewell"},
           \/ process[c] = "prompt" /\ where = AfterSending(command)
           \/ process[c] = "hangup" /\ where = "farewell",
           Send(c, command, where), UNCHANGED <<serverVars, session>>
    PROVE  Connected(c)' /\ InStep(c)'
<1> USE DEF SessionInvariant, LeakInvariant, Types, SessionTypes, GoOn
<1>1. UNCHANGED <<main, accepting, client, requests, response>>
  BY DEF serverVars
<1>2. CASE ~({"c2sReader", "c2sWriter"} \subseteq ends[c])
  <2>1. process'[c] = "gone"
    BY <1>2 DEF Send, Ended
  <2> QED  BY <1>1, <2>1, SilentServed DEF Talking, AwaitingReply
<1>3. CASE where \in {"closing", "farewell"} /\ process'[c] = where
  <2>1. ends' = ends
    BY <1>3 DEF Send, Ended
  <2>2. Connected(c)'
    BY <1>1, <1>3, <2>1 DEF Connected, Talking, AwaitingReply
  <2>3. InStep(c)'
    BY <1>1, <1>3 DEF InStep
  <2> QED  BY <2>2, <2>3
<1>4. CASE /\ {"c2sReader", "c2sWriter"} \subseteq ends[c]
           /\ where \in {"login", "reply"}
  <2>1. process[c] = "prompt" /\ NothingUnderWay(c)
    BY <1>4 DEF Owed
  <2>2. /\ process'[c] = where /\ UNCHANGED <<ends, s2c>>
        /\ c2s' = [c2s EXCEPT ![c] = c2s[c] \o <<command, Newline>>]
    BY <1>4 DEF Send
  <2>3. c2s[c] \o <<command, Newline>> = LineOf(command)
    BY <2>1, LineFacts DEF NothingUnderWay, LineOf
  <2>4. c2s'[c] = LineOf(command) /\ LineOf(command)[1] = command
    BY <2>2, <2>3, LineFacts
  <2>5. \A l \in Lines : Sent(c, l)' => l[1] = command
    BY <1>1, <2>1, <2>4 DEF Sent, NothingUnderWay
  <2>6. \A r \in Replies : ~Answered(c, r)'
    BY <1>1, <2>1, <2>2, NoReplyAssumption
       DEF Answered, NothingUnderWay, Replies
  <2>7. /\ where = "login" => command \in LoginCommands
        /\ where = "reply" => command \notin LoginCommands \cup {"Disconnect"}
    BY <1>4, <2>1 DEF AfterSending
  <2>8. Connected(c)'
    BY <1>1, <1>4, <2>1, <2>2 DEF Connected, Talking, AwaitingReply, Opening
  <2>9. InStep(c)'
    <3>1. client'[c].due = "no" /\ "balance" \in Replies
      BY <1>1, <2>1 DEF InStep, Replies
    <3>2. /\ client'[c].state = "none" => session'[c] = "out"
          /\ session'[c] = "in" /\ client'[c].state = "open"
               => client'[c].loggedIn
      BY <1>1, <2>1 DEF InStep
    <3> QED  BY <1>4, <2>2, <2>5, <2>6, <2>7, <3>1, <3>2 DEF InStep
  <2> QED  BY <2>8, <2>9
<1>5. {"c2sReader", "c2sWriter"} \subseteq ends[c] => process'[c] = where
  BY DEF Send
<1> QED  BY <1>2, <1>3, <1>4, <1>5

LEMMA ClientServed ==
    ASSUME SessionInvariant, NEW c \in Clients, UNCHANGED serverVars,
           ClientStep(c, Opening(c)) \/ UserStep(c), c \notin second',
           Connected(c), InStep(c)
    PROVE  Connected(c)' /\ InStep(c)'
<1> DEFINE Done == Connected(c)' /\ InStep(c)'
<1> USE DEF SessionInvariant, LeakInvariant, Types, SessionTypes, GoOn
<1>1. UNCHANGED <<main, accepting, client, requests, response>>
  BY DEF serverVars
<1>2. Owed(c) /\ Wired(c)
  OBVIOUS
<1>3. ASSUME process'[c] \in {"gone", "asking", "openC2S", "blockedC2S"},
             UNCHANGED session
      PROVE  Done
  BY <1>1, <1>3, SilentServed DEF Talking, AwaitingReply
<1>4. SeeReady(c) \/ RequestConnection(c) => Done
  BY <1>3 DEF SeeReady, RequestConnection, clientVars
<1>5. TimeOut(c) \/ NotFound(c) \/ CloseFifos(c) \/ Crash(c) => Done
  BY <1>3 DEF TimeOut, NotFound, CloseFifos, Crash, Ended, clientVars
<1>6. ASSUME OpenC2S(c) PROVE Done
  <2>1. CASE process'[c] = "blockedC2S"
    BY <1>3, <1>6, <2>1 DEF OpenC2S, clientVars
  <2>2. CASE process'[c] = "openS2C" /\ "c2sWriter" \in ends'[c]
    BY <1>1, <1>6, <2>2, SilentServed DEF OpenC2S, clientVars, Talking,
                                          AwaitingReply
  <2> QED  BY <1>6, <2>1, <2>2 DEF OpenC2S, Open
<1>7. ASSUME OpenS2C(c, Opening(c)) PROVE Done
  <2>1. process[c] = "openS2C" /\ UNCHANGED <<c2s, s2c, session>>
    BY <1>7 DEF OpenS2C, clientVars
  <2>2. CASE ~Opening(c)
    <3>1. process'[c] = "blockedS2C" /\ ends'[c] = ends[c]
      BY <1>7, <2>2 DEF OpenS2C
    <3> QED  BY <1>1, <2>1, <3>1, SilentServed DEF Connected, Talking,
                                                  AwaitingReply
  <2>3. CASE Opening(c)
    <3>1. process'[c] = "prompt" /\ "c2sWriter" \in ends'[c]
      BY <1>7, <2>1, <2>3 DEF OpenS2C, Open, Connected, Opening
    <3>2. client[c] = NoRecord
      BY <1>2, <2>3 DEF AcceptingIsNew, Accepting, Opening, Wired
    <3>3. Connected(c)'
      BY <1>1, <2>3, <3>1, <3>2 DEF Connected, Opening, NoRecord
    <3>4. InStep(c)'
      BY <1>1, <2>1, <3>1, <3>2 DEF InStep, NoRecord
    <3> QED  BY <3>3, <3>4
  <2> QED  BY <2>2, <2>3
<1>8. ASSUME ReadReply(c) PROVE Done
  <2>1. PICK r \in Replies : s2c[c] = <<r>>
    BY <1>8 DEF ReadReply
  <2>2. /\ UNCHANGED ends /\ process[c] \in AwaitingReply
        /\ session' = [session EXCEPT ![c] = SessionAfter(c, r)]
        /\ process'[c] = AfterReply(c, r)
    BY <1>8, <2>1 DEF ReadReply
  <2>3. s2c[c] # <<>>
    BY <2>1
  <2>4. client[c].state # "none"
    BY <1>2, <2>3 DEF Wired
  <2>5. CASE process'[c] = "closing"
    <3>1. Connected(c)'
      BY <1>1, <2>2, <2>5 DEF Connected, Talking
    <3>2. InStep(c)'
      BY <1>1, <2>4, <2>5 DEF InStep
    <3> QED  BY <3>1, <3>2
  <2>6. CASE process'[c] = "prompt"
    <3>1. /\ process[c] \in {"login", "reply"}
          /\ process[c] = "login" => r # "reject"
      BY <2>2, <2>6 DEF AfterReply, AwaitingReply
    <3>2. Answered(c, r)
      BY <2>1 DEF Answered
    <3>3. client[c].due = "no"
      BY <3>1, <3>2 DEF InStep
    <3>4. Connected(c)'
      BY <1>1, <2>2, <2>6, <3>1, <3>3 DEF Connected, Talking, Opening
    <3>5. session'[c] = "in" /\ client[c].state = "open" => client[c].loggedIn
      BY <2>2, <3>1, <3>2 DEF InStep, SessionAfter
    <3>6. InStep(c)'
      BY <1>1, <2>4, <2>6, <3>3, <3>5 DEF InStep
    <3> QED  BY <3>4, <3>6
  <2> QED  BY <2>2, <2>5, <2>6 DEF AfterReply
<1>9. ASSUME ReadEnd(c) \/ EndOfInput(c) PROVE Done
  <2>1. /\ process[c] \in Talking /\ process'[c] \in {"hangup", "closing"}
        /\ UNCHANGED <<ends, session>>
    BY <1>9 DEF ReadEnd, EndOfInput, Talking, clientVars
  <2>2. Connected(c)'
    BY <1>1, <2>1 DEF Connected
  <2>3. InStep(c)'
    BY <1>1, <2>1 DEF InStep
  <2> QED  BY <2>2, <2>3
<1>10. ASSUME NEW command \in Commands \cup {"Disconnect"}
       PROVE  LineOf(command) \in Lines
  BY DEF Lines, LineOf
<1>11. SayGoodbye(c) => Done
  BY <1>10, SendServed DEF SayGoodbye, clientVars
<1>12. ASSUME TypeCommand(c) PROVE Done
  <2>1. PICK command \in Commands : Send(c, command, AfterSending(command))
    BY <1>12 DEF TypeCommand
  <2>2. AfterSending(command) \in {"closing", "login", "reply", "farewell"}
    BY DEF AfterSending
  <2> QED  BY <1>10, <1>12, <2>1, <2>2, SendServed DEF TypeCommand, clientVars
<1>13. ~ReusePid(c)
  BY DEF ReusePid
<1> QED  BY <1>4, <1>5, <1>6, <1>7, <1>8, <1>9, <1>11, <1>12, <1>13
         DEF ClientStep, UserStep

-----------------------------------------------------------------------------
(* The steps of the main thread.                                           *)

\* The main thread goes about something else.
LEMMA IdleServed ==
    ASSUME SessionInvariant, UNCHANGED clientVars,
           TakePending \/ ResetPending \/ Sigusr1Handler,
           NEW d \in Clients, Connected(d), InStep(d)
    PROVE  Connected(d)' /\ InStep(d)'
<1>1. Same(d) /\ SameForMain(d) /\ FarFromMain(d) /\ session'[d] = session[d]
  BY DEF TakePending, ResetPending, EmptyMailbox, Sigusr1Handler, Proceed,
         Same, SameForMain, FarFromMain, Opening, Met, channels, recordVars, clientVars
<1> QED  BY <1>1, SameServed

LEMMA AcceptServed ==
    ASSUME SessionInvariant, UNCHANGED clientVars,
           CreateFifos \/ SignalReady \/ OpenForReading \/ Abandon \/ Unlink,
           NEW d \in Clients, OneRequest(d), Connected(d), InStep(d)
    PROVE  Connected(d)' /\ InStep(d)'
<1> USE DEF SessionInvariant, LeakInvariant, Types, SessionTypes, Proceed,
            GiveUpAccepting
<1>1. CASE d # accepting
  <2>1. /\ accepting' = accepting \/ accepting' = NoClient
        /\ UNCHANGED <<recordVars, session>>
        /\ main \notin {"killed"} /\ accepting \in Clients
    BY DEF CreateFifos, SignalReady, OpenForReading, Abandon, Unlink,
           clientVars, AcceptingIsNew, Accepting
  <2>2. /\ process'[d] = process[d] /\ sigusr2'[d] = sigusr2[d]
        /\ ends'[d] = ends[d] /\ c2s'[d] = c2s[d] /\ s2c'[d] = s2c[d]
    BY <1>1, <2>1
       DEF CreateFifos, SignalReady, OpenForReading, Abandon, Unlink,
           UnlinkFifos, Unlinked, Open, Exists, Ended
  <2>3. Same(d) /\ SameForMain(d) /\ FarFromMain(d)
    BY <1>1, <2>1, <2>2, ClientsAssumption
       DEF Same, SameForMain, FarFromMain, Opening, recordVars
  <2> QED  BY <2>1, <2>3, SameServed
<1>2. CASE d = accepting
  <2>1. /\ UNCHANGED <<recordVars, session>> /\ process[d] \notin Talking
        /\ process'[d] \in {process[d], "gone", "blockedUnlinked", "openS2C"}
    BY <1>2 DEF CreateFifos, SignalReady, OpenForReading, Abandon, Unlink,
                AcceptingIsNew, Accepting, Wired, Opening, clientVars,
                UnlinkFifos, Unlinked, Open, Exists, Ended
  <2>2. /\ process'[d] \in {"openS2C", "blockedS2C"} /\ accepting' = d
        /\ main' \in {"openC2S", "openS2C"}
        => "c2sWriter" \in ends'[d]
    <3>1. CreateFifos \/ Abandon \/ Unlink => main' \notin {"openC2S", "openS2C"}
      BY DEF CreateFifos, Abandon, Unlink
    <3>2. SignalReady /\ main' \in {"openC2S", "openS2C"}
            => process'[d] \in {"asking", "gone"}
      BY <1>2 DEF SignalReady, OneRequest, Asked, Blocked
    <3>3. OpenForReading /\ main' \in {"openC2S", "openS2C"}
            => \/ process[d] = "blockedC2S" /\ "c2sWriter" \in ends'[d]
               \/ process'[d] = process[d] /\ ends[d] \subseteq ends'[d]
      BY <1>2, <2>1 DEF OpenForReading, Open, AcceptingIsNew, Accepting
    <3>4. OpenForReading => main = "openC2S"
      BY DEF OpenForReading
    <3> QED  BY <1>2, <3>1, <3>2, <3>3, <3>4 DEF Connected
  <2>3. process'[d] \notin Talking /\ client'[d] = client[d]
    BY <2>1 DEF Talking, AwaitingReply, recordVars
  <2> QED  BY <2>1, <2>2, <2>3, SilentServed
<1> QED  BY <1>1, <1>2

LEMMA MeetServed ==
    ASSUME SessionInvariant, UNCHANGED clientVars, OpenForWriting,
           NEW d \in Clients, Connected(d), InStep(d)
    PROVE  Connected(d)' /\ InStep(d)'
<1> USE DEF SessionInvariant, LeakInvariant, Types, SessionTypes, Proceed,
            GiveUpAccepting
<1>1. /\ accepting \in Clients /\ main = "openS2C" /\ main' = "cleanup"
      /\ client[accepting] = NoRecord /\ UNCHANGED session
  BY DEF OpenForWriting, AcceptingIsNew, Accepting, Wired, clientVars
<1>2. CASE d # accepting
  <2>1. Same(d) /\ SameForMain(d) /\ FarFromMain(d)
    BY <1>1, <1>2 DEF OpenForWriting, Open, Same, SameForMain, FarFromMain,
                      Opening
  <2> QED  BY <1>1, <2>1, SameServed
<1>3. CASE d = accepting
  <2>1. client' = [client EXCEPT ![d].state = "open"]
    BY <1>3 DEF OpenForWriting
  <2>2. /\ client'[d].state = "open" /\ client'[d].due = "no"
        /\ client'[d].loggedIn = FALSE
    BY <1>1, <1>3, <2>1 DEF NoRecord, Records
  <2>3. /\ ends[d] \subseteq ends'[d]
        /\ \/ process'[d] = "prompt" /\ process[d] = "blockedS2C"
           \/ process'[d] = process[d]
        /\ UNCHANGED <<c2s, s2c, requests, response>>
    BY <1>1, <1>3 DEF OpenForWriting, Open
  <2>4. Connected(d)'
    BY <1>1, <1>3, <2>2, <2>3 DEF Connected
  <2>5. session[d] = "out" /\ client[d].loggedIn = FALSE /\ client[d].due = "no"
    BY <1>1, <1>3 DEF InStep, NoRecord
  <2>6. InStep(d)'
    BY <1>1, <2>2, <2>3, <2>5 DEF InStep, Sent, Answered
  <2> QED  BY <2>4, <2>6
<1> QED  BY <1>2, <1>3

\* Nobody is closed that is still served, but a client whose login was rejected.
LEMMA CloseServed ==
    ASSUME SessionInvariant, NEW cs \in SUBSET Clients, CloseClients(cs),
           main' \notin {"signal", "openC2S", "openS2C", "killed"},
           main \notin {"openS2C", "killed"},
           UNCHANGED <<process, sigusr2, c2s, s2c, buffer, response, clientVars>>,
           NEW d \in Clients, Connected(d), InStep(d),
           d \in cs /\ process[d] \in {"prompt", "login", "reply"} =>
               process[d] = "login" /\ client[d].due # "no"
    PROVE  Connected(d)' /\ InStep(d)'
<1> USE DEF SessionInvariant, LeakInvariant, Types, SessionTypes
<1>1. CASE d \notin cs
  <2>1. Same(d) /\ SameForMain(d) /\ FarFromMain(d) /\ session'[d] = session[d]
    BY <1>1 DEF CloseClients, Same, SameForMain, FarFromMain, Opening, clientVars
  <2> QED  BY <2>1, SameServed
<1>2. CASE d \in cs
  <2>1. /\ client'[d].state = "closed" /\ requests'[d] = <<>>
        /\ client[d].due # "no" => client'[d].due # "no"
        /\ client[d].due # "no" /\ ~client[d].loggedIn
             => client'[d].due = client[d].due
        /\ "c2sWriter" \in ends[d] => "c2sWriter" \in ends'[d]
    BY <1>2 DEF CloseClients, ServerEnds
  <2>2. Connected(d)'
    BY <1>2, <2>1 DEF Connected
  <2>3. InStep(d)'
    <3>1. CASE process[d] = "login"
      <4>1. /\ client[d].due # "no"
            /\ \A l \in Lines : ~Sent(d, l)
            /\ \A r \in Replies : Answered(d, r) => r = "reject"
        BY <1>2, <3>1 DEF InStep
      <4>2. \A l \in Lines : ~Sent(d, l)'
        BY <2>1, <4>1 DEF Sent
      <4>3. \A r \in Replies : Answered(d, r)' => r = "reject"
        BY <4>1 DEF Answered
      <4>4. ~Answered(d, "balance")'
        BY <4>3 DEF Replies
      <4> QED  BY <2>1, <3>1, <4>2, <4>3, <4>4 DEF InStep
    <3>2. CASE process[d] # "login"
      BY <1>2, <2>1, <3>2 DEF InStep
    <3> QED  BY <3>1, <3>2
  <2> QED  BY <2>2, <2>3
<1> QED  BY <1>1, <1>2

LEMMA EndServed ==
    ASSUME SessionInvariant, UNCHANGED clientVars,
           CleanupInactiveClients \/ CloseAtEnd,
           NEW d \in Clients, Connected(d), InStep(d)
    PROVE  Connected(d)' /\ InStep(d)'
<1>1. CASE CleanupInactiveClients
  <2> DEFINE cs == {c \in Clients : /\ client[c].state = "open"
                                    /\ client[c].due = "past" \/ ~Exists(c)}
  <2>1. CloseClients(cs) /\ cs \in SUBSET Clients
    BY <1>1 DEF CleanupInactiveClients
  <2>2. d \in cs /\ process[d] \in {"prompt", "login", "reply"} =>
            process[d] = "login" /\ client[d].due # "no"
    BY DEF Exists, InStep
  <2> HIDE DEF cs
  <2> QED  BY <1>1, <2>1, <2>2, CloseServed DEF CleanupInactiveClients, Proceed
<1>2. CASE CloseAtEnd
  <2> DEFINE cs == {c \in Clients : /\ client[c].state = "open"
                                    /\ c2s[c] = <<>> /\ AtEnd(c)}
  <2>1. CloseClients(cs) /\ cs \in SUBSET Clients
    BY <1>2 DEF CloseAtEnd
  <2>2. d \in cs => process[d] \notin Talking
    BY DEF AtEnd, Connected
  <2>3. process[d] \notin Talking => process[d] \notin {"prompt", "login", "reply"}
    BY DEF Talking, AwaitingReply
  <2> HIDE DEF cs
  <2> QED  BY <1>2, <2>1, <2>2, <2>3, CloseServed DEF CloseAtEnd, Proceed
<1> QED  BY <1>1, <1>2

LEMMA ReadServed ==
    ASSUME SessionInvariant, UNCHANGED clientVars, SelectAndRead,
           NEW d \in Clients, Connected(d), InStep(d)
    PROVE  Connected(d)' /\ InStep(d)'
<1> USE DEF SessionInvariant, LeakInvariant, Types, SessionTypes
<1>1. CASE d \notin Ready
  <2>1. Same(d) /\ SameForMain(d) /\ FarFromMain(d) /\ session'[d] = session[d]
    BY <1>1, ReadStep DEF Same, SameForMain, FarFromMain, Opening, clientVars
  <2> QED  BY <2>1, SameServed
<1>2. CASE d \in Ready
  <2>1. /\ c2s'[d] = <<>> /\ requests'[d] = <<c2s[d]>> /\ c2s[d] \in Lines
        /\ UNCHANGED <<process, ends, s2c, accepting, client, response, session>>
        /\ main = "select" /\ main' = "read"
    BY <1>2, ReadStep DEF clientVars
  <2>2. ASSUME NEW l \in Lines, Sent(d, l)' PROVE Sent(d, l)
    <3>1. <<>> # l
      <4>1. PICK command : l = LineOf(command)
        BY DEF Lines, LineOf
      <4> QED  BY <4>1, LineFacts
    <3> QED  BY <2>1, <2>2, <3>1 DEF Sent
  <2>3. \A r \in Replies : Answered(d, r)' => Answered(d, r)
    BY <2>1 DEF Answered
  <2>4. Connected(d)'
    BY <2>1 DEF Connected, Opening
  <2>5. InStep(d)'
    BY <2>1, <2>2, <2>3 DEF InStep, Replies
  <2> QED  BY <2>4, <2>5
<1> QED  BY <1>1, <1>2

-----------------------------------------------------------------------------
(* The steps of the workers, and of time.                                  *)

\* Time takes a client's second only if it has been given one.
LEMMA TimeServed ==
    ASSUME SessionInvariant, UNCHANGED clientVars, NEW c \in Clients, TimePasses(c),
           NEW d \in Clients, Connected(d), InStep(d)
    PROVE  Connected(d)' /\ InStep(d)'
<1> USE DEF SessionInvariant, LeakInvariant, Types, SessionTypes
<1>1. /\ UNCHANGED <<channels, main, accepting, requests, response, session>>
      /\ client' = [client EXCEPT ![c].due = "past"] /\ client[c].due = "set"
  BY DEF TimePasses, clientVars
<1>2. CASE d # c
  <2>1. Same(d) /\ SameForMain(d) /\ FarFromMain(d)
    BY <1>1, <1>2 DEF Same, SameForMain, FarFromMain, Opening, channels
  <2> QED  BY <1>1, <2>1, SameServed
<1>3. CASE d = c
  <2>1. /\ client'[d].state = client[d].state /\ client'[d].due = "past"
        /\ client'[d].loggedIn = client[d].loggedIn
    BY <1>1, <1>3 DEF Records
  <2>2. Connected(d)'
    BY <1>1, <1>3, <2>1 DEF Connected, Opening, channels
  <2>3. InStep(d)'
    BY <1>1, <1>3, <2>1 DEF InStep, Sent, Answered, channels
  <2> QED  BY <2>2, <2>3
<1> QED  BY <1>2, <1>3

\* What a handler makes of the record is what the client makes of the reply.
LEMMA HandleServed ==
    ASSUME SessionInvariant, UNCHANGED clientVars, NEW c \in Clients,
           HandleRequest(c), NEW d \in Clients, Connected(d), InStep(d)
    PROVE  Connected(d)' /\ InStep(d)'
<1> USE DEF SessionInvariant, LeakInvariant, Types, SessionTypes
<1>1. PICK line \in Lines : requests[c] = <<line>>
  BY DEF HandleRequest
<1> DEFINE command == line[1]
<1>2. Command(Head(requests[c])) = command
  <2>1. PICK cmd : line = LineOf(cmd)
    BY DEF Lines, LineOf
  <2>2. Len(line) = 2 /\ line[2] = Newline
    BY <2>1, LineFacts
  <2>3. Head(requests[c]) = line
    BY <1>1
  <2> QED  BY <2>2, <2>3 DEF Command
<1>3. /\ response' = [response EXCEPT ![c] = Reply(c, command)]
      /\ client' = [client EXCEPT ![c] = After(c, command)]
      /\ requests' = [requests EXCEPT ![c] = <<>>]
      /\ UNCHANGED <<process, sigusr2, ends, c2s, s2c, main, accepting, session>>
  <2>1. LET cmd == Command(Head(requests[c])) IN
        /\ response' = [response EXCEPT ![c] = Reply(c, cmd)]
        /\ client' = [client EXCEPT ![c] = After(c, cmd)]
    BY DEF HandleRequest
  <2>2. Tail(requests[c]) = <<>>
    BY <1>1
  <2>3. /\ requests' = [requests EXCEPT ![c] = Tail(@)]
        /\ UNCHANGED <<process, sigusr2, ends, c2s, s2c, main, accepting, session>>
    BY DEF HandleRequest, channels, clientVars
  <2> HIDE DEF command
  <2> QED  BY <1>2, <2>1, <2>2, <2>3
<1> HIDE DEF command
<1>4. CASE d # c
  <2>1. Same(d) /\ SameForMain(d) /\ FarFromMain(d)
    BY <1>3, <1>4 DEF Same, SameForMain, FarFromMain, Opening
  <2> QED  BY <1>3, <2>1, SameServed
<1>5. CASE d = c
  <2>1. /\ Owed(c) /\ Wired(c) /\ requests[c] # <<>> /\ Sent(c, line)
        /\ c2s[c] = <<>> /\ s2c[c] = <<>> /\ process[c] # "prompt"
        /\ client[c].state # "none"
    <3>1. requests[c] # <<>> /\ Sent(c, line)
      BY <1>1 DEF Sent
    <3>2. Owed(c) /\ Wired(c)
      OBVIOUS
    <3> QED  BY <3>1, <3>2 DEF Owed, Wired, NothingUnderWay
  <2>2. \A l \in Lines : ~Sent(c, l)'
    <3>1. ASSUME NEW l \in Lines PROVE l # <<>>
      <4>1. PICK cmd : l = LineOf(cmd)
        BY DEF Lines, LineOf
      <4> QED  BY <4>1, LineFacts
    <3> QED  BY <1>3, <2>1, <3>1 DEF Sent
  <2>3. \A r \in Replies : Answered(c, r)' => r = Reply(c, command)
    BY <1>3, <2>1 DEF Answered
  <2>4. /\ After(c, command).state = client[c].state
        /\ command # "Disconnect" /\ client[c].loggedIn =>
             After(c, command).loggedIn
        /\ command \notin {"LoginUnknown", "Disconnect"} =>
             After(c, command).due = client[c].due
        /\ client[c].due # "no" => After(c, command).due # "no"
        /\ command = "Login" => After(c, command).loggedIn
    BY DEF After, Records
  <2>5. client'[c] = After(c, command)
    BY <1>3
  <2>6. Connected(c)'
    BY <1>3, <1>5, <2>4, <2>5 DEF Connected, Opening
  <2>7. CASE process[c] = "login"
    <3>1. command \in LoginCommands /\ client[c].due = "no"
      BY <1>5, <2>1, <2>7 DEF InStep, command
    <3>2. /\ Reply(c, command) = "reject" \/ After(c, command).due = "no"
          /\ Reply(c, command) = "balance" => After(c, command).loggedIn
      BY <2>4, <3>1 DEF Reply, LoginCommands
    <3>3. client[c].loggedIn => After(c, command).loggedIn
      BY <2>4, <3>1 DEF LoginCommands
    <3>4. /\ \A r \in Replies :
               Answered(c, r)' => r = "reject" \/ client'[c].due = "no"
          /\ Answered(c, "balance")' => client'[c].loggedIn
      BY <2>3, <2>5, <3>2 DEF Replies
    <3>5. session[c] = "in" /\ client'[c].state = "open" => client'[c].loggedIn
      BY <1>5, <2>4, <2>5, <2>7, <3>3 DEF InStep
    <3> QED  BY <1>3, <1>5, <2>1, <2>2, <2>4, <2>5, <2>6, <2>7, <3>4, <3>5
             DEF InStep
  <2>8. CASE process[c] = "reply"
    <3>1. /\ command \notin LoginCommands \cup {"Disconnect"}
          /\ client[c].due = "no"
      BY <1>5, <2>1, <2>8 DEF InStep, command
    <3>2. After(c, command) = client[c]
      BY <3>1 DEF After, LoginCommands
    <3> QED  BY <1>3, <1>5, <2>1, <2>2, <2>5, <2>6, <2>8, <3>1, <3>2 DEF InStep
  <2>9. CASE process[c] \notin {"prompt", "login", "reply"}
    BY <1>3, <1>5, <2>1, <2>4, <2>5, <2>6, <2>9 DEF InStep
  <2> QED  BY <1>5, <2>1, <2>7, <2>8, <2>9
<1> QED  BY <1>4, <1>5

LEMMA RespondServed ==
    ASSUME SessionInvariant, UNCHANGED clientVars, NEW c \in Clients,
           SendResponse(c), NEW d \in Clients, Connected(d), InStep(d)
    PROVE  Connected(d)' /\ InStep(d)'
<1> USE DEF SessionInvariant, LeakInvariant, Types, SessionTypes
<1>1. /\ response[c] # NoReply /\ response' = [response EXCEPT ![c] = NoReply]
      /\ UNCHANGED <<process, sigusr2, c2s, accepting, requests, session>>
      /\ main # "killed" /\ Owed(c) /\ Wired(c) /\ client[c].state # "none"
      /\ s2c[c] = <<>>
  BY DEF SendResponse, Owed, Wired, clientVars
<1>2. \/ UNCHANGED <<ends, s2c, client, main>>
      \/ /\ UNCHANGED <<ends, client, main>>
         /\ s2c' = [s2c EXCEPT ![c] = Append(@, response[c])]
      \/ /\ UNCHANGED s2c /\ "s2cReader" \notin ends[c]
         /\ \/ /\ main' = "killed" /\ UNCHANGED client
               /\ ends' = [e \in Clients |-> ends[e] \ ServerEnds]
            \/ /\ client' = [client EXCEPT ![c].state = "lost"]
               /\ UNCHANGED <<ends, main>>
  BY DEF SendResponse
<1>3. ASSUME NEW r \in Replies, Answered(d, r)' PROVE Answered(d, r)
  <2>1. r # NoReply /\ <<r>> # <<>>
    BY NoReplyAssumption DEF Replies
  <2>2. CASE d = c
    <3>1. s2c'[d] = <<r>>
      BY <1>1, <1>3, <2>1, <2>2 DEF Answered
    <3>2. s2c' = [s2c EXCEPT ![c] = Append(@, response[c])]
      BY <1>1, <1>2, <2>1, <2>2, <3>1
    <3>3. <<response[c]>> = <<r>>
      BY <1>1, <2>2, <3>1, <3>2
    <3>4. response[c] = r
      BY <3>3
    <3> QED  BY <2>2, <3>4 DEF Answered
  <2>3. CASE d # c
    BY <1>1, <1>2, <1>3, <2>3 DEF Answered
  <2> QED  BY <2>2, <2>3
<1>4. /\ client'[d].due = client[d].due
      /\ client'[d].loggedIn = client[d].loggedIn
      /\ \/ client'[d].state = client[d].state
         \/ d = c /\ client'[d].state = "lost" /\ process[d] \notin Talking
  <2>1. CASE UNCHANGED client
    BY <2>1
  <2>2. CASE /\ client' = [client EXCEPT ![c].state = "lost"]
             /\ "s2cReader" \notin ends[c]
    <3>1. process[c] \notin Talking
      BY <1>1, <2>2 DEF Wired
    <3>2. client[d] \in Records
      OBVIOUS
    <3> QED  BY <2>2, <3>1, <3>2 DEF Records
  <2> QED  BY <1>2, <2>1, <2>2
<1>5. /\ "c2sWriter" \in ends[d] => "c2sWriter" \in ends'[d]
      /\ main' = main \/ main' = "killed"
  BY <1>2 DEF ServerEnds
<1>6. Connected(d)'
  BY <1>1, <1>4, <1>5 DEF Connected, Opening, Talking, AwaitingReply
<1>7. InStep(d)'
  <2>1. \A l \in Lines : Sent(d, l)' => Sent(d, l)
    BY <1>1 DEF Sent
  <2> QED  BY <1>1, <1>3, <1>4, <2>1 DEF InStep, Replies
<1> QED  BY <1>6, <1>7

-----------------------------------------------------------------------------
(* The theorems.                                                           *)

LEMMA ServedInit == Init => ServedInvariant
<1> SUFFICES ASSUME Init, NEW c \in Clients
             PROVE  OneRequest(c) /\ Connected(c) /\ InStep(c)
  BY SessionInit DEF ServedInvariant
<1> QED  BY ClientsAssumption
         DEF Init, ChannelsInit, ClientInit, ServerInit, OneRequest, Asked,
             Connected, InStep, Talking, AwaitingReply, NoRecord

LEMMA ServedStep == ServedInvariant /\ [Next]_vars => ServedInvariant'
<1> SUFFICES ASSUME ServedInvariant, [Next]_vars,
                    NEW d \in Clients, d \notin second'
             PROVE  OneRequest(d)' /\ Connected(d)' /\ InStep(d)'
  BY SessionStep DEF ServedInvariant
<1> DEFINE Done == OneRequest(d)' /\ Connected(d)' /\ InStep(d)'
<1>1. d \notin second
  <2>1. ASSUME NEW c \in Clients, ClientStep(c, Opening(c)) \/ UserStep(c)
        PROVE  second \subseteq second'
    BY <2>1 DEF ClientStep, UserStep, clientVars, SeeReady, TimeOut, NotFound,
                OpenC2S, OpenS2C, SayGoodbye, ReadReply, ReadEnd, CloseFifos,
                RequestConnection, TypeCommand, EndOfInput, Crash, ReusePid
  <2>2. UNCHANGED clientVars => second' = second
    BY DEF clientVars
  <2> QED  BY <2>1, <2>2 DEF Next, vars
<1>2. SessionInvariant /\ OneRequest(d) /\ Connected(d) /\ InStep(d)
  BY <1>1 DEF ServedInvariant
<1>3. ASSUME NEW c \in Clients, UNCHANGED serverVars,
             ClientStep(c, Opening(c)) \/ UserStep(c)
      PROVE  Done
  <2>1. OneRequest(d)'
    BY <1>2, <1>3, ClientRequest
  <2>2. CASE c = d
    BY <1>2, <1>3, <2>1, <2>2, ClientServed
  <2>3. CASE c # d
    <3>1. Same(d) /\ SameForMain(d)
      BY <1>2, <1>3, <2>3, ClientAlone DEF SessionInvariant
    <3>2. FarFromMain(d)
      BY <1>3 DEF FarFromMain, serverVars
    <3>3. session'[d] = session[d]
      BY <1>2, <1>3, <2>3
         DEF SessionInvariant, SessionTypes, ClientStep, UserStep, clientVars,
             SeeReady, TimeOut, NotFound, OpenC2S, OpenS2C, SayGoodbye,
             ReadReply, ReadEnd, CloseFifos, RequestConnection, TypeCommand,
             EndOfInput, Crash, ReusePid
    <3> QED  BY <1>2, <2>1, <3>1, <3>2, <3>3, SameServed
  <2> QED  BY <2>2, <2>3
<1>4. ASSUME NEW c \in Clients, UNCHANGED clientVars,
             TimePasses(c) \/ WorkerStep(c)
      PROVE  Done
  BY <1>2, <1>4, WorkerRequest, TimeServed, HandleServed, RespondServed
     DEF WorkerStep
<1>5. ASSUME UNCHANGED clientVars, MainStep \/ Sigusr1Handler
      PROVE  Done
  BY <1>2, <1>5, MainRequest, IdleServed, AcceptServed, MeetServed, EndServed,
     ReadServed
     DEF MainStep
<1>6. ASSUME UNCHANGED vars PROVE Done
  <2>1. UNCHANGED <<channels, clientVars, serverVars>>
    BY <1>6 DEF vars
  <2>2. /\ Same(d) /\ SameForMain(d) /\ FarFromMain(d)
        /\ session'[d] = session[d]
    BY <2>1 DEF channels, clientVars, serverVars, Same, SameForMain,
                FarFromMain, Opening
  <2>3. OneRequest(d)'
    BY <1>2, <2>1 DEF channels, serverVars, OneRequest, Asked
  <2> QED  BY <1>2, <2>2, <2>3, SameServed
<1> QED  BY <1>3, <1>4, <1>5, <1>6 DEF Next

\* Who prompts or waits for a reply has an open record, or one about to be made,
\* unless its login was rejected more than a second ago (accept_client,
\* close_client, cleanup_inactive_clients).
THEOREM ConnectedTheorem == Spec => []ConnectedIsServed
<1>1. ServedInvariant => ConnectedIsServed
  BY DEF ServedInvariant, Connected, ConnectedIsServed
<1> QED  BY <1>1, ServedInit, ServedStep, PTL DEF Spec

\* A client that prompts as logged in has a session in the server (rpc_login,
\* rpc_disconnect, and the client's reading of a Login reply).
THEOREM SessionsTheorem == Spec => []SessionsAgree
<1>1. ServedInvariant => SessionsAgree
  <2> SUFFICES ASSUME ServedInvariant, NEW c \in Clients \ second,
                      process[c] = "prompt", session[c] = "in",
                      main # "killed"
               PROVE  client[c].loggedIn
    BY DEF SessionsAgree
  <2>1. InStep(c) /\ Connected(c)
    BY DEF ServedInvariant
  <2> QED  BY <2>1 DEF InStep, Connected
<1> QED  BY <1>1, ServedInit, ServedStep, PTL DEF Spec

=============================================================================
