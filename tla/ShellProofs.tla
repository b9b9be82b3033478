---------------------------- MODULE ShellProofs -----------------------------
(***************************************************************************)
(* Proofs about Shell, for any sizes of the ring buffer, of stdin and of   *)
(* the command line, and anything the user types.                          *)
(***************************************************************************)
EXTENDS Shell, SequenceTheorems, TLAPS

\* n is the length of the string in line.
EndsAt(line, n) == n \in Index /\ line[n] = NUL /\ \A j \in Index : j < n => line[j] # NUL

\* The task is past the poll only while it edits, and then has a character.
ReadInv ==
  /\ pc # "poll" \/ esc # "none" => state = "GET_USER_INPUT"
  /\ pc = "read" => (rx # <<>> \/ stdin # <<>>) /\ Len(stdin) < stdinSize
  /\ pc = "take" => stdin # <<>>

\* The line has no terminator before the position, and one at it when done.
LineInv ==
  /\ state = "INIT" => pos = 0
  /\ state = "GET_USER_INPUT" => \A j \in Index : j < pos => cmdline[j] # NUL
  /\ state = "EXEC_CMD" => EndsAt(cmdline, pos)

HistoryInv == EndsAt(cmdprev, prevPos) /\ last = Prefix(cmdprev, prevPos)

\* The terminal shows the line up to the position.
ScreenInv ==
  ~ garbled /\ state \in {"GET_USER_INPUT", "EXEC_CMD"} => screen = Prefix(cmdline, pos)

IInv == TypeOK /\ ReadInv /\ LineInv /\ HistoryInv /\ ScreenInv

-----------------------------------------------------------------------------
(* Lines and strings.                                                      *)

LEMMA Sizes ==
  /\ CmdlineSize \in Nat /\ 0 \in Index /\ Index \subseteq Nat
  /\ EOF \notin Char /\ LF \in Char /\ NUL \notin Printable
BY ShellAssumption DEF Index, Char

LEMMA StrLenIs ==
  ASSUME NEW line, NEW n, EndsAt(line, n)
  PROVE  StrLen(line) = n
<1>1. \E i \in Index : line[i] = NUL /\ \A j \in Index : j < i => line[j] # NUL
  BY DEF EndsAt
<1> DEFINE m == StrLen(line)
<1>2. m \in Index /\ line[m] = NUL /\ \A j \in Index : j < m => line[j] # NUL
  BY <1>1 DEF StrLen
<1> HIDE DEF m
<1>3. ~ (n < m) /\ ~ (m < n)
  BY <1>2 DEF EndsAt
<1>4. m = n
  BY <1>2, <1>3, Sizes DEF EndsAt
<1> QED
  BY <1>4 DEF m

\* What stands before the end of a string can be printed.
LEMMA PrefixType ==
  ASSUME NEW line \in Line, NEW n \in Index, \A j \in Index : j < n => line[j] # NUL
  PROVE  Prefix(line, n) \in Seq(Printable) /\ Len(Prefix(line, n)) = n
<1>1. n \in Nat
  BY Sizes
<1>2. ASSUME NEW i \in 1 .. n PROVE line[i - 1] \in Printable
  <2>1. i - 1 \in Index /\ i - 1 < n
    BY <1>1, Sizes DEF Index
  <2> QED
    BY <2>1 DEF Line
<1>3. Prefix(line, n) \in [1 .. n -> Printable]
  BY <1>2 DEF Prefix
<1> QED
  BY <1>1, <1>3

LEMMA CStringIs ==
  ASSUME NEW line, NEW n, EndsAt(line, n)
  PROVE  CString(line) = Prefix(line, n)
BY StrLenIs DEF CString

\* The line up to a position does not depend on what follows.
LEMMA PrefixSame ==
  ASSUME NEW line, NEW other, NEW n \in Index, \A j \in Index : j < n => line[j] = other[j]
  PROVE  Prefix(line, n) = Prefix(other, n)
<1>1. ASSUME NEW i \in 1 .. n PROVE line[i - 1] = other[i - 1]
  BY Sizes DEF Index
<1> QED
  BY <1>1 DEF Prefix

LEMMA PrefixEmpty == \A line : Prefix(line, 0) = <<>>
<1> SUFFICES ASSUME NEW line PROVE Prefix(line, 0) = <<>>
  OBVIOUS
<1>1. 1 .. 0 = {}
  OBVIOUS
<1>2. Prefix(line, 0) = [i \in {} |-> line[i - 1]]
  BY <1>1 DEF Prefix
<1>3. Prefix(line, 0) \in Seq({}) /\ Len(Prefix(line, 0)) = 0
  BY <1>1 DEF Prefix
<1> QED
  BY <1>3

-----------------------------------------------------------------------------

LEMMA InitInv == Init => IInv
<1> SUFFICES ASSUME Init PROVE IInv
  OBVIOUS
<1>1. EmptyLine \in Line /\ \A i \in Index : EmptyLine[i] = NUL
  BY DEF EmptyLine, Line
<1>2. TypeOK
  <2>1. /\ rx \in Seq(Char) /\ Len(rx) <= Capacity
        /\ stdinSize \in StdinSizes /\ stdin \in Seq(Char) /\ Len(stdin) <= stdinSize
    <3>1. rx = <<>> /\ stdin = <<>> /\ stdinSize \in StdinSizes
      BY DEF Init
    <3>2. Capacity \in Nat /\ stdinSize \in Nat
      BY <3>1, ShellAssumption
    <3> QED
      BY <3>1, <3>2
  <2>2. cmdline \in Line /\ pos \in Index /\ cmdprev \in Line /\ prevPos \in Index
    BY <1>1, Sizes DEF Init
  <2>3. screen \in Seq(Printable) /\ last \in Seq(Printable) /\ garbled \in BOOLEAN
    <3>1. screen = <<>> /\ last = <<>> /\ garbled = FALSE
      BY DEF Init
    <3>2. <<>> \in Seq(Printable)
      OBVIOUS
    <3> QED
      BY <3>1, <3>2
  <2> QED
    BY <2>1, <2>2, <2>3 DEF Init, TypeOK
<1>3. ReadInv /\ LineInv /\ ScreenInv
  BY DEF Init, ReadInv, LineInv, ScreenInv
<1>4. EndsAt(cmdprev, prevPos)
  BY <1>1, Sizes DEF Init, EndsAt
<1>5. last = Prefix(cmdprev, prevPos)
  BY PrefixEmpty DEF Init
<1> QED
  BY <1>2, <1>3, <1>4, <1>5 DEF IInv, HistoryInv

-----------------------------------------------------------------------------
(* The way to the next character.                                          *)

\* A step that reads, or handles a character that has no effect on the line.
LEMMA LineSame ==
  ASSUME IInv, UNCHANGED <<stdinSize, state, lineVars, historyVars, screenVars>>,
         rx' \in Seq(Char), Len(rx') <= Capacity,
         stdin' \in Seq(Char), Len(stdin') <= stdinSize,
         esc' \in {"none", "bracket", "key"}, pc' \in {"poll", "read", "take"},
         ReadInv'
  PROVE  IInv'
<1>1. TypeOK'
  BY DEF IInv, TypeOK, lineVars, historyVars, screenVars
<1>2. LineInv' /\ HistoryInv' /\ ScreenInv'
  BY DEF IInv, LineInv, HistoryInv, ScreenInv, lineVars, historyVars, screenVars
<1> QED
  BY <1>1, <1>2 DEF IInv

LEMMA ReceiveStep ==
  ASSUME IInv, NEW c \in Typed, Receive(c)
  PROVE  IInv'
<1>1. c \in Char
  BY ShellAssumption
<1>2. /\ rx \in Seq(Char) /\ Len(rx) <= Capacity /\ stdin \in Seq(Char)
      /\ Len(stdin) <= stdinSize /\ esc \in {"none", "bracket", "key"}
      /\ pc \in {"poll", "read", "take"}
  BY DEF IInv, TypeOK
<1>3. /\ UNCHANGED <<stdinSize, stdin, pc, state, esc, lineVars, historyVars, screenVars>>
      /\ rx' = IF Len(rx) < Capacity THEN Append(rx, c) ELSE rx
  BY DEF Receive, inputVars
<1>4. rx' \in Seq(Char) /\ Len(rx') <= Capacity /\ (rx # <<>> => rx' # <<>>)
  <2>1. CASE Len(rx) < Capacity
    BY <1>1, <1>2, <1>3, <2>1, ShellAssumption
  <2>2. CASE ~ (Len(rx) < Capacity)
    BY <1>2, <1>3, <2>2
  <2> QED
    BY <2>1, <2>2
<1>5. ReadInv'
  BY <1>3, <1>4 DEF IInv, ReadInv
<1> QED
  BY <1>2, <1>3, <1>4, <1>5, LineSame

LEMMA PollStep ==
  ASSUME IInv, Poll
  PROVE  IInv'
<1>1. /\ state = "GET_USER_INPUT" /\ rx # <<>>
      /\ pc' = IF stdin = <<>> THEN "read" ELSE "take"
      /\ UNCHANGED <<stdinSize, rx, stdin, state, esc, lineVars, historyVars, screenVars>>
  BY DEF Poll
<1>2. /\ rx \in Seq(Char) /\ Len(rx) <= Capacity /\ stdin \in Seq(Char)
      /\ Len(stdin) <= stdinSize /\ esc \in {"none", "bracket", "key"}
      /\ stdinSize \in Nat \ {0}
  BY ShellAssumption DEF IInv, TypeOK
<1>3. pc' \in {"poll", "read", "take"}
  BY <1>1
<1>4. ReadInv'
  <2>1. stdin = <<>> => Len(stdin) < stdinSize
    BY <1>2
  <2> QED
    BY <1>1, <2>1 DEF ReadInv
<1> QED
  BY <1>1, <1>2, <1>3, <1>4, LineSame

LEMMA ReadStep ==
  ASSUME IInv, Read
  PROVE  IInv'
<1>1. /\ pc = "read" /\ state = "GET_USER_INPUT" /\ Len(stdin) < stdinSize
      /\ rx # <<>> \/ stdin # <<>>
      /\ UNCHANGED <<stdinSize, state, esc, lineVars, historyVars, screenVars>>
  BY DEF IInv, ReadInv, Read
<1>2. /\ rx \in Seq(Char) /\ Len(rx) <= Capacity /\ stdin \in Seq(Char)
      /\ Len(stdin) <= stdinSize /\ esc \in {"none", "bracket", "key"}
      /\ stdinSize \in Nat /\ Capacity \in Nat
  BY ShellAssumption DEF IInv, TypeOK
<1>3. CASE rx = <<>>
  <2>1. pc' = "take" /\ UNCHANGED <<rx, stdin>>
    BY <1>3 DEF Read
  <2>2. ReadInv'
    BY <1>1, <1>3, <2>1 DEF ReadInv
  <2> QED
    BY <1>1, <1>2, <2>1, <2>2, LineSame
<1>4. CASE rx # <<>>
  <2> DEFINE c == Head(rx)
             d == IF c = CR THEN LF ELSE c
  <2>1. /\ rx' = Tail(rx) /\ stdin' = Append(stdin, d)
        /\ pc' = IF c = CR \/ Len(stdin') = stdinSize THEN "take" ELSE "read"
    BY <1>4 DEF Read
  <2>2. c \in Char /\ d \in Char
    BY <1>2, <1>4, Sizes
  <2> HIDE DEF c, d
  <2>3. rx' \in Seq(Char) /\ Len(rx') <= Capacity
    BY <1>2, <1>4, <2>1
  <2>4. /\ stdin' \in Seq(Char) /\ Len(stdin') = Len(stdin) + 1 /\ stdin' # <<>>
        /\ Len(stdin') <= stdinSize
    BY <1>1, <1>2, <2>1, <2>2
  <2>5. ReadInv'
    BY <1>1, <1>2, <2>1, <2>4 DEF ReadInv
  <2>6. pc' \in {"poll", "read", "take"}
    BY <2>1
  <2> QED
    BY <1>1, <1>2, <2>3, <2>4, <2>5, <2>6, LineSame
<1> QED
  BY <1>3, <1>4

\* getchar returns a character, never EOF.
LEMMA TakeFacts ==
  ASSUME IInv, NEW c, Take(c)
  PROVE  /\ pc = "take" /\ pc' = "poll" /\ state = "GET_USER_INPUT"
         /\ c \in Char /\ c # EOF
         /\ stdin' \in Seq(Char) /\ Len(stdin') <= stdinSize
<1>1. pc = "take" /\ pc' = "poll" /\ state = "GET_USER_INPUT" /\ stdin # <<>>
  BY DEF IInv, ReadInv, Take
<1>2. stdin \in Seq(Char) /\ Len(stdin) <= stdinSize /\ stdinSize \in Nat
  BY ShellAssumption DEF IInv, TypeOK
<1>3. c = Head(stdin) /\ stdin' = Tail(stdin)
  BY <1>1 DEF Take
<1>4. c \in Char /\ stdin' \in Seq(Char) /\ Len(stdin') <= stdinSize
  BY <1>1, <1>2, <1>3
<1> QED
  BY <1>1, <1>4, Sizes

\* A character that moves handle_esc on, or has no effect.
LEMMA NoEffectStep ==
  ASSUME IInv, NEW c, EscBracket(c) \/ StartEsc(c) \/ Ignore(c)
  PROVE  IInv'
<1>1. /\ Take(c) /\ esc' \in {"none", "bracket", "key"}
      /\ UNCHANGED <<stdinSize, rx, state, lineVars, historyVars, screenVars>>
  BY DEF EscBracket, StartEsc, Ignore, IInv, TypeOK
<1>2. /\ pc' = "poll" /\ state = "GET_USER_INPUT"
      /\ stdin' \in Seq(Char) /\ Len(stdin') <= stdinSize
  BY <1>1, TakeFacts
<1>3. ReadInv'
  BY <1>1, <1>2 DEF ReadInv
<1>4. rx' \in Seq(Char) /\ Len(rx') <= Capacity
  BY <1>1 DEF IInv, TypeOK
<1> QED
  BY <1>1, <1>2, <1>3, <1>4, LineSame

-----------------------------------------------------------------------------
(* The line.                                                               *)

\* A character that was handled in full leaves the input and the history.
LEMMA Handled ==
  ASSUME IInv, NEW c, Take(c), UNCHANGED <<stdinSize, rx, historyVars>>, esc' = "none",
         state' \in {"GET_USER_INPUT", "EXEC_CMD"},
         cmdline' \in Line, pos' \in Index, screen' \in Seq(Printable), garbled' \in BOOLEAN
  PROVE  TypeOK' /\ ReadInv' /\ HistoryInv'
<1>1. /\ pc' = "poll" /\ stdin' \in Seq(Char) /\ Len(stdin') <= stdinSize
  BY TakeFacts
<1>2. TypeOK'
  BY <1>1 DEF IInv, TypeOK, historyVars
<1>3. ReadInv'
  BY <1>1 DEF ReadInv
<1>4. HistoryInv'
  BY DEF IInv, HistoryInv, historyVars
<1> QED
  BY <1>2, <1>3, <1>4

LEMMA EscRecallStep ==
  ASSUME IInv, NEW c, EscRecall(c)
  PROVE  IInv'
<1>1. /\ Take(c) /\ esc' = "none" /\ cmdline' = cmdprev /\ pos' = prevPos
      /\ screen' = CString(cmdprev) /\ garbled' = FALSE
      /\ UNCHANGED <<stdinSize, rx, state, historyVars>>
  BY DEF EscRecall
<1>2. state = "GET_USER_INPUT"
  BY <1>1, TakeFacts
<1>3. cmdprev \in Line /\ prevPos \in Index /\ EndsAt(cmdprev, prevPos)
  BY DEF IInv, TypeOK, HistoryInv
<1>4. screen' = Prefix(cmdprev, prevPos) /\ screen' \in Seq(Printable)
  BY <1>1, <1>3, CStringIs, PrefixType DEF EndsAt
<1>5. TypeOK' /\ ReadInv' /\ HistoryInv'
  BY <1>1, <1>2, <1>3, <1>4, Handled
<1>6. LineInv' /\ ScreenInv'
  BY <1>1, <1>2, <1>3, <1>4 DEF LineInv, ScreenInv, EndsAt
<1> QED
  BY <1>5, <1>6 DEF IInv

LEMMA EscOtherStep ==
  ASSUME IInv, NEW c, EscOther(c)
  PROVE  IInv'
<1>1. /\ Take(c) /\ esc' = "none"
      /\ UNCHANGED screenVars \/ (screen' = <<>> /\ garbled' = TRUE)
      /\ UNCHANGED <<stdinSize, rx, state, cmdline, pos, historyVars>>
  BY DEF EscOther, lineVars
<1>2. state = "GET_USER_INPUT"
  BY <1>1, TakeFacts
<1>3. screen' \in Seq(Printable) /\ garbled' \in BOOLEAN
  <2>1. screen \in Seq(Printable) /\ garbled \in BOOLEAN
    BY DEF IInv, TypeOK
  <2>2. CASE UNCHANGED screenVars
    BY <2>1, <2>2 DEF screenVars
  <2>3. CASE screen' = <<>> /\ garbled' = TRUE
    BY <2>3
  <2> QED
    BY <1>1, <2>2, <2>3
<1>4. cmdline' \in Line /\ pos' \in Index
  BY <1>1 DEF IInv, TypeOK
<1>5. TypeOK' /\ ReadInv' /\ HistoryInv'
  BY <1>1, <1>2, <1>3, <1>4, Handled
<1>6. LineInv' /\ ScreenInv'
  BY <1>1, <1>2 DEF IInv, LineInv, ScreenInv, screenVars
<1> QED
  BY <1>5, <1>6 DEF IInv

LEMMA EndLineStep ==
  ASSUME IInv, NEW c, EndLine(c)
  PROVE  IInv'
<1>1. /\ Take(c) /\ esc' = "none" /\ cmdline' = [cmdline EXCEPT ![pos] = NUL]
      /\ state' = "EXEC_CMD"
      /\ UNCHANGED <<stdinSize, rx, pos, historyVars, screen, garbled>>
  BY DEF EndLine, screenVars
<1>2. state = "GET_USER_INPUT"
  BY <1>1, TakeFacts
<1>3. /\ cmdline \in Line /\ pos \in Index /\ screen \in Seq(Printable) /\ garbled \in BOOLEAN
      /\ \A j \in Index : j < pos => cmdline[j] # NUL
  BY <1>2 DEF IInv, TypeOK, LineInv
<1>4. /\ cmdline' \in Line /\ cmdline'[pos] = NUL
      /\ \A j \in Index : j < pos => cmdline'[j] = cmdline[j]
  BY <1>1, <1>3, Sizes DEF Line
<1>5. TypeOK' /\ ReadInv' /\ HistoryInv'
  BY <1>1, <1>3, <1>4, Handled
<1>6. LineInv'
  BY <1>1, <1>3, <1>4 DEF LineInv, EndsAt
<1>7. Prefix(cmdline', pos) = Prefix(cmdline, pos)
  BY <1>3, <1>4, PrefixSame
<1>8. ScreenInv'
  BY <1>1, <1>2, <1>7 DEF IInv, ScreenInv
<1> QED
  BY <1>5, <1>6, <1>8 DEF IInv

\* Taking back the last character of a line takes it from the screen.
LEMMA EraseLastStep ==
  ASSUME IInv, NEW c, EraseLast(c)
  PROVE  IInv'
<1>1. /\ Take(c) /\ esc' = "none"
      /\ UNCHANGED <<stdinSize, rx, state, cmdline, historyVars, garbled>>
      /\ \/ /\ pos > 0 /\ pos' = pos - 1
            /\ screen' = IF garbled THEN screen ELSE SubSeq(screen, 1, Len(screen) - 1)
         \/ UNCHANGED <<pos, screen>>
  BY DEF EraseLast
<1>2. state = "GET_USER_INPUT"
  BY <1>1, TakeFacts
<1>3. /\ cmdline \in Line /\ pos \in Index /\ screen \in Seq(Printable) /\ garbled \in BOOLEAN
      /\ \A j \in Index : j < pos => cmdline[j] # NUL
      /\ ~ garbled => screen = Prefix(cmdline, pos)
  BY <1>2 DEF IInv, TypeOK, LineInv, ScreenInv
<1>4. pos' \in Index /\ \A j \in Index : j < pos' => j < pos
  <2>1. CASE pos > 0 /\ pos' = pos - 1
    BY <1>3, <2>1, Sizes DEF Index
  <2>2. CASE pos' = pos
    BY <1>3, <2>2
  <2> QED
    BY <1>1, <2>1, <2>2
<1>5. screen' \in Seq(Printable) /\ (~ garbled => screen' = Prefix(cmdline, pos'))
  <2>1. CASE garbled \/ UNCHANGED <<pos, screen>>
    BY <1>1, <1>3, <2>1
  <2>2. CASE ~ garbled /\ pos > 0 /\ pos' = pos - 1 /\ screen' = SubSeq(screen, 1, Len(screen) - 1)
    <3>1. pos \in Nat /\ Len(screen) = pos /\ pos' \in Nat
      BY <1>3, <2>2, PrefixType, Sizes
    <3>2. screen' \in Seq(Printable) /\ Len(screen') = pos'
          /\ \A i \in 1 .. pos' : screen'[i] = screen[i]
      BY <1>3, <2>2, <3>1
    <3>3. \A i \in 1 .. pos' : screen[i] = cmdline[i - 1]
      BY <1>3, <2>2, <3>1 DEF Prefix
    <3>4. \A i \in 1 .. pos' : screen'[i] = cmdline[i - 1]
      BY <3>2, <3>3
    <3>5. screen' = Prefix(cmdline, pos')
      BY <3>1, <3>2, <3>4 DEF Prefix
    <3> QED
      BY <3>2, <3>5
  <2> QED
    BY <1>1, <2>1, <2>2
<1>6. TypeOK' /\ ReadInv' /\ HistoryInv'
  BY <1>1, <1>2, <1>3, <1>4, <1>5, Handled
<1>7. LineInv' /\ ScreenInv'
  BY <1>1, <1>2, <1>3, <1>4, <1>5 DEF LineInv, ScreenInv
<1> QED
  BY <1>6, <1>7 DEF IInv

LEMMA InsertStep ==
  ASSUME IInv, NEW c, Insert(c)
  PROVE  IInv'
<1>1. /\ Take(c) /\ esc' = "none" /\ c \in Printable /\ pos < CmdlineSize - 1
      /\ cmdline' = [cmdline EXCEPT ![pos] = c] /\ pos' = pos + 1
      /\ screen' = IF garbled THEN screen ELSE Append(screen, c)
      /\ UNCHANGED <<stdinSize, rx, state, historyVars, garbled>>
  BY DEF Insert, HasRoom
<1>2. state = "GET_USER_INPUT"
  BY <1>1, TakeFacts
<1>3. /\ cmdline \in Line /\ pos \in Index /\ screen \in Seq(Printable) /\ garbled \in BOOLEAN
      /\ \A j \in Index : j < pos => cmdline[j] # NUL
      /\ ~ garbled => screen = Prefix(cmdline, pos)
  BY <1>2 DEF IInv, TypeOK, LineInv, ScreenInv
<1>4. pos \in Nat /\ pos' \in Index /\ pos' \in Nat
  BY <1>1, <1>3, Sizes DEF Index
<1>5. /\ cmdline' \in Line /\ cmdline'[pos] = c
      /\ \A j \in Index : j < pos => cmdline'[j] = cmdline[j]
  BY <1>1, <1>3, Sizes DEF Line
<1>6. \A j \in Index : j < pos' => cmdline'[j] # NUL
  <2> SUFFICES ASSUME NEW j \in Index, j < pos' PROVE cmdline'[j] # NUL
    OBVIOUS
  <2>1. j < pos \/ j = pos
    BY <1>1, <1>4, Sizes
  <2> QED
    BY <1>1, <1>3, <1>5, <2>1, Sizes
<1>7. screen' \in Seq(Printable) /\ (~ garbled => screen' = Prefix(cmdline', pos'))
  <2>1. CASE garbled
    BY <1>1, <1>3, <2>1
  <2>2. CASE ~ garbled
    <3>1. screen' = Append(screen, c) /\ screen' \in Seq(Printable)
      BY <1>1, <1>3, <2>2
    <3>2. Len(screen) = pos /\ screen = Prefix(cmdline, pos)
      BY <1>3, <2>2, PrefixType
    <3>3. /\ Len(screen') = pos' /\ screen'[pos'] = c
          /\ \A i \in 1 .. pos : screen'[i] = screen[i]
      BY <1>1, <1>3, <1>4, <3>1, <3>2
    <3>4. ASSUME NEW i \in 1 .. pos' PROVE screen'[i] = cmdline'[i - 1]
      <4>1. CASE i = pos'
        BY <1>1, <1>4, <1>5, <3>3, <4>1
      <4>2. CASE i # pos'
        <5>1. i \in 1 .. pos /\ i - 1 \in Index /\ i - 1 < pos
          BY <1>1, <1>3, <1>4, <4>2, Sizes DEF Index
        <5>2. screen[i] = cmdline[i - 1]
          BY <3>2, <5>1 DEF Prefix
        <5> QED
          BY <1>5, <3>3, <5>1, <5>2
      <4> QED
        BY <4>1, <4>2
    <3>5. screen' = Prefix(cmdline', pos')
      <4>1. Prefix(cmdline', pos') \in Seq(Printable) /\ Len(Prefix(cmdline', pos')) = pos'
        BY <1>4, <1>5, <1>6, PrefixType
      <4>2. \A i \in 1 .. pos' : screen'[i] = Prefix(cmdline', pos')[i]
        BY <3>4 DEF Prefix
      <4> QED
        BY <3>1, <3>3, <4>1, <4>2, SeqEqual
    <3> QED
      BY <3>1, <3>5
  <2> QED
    BY <1>3, <2>1, <2>2
<1>8. TypeOK' /\ ReadInv' /\ HistoryInv'
  BY <1>1, <1>2, <1>3, <1>4, <1>5, <1>7, Handled
<1>9. LineInv' /\ ScreenInv'
  BY <1>1, <1>2, <1>6, <1>7 DEF LineInv, ScreenInv
<1> QED
  BY <1>8, <1>9 DEF IInv

-----------------------------------------------------------------------------
(* The states of shell_state_machine.                                      *)

LEMMA PromptStep ==
  ASSUME IInv, Prompt
  PROVE  IInv'
<1>1. /\ state = "INIT" /\ state' = "GET_USER_INPUT" /\ screen' = <<>> /\ garbled' = FALSE
      /\ UNCHANGED <<stdinSize, rx, stdin, pc, esc, cmdline, pos, historyVars>>
  BY DEF Prompt, inputVars, lineVars
<1>2. pos = 0
  BY <1>1 DEF IInv, LineInv
<1>3. TypeOK'
  <2>1. screen' \in Seq(Printable)
    BY <1>1
  <2> QED
    BY <1>1, <2>1 DEF IInv, TypeOK, historyVars
<1>4. ReadInv' /\ HistoryInv'
  BY <1>1 DEF IInv, ReadInv, HistoryInv, historyVars
<1>5. LineInv'
  BY <1>1, <1>2, Sizes DEF LineInv, Index
<1>6. ScreenInv'
  BY <1>1, <1>2, PrefixEmpty DEF ScreenInv
<1> QED
  BY <1>3, <1>4, <1>5, <1>6 DEF IInv

\* The line is terminated at the position, and is kept before it is chopped.
LEMMA ExecuteStep ==
  ASSUME IInv, Execute
  PROVE  IInv'
<1>1. /\ state = "EXEC_CMD" /\ state' = "END_CMD" /\ cmdline' = Chop(cmdline)
      /\ UNCHANGED <<stdinSize, rx, stdin, pc, esc, pos, screen, garbled>>
  BY DEF Execute, inputVars, screenVars
<1>2. /\ EndsAt(cmdline, pos) /\ StrLen(cmdline) = pos /\ CString(cmdline) = Prefix(cmdline, pos)
      /\ pc = "poll" /\ esc = "none" /\ cmdline \in Line /\ pos \in Index
  BY <1>1, StrLenIs, CStringIs DEF IInv, LineInv, ReadInv, TypeOK
<1>3. Chop(cmdline) \in Line
  BY <1>2 DEF Chop, Line
<1>4. /\ cmdprev' \in Line /\ prevPos' \in Index /\ last' \in Seq(Printable)
      /\ EndsAt(cmdprev', prevPos') /\ last' = Prefix(cmdprev', prevPos')
  <2>1. CASE StrLen(cmdline) > 0
    <3>1. cmdprev' = cmdline /\ prevPos' = pos /\ last' = Prefix(cmdline, pos)
      BY <1>2, <2>1 DEF Execute
    <3>2. last' \in Seq(Printable)
      BY <1>2, <3>1, PrefixType DEF EndsAt
    <3> QED
      BY <1>2, <3>1, <3>2
  <2>2. CASE ~ (StrLen(cmdline) > 0)
    <3>1. UNCHANGED <<cmdprev, prevPos, last>>
      BY <2>2 DEF Execute, historyVars
    <3> QED
      BY <3>1 DEF IInv, TypeOK, HistoryInv
  <2> QED
    BY <2>1, <2>2
<1>5. TypeOK'
  BY <1>1, <1>3, <1>4 DEF IInv, TypeOK
<1>6. ReadInv' /\ LineInv' /\ ScreenInv' /\ HistoryInv'
  BY <1>1, <1>2, <1>4 DEF ReadInv, LineInv, ScreenInv, HistoryInv
<1> QED
  BY <1>5, <1>6 DEF IInv

LEMMA EndCmdStep ==
  ASSUME IInv, EndCmd
  PROVE  IInv'
<1>1. /\ state = "END_CMD" /\ state' = "INIT" /\ pos' = 0
      /\ cmdline' = [cmdline EXCEPT ![0] = NUL]
      /\ UNCHANGED <<stdinSize, rx, stdin, pc, esc, cmdprev, prevPos, last, screen, garbled>>
  BY DEF EndCmd, inputVars, historyVars, screenVars
<1>2. cmdline' \in Line /\ pos' \in Index
  BY <1>1, Sizes DEF IInv, TypeOK, Line
<1>3. TypeOK'
  BY <1>1, <1>2 DEF IInv, TypeOK
<1>4. ReadInv' /\ LineInv' /\ ScreenInv' /\ HistoryInv'
  BY <1>1 DEF IInv, ReadInv, LineInv, ScreenInv, HistoryInv
<1> QED
  BY <1>3, <1>4 DEF IInv

LEMMA StepKeepsInv == IInv /\ [Next]_vars => IInv'
<1> SUFFICES ASSUME IInv, [Next]_vars PROVE IInv'
  OBVIOUS
<1>1. ASSUME NEW c \in Typed, Receive(c) PROVE IInv'
  BY <1>1, ReceiveStep
<1>2. CASE Poll \/ Read \/ Prompt \/ Execute \/ EndCmd
  BY <1>2, PollStep, ReadStep, PromptStep, ExecuteStep, EndCmdStep
<1>3. CASE HandleEsc
  BY <1>3, NoEffectStep, EscRecallStep, EscOtherStep DEF HandleEsc
<1>4. CASE EditLine
  BY <1>4, NoEffectStep, EndLineStep, EraseLastStep, InsertStep DEF EditLine
<1>5. CASE UNCHANGED vars
  BY <1>5 DEF vars, inputVars, lineVars, historyVars, screenVars,
              IInv, TypeOK, ReadInv, LineInv, HistoryInv, ScreenInv
<1> QED
  BY <1>1, <1>2, <1>3, <1>4, <1>5 DEF Next, ConsoleTask

THEOREM IInvInvariant == Spec => []IInv
  BY InitInv, StepKeepsInv, PTL DEF Spec

-----------------------------------------------------------------------------

(* The position never leaves the line, whatever is typed, recalled and     *)
(* erased, and no buffer takes more than it has room for.                  *)
THEOREM TypeCorrect == Spec => []TypeOK
<1>1. IInv => TypeOK
  BY DEF IInv
<1> QED
  BY <1>1, IInvInvariant, PTL

(* getchar never finds nothing to read, however much of the ring buffer    *)
(* the library takes at once.                                              *)
THEOREM EofSafety == Spec => []NeverEof
<1>1. IInv => NeverEof
  BY DEF IInv, ReadInv, NeverEof
<1> QED
  BY <1>1, IInvInvariant, PTL

(* The line shown is the line stored, and the one executed.                *)
THEOREM ScreenSafety == Spec => []ScreenShowsLine
<1>1. IInv => ScreenShowsLine
  BY CStringIs DEF IInv, LineInv, ScreenInv, ScreenShowsLine
<1> QED
  BY <1>1, IInvInvariant, PTL

(* Arrow up brings back the last line that was not empty, as typed.        *)
THEOREM HistorySafety == Spec => []HistoryIsLastLine
<1>1. IInv => HistoryIsLastLine
  <2> SUFFICES ASSUME IInv PROVE HistoryIsLastLine
    OBVIOUS
  <2>1. /\ cmdprev \in Line /\ EndsAt(cmdprev, prevPos) /\ last = Prefix(cmdprev, prevPos)
    BY DEF IInv, TypeOK, HistoryInv
  <2>2. CString(cmdprev) = last
    BY <2>1, CStringIs
  <2>3. prevPos = Len(last)
    BY <2>1, PrefixType DEF EndsAt
  <2> QED
    BY <2>2, <2>3 DEF HistoryIsLastLine
<1> QED
  BY <1>1, IInvInvariant, PTL

=============================================================================
