-------------------------------- MODULE Shell --------------------------------
(***************************************************************************)
(* The console: characters received by the UART interrupt, the library's   *)
(* stdin buffer between _read and getchar (src/shell/retarget_io.c), and   *)
(* the line editor of the console task (src/shell/shell.c), which hands    *)
(* complete lines to rte_shell_execute (rte/src/rte_shell.c).              *)
(*                                                                         *)
(* The ring buffer is represented by the queue it implements (BoundedFifo; *)
(* the refinement is checked and proved in RingBuffer).  The task takes    *)
(* one step per poll of the queue, per character that _read moves, per     *)
(* character it handles and per state of shell_state_machine; interrupts   *)
(* fall between any two of them.                                           *)
(*                                                                         *)
(* stdin is not under src/: the C library hands out characters from its    *)
(* buffer and calls _read for at most stdinSize more when it is empty.     *)
(* How large that buffer is, is settled before the console starts; a size  *)
(* of 1 is an unbuffered stdin.                                            *)
(***************************************************************************)
EXTENDS Integers, Sequences

CONSTANTS
  Capacity,     \* characters the ring buffer holds, SERIAL_BUFFER_SIZE - 1
  StdinSizes,   \* the sizes that the library's stdin buffer may have
  CmdlineSize,  \* SHELL_CMDLINE_SIZE
  Plain,        \* printable characters of no other meaning
  Other,        \* characters that are not printable, of no other meaning
  Bracket, ArrowUp, ArrowOther,
                \* '['; 'A'; one of 'B', 'C', 'D': printable, and parts of
                \* escape sequences
  Space,        \* ' ', printable, and the delimiter of arguments
  Esc, Erase, CR, LF,
                \* Erase is SHELL_BACKSPACE or SHELL_DELETE
  NUL,          \* the terminator of C strings
  EOF,          \* what getchar returns when there is nothing to read
  Typed         \* the characters the user may type

Printable == Plain \cup {Bracket, ArrowUp, ArrowOther, Space}
Char == Printable \cup Other \cup {Esc, Erase, CR, LF}

ASSUME ShellAssumption ==
  /\ Capacity \in Nat \ {0}
  /\ StdinSizes \subseteq Nat \ {0}
  /\ CmdlineSize \in Nat /\ CmdlineSize >= 2
  /\ NUL \notin Printable
  /\ EOF \notin Char
  /\ {Esc, Erase, CR, LF} \cap (Printable \cup Other) = {}
  /\ Other \cap Printable = {}
  /\ Typed \subseteq Char

VARIABLES
  rx,        \* serial_buffer, oldest character first
  stdinSize, \* size of the library's buffer
  stdin,     \* what it holds
  state,     \* shell_state
  esc,       \* how far the task is in handle_esc
  pc,        \* where it is on its way to the next character
  cmdline,   \* shell_cmdline
  pos,       \* shell_cmdline_pos
  cmdprev,   \* shell_cmdprev
  prevPos,   \* shell_cmdline_prev_pos
  screen,    \* what the terminal shows after the prompt on the current line
  garbled,   \* a message was printed over that line
  last       \* history: the last line that was not empty when executed

inputVars == <<stdin, pc>>
lineVars == <<cmdline, pos>>
historyVars == <<cmdprev, prevPos, last>>
screenVars == <<screen, garbled>>
vars == <<rx, stdinSize, inputVars, state, esc, lineVars, historyVars, screenVars>>

Index == 0 .. CmdlineSize - 1
EmptyLine == [i \in Index |-> NUL]

\* strlen, of a line that is terminated
Terminated(line) == \E i \in Index : line[i] = NUL
StrLen(line) ==
  CHOOSE i \in Index : line[i] = NUL /\ \A j \in Index : j < i => line[j] # NUL

\* The characters of a line before its position n, as a sequence.
Prefix(line, n) == [i \in 1 .. n |-> line[i - 1]]
CString(line) == Prefix(line, StrLen(line))

\* shell_console_init: the interrupt is enabled before shell_init runs and
\* the task is created after it; static storage is zero.
Init ==
  /\ rx = <<>>
  /\ stdinSize \in StdinSizes
  /\ stdin = <<>>
  /\ state = "INIT"
  /\ esc = "none"
  /\ pc = "poll"
  /\ cmdline = EmptyLine
  /\ pos = 0
  /\ cmdprev = EmptyLine
  /\ prevPos = 0
  /\ screen = <<>>
  /\ garbled = FALSE
  /\ last = <<>>

-----------------------------------------------------------------------------
(* The interrupt.                                                          *)

\* UART_Isr: one received character; it is lost when the buffer is full.
Receive(c) ==
  /\ rx' = IF Len(rx) < Capacity THEN Append(rx, c) ELSE rx
  /\ UNCHANGED <<stdinSize, inputVars, state, esc, lineVars, historyVars, screenVars>>

-----------------------------------------------------------------------------
(* The way to the next character.                                          *)

\* Mutant of Poll: getchar is called without looking at the ring buffer.
PollBlindly ==
  /\ state = "GET_USER_INPUT"
  /\ pc = "poll"
  /\ pc' = IF stdin = <<>> THEN "read" ELSE "take"
  /\ UNCHANGED <<stdinSize, rx, stdin, state, esc, lineVars, historyVars, screenVars>>

\* Mutant of Poll: it waits for more than one character.
PollForTwo ==
  /\ state = "GET_USER_INPUT"
  /\ pc = "poll"
  /\ Len(rx) > 1
  /\ pc' = IF stdin = <<>> THEN "read" ELSE "take"
  /\ UNCHANGED <<stdinSize, rx, stdin, state, esc, lineVars, historyVars, screenVars>>

\* The test of ring_buffer_avail in SHELL_STATE_GET_USER_INPUT and in
\* wait_esc_data, and the entry of getchar.
Poll ==
  /\ state = "GET_USER_INPUT"
  /\ pc = "poll"
  /\ rx # <<>>
  /\ pc' = IF stdin = <<>> THEN "read" ELSE "take"
  /\ UNCHANGED <<stdinSize, rx, stdin, state, esc, lineVars, historyVars, screenVars>>

\* One iteration of _read: it stops when the ring buffer is empty, when the
\* library's buffer is full, and after a CR, which it turns into LF.
Read ==
  /\ pc = "read"
  /\ IF rx = <<>>
     THEN pc' = "take" /\ UNCHANGED <<rx, stdin>>
     ELSE LET c == Head(rx) IN
          /\ rx' = Tail(rx)
          /\ stdin' = Append(stdin, IF c = CR THEN LF ELSE c)
          /\ pc' = IF c = CR \/ Len(stdin') = stdinSize THEN "take" ELSE "read"
  /\ UNCHANGED <<stdinSize, state, esc, lineVars, historyVars, screenVars>>

\* getchar returns c: EOF when _read has read nothing.
Take(c) ==
  /\ pc = "take"
  /\ c = IF stdin = <<>> THEN EOF ELSE Head(stdin)
  /\ stdin' = IF stdin = <<>> THEN stdin ELSE Tail(stdin)
  /\ pc' = "poll"

-----------------------------------------------------------------------------
(* handle_esc.                                                             *)

\* The character after ESC; any other than '[', and EOF, is dropped.
EscBracket(c) ==
  /\ esc = "bracket"
  /\ Take(c)
  /\ esc' = IF c = Bracket THEN "key" ELSE "none"
  /\ UNCHANGED <<stdinSize, rx, state, lineVars, historyVars, screenVars>>

\* Mutant of EscRecall: the position in the line is not updated.
EscRecallKeepingPos(c) ==
  /\ esc = "key"
  /\ Take(c)
  /\ c = ArrowUp
  /\ esc' = "none"
  /\ cmdline' = cmdprev
  /\ screen' = CString(cmdprev)
  /\ garbled' = FALSE
  /\ UNCHANGED <<stdinSize, rx, state, pos, historyVars>>

\* Arrow up: the previous command is copied and the line is rewritten.
EscRecall(c) ==
  /\ esc = "key"
  /\ Take(c)
  /\ c = ArrowUp
  /\ esc' = "none"
  /\ cmdline' = cmdprev
  /\ pos' = prevPos
  /\ screen' = CString(cmdprev)
  /\ garbled' = FALSE
  /\ UNCHANGED <<stdinSize, rx, state, historyVars>>

\* The other arrows do nothing; an unknown key, or EOF, prints a
\* message.
EscOther(c) ==
  /\ esc = "key"
  /\ Take(c)
  /\ c # ArrowUp
  /\ esc' = "none"
  /\ IF c = ArrowOther
     THEN UNCHANGED screenVars
     ELSE screen' = <<>> /\ garbled' = TRUE
  /\ UNCHANGED <<stdinSize, rx, state, lineVars, historyVars>>

HandleEsc ==
  \E c \in Char \cup {EOF} : EscBracket(c) \/ EscRecall(c) \/ EscOther(c)

-----------------------------------------------------------------------------
(* shell_state_machine.                                                    *)

\* SHELL_STATE_INIT
Prompt ==
  /\ state = "INIT"
  /\ state' = "GET_USER_INPUT"
  /\ screen' = <<>>
  /\ garbled' = FALSE
  /\ UNCHANGED <<stdinSize, rx, inputVars, esc, lineVars, historyVars>>

\* Mutant of HasRoom: no place is kept for the terminator.
HasRoomForAll == pos < CmdlineSize

HasRoom == pos < CmdlineSize - 1

\* Enter, or any character when only the place of the terminator is left.
EndLine(c) ==
  /\ esc = "none"
  /\ Take(c)
  /\ c = LF \/ ~HasRoom
  /\ c # EOF
  /\ cmdline' = [cmdline EXCEPT ![pos] = NUL]
  /\ state' = "EXEC_CMD"
  /\ UNCHANGED <<stdinSize, rx, esc, pos, historyVars, screenVars>>

StartEsc(c) ==
  /\ esc = "none"
  /\ Take(c)
  /\ c = Esc /\ HasRoom
  /\ esc' = "bracket"
  /\ UNCHANGED <<stdinSize, rx, state, lineVars, historyVars, screenVars>>

\* Backspace and delete; the terminal's cursor moves back and over a blank.
EraseLast(c) ==
  /\ esc = "none"
  /\ Take(c)
  /\ c = Erase /\ HasRoom
  /\ IF pos > 0
     THEN /\ pos' = pos - 1
          /\ screen' = IF garbled THEN screen ELSE SubSeq(screen, 1, Len(screen) - 1)
     ELSE UNCHANGED <<pos, screen>>
  /\ UNCHANGED <<stdinSize, rx, state, esc, cmdline, historyVars, garbled>>

\* A printable character is stored and echoed.
Insert(c) ==
  /\ esc = "none"
  /\ Take(c)
  /\ c \in Printable /\ HasRoom
  /\ cmdline' = [cmdline EXCEPT ![pos] = c]
  /\ pos' = pos + 1
  /\ screen' = IF garbled THEN screen ELSE Append(screen, c)
  /\ UNCHANGED <<stdinSize, rx, state, esc, historyVars, garbled>>

\* Any other character, and EOF, has no effect.
Ignore(c) ==
  /\ esc = "none"
  /\ Take(c)
  /\ c = EOF \/ (c \in Other \cup {CR} /\ HasRoom)
  /\ UNCHANGED <<stdinSize, rx, state, esc, lineVars, historyVars, screenVars>>

EditLine ==
  \E c \in Char \cup {EOF} :
    EndLine(c) \/ StartEsc(c) \/ EraseLast(c) \/ Insert(c) \/ Ignore(c)

\* strtok_r ends each argument by writing over the space that follows it.  The
\* code stops after 15 arguments (rte_shell.c:107) and leaves the spaces behind
\* them, which nothing reads: that limit is left out.
Chop(line) ==
  [i \in Index |->
     IF i \in 1 .. StrLen(line) /\ line[i] = Space /\ line[i - 1] # Space
     THEN NUL ELSE line[i]]

\* Mutant of Execute: the line is kept after rte_shell_execute chopped it.
ExecuteThenKeep ==
  /\ state = "EXEC_CMD"
  /\ IF StrLen(cmdline) > 0
     THEN /\ cmdprev' = Chop(cmdline)
          /\ prevPos' = StrLen(cmdprev')
          /\ last' = CString(cmdline)
     ELSE UNCHANGED historyVars
  /\ cmdline' = Chop(cmdline)
  /\ state' = "END_CMD"
  /\ UNCHANGED <<stdinSize, rx, inputVars, esc, pos, screenVars>>

\* SHELL_STATE_EXEC_CMD: the line is kept before rte_shell_execute chops it.
Execute ==
  /\ state = "EXEC_CMD"
  /\ IF StrLen(cmdline) > 0
     THEN /\ cmdprev' = cmdline
          /\ prevPos' = StrLen(cmdprev')
          /\ last' = CString(cmdline)
     ELSE UNCHANGED historyVars
  /\ cmdline' = Chop(cmdline)
  /\ state' = "END_CMD"
  /\ UNCHANGED <<stdinSize, rx, inputVars, esc, pos, screenVars>>

\* SHELL_STATE_END_CMD
EndCmd ==
  /\ state = "END_CMD"
  /\ state' = "INIT"
  /\ pos' = 0
  /\ cmdline' = [cmdline EXCEPT ![0] = NUL]
  /\ UNCHANGED <<stdinSize, rx, inputVars, esc, historyVars, screenVars>>

\* console_task
ConsoleTask ==
  \/ Poll
  \/ Read
  \/ HandleEsc
  \/ Prompt
  \/ EditLine
  \/ Execute
  \/ EndCmd

Next ==
  \/ \E c \in Typed : Receive(c)
  \/ ConsoleTask

Spec == Init /\ [][Next]_vars

(* The scheduler keeps running the console task: it is ready again after   *)
(* each vTaskDelay(1) and no other task of its priority blocks it.  That   *)
(* characters arrive is not assumed.                                       *)
FairSpec == Spec /\ WF_vars(ConsoleTask)

-----------------------------------------------------------------------------
(* Properties.                                                             *)

Line == [Index -> Printable \cup {NUL}]

TypeOK ==
  /\ rx \in Seq(Char) /\ Len(rx) <= Capacity
  /\ stdinSize \in StdinSizes
  /\ stdin \in Seq(Char) /\ Len(stdin) <= stdinSize
  /\ state \in {"INIT", "GET_USER_INPUT", "EXEC_CMD", "END_CMD"}
  /\ esc \in {"none", "bracket", "key"}
  /\ pc \in {"poll", "read", "take"}
  /\ cmdline \in Line
  /\ pos \in Index
  /\ cmdprev \in Line
  /\ prevPos \in Index
  /\ screen \in Seq(Printable)
  /\ garbled \in BOOLEAN
  /\ last \in Seq(Printable)

(* What the comment of wait_esc_data asks for, at both places that call    *)
(* getchar: _read is not asked for characters before there are any, so the *)
(* library never sees an end of file.                                      *)
NeverEof == pc = "take" => stdin # <<>>

(* The user can trust the terminal: while a line is edited the line shown  *)
(* is the one stored, and what is executed is what is shown, whatever was  *)
(* typed, erased and recalled before, unless a message garbled the line.   *)
ScreenShowsLine ==
  ~garbled =>
    /\ state = "GET_USER_INPUT" => screen = Prefix(cmdline, pos)
    /\ state = "EXEC_CMD" => screen = CString(cmdline)

(* Arrow up brings back the last line that was not empty, as it was typed, *)
(* though its execution has chopped the line it was stored in.             *)
HistoryIsLastLine ==
  /\ CString(cmdprev) = last
  /\ prevPos = Len(last)

(* No character is left behind: unless more keep arriving, everything that *)
(* was received leaves the queue, and all of it is handled when stdin is   *)
(* unbuffered.  Of what a larger stdin buffer took at once, at least one   *)
(* character is handled; the rest is not counted by ring_buffer_avail and  *)
(* may wait.                                                               *)
InputIsHandled ==
  \/ []<><<\E c \in Typed : Receive(c)>>_vars
  \/ <>[](rx = <<>> /\ Len(stdin) < stdinSize)

=============================================================================
