------------------------------ MODULE Console ------------------------------
(***************************************************************************)
(* _write() of common/syscall.c over uart16550_putchar() of                *)
(* drivers/uart16550: several cores print without a lock.  The device      *)
(* takes the characters written to its transmit register into a FIFO of    *)
(* DEPTH places and sends them; a character written to a full FIFO is      *)
(* lost.  Every core waits for the FIFO to be empty after each character.  *)
(***************************************************************************)
EXTENDS Integers, FiniteSets, SequencesExt

CONSTANTS Printers, \* the cores that print
          MaxLine,  \* the length of what a call prints
          Files,    \* the descriptors they give
          DEPTH     \* of the FIFO, TX_FILL_MAX

ASSUME ConsoleAssumption == DEPTH \in Nat \ {0} /\ MaxLine \in Nat

VARIABLES text,  \* what is left to print of each core's call
          place, \* where each core is in uart16550_putchar()
          fifo,  \* the characters in the FIFO, each with its core
          due    \* the line of each core's call as far as it is still to be sent,
                 \* and whether the "\r" of its first character was (no code)

consoleVars == <<text, place, fifo, due>>

Due(line, cr) == [line |-> line, cr |-> cr]
ConsoleInit == /\ text = [c \in Printers |-> <<>>]
               /\ place = [c \in Printers |-> "idle"]
               /\ fifo = <<>> /\ due = [c \in Printers |-> Due(<<>>, FALSE)]

Lines == BoundedSeq({"x", "\n"}, MaxLine)

(* _write() fails for the descriptors that are not the console. *)
Write(c, file, chars) ==
    /\ place[c] = "idle"
    /\ IF file \in {1, 2}
       THEN /\ place' = [place EXCEPT ![c] = "next"]
            /\ text' = [text EXCEPT ![c] = chars]
            /\ due' = [due EXCEPT ![c] = Due(chars, FALSE)]
       ELSE UNCHANGED <<text, place, due>>
    /\ UNCHANGED fifo

Push(c, char) == fifo' = IF Len(fifo) < DEPTH THEN Append(fifo, <<c, char>>) ELSE fifo
(* uart16550_putchar() writes the transmit register, ... *)
PutChar(c) ==
    /\ place[c] \in {"next", "newline"} /\ text[c] # <<>>
    /\ IF Head(text[c]) = "\n" /\ place[c] = "next"
       THEN /\ Push(c, "\r") /\ place' = [place EXCEPT ![c] = "wait_cr"]
            /\ UNCHANGED text
       ELSE /\ Push(c, Head(text[c])) /\ place' = [place EXCEPT ![c] = "wait"]
            /\ text' = [text EXCEPT ![c] = Tail(@)]
    /\ UNCHANGED due
(* ... and uart16550_wait_tx_fifo_empty() waits. *)
WaitNothing(c) ==
    /\ place[c] \in {"wait", "wait_cr"}
    /\ place' = [place EXCEPT ![c] = IF @ = "wait" THEN "next" ELSE "newline"]
    /\ UNCHANGED <<text, fifo, due>>
WaitAnew(c) ==
    /\ place[c] \in {"wait", "wait_cr"} /\ fifo = <<>>
    /\ place' = [place EXCEPT ![c] = "next"]
    /\ UNCHANGED <<text, fifo, due>>
WaitEmpty(c) ==
    /\ place[c] \in {"wait", "wait_cr"} /\ fifo = <<>>
    /\ place' = [place EXCEPT ![c] = IF @ = "wait" THEN "next" ELSE "newline"]
    /\ UNCHANGED <<text, fifo, due>>
WriteReturns(c) == /\ place[c] = "next" /\ text[c] = <<>>
                   /\ place' = [place EXCEPT ![c] = "idle"]
                   /\ UNCHANGED <<text, fifo, due>>

(* The device sends a character; WRONG marks one that is not the next.  A
   newline is two characters. *)
WRONG == Due(<<"wrong">>, FALSE)
Sent(d, char) ==
    IF d.line = <<>> THEN WRONG
    ELSE IF Head(d.line) = "\n" /\ ~d.cr
         THEN IF char = "\r" THEN Due(d.line, TRUE) ELSE WRONG
         ELSE IF char = Head(d.line) THEN Due(Tail(d.line), FALSE) ELSE WRONG
Send == /\ fifo # <<>> /\ fifo' = Tail(fifo)
        /\ LET c == Head(fifo)[1] IN due' = [due EXCEPT ![c] = Sent(@, Head(fifo)[2])]
        /\ UNCHANGED <<text, place>>

PutcharSteps(c) == PutChar(c) \/ WaitEmpty(c) \/ WriteReturns(c)
ConsoleNext == \/ \E c \in Printers :
                    \/ \E f \in Files, l \in Lines : Write(c, f, l)
                    \/ PutcharSteps(c)
               \/ Send

(* The device sends and the cores go on.  A core polls at any speed: it sees a
   FIFO that stays empty, but may miss every time that it is empty if others
   fill it again. *)
ConsoleFairness == WF_consoleVars(Send) /\ \A c \in Printers : WF_consoleVars(PutcharSteps(c))
ConsoleSpec == ConsoleInit /\ [][ConsoleNext]_consoleVars /\ ConsoleFairness
-----------------------------------------------------------------------------
(* No character is lost and each core's come out in order, a newline as two,
   however the cores interleave, as long as no more cores print than the FIFO
   has places, which the theorem ConsoleCorrect assumes: it never holds more than one
   character of each core.  More cores than places could lose some. *)
LinesAreWhole ==
    /\ Len(fifo) <= Cardinality(Printers)
    /\ \A c \in Printers :
         /\ due[c] # WRONG
         /\ place[c] = "idle" => due[c] = Due(<<>>, FALSE)

(* The writes never all wait for each other: as long as some have not returned
   one more of them returns, although each waits for the characters of the
   others too.  (So all of them do once no new one is called; one may be
   overtaken for ever by others that are called again and again.) *)
SomeWriteReturns == \/ []<>(\A c \in Printers : place[c] = "idle")
                    \/ []<><<\E c \in Printers : WriteReturns(c)>>_consoleVars
=============================================================================
