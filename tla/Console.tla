------------------------------- MODULE Console -------------------------------
(***************************************************************************)
(* The console (console.c) and the UART driver (uart.c): a process that    *)
(* reads lines, one that writes, and the interrupt handler, which may run  *)
(* on another CPU than they do.                                            *)
(*                                                                         *)
(* A section under cons.lock is one step, but for the handler's, which     *)
(* waits for the UART to echo.  Under uart_tx_lock the test of the UART's  *)
(* status and the write of a character are two steps, because echoing      *)
(* writes to the UART without that lock.  What is typed and written is in  *)
(* the constant Sessions: the characters sent are numbered if they are     *)
(* written, and 0 if they are echoed, and the three bytes of an            *)
(* echoed backspace are one character.                                     *)
(***************************************************************************)
EXTENDS Integers, Sequences, SequencesExt

CONSTANTS INPUT_BUF, UART_TX_BUF_SIZE,
          FIFO,         \* characters the UART's transmitter holds
          Sessions,     \* set of [typed, written]: the characters typed, how many are written
          ReadSizes     \* sizes of the read() calls

VARIABLES
  typing,       \* what is still to be typed
  rx, thr,      \* the UART's receiver and transmitter
  line,         \* what has been sent of what was written
  irq,          \* the UART has an interrupt pending
  edit,         \* cons.buf from cons.r to cons.e
  w,            \* cons.w - cons.r: how many of them can be read
  tx,           \* uart_tx_buf from uart_tx_r to uart_tx_w
  consLock, txLock,     \* "no" or the holder
  h, rd, wr,    \* the handler, the reader, the writer
  got           \* the characters that read() has removed, in order

vars == <<typing, rx, thr, line, irq, edit, w, tx, consLock, txLock, h, rd, wr, got>>

device == <<typing, rx, thr, line, irq>>
cons == <<edit, w, consLock, got>>

\* No character.
None == <<0, "none">>

Init ==
  /\ \E s \in Sessions : typing = s.typed /\ wr = [pc |-> "put", c |-> None, next |-> 1, n |-> s.written]
  /\ rx = << >> /\ thr = << >> /\ line = << >> /\ irq = FALSE
  /\ edit = << >> /\ w = 0 /\ tx = << >> /\ consLock = "no" /\ txLock = "no"
  /\ h = [pc |-> "off", c |-> None, echo |-> << >>]
  /\ rd = [pc |-> "user", n |-> 0, target |-> 0, killed |-> FALSE, ret |-> 0]
  /\ got = << >>

-----------------------------------------------------------------------------
(* The device                                                              *)

Type ==
  /\ typing # << >>
  /\ rx' = Append(rx, Head(typing)) /\ typing' = Tail(typing) /\ irq' = TRUE
  /\ UNCHANGED <<thr, line, edit, w, tx, consLock, txLock, h, rd, wr, got>>

IsWritten(c) == c[1] > 0

\* A character leaves; the transmitter interrupts when it becomes empty.
Transmit ==
  /\ thr # << >>
  /\ line' = (IF IsWritten(Head(thr)) THEN Append(line, Head(thr)) ELSE line) /\ thr' = Tail(thr) /\ irq' = (irq \/ Len(thr) = 1)
  /\ UNCHANGED <<typing, rx, edit, w, tx, consLock, txLock, h, rd, wr, got>>

\* LSR_TX_IDLE
TxIdle == thr = << >>

\* WriteReg(THR, c)
WriteTHR(c) == thr' = Append(thr, c) /\ UNCHANGED <<typing, rx, line, irq>>

-----------------------------------------------------------------------------
(* The interrupt handler                                                   *)

\* plic_claim() and uartintr()
Interrupt ==
  /\ h.pc = "off" /\ irq
  /\ irq' = FALSE /\ h' = [h EXCEPT !.pc = "getc"]
  /\ UNCHANGED <<typing, rx, thr, line, edit, w, tx, consLock, txLock, rd, wr, got>>

\* How many characters ^U and ^H remove from the end.
KillLine == LET keep == {i \in w .. Len(edit) : i = w \/ edit[i] = "nl"}
            IN  Len(edit) - CHOOSE i \in keep : \A j \in keep : j <= i
Backspace == IF Len(edit) > w THEN 1 ELSE 0
Erased(c) == IF c = "^U" THEN KillLine ELSE Backspace
Erases(c) == c \in {"^U", "^H"}
\* Variant: one too many.
StoresOneMore(c) == ~Erases(c) /\ Len(edit) <= INPUT_BUF
Stores(c) == ~Erases(c) /\ Len(edit) < INPUT_BUF

\* uartgetc() and consoleintr(c) up to the echo.
Getc ==
  /\ h.pc = "getc" /\ rx # << >> /\ consLock = "no"
  /\ rx' = Tail(rx)
  /\ consLock' = "handler"
  /\ h' = [pc |-> "echo", c |-> <<0, Head(rx)>>,
           echo |-> IF Erases(Head(rx)) THEN [i \in 1 .. Erased(Head(rx)) |-> "bs"]
                    ELSE IF Stores(Head(rx)) THEN <<Head(rx)>> ELSE << >>]
  /\ UNCHANGED <<typing, thr, line, irq, edit, w, tx, txLock, rd, wr, got>>

\* uartputc_sync(): wait for the transmitter, then write, without uart_tx_lock.
EchoWait ==
  /\ h.pc = "echo" /\ h.echo # << >> /\ TxIdle
  /\ h' = [h EXCEPT !.pc = "echoPut"]
  /\ UNCHANGED <<device, cons, tx, txLock, rd, wr>>
EchoPut ==
  /\ h.pc = "echoPut"
  /\ WriteTHR(<<0, Head(h.echo)>>)
  /\ h' = [h EXCEPT !.pc = "echo", !.echo = Tail(@)]
  /\ UNCHANGED <<cons, tx, txLock, rd, wr>>

\* wakeup(&cons.r)
WakeReader == IF rd.pc = "sleep" THEN [rd EXCEPT !.pc = "read"] ELSE rd

\* Variant: a full buffer wakes nobody.
EditLineOnly ==
  LET c == h.c[2]
      full == Stores(c) /\ c \in {"nl", "^D"}
  IN  /\ h.pc = "echo" /\ h.echo = << >>
      /\ edit' = IF Erases(c) THEN SubSeq(edit, 1, Len(edit) - Erased(c))
                 ELSE IF Stores(c) THEN Append(edit, c) ELSE edit
      /\ w' = IF full THEN Len(edit) + 1 ELSE w
      /\ rd' = IF full THEN WakeReader ELSE rd
      /\ consLock' = "no"
      /\ h' = [h EXCEPT !.pc = "getc", !.c = None]
      /\ UNCHANGED <<device, tx, txLock, wr, got>>

\* Variant: erasing does not stop at the characters that can be read.
EditErases ==
  LET c == h.c[2]
      last == Stores(c) /\ (c \in {"nl", "^D"} \/ Len(edit) + 1 = INPUT_BUF)
  IN  /\ h.pc = "echo" /\ h.echo = << >>
      /\ edit' = IF c = "^H" /\ edit # << >> THEN Front(edit)
                 ELSE IF Erases(c) THEN SubSeq(edit, 1, Len(edit) - Erased(c))
                 ELSE IF Stores(c) THEN Append(edit, c) ELSE edit
      /\ w' = IF last THEN Len(edit) + 1 ELSE IF w > Len(edit') THEN Len(edit') ELSE w
      /\ rd' = IF last THEN WakeReader ELSE rd
      /\ consLock' = "no"
      /\ h' = [h EXCEPT !.pc = "getc", !.c = None]
      /\ UNCHANGED <<device, tx, txLock, wr, got>>

\* The rest of consoleintr(c): the buffer, and the reader when the line is complete.
Edit ==
  LET c == h.c[2]
      last == Stores(c) /\ (c \in {"nl", "^D"} \/ Len(edit) + 1 = INPUT_BUF)
  IN  /\ h.pc = "echo" /\ h.echo = << >>
      /\ edit' = IF Erases(c) THEN SubSeq(edit, 1, Len(edit) - Erased(c))
                 ELSE IF Stores(c) THEN Append(edit, c) ELSE edit
      /\ w' = IF last THEN Len(edit) + 1 ELSE w
      /\ rd' = IF last THEN WakeReader ELSE rd
      /\ consLock' = "no"
      /\ h' = [h EXCEPT !.pc = "getc", !.c = None]
      /\ UNCHANGED <<device, tx, txLock, wr, got>>

\* Variant: the handler only reads characters.
GetcEndReturns ==
  /\ h.pc = "getc" /\ rx = << >>
  /\ h' = [h EXCEPT !.pc = "off"]
  /\ UNCHANGED <<device, cons, tx, txLock, rd, wr>>

\* No more input: uartstart() with uart_tx_lock.
GetcEnd ==
  /\ h.pc = "getc" /\ rx = << >> /\ txLock = "no"
  /\ txLock' = "handler" /\ h' = [h EXCEPT !.pc = "start"]
  /\ UNCHANGED <<device, cons, tx, rd, wr>>

-----------------------------------------------------------------------------
(* uartstart(), called by the handler and by the writer                    *)

\* The loop's tests let it send a character.
CanSend == tx # << >> /\ TxIdle

\* wakeup(&uart_tx_r)
WakeWriter == IF wr.pc = "sleep" THEN [wr EXCEPT !.pc = "put"] ELSE wr

HandlerTake ==
  /\ h.pc = "start" /\ CanSend
  /\ h' = [h EXCEPT !.pc = "send", !.c = Head(tx)] /\ tx' = Tail(tx)
  /\ wr' = WakeWriter
  /\ UNCHANGED <<device, cons, txLock, rd>>
HandlerSend ==
  /\ h.pc = "send"
  /\ WriteTHR(h.c)
  /\ h' = [h EXCEPT !.pc = "start", !.c = None]
  /\ UNCHANGED <<cons, tx, txLock, rd, wr>>
HandlerReturn ==
  /\ h.pc = "start" /\ ~CanSend
  /\ h' = [h EXCEPT !.pc = "off"] /\ txLock' = "no"
  /\ UNCHANGED <<device, cons, tx, rd, wr>>

\* uartputc(): the next character of consolewrite() enters the buffer, or waits.
Putc ==
  /\ wr.pc = "put" /\ wr.next <= wr.n /\ txLock = "no"
  /\ IF Len(tx) = UART_TX_BUF_SIZE
     THEN wr' = [wr EXCEPT !.pc = "sleep"] /\ UNCHANGED <<tx, txLock>>
     ELSE /\ tx' = Append(tx, <<wr.next, "c">>) /\ txLock' = "writer"
          /\ wr' = [wr EXCEPT !.pc = "start", !.next = @ + 1]
  /\ UNCHANGED <<device, cons, h, rd>>
WriterTake ==
  /\ wr.pc = "start" /\ CanSend
  /\ wr' = [wr EXCEPT !.pc = "send", !.c = Head(tx)] /\ tx' = Tail(tx)
  /\ UNCHANGED <<device, cons, txLock, h, rd>>

\* Variant: the character is lost when the transmitter has been taken meanwhile.
WriterSendLate ==
  /\ wr.pc = "send"
  /\ IF TxIdle THEN WriteTHR(wr.c) ELSE UNCHANGED device
  /\ wr' = [wr EXCEPT !.pc = "start", !.c = None]
  /\ UNCHANGED <<cons, tx, txLock, h, rd>>
WriterSend ==
  /\ wr.pc = "send"
  /\ WriteTHR(wr.c)
  /\ wr' = [wr EXCEPT !.pc = "start", !.c = None]
  /\ UNCHANGED <<cons, tx, txLock, h, rd>>
WriterReturn ==
  /\ wr.pc = "start" /\ ~CanSend
  /\ wr' = [wr EXCEPT !.pc = "put"] /\ txLock' = "no"
  /\ UNCHANGED <<device, cons, tx, h, rd>>

-----------------------------------------------------------------------------
(* consoleread()                                                           *)

ReadBegin ==
  \E n \in ReadSizes :
    /\ rd.pc = "user" /\ ~rd.killed
    /\ rd' = [rd EXCEPT !.pc = "read", !.n = n, !.target = n]
    /\ UNCHANGED <<device, cons, tx, txLock, h, wr>>

\* The characters the loop takes before it returns or sleeps: up to n of those that
\* can be read, no further than a newline or ^D.
Ends == {i \in 1 .. w : edit[i] \in {"nl", "^D"}}
Taken == LET stop == {rd.n, w} \cup Ends IN CHOOSE i \in stop : \A j \in stop : i <= j

\* ^D ends a read, and stays for the next one if the read has characters.
Eof(k) == k > 0 /\ edit[k] = "^D"
\* Variant: it never stays.
SavedNever(k) == FALSE
Saved(k) == Eof(k) /\ (k > 1 \/ rd.n < rd.target)

\* A section of consoleread(): it takes k characters; then it returns, or sleeps, or
\* finds it has been killed.
Read ==
  LET k == Taken
      used == IF Saved(k) THEN k - 1 ELSE k
      copied == IF Eof(k) THEN k - 1 ELSE k
      returns == (k > 0 /\ edit[k] \in {"nl", "^D"}) \/ k = rd.n
  IN  /\ rd.pc = "read" /\ consLock = "no"
      /\ edit' = SubSeq(edit, used + 1, Len(edit))
      /\ w' = w - used
      /\ got' = got \o SubSeq(edit, 1, used)
      /\ rd' = IF returns THEN [rd EXCEPT !.pc = "user", !.n = 0, !.target = 0, !.ret = rd.target - rd.n + copied]
               ELSE IF rd.killed THEN [rd EXCEPT !.pc = "user", !.n = 0, !.target = 0, !.ret = -1]
               ELSE [rd EXCEPT !.pc = "sleep", !.n = @ - copied]
      /\ UNCHANGED <<device, consLock, tx, txLock, h, wr>>

\* kill() of the reader: it wakes it.
Kill ==
  /\ ~rd.killed
  /\ rd' = [WakeReader EXCEPT !.killed = TRUE]
  /\ UNCHANGED <<device, cons, tx, txLock, h, wr>>

Handler == Interrupt \/ Getc \/ EchoWait \/ EchoPut \/ Edit \/ GetcEnd \/ HandlerTake \/ HandlerSend \/ HandlerReturn
Writer == Putc \/ WriterTake \/ WriterSend \/ WriterReturn

Next == Type \/ Transmit \/ Handler \/ Writer \/ ReadBegin \/ Read \/ Kill

\* As long as a device, the handler or a process that is in a call can go on, one
\* of them does.
Progress == Type \/ Transmit \/ Handler \/ Writer \/ Read
Spec == Init /\ [][Next]_vars
FairSpec == Spec /\ WF_vars(Progress)

-----------------------------------------------------------------------------
(* Properties                                                              *)

\* Every variable keeps its type; the buffers keep to their sizes, and what uartputc()
\* and the echo write never exceeds what the transmitter holds.
TypeOK ==
  /\ Len(edit) <= INPUT_BUF /\ w \in 0 .. Len(edit)
  /\ Len(tx) <= UART_TX_BUF_SIZE /\ Len(thr) <= FIFO
  /\ consLock \in {"no", "handler"} /\ txLock \in {"no", "handler", "writer"}
  /\ irq \in BOOLEAN

\* The input that has been completed is delivered as it is: what read() has returned
\* followed by what it can return only ever grows at its end, whatever is erased, and
\* a ^D that is put back is not lost.
Delivers == IsPrefix(got \o SubSeq(edit, 1, w), got' \o SubSeq(edit', 1, w'))
Delivered == [][Delivers]_vars

\* A read() that returns characters has not removed a ^D, and one that returns 0 has
\* removed just one.
EofReturns ==
  rd.pc = "read" /\ rd'.pc = "user" /\ rd'.ret >= 0 =>
    LET removed == SubSeq(got', Len(got) + 1, Len(got'))
    IN  "^D" \in {removed[i] : i \in DOMAIN removed} <=> rd'.ret = 0
EofByItself == [][EofReturns]_vars

\* The reader sleeps only while no complete line is there and it has not been killed; a
\* buffer that is full counts as a line, so that it cannot be stuck.
NoStuckInput ==
  /\ rd.pc = "sleep" => w = 0 /\ ~rd.killed
  /\ Len(edit) = INPUT_BUF => w = INPUT_BUF

\* Characters written are waiting only if something is going to send them: the
\* transmitter is busy and will interrupt, an interrupt is pending, or someone is at
\* uartstart(); and a writer sleeps only while the buffer has no room for it.
OnItsWay == thr # << >> \/ irq \/ h.pc # "off" \/ txLock # "no"
NoStuckOutput == (tx # << >> => OnItsWay) /\ (wr.pc = "sleep" => Len(tx) = UART_TX_BUF_SIZE)

\* What write() has handed over is on the line, in the transmitter, with a sender or
\* in the buffer, complete and in order, between whatever is echoed.
InHand == (IF h.pc = "send" THEN <<h.c>> ELSE << >>) \o (IF wr.pc = "send" THEN <<wr.c>> ELSE << >>)
OutputInOrder == SelectSeq(line \o thr \o InHand \o tx, IsWritten) = [i \in 1 .. wr.next - 1 |-> <<i, "c">>]

\* Everything that is typed is taken and everything written is sent.
Quiet == typing = << >> /\ rx = << >> /\ tx = << >> /\ thr = << >> /\ wr.next > wr.n
Flows == <>Quiet
=============================================================================
