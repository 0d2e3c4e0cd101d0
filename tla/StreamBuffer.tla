---------------------------- MODULE StreamBuffer ----------------------------
(***************************************************************************)
(* stream_buffer.c: one task sends and one receives, by way of a ring of   *)
(* bytes that no lock protects.  Either waits for the other one by its own *)
(* task notification (module Tasks), so that here a task is notified or    *)
(* not and a wait may end at any time if it has a limit.  The two come in  *)
(* between each other anywhere, whatever their priorities; and so does a   *)
(* handler that sends or receives instead of one of them.                  *)
(***************************************************************************)
EXTENDS Naturals, Sequences, SequencesExt, FiniteSetsExt

CONSTANTS
  Buffers,      \* the buffers that are created: [messages, length, trigger]
  MaxData,      \* bound: the longest message or piece of data
  Bytes         \* bytes are numbered modulo Bytes, to tell them apart

VARIABLES
  isMessages,   \* ucFlags: a message buffer
  length,       \* xLength, one more than the ring holds
  trigger,      \* xTriggerLevelBytes
  cells, head, tail,
  waiting,      \* the two fields xTaskWaitingToSend, xTaskWaitingToReceive
  notified,     \* of each task: its notification
  pc,           \* where each task is in its call
  limit,        \* of each task: "none", "some" or "ever": how long it waits
  data,         \* the sender's: what to send, ...
  space,        \* ... and xSpace
  available,    \* the receiver's xBytesAvailable, ...
  room, got,    \* ... how much it asks for, and what it has copied
  next,         \* history: the number of the next byte
  fifo,         \* history: what is sent and not received, byte by byte or
                \* message by message
  eased         \* history: the trigger level was lowered under a waiting receiver

vars == <<isMessages, length, trigger, cells, head, tail, waiting, notified, pc,
          limit, data, space, available, room, got, next, fifo, eased>>

buffer == <<isMessages, length, trigger, cells, head, tail>>
sender == <<data, space, next>>
receiver == <<available, room, got>>

Goto(t, p) == pc' = [pc EXCEPT ![t] = p]

(* The end of a call: its locals are gone.                                 *)
Return(t) ==
  /\ Goto(t, "idle")
  /\ limit' = [limit EXCEPT ![t] = "none"]
  /\ IF t = "send"
     THEN data' = << >> /\ space' = 0 /\ UNCHANGED <<next, receiver>>
     ELSE available' = 0 /\ room' = 0 /\ got' = << >> /\ UNCHANGED sender

(* sbBYTES_TO_STORE_MESSAGE_LENGTH, here one cell if any.                  *)
Prefix == IF isMessages THEN 1 ELSE 0

InBuffer == (length + head - tail) % length

Spaces == length - 1 - InBuffer

Lesser(m, n) == IF m < n THEN m ELSE n

(* xRequiredSpace: a stream waits for no more than the ring holds.         *)
Required ==
  IF isMessages THEN Len(data) + Prefix ELSE Lesser(Len(data), length - 1)

(* A message that will never fit is not waited for.                        *)
Hopeless(n) == isMessages /\ n + Prefix > length - 1

-----------------------------------------------------------------------------
(* xStreamBufferSend.                                                      *)
Send(n, l) ==
  /\ pc["send"] = "idle"
  /\ data' = [i \in 1 .. n |-> (next + i - 1) % Bytes]
  /\ space' = 0
  /\ limit' = [limit EXCEPT !["send"] = l]
  /\ UNCHANGED <<buffer, waiting, notified, receiver, next, fifo, eased>>
  /\ Goto("send", IF l = "none" \/ Hopeless(n) THEN "write" ELSE "test")

(* In a critical section: xTaskNotifyStateClear if there is to be a wait.  *)
SendTest ==
  /\ pc["send"] = "test"
  /\ space' = Spaces
  /\ IF Spaces < Required
     THEN /\ waiting' = waiting \cup {"send"}
          /\ notified' = notified \ {"send"}
          /\ Goto("send", "wait")
     ELSE Goto("send", "write") /\ UNCHANGED <<waiting, notified>>
  /\ UNCHANGED <<buffer, limit, receiver, data, next, fifo, eased>>

(* xTaskNotifyWait, to its end: a notification or the limit.               *)
Woken(t) ==
  /\ pc[t] = "wait"
  /\ t \in notified \/ limit[t] = "some"
  /\ waiting' = waiting \ {t} /\ notified' = notified \ {t}

(* ... and xTaskCheckForTimeOut, by which xSpace may be an old value.      *)
SendWoken ==
  /\ Woken("send")
  /\ \/ Goto("send", "test")
     \/ limit["send"] = "some" /\ Goto("send", "write")
  /\ UNCHANGED <<buffer, limit, sender, receiver, fifo, eased>>

(* prvWriteMessageToBuffer: how much of the data is written.               *)
Amount(s) ==
  IF isMessages THEN IF s >= Required THEN Len(data) ELSE 0
  ELSE Lesser(Len(data), s)

Encoded(m) ==
  (IF isMessages THEN <<<<"length", Len(m)>>>> ELSE << >>)
    \o [i \in 1 .. Len(m) |-> <<"byte", m[i]>>]

Amounts == Amount(IF space = 0 THEN Spaces ELSE space)

(* prvWriteBytesToBuffer copies behind xHead.                              *)
Written(e) ==
  [i \in DOMAIN cells |->
     LET place == 1 + ((i + length - head) % length)
     IN  IF place <= Len(e) THEN e[place] ELSE cells[i]]

SendCopy ==
  LET e == Encoded(SubSeq(data, 1, Amounts))
  IN  /\ pc["send"] = "write" /\ Amounts > 0
      /\ data' = SubSeq(data, 1, Amounts) /\ space' = 0
      /\ cells' = Written(e)
      /\ Goto("send", "publish")
      /\ UNCHANGED <<isMessages, length, trigger, head, tail, waiting, notified, limit,
                     receiver, next, fifo, eased>>

SendNothing ==
  /\ pc["send"] = "write" /\ Amounts = 0
  /\ Return("send")
  /\ UNCHANGED <<buffer, waiting, notified, fifo, eased>>

(* Only then is xHead moved on.                                            *)
SendPublish ==
  /\ pc["send"] = "publish"
  /\ head' = (head + Len(Encoded(data))) % length
  /\ next' = (next + Len(data)) % Bytes
  /\ fifo' = fifo \o (IF isMessages THEN <<data>> ELSE [i \in 1 .. Len(data) |-> <<data[i]>>])
  /\ Goto("send", "trigger")
  /\ UNCHANGED <<isMessages, length, trigger, cells, tail, waiting, notified, limit,
                 data, space, receiver, eased>>

(* Whether it is enough for a receiver that waits, ...                     *)
SendTrigger ==
  /\ pc["send"] = "trigger"
  /\ IF InBuffer >= trigger
     THEN Goto("send", "completed") /\ UNCHANGED <<limit, sender, receiver>>
     ELSE Return("send")
  /\ UNCHANGED <<buffer, waiting, notified, fifo, eased>>

(* ... sbSEND_COMPLETED and sbRECEIVE_COMPLETED: whether the other one      *)
(* waits.  The scheduler is suspended from here on, but handlers come in.  *)
TestWaiting(t, other) ==
  /\ pc[t] = "completed"
  /\ IF other \in waiting
     THEN Goto(t, "telling") /\ UNCHANGED <<limit, sender, receiver>>
     ELSE Return(t)
  /\ UNCHANGED <<buffer, waiting, notified, fifo, eased>>

(* Mistake: the receiver is taken off but not notified.                    *)
CompletedQuiet(t, other) ==
  /\ pc[t] = "telling"
  /\ waiting' = waiting \ {other}
  /\ UNCHANGED notified
  /\ Return(t)
  /\ UNCHANGED <<buffer, fifo, eased>>

(* The other one is notified.  The handle is read once more for it: if a   *)
(* handler has cleared it, xTaskNotify writes to no task's control block.  *)
Completed(t, other) ==
  /\ pc[t] = "telling"
  /\ notified' = notified \cup (waiting \cap {other})
  /\ waiting' = waiting \ {other}
  /\ IF other \in waiting THEN Return(t)
     ELSE Goto(t, "nobody") /\ UNCHANGED <<limit, sender, receiver>>
  /\ UNCHANGED <<buffer, fifo, eased>>

-----------------------------------------------------------------------------
(* xStreamBufferReceive.                                                   *)
Receive(n, l) ==
  /\ pc["receive"] = "idle"
  /\ room' = n /\ got' = << >>
  /\ limit' = [limit EXCEPT !["receive"] = l]
  /\ Goto("receive", "test")
  /\ UNCHANGED <<buffer, waiting, notified, sender, available, fifo, eased>>

ReceiveTest ==
  /\ pc["receive"] = "test"
  /\ available' = InBuffer
  /\ IF limit["receive"] # "none" /\ InBuffer <= Prefix
     THEN /\ waiting' = waiting \cup {"receive"}
          /\ notified' = notified \ {"receive"}
          /\ Goto("receive", "wait")
     ELSE Goto("receive", "read") /\ UNCHANGED <<waiting, notified>>
  /\ UNCHANGED <<buffer, limit, sender, room, got, fifo, eased>>

(* There is no loop: who was woken for nothing goes with nothing.          *)
ReceiveWoken ==
  /\ Woken("receive")
  /\ available' = InBuffer /\ eased' = FALSE
  /\ Goto("receive", "read")
  /\ UNCHANGED <<buffer, limit, sender, room, got, fifo>>

(* prvReadMessageFromBuffer: a message that is longer than the room stays. *)
ToRead ==
  LET message == cells[tail][2]
  IN  IF available <= Prefix THEN 0
      ELSE IF isMessages THEN IF message > room THEN 0 ELSE message
      ELSE Lesser(room, available)

ReceiveCopy ==
  /\ pc["receive"] = "read" /\ ToRead > 0
  /\ got' = [i \in 1 .. ToRead |-> cells[(tail + Prefix + i - 1) % length][2]]
  /\ Goto("receive", "taken")
  /\ UNCHANGED <<buffer, waiting, notified, limit, sender, available, room, fifo, eased>>

ReceiveNothing ==
  /\ pc["receive"] = "read" /\ ToRead = 0
  /\ Return("receive")
  /\ UNCHANGED <<buffer, waiting, notified, fifo, eased>>

(* xTail is moved on behind what was copied.                               *)
ReceiveTaken ==
  /\ pc["receive"] = "taken"
  /\ tail' = (tail + Prefix + Len(got)) % length
  /\ fifo' = SubSeq(fifo, (IF isMessages THEN 1 ELSE Len(got)) + 1, Len(fifo))
  /\ Goto("receive", "completed")
  /\ UNCHANGED <<isMessages, length, trigger, cells, head, waiting, notified, limit,
                 sender, receiver, eased>>

-----------------------------------------------------------------------------
(* Interrupt handlers, each of them one step.                              *)

(* sbSEND_COMPLETE_FROM_ISR and sbRECEIVE_COMPLETED_FROM_ISR, if told so.  *)
Tell(t, so) ==
  /\ notified' = IF so THEN notified \cup (waiting \cap {t}) ELSE notified
  /\ waiting' = IF so THEN waiting \ {t} ELSE waiting

(* xStreamBufferSendFromISR, by a handler that is the only sender then: a  *)
(* message that does not fit is not written, of a stream what fits.        *)
SendFromISR(n) ==
  LET amount == IF isMessages THEN IF Spaces >= n + Prefix THEN n ELSE 0 ELSE Lesser(n, Spaces)
      d == [i \in 1 .. amount |-> (next + i - 1) % Bytes]
      e == Encoded(d)
  IN  /\ pc["send"] = "idle" /\ amount > 0
      /\ cells' = Written(e) /\ head' = (head + Len(e)) % length
      /\ next' = (next + amount) % Bytes
      /\ fifo' = fifo \o (IF isMessages THEN <<d>> ELSE [i \in 1 .. amount |-> <<d[i]>>])
      /\ Tell("receive", InBuffer + Len(e) >= trigger)
      /\ UNCHANGED <<isMessages, length, trigger, tail, pc, limit, data, space, receiver, eased>>

(* xStreamBufferReceiveFromISR, by a handler that is the only receiver.    *)
ReceiveFromISR(n) ==
  LET message == cells[tail][2]
      amount == IF isMessages THEN IF message > n THEN 0 ELSE message ELSE Lesser(n, InBuffer)
  IN  /\ pc["receive"] = "idle" /\ InBuffer > Prefix /\ amount > 0
      /\ tail' = (tail + Prefix + amount) % length
      /\ fifo' = SubSeq(fifo, (IF isMessages THEN 1 ELSE amount) + 1, Len(fifo))
      /\ Tell("send", TRUE)
      /\ UNCHANGED <<isMessages, length, trigger, cells, head, pc, limit, sender, receiver, eased>>

(* xStreamBufferSendCompletedFromISR and its counterpart, which wake who   *)
(* waits, for nothing.                                                     *)
CompletedFromISR(t) ==
  /\ t \in waiting /\ Tell(t, TRUE)
  /\ UNCHANGED <<buffer, pc, limit, sender, receiver, fifo, eased>>

(* xStreamBufferSetTriggerLevel: nobody is woken.                          *)
SetTriggerLevel(n) ==
  LET level == IF n = 0 THEN 1 ELSE n
  IN  /\ level < length /\ level # trigger
      /\ trigger' = level
      /\ eased' = (eased \/ (level < trigger /\ "receive" \in waiting))
      /\ UNCHANGED <<isMessages, length, cells, head, tail, waiting, notified, pc, limit,
                     sender, receiver, fifo>>

(* xStreamBufferReset, which nobody calls in the middle of the other's     *)
(* call; it does nothing if somebody waits.                                *)
Reset ==
  /\ pc = [t \in {"send", "receive"} |-> "idle"] /\ waiting = {}
  /\ head' = 0 /\ tail' = 0 /\ fifo' = << >>
  /\ UNCHANGED <<isMessages, length, trigger, cells, waiting, notified, pc, limit,
                 sender, receiver, eased>>

(* xStreamBufferGenericCreate makes a trigger level of zero, that of every *)
(* message buffer, one.                                                    *)
Level(b) == IF b.messages \/ b.trigger = 0 THEN 1 ELSE b.trigger

(* prvInitialiseNewStreamBuffer.                                           *)
Blank(n) == [i \in 0 .. n - 1 |-> <<"byte", 0>>]

(* vStreamBufferDelete, by which nobody is woken, when none is in a call,  *)
(* and another buffer in its place.  The notifications are the tasks' and  *)
(* outlive it.                                                             *)
Delete(b) ==
  /\ pc = [t \in {"send", "receive"} |-> "idle"] /\ waiting = {}
  /\ isMessages' = b.messages /\ length' = b.length /\ trigger' = Level(b)
  /\ cells' = Blank(b.length) /\ head' = 0 /\ tail' = 0 /\ fifo' = << >>
  /\ eased' = FALSE
  /\ UNCHANGED <<waiting, notified, pc, limit, sender, receiver>>

Init ==
  /\ \E b \in Buffers :
       isMessages = b.messages /\ length = b.length /\ trigger = Level(b)
  /\ cells = Blank(length) /\ head = 0 /\ tail = 0
  /\ waiting = {} /\ notified = {}
  /\ pc = [t \in {"send", "receive"} |-> "idle"]
  /\ limit = [t \in {"send", "receive"} |-> "none"]
  /\ data = << >> /\ space = 0 /\ available = 0 /\ room = 0 /\ got = << >>
  /\ next = 0 /\ fifo = << >> /\ eased = FALSE

Limits == {"none", "some", "ever"}

(* One task does nothing while the other one has the scheduler suspended.  *)
Sender ==
  /\ pc["receive"] # "telling"
  /\ \/ \E n \in 1 .. MaxData, l \in Limits : Send(n, l)
     \/ SendTest \/ SendWoken \/ SendCopy \/ SendNothing \/ SendPublish \/ SendTrigger
     \/ TestWaiting("send", "receive") \/ Completed("send", "receive")

Receiver ==
  /\ pc["send"] # "telling"
  /\ \/ \E n \in 1 .. MaxData, l \in Limits : Receive(n, l)
     \/ ReceiveTest \/ ReceiveWoken \/ ReceiveCopy \/ ReceiveNothing \/ ReceiveTaken
     \/ TestWaiting("receive", "send") \/ Completed("receive", "send")

Others ==
  /\ \A t \in {"send", "receive"} : pc[t] # "telling"
  /\ \/ Reset
     \/ \E b \in Buffers : Delete(b)
     \/ \E level \in {b.trigger : b \in Buffers} : ~isMessages /\ SetTriggerLevel(level)

Handlers ==
  \/ \E n \in 1 .. MaxData : SendFromISR(n) \/ ReceiveFromISR(n)
  \/ \E t \in {"send", "receive"} : CompletedFromISR(t)

(* What follows a write to no task is not known.                           *)
Next ==
  /\ \A t \in {"send", "receive"} : pc[t] # "nobody"
  /\ Sender \/ Receiver \/ Others \/ Handlers

(* xStreamBufferIsEmpty, xStreamBufferIsFull.                              *)
IsEmpty == head = tail

IsFull == Spaces <= Prefix

(* xStreamBufferNextMessageLengthBytes.                                    *)
NextMessageLength == IF isMessages /\ InBuffer > Prefix THEN cells[tail][2] ELSE 0

-----------------------------------------------------------------------------
(* The ring holds what was sent and not received, in order and nothing     *)
(* else, also for those who only ask whether it is empty, or full, or how  *)
(* long the next message is; and what is received is the first of it:      *)
(* bytes, or one message.                                                  *)
StreamRight ==
  /\ [i \in 1 .. InBuffer |-> cells[(tail + i - 1) % length]]
       = FlattenSeq([i \in 1 .. Len(fifo) |-> Encoded(fifo[i])])
  /\ IsEmpty <=> fifo = << >>
  /\ IsFull <=> Len(FlattenSeq([i \in 1 .. Len(fifo) |-> Encoded(fifo[i])])) + Prefix >= length - 1
  /\ NextMessageLength = IF isMessages /\ fifo # << >> THEN Len(Head(fifo)) ELSE 0
  /\ pc["receive"] = "taken" =>
       got = IF isMessages THEN Head(fifo) ELSE FlattenSeq(SubSeq(fifo, 1, Len(got)))

(* Nobody is left waiting, without a notification, for what is there once  *)
(* the other one's call is over; but a receiver is when the trigger level  *)
(* is lowered.                                                             *)
Unserved(t, other) ==
  pc[t] = "wait" /\ t \notin notified /\ pc[other] \in {"idle", "wait"}

NobodyStuck ==
  /\ Unserved("send", "receive") => Spaces < Required
  /\ Unserved("receive", "send") => InBuffer < trigger \/ eased

(* With a trigger level of one they do not both wait.                      *)
NotBothWait ==
  ~(trigger = 1 /\ ~eased /\ Unserved("send", "receive") /\ Unserved("receive", "send"))

StreamInv == StreamRight /\ NobodyStuck /\ NotBothWait
=============================================================================
