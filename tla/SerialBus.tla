------------------------------ MODULE SerialBus -------------------------------
(***************************************************************************)
(* Reads of the crawler over serial lines that several servers share.  One  *)
(* thread reads, for one measure after another.  Every server has an        *)
(* RTUSlave of its own, with its own answering time, but the bytes that     *)
(* arrive on a line are in one input, whoever asked for them.  Devices      *)
(* answer early, late or never, with an exception, or not to the end.       *)
(*                                                                         *)
(* libmodbus is external, and of what it does this is modelled: it writes a *)
(* request without looking at the input, again and again until that works,  *)
(* waits the response timeout for the first answer in the input, and the    *)
(* byte timeout for the rest if there is only a part of one, compares the   *)
(* checksum, the slave, the function and the length, and recovers from most *)
(* errors, where it was told to, by waiting another response timeout and    *)
(* discarding the input.  The bytes of an answer arrive together; of one    *)
(* that is cut short the rest is lost.                                      *)
(***************************************************************************)
EXTENDS Integers, Sequences

CONSTANTS Measures, Servers, Lines,
          Server,           \* Server[m]: where a measure is read from,
          Shape,            \* Shape[m]: by which function, how many registers
          Line,             \* Line[s]: the serial device of a server
          answering_time,   \* of a server, in ticks
          DefaultTimeout,   \* of libmodbus, half a second: for an answer, if
                            \* nothing else is set, and between two bytes of it
          Second,           \* ticks in a second
          Delays,           \* how long an answer may take; more is lost
          MaxResends,       \* bound on the writes of a request that fail
          MaxCalls          \* and on the reads

ASSUME BusAssumption ==
  /\ Server \in [Measures -> Servers] /\ Line \in [Servers -> Lines]
  /\ answering_time \in [Servers -> Nat]
  /\ DefaultTimeout \in Nat /\ Second \in Nat \ {0}
  /\ Delays \subseteq Nat /\ MaxResends \in Nat /\ MaxCalls \in Nat

VARIABLES at,        \* "idle", "sending" the request, "resting" until it is sent
                     \* again, "waiting" for the answer, "hearing" the rest of
                     \* one, "recovering"
          calls,     \* how many reads there were
          meas,      \* what is read
          wait,      \* ticks since the read began
          until,     \* the end of what is waited for
          underway,  \* answers that have not arrived, each with the ticks left
          input,     \* answers in the input of a line
          result,    \* of the last read: the answer taken, or a failure
          resent,    \* of this read, how often its request could not be written,
          parts,     \* and how often the rest of an answer was waited for
          faulty,    \* its answer is none, too late or not right, or the line fails
          late       \* on a line, an answer came when it had been given up

history == <<resent, parts, faulty, late>>
vars == <<at, calls, meas, wait, until, underway, input, result, history>>

(* An answer, and two results of a read that are none. *)
Kinds == {"right", "exception", "garbled", "cut"}
Answer(id, m, kind) == [id |-> id, meas |-> m, kind |-> kind]
Failed == Answer(0, "failed", "right")
Zeros  == Answer(0, "zeros", "right")

MyLine(m) == Line[Server[m]]

(* RTUSlave::RTUSlave: the response timeout, in seconds and microseconds,   *)
(* and the errors that libmodbus is to recover from.                        *)
seconds(s) == answering_time[s] \div Second

(* Faulty: not reduced by the seconds; none at all. *)
microseconds_uncut(s) == answering_time[s]
microseconds_none(s)  == 0

microseconds(s) == answering_time[s] - seconds(s) * Second

(* libmodbus keeps its own timeout instead of none or too many microseconds.*)
response_timeout(s) ==
  IF seconds(s) + microseconds(s) = 0 \/ microseconds(s) >= Second
  THEN DefaultTimeout
  ELSE seconds(s) * Second + microseconds(s)

(* Faulty: libmodbus is left as it is by default. *)
error_recovery_none == {}

error_recovery == {"LINK", "PROTOCOL"}

-------------------------------------------------------------------------------
(* The lines.                                                               *)

Arrive ==
  \E a \in underway :
    /\ a.left = 0
    /\ underway' = underway \ {a}
    /\ input' = [input EXCEPT ![MyLine(a.meas)] = Append(@, Answer(a.id, a.meas, a.kind))]
    /\ UNCHANGED <<at, calls, meas, wait, until, result, history>>

(* The answering time that a user means. *)
Allowed(s) == IF answering_time[s] = 0 THEN DefaultTimeout ELSE answering_time[s]

(* Nothing is on the line of a measure, or under way there. *)
Clean(m) ==
  /\ input[MyLine(m)] = << >>
  /\ \A a \in underway : MyLine(a.meas) # MyLine(m)

(* Time passes, but neither past an arrival nor past the end of a wait.     *)
Tick ==
  /\ \A a \in underway : a.left # 0
  /\ at # "sending" /\ (at # "idle" => wait < until)
  /\ at \in {"waiting", "hearing"} => input[MyLine(meas)] = << >>
  /\ at = "idle" => underway # {}
  /\ underway' = {[a EXCEPT !.left = @ - 1] : a \in underway}
  /\ wait' = IF at = "idle" THEN 0 ELSE wait + 1
  /\ UNCHANGED <<at, calls, meas, until, input, result, history>>

-------------------------------------------------------------------------------
(* Reading: read_holding_registers, read_input_registers.                   *)

(* What has arrived on the line of the measure, and what is left of the     *)
(* input when the first answer is taken, and when all is discarded.         *)
Heard == input[MyLine(meas)] # << >>
First == Head(input[MyLine(meas)])
Rest  == [input EXCEPT ![MyLine(meas)] = Tail(@)]
Flush == [input EXCEPT ![MyLine(meas)] = << >>]

Request(m) ==
  /\ at = "idle" /\ calls < MaxCalls
  /\ at' = "sending" /\ calls' = calls + 1 /\ meas' = m
  /\ wait' = 0 /\ until' = 0 /\ resent' = 0 /\ parts' = 0 /\ faulty' = FALSE
  /\ UNCHANGED <<underway, input, result, late>>

(* The request is sent again until it can be written, without end.          *)
WriteFails ==
  /\ at = "sending" /\ resent < MaxResends /\ "LINK" \in error_recovery
  /\ at' = "resting" /\ until' = wait + response_timeout(Server[meas])
  /\ resent' = resent + 1
  /\ UNCHANGED <<calls, meas, wait, underway, input, result, parts, faulty, late>>

WriteAgain ==
  /\ at = "resting" /\ wait = until
  /\ at' = "sending" /\ input' = Flush
  /\ UNCHANGED <<calls, meas, wait, until, underway, result, history>>

(* The request is written.  Its answer, if there is one, takes d ticks.     *)
Sent ==
  /\ at = "sending" /\ at' = "waiting"
  /\ until' = wait + response_timeout(Server[meas])
  /\ \/ \E d \in Delays, kind \in Kinds :
          /\ underway' = underway \cup
                           {[id |-> calls, meas |-> meas, kind |-> kind, left |-> d]}
          /\ faulty' = (d >= Allowed(Server[meas]) \/ kind # "right")
          /\ late' = [late EXCEPT ![MyLine(meas)] = (@ /\ ~Clean(meas))
                                                    \/ d >= 2 * Allowed(Server[meas])]
     \/ /\ UNCHANGED underway /\ faulty' = TRUE
        /\ late' = [late EXCEPT ![MyLine(meas)] = @ /\ ~Clean(meas)]
  /\ UNCHANGED <<calls, meas, wait, input, result, resent, parts>>

(* Faulty: the number of registers that libmodbus returns is not looked at. *)
Unchecked == Zeros

(* What a read comes to when libmodbus returns another number of registers  *)
(* than was asked for: it throws.                                           *)
Checked == Failed

(* The read is over, without recovery. *)
GiveUp ==
  /\ result' = Checked /\ at' = "idle" /\ until' = 0
  /\ UNCHANGED <<calls, meas, wait, underway, resent, parts>>

(* The read is over when libmodbus has recovered, if it was told to.        *)
GiveUpAfter(kind) ==
  IF kind \notin error_recovery THEN GiveUp
  ELSE /\ result' = Checked
       /\ at' = "recovering" /\ until' = wait + response_timeout(Server[meas])
       /\ UNCHANGED <<calls, meas, wait, underway, resent, parts>>

Recover ==
  /\ at = "recovering" /\ wait = until
  /\ at' = "idle" /\ input' = Flush
  /\ UNCHANGED <<calls, meas, wait, until, underway, result, history>>

(* No answer in time, or not the rest of it.                                *)
Timeout ==
  /\ at \in {"waiting", "hearing"} /\ wait = until /\ input[MyLine(meas)] = << >>
  /\ GiveUpAfter("LINK") /\ UNCHANGED <<input, faulty, late>>

(* The line itself cannot be read; if it is opened again, without a wait.   *)
LineFails ==
  /\ at \in {"waiting", "hearing"}
  /\ GiveUp /\ faulty' = TRUE
  /\ late' = [late EXCEPT ![MyLine(meas)] = @ \/ ~Clean(meas)]
  /\ UNCHANGED input

(* A part of an answer: the rest is waited for.  What comes instead of it   *)
(* may not be enough.                                                       *)
TakePart ==
  /\ at \in {"waiting", "hearing"} /\ Heard
  /\ at = "waiting" => First.kind = "cut"
  /\ at' = "hearing" /\ until' = wait + DefaultTimeout /\ parts' = parts + 1
  /\ input' = Rest
  /\ UNCHANGED <<calls, meas, wait, underway, result, resent, faulty, late>>

(* The checksum is wrong, or not of one answer: the input is discarded.     *)
TakeGarbled ==
  /\ at \in {"waiting", "hearing"} /\ Heard
  /\ at = "waiting" => First.kind = "garbled"
  /\ input' = IF "PROTOCOL" \in error_recovery THEN Flush ELSE Rest
  /\ GiveUp /\ UNCHANGED <<faulty, late>>

(* A whole answer.  An exception fails the read at once.                    *)
TakeAnswer ==
  /\ at = "waiting" /\ Heard /\ First.kind \in {"right", "exception"}
  /\ \/ /\ Server[First.meas] = Server[meas] /\ First.kind = "exception"
        /\ GiveUp
     \/ /\ Server[First.meas] = Server[meas] /\ First.kind = "right"
        /\ Shape[First.meas] = Shape[meas]
        /\ result' = First /\ at' = "idle"
        /\ UNCHANGED <<calls, meas, wait, until, underway, resent, parts>>
     \/ /\ \/ Server[First.meas] # Server[meas]
           \/ First.kind = "right" /\ Shape[First.meas] # Shape[meas]
        /\ GiveUpAfter("PROTOCOL")
  /\ input' = Rest /\ UNCHANGED <<faulty, late>>

-------------------------------------------------------------------------------
Init ==
  /\ at = "idle" /\ calls = 0 /\ meas \in Measures /\ wait = 0 /\ until = 0
  /\ underway = {} /\ input = [l \in Lines |-> << >>] /\ result = Failed
  /\ resent = 0 /\ parts = 0 /\ faulty = FALSE /\ late = [l \in Lines |-> FALSE]

Read == \/ WriteFails \/ WriteAgain \/ Sent
        \/ Timeout \/ LineFails \/ TakePart \/ TakeGarbled \/ TakeAnswer \/ Recover

Next == Arrive \/ Tick \/ (\E m \in Measures : Request(m)) \/ Read

Spec == Init /\ [][Next]_vars
-------------------------------------------------------------------------------
(* Properties.                                                              *)

Answers == {Answer(id, m, kind) : id \in 1..calls, m \in Measures, kind \in Kinds}

Succeeded == at = "idle" /\ result # Failed /\ calls # 0

(* A read returns the answer to its own request, as long as no answer on    *)
(* the line took twice its answering time or more, and the line did not     *)
(* fail with one under way; and again once what came too late is gone.      *)
OwnAnswer == Succeeded /\ ~late[MyLine(meas)] => result = Answer(calls, meas, "right")

(* Whatever comes late, a read never returns an answer of another server,   *)
(* or to another kind of request.                                           *)
RightServer ==
  Succeeded => /\ result \in Answers
               /\ Server[result.meas] = Server[meas]
               /\ Shape[result.meas] = Shape[meas]

(* No read makes another one fail: a read of a device whose answer is right *)
(* and in time fails only because of an answer to an earlier request that   *)
(* came too late on its line.                                               *)
FailsOnItsOwn == at = "idle" /\ calls # 0 /\ result = Failed
                   => faulty \/ late[MyLine(meas)]

(* A read blocks the thread twice the answering time at most, once more for *)
(* every time that its request could not be written, and a byte timeout for *)
(* every part of an answer whose rest was waited for.  If its answer is     *)
(* right and in time, it does not have to recover as well.                  *)
BlocksNoLonger ==
  /\ wait <= (resent + 2) * Allowed(Server[meas]) + parts * DefaultTimeout
  /\ ~faulty /\ ~late[MyLine(meas)] => wait <= (resent + 1) * Allowed(Server[meas])
===============================================================================
