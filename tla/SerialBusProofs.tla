---------------------------- MODULE SerialBusProofs ---------------------------
(***************************************************************************)
(* Theorems about SerialBus, for any measures, servers, lines, answering    *)
(* times and delays.                                                        *)
(*                                                                         *)
(* The inductive invariant says of every line on which nothing came too     *)
(* late that it is clean, or else that one read is going on there and its   *)
(* own answer is all that may be on it; and when this answer is due.        *)
(***************************************************************************)
EXTENDS SerialBus, TLAPS

Due == [id : 1..calls, meas : Measures, kind : Kinds, left : Nat]

Types ==
  /\ at \in {"idle", "sending", "resting", "waiting", "hearing", "recovering"}
  /\ calls \in Nat
  /\ at # "idle" => calls # 0
  /\ meas \in Measures
  /\ wait \in Nat
  /\ until \in Nat
  /\ underway \in SUBSET Due
  /\ input \in [Lines -> Seq(Answers)]
  /\ result \in Answers \cup {Failed}
  /\ resent \in Nat
  /\ parts \in Nat
  /\ faulty \in BOOLEAN
  /\ late \in [Lines -> BOOLEAN]

(* What the user allows for an answer, what the writes of the request that  *)
(* failed have cost, and what the parts of answers may have cost.           *)
Time     == Allowed(Server[meas])
Spent    == resent * Time
Listened == parts * DefaultTimeout

(* How long the read has blocked the thread, and how long it may still.     *)
WaitBounded ==
  /\ wait <= Spent + Time + Time + Listened
  /\ at = "sending" => wait = Spent
  /\ at = "resting" => wait <= until /\ until = Spent
  /\ at = "waiting" => wait <= until /\ until = Spent + Time
  /\ at = "hearing" => wait <= until /\ until <= Spent + Time + Listened
  /\ at = "recovering" => wait <= until /\ until <= Spent + Time + Time + Listened

(* What a read that has ended or given up has come to.                      *)
ResultFits ==
  /\ at = "recovering" => result = Failed
  /\ at = "idle" /\ result # Failed =>
       Server[result.meas] = Server[meas] /\ Shape[result.meas] = Shape[meas]

OnLine(l) == {a \in underway : MyLine(a.meas) = l}

(* A line on which nothing came too late, and nobody waits for an answer.   *)
QuietLine(l) == input[l] = << >> /\ OnLine(l) = {}

(* A line on which nothing came too late, and the request is sent: there is *)
(* at most one answer, to this read, and it arrives before the end of a     *)
(* recovery from having waited for it.                                      *)
BusyLine(l) ==
  /\ \A a \in OnLine(l) :
       /\ a.id = calls /\ a.meas = meas
       /\ a.left + wait < Spent + Time + Time
       /\ input[l] = << >>
       /\ OnLine(l) = {a}
  /\ input[l] # << >> => \E kind \in Kinds : input[l] = <<Answer(calls, meas, kind)>>
  /\ at = "hearing" => QuietLine(l)
  /\ at = "recovering" => OnLine(l) = {} \/ until = Spent + Time + Time

Listening == at \in {"waiting", "hearing", "recovering"}

LinesInOrder ==
  \A l \in Lines : ~late[l] =>
    IF Listening /\ l = MyLine(meas) THEN BusyLine(l) ELSE QuietLine(l)

(* The answer of a read that is neither faulty nor disturbed is still to    *)
(* come in time, or has come; a read that gives up was one or the other.    *)
AnswerComes ==
  ~faulty /\ ~late[MyLine(meas)] =>
    /\ at # "hearing" /\ at # "recovering"
    /\ wait <= Spent + Time
    /\ at = "waiting" =>
         \/ input[MyLine(meas)] = <<Answer(calls, meas, "right")>>
         \/ \E a \in OnLine(MyLine(meas)) :
               a.kind = "right" /\ a.left + wait < Spent + Time

Inv ==
  /\ Types /\ WaitBounded /\ ResultFits /\ LinesInOrder /\ AnswerComes
  /\ OwnAnswer /\ FailsOnItsOwn
-------------------------------------------------------------------------------
(* The constants.                                                           *)
LEMMA Constants ==
  /\ \A m \in Measures : Server[m] \in Servers /\ MyLine(m) \in Lines
  /\ \A s \in Servers : answering_time[s] \in Nat /\ Line[s] \in Lines
  /\ DefaultTimeout \in Nat /\ Second \in Nat \ {0}
  /\ Delays \subseteq Nat /\ MaxCalls \in Nat
BY BusAssumption DEF BusAssumption, MyLine

LEMMA Division ==
  ASSUME NEW a \in Nat, NEW b \in Nat \ {0}
  PROVE  a \div b \in Nat /\ a - (a \div b) * b \in 0..(b - 1)
BY SMT

(* A slave waits as long as the user means: the constructor of RTUSlave     *)
(* gives libmodbus seconds and microseconds that it takes.                  *)
LEMMA TimeoutAllowed ==
  ASSUME NEW s \in Servers
  PROVE  response_timeout(s) = Allowed(s) /\ Allowed(s) \in Nat
<1>1. answering_time[s] \in Nat /\ DefaultTimeout \in Nat /\ Second \in Nat \ {0}
  BY Constants
<1>2. seconds(s) \in Nat /\ microseconds(s) \in 0..(Second - 1)
  BY <1>1, Division DEF seconds, microseconds
<1>3. seconds(s) * Second + microseconds(s) = answering_time[s]
  <2>1. seconds(s) * Second \in Int
    BY <1>1, <1>2, SMT
  <2> QED BY <1>1, <2>1 DEF microseconds
<1>4. seconds(s) + microseconds(s) = 0 <=> answering_time[s] = 0
  <2>1. ASSUME seconds(s) + microseconds(s) = 0 PROVE answering_time[s] = 0
    <3>1. seconds(s) = 0 /\ microseconds(s) = 0
      BY <1>1, <1>2, <2>1
    <3> QED BY <1>1, <1>3, <3>1
  <2>2. ASSUME answering_time[s] = 0 PROVE seconds(s) + microseconds(s) = 0
    <3>1. seconds(s) = 0
      BY <1>1, <2>2, SMT DEF seconds
    <3> QED BY <1>1, <1>3, <2>2, <3>1
  <2> QED BY <2>1, <2>2
<1>5. ~(microseconds(s) >= Second)
  BY <1>1, <1>2
<1>6. response_timeout(s) = IF answering_time[s] = 0 THEN DefaultTimeout
                                                    ELSE answering_time[s]
  BY <1>3, <1>4, <1>5 DEF response_timeout
<1> QED BY <1>1, <1>6 DEF Allowed

LEMMA Products ==
  ASSUME NEW k \in Nat, NEW t \in Nat
  PROVE  /\ k * t \in Nat /\ 0 * t = 0
         /\ (k + 1) * t = k * t + t
         /\ (k + 2) * t = k * t + t + t
BY SMT

LEMMA Sums ==
  ASSUME NEW t \in Nat, NEW s \in Nat, NEW d \in Nat
  PROVE  /\ 0 <= 0 + t /\ 0 <= 0 + t + t + 0
         /\ ~(d >= t) => d < t
         /\ d < t => d + s < s + t
         /\ d < 2 * t => d + s < s + t + t
OBVIOUS

LEMMA Numbers ==
  ASSUME Types
  PROVE  /\ response_timeout(Server[meas]) = Time
         /\ Time \in Nat /\ Spent \in Nat /\ Listened \in Nat
         /\ DefaultTimeout \in Nat
         /\ MyLine(meas) \in Lines
         /\ (resent + 1) * Time = Spent + Time
         /\ (resent + 2) * Time = Spent + Time + Time
         /\ (parts + 1) * DefaultTimeout = Listened + DefaultTimeout
<1>1. /\ response_timeout(Server[meas]) = Time /\ Time \in Nat
      /\ MyLine(meas) \in Lines /\ DefaultTimeout \in Nat
  BY Constants, TimeoutAllowed DEF Types, Time
<1>2. resent \in Nat /\ parts \in Nat
  BY DEF Types
<1> QED BY <1>1, <1>2, Products DEF Spent, Listened

(* The times of a read are those of its measure.                            *)
LEMMA SameTimes ==
  ASSUME meas' = meas
  PROVE  /\ Time' = Time /\ MyLine(meas)' = MyLine(meas)
         /\ resent' = resent => Spent' = Spent
         /\ parts' = parts => Listened' = Listened
BY DEF Time, Allowed, MyLine, Spent, Listened

(* Answers of earlier calls remain answers.                                 *)
LEMMA AnswersKept ==
  ASSUME calls \in Nat, calls' \in Nat, calls <= calls'
  PROVE  /\ Answers \subseteq Answers'
         /\ Due \subseteq Due'
         /\ Seq(Answers) \subseteq Seq(Answers')
<1>1. 1..calls \subseteq 1..calls'
  OBVIOUS
<1>2. Answers \subseteq Answers' /\ Due \subseteq Due'
  BY <1>1 DEF Answers, Due
<1> QED BY <1>2

(* What an answer is made of.                                               *)
LEMMA AnswerIs ==
  ASSUME NEW a \in Answers, calls \in Nat
  PROVE  /\ a.id \in 1..calls /\ a.meas \in Measures /\ a.kind \in Kinds
         /\ a = Answer(a.id, a.meas, a.kind)
<1>1. PICK i \in 1..calls, m \in Measures, k \in Kinds : a = Answer(i, m, k)
  BY DEF Answers
<1>2. a.id = i /\ a.meas = m /\ a.kind = k
  BY <1>1 DEF Answer
<1> QED BY <1>1, <1>2

(* A failure is nobody's answer.                                            *)
LEMMA FailedIsNone ==
  ASSUME calls \in Nat
  PROVE  Failed \notin Answers
<1>1. Failed.id = 0
  BY DEF Failed, Answer
<1> QED BY <1>1, AnswerIs

(* The steps of a read but the one that sends the request, and what they    *)
(* leave in the input.                                                      *)
LEMMA ReadKeeps ==
  ASSUME Read, ~Sent
  PROVE  /\ UNCHANGED <<calls, meas, wait, underway>>
         /\ ~LineFails => UNCHANGED <<faulty, late>>
         /\ ~WriteFails => resent' = resent
         /\ ~TakePart => parts' = parts
BY DEF Read, WriteFails, WriteAgain, Timeout, LineFails, TakePart, TakeGarbled, TakeAnswer,
       Recover, GiveUp, GiveUpAfter, history

LEMMA InputAfter ==
  ASSUME Read, ~Sent
  PROVE  \/ input' = input
         \/ input' = Flush
         \/ Heard /\ input' = Rest
BY DEF Read, WriteFails, WriteAgain, Timeout, LineFails, TakePart, TakeGarbled, TakeAnswer,
       Recover

(* Both kinds of error are recovered from.                                  *)
LEMMA Recovers ==
  ASSUME NEW kind \in {"LINK", "PROTOCOL"}, GiveUpAfter(kind)
  PROVE  /\ result' = Failed /\ at' = "recovering"
         /\ until' = wait + response_timeout(Server[meas])
BY DEF GiveUpAfter, Checked, error_recovery

(* What a read comes to.                                                    *)
LEMMA ResultAfter ==
  ASSUME Read, ~Sent
  PROVE  \/ result' = result
         \/ result' = Failed
         \/ /\ TakeAnswer /\ Heard /\ result' = First /\ at' = "idle"
            /\ First.kind = "right"
            /\ Server[First.meas] = Server[meas] /\ Shape[First.meas] = Shape[meas]
<1>1. GiveUp => result' = Failed
  BY DEF GiveUp, Checked
<1>2. \A kind : GiveUpAfter(kind) => result' = Failed
  BY DEF GiveUpAfter, GiveUp, Checked
<1>3. CASE Timeout \/ LineFails \/ TakeGarbled
  BY <1>1, <1>2, <1>3 DEF Timeout, LineFails, TakeGarbled
<1>4. CASE TakeAnswer
  BY <1>1, <1>2, <1>4 DEF TakeAnswer
<1>5. CASE WriteFails \/ WriteAgain \/ TakePart \/ Recover
  BY <1>5 DEF WriteFails, WriteAgain, TakePart, Recover
<1> QED BY <1>3, <1>4, <1>5 DEF Read

(* The request is sent, with what becomes of its answer.                    *)
LEMMA SentIs ==
  ASSUME Sent
  PROVE  /\ at = "sending" /\ at' = "waiting"
         /\ until' = wait + response_timeout(Server[meas])
         /\ UNCHANGED <<calls, meas, wait, input, result, resent, parts>>
         /\ \/ \E d \in Delays, kind \in Kinds :
                 /\ underway' = underway \cup
                       {[id |-> calls, meas |-> meas, kind |-> kind, left |-> d]}
                 /\ faulty' = (d >= Time \/ kind # "right")
                 /\ late' = [late EXCEPT ![MyLine(meas)] = (@ /\ ~Clean(meas))
                                                          \/ d >= 2 * Time]
            \/ /\ underway' = underway /\ faulty' = TRUE
               /\ late' = [late EXCEPT ![MyLine(meas)] = @ /\ ~Clean(meas)]
BY DEF Sent, Time

-------------------------------------------------------------------------------
LEMMA TypesInit == Init => Types
<1> SUFFICES ASSUME Init PROVE Types
  OBVIOUS
<1>1. input \in [Lines -> Seq(Answers)]
  <2>1. \A l \in Lines : << >> \in Seq(Answers)
    OBVIOUS
  <2> QED BY <2>1 DEF Init
<1>2. calls \in Nat /\ wait \in Nat /\ until \in Nat /\ resent \in Nat /\ parts \in Nat
  BY DEF Init
<1> QED BY <1>1, <1>2 DEF Init, Types

LEMMA TypesSent == Types /\ Sent => Types'
<1> SUFFICES ASSUME Types, Sent PROVE Types'
  OBVIOUS
<1>1. /\ at = "sending" /\ at' = "waiting" /\ until' = wait + response_timeout(Server[meas])
      /\ UNCHANGED <<calls, meas, wait, input, result, resent, parts>>
  BY SentIs
<1>2. Answers' = Answers /\ Due' = Due
  BY <1>1 DEF Answers, Due
<1>3. until' \in Nat
  BY <1>1, Numbers DEF Types
<1>4. underway' \subseteq Due /\ faulty' \in BOOLEAN /\ late' \in [Lines -> BOOLEAN]
  <2>1. CASE \E d \in Delays, kind \in Kinds :
               /\ underway' = underway \cup
                     {[id |-> calls, meas |-> meas, kind |-> kind, left |-> d]}
               /\ faulty' = (d >= Time \/ kind # "right")
               /\ late' = [late EXCEPT ![MyLine(meas)] = (@ /\ ~Clean(meas)) \/ d >= 2 * Time]
    <3>1. PICK d \in Delays, kind \in Kinds :
               /\ underway' = underway \cup
                     {[id |-> calls, meas |-> meas, kind |-> kind, left |-> d]}
               /\ faulty' = (d >= Time \/ kind # "right")
               /\ late' = [late EXCEPT ![MyLine(meas)] = (@ /\ ~Clean(meas)) \/ d >= 2 * Time]
      BY <2>1
    <3>2. d \in Nat /\ calls \in 1..calls
      <4>1. calls \in Nat \ {0}
        BY SentIs DEF Types
      <4>2. calls \in 1..calls
        BY <4>1
      <4> QED BY <4>2, Constants
    <3>3. [id |-> calls, meas |-> meas, kind |-> kind, left |-> d] \in Due
      BY <3>2 DEF Due, Types
    <3> QED BY <3>1, <3>3 DEF Types
  <2>2. CASE /\ underway' = underway /\ faulty' = TRUE
             /\ late' = [late EXCEPT ![MyLine(meas)] = @ /\ ~Clean(meas)]
    BY <2>2 DEF Types
  <2> QED BY <2>1, <2>2, SentIs
<1>5. calls # 0
  BY <1>1 DEF Types
<1> QED BY <1>1, <1>2, <1>3, <1>4, <1>5 DEF Types

LEMMA TypesRead == Types /\ Read /\ ~Sent => Types'
<1> SUFFICES ASSUME Types, Read, ~Sent PROVE Types'
  OBVIOUS
<1>1. UNCHANGED <<calls, meas, wait, underway>>
  BY ReadKeeps
<1>2. Answers' = Answers /\ Due' = Due
  BY <1>1 DEF Answers, Due
<1>3. at' \in {"idle", "sending", "resting", "waiting", "hearing", "recovering"}
  BY DEF Read, WriteFails, WriteAgain, Timeout, LineFails, TakePart, TakeGarbled, TakeAnswer,
         Recover, GiveUp, GiveUpAfter
<1>4. until' \in Nat
  <2>1. until' \in {until, 0, wait + response_timeout(Server[meas]), wait + DefaultTimeout}
    BY DEF Read, WriteFails, WriteAgain, Timeout, LineFails, TakePart, TakeGarbled,
           TakeAnswer, Recover, GiveUp, GiveUpAfter
  <2> QED BY <2>1, Numbers DEF Types
<1>5. resent' \in Nat /\ parts' \in Nat
  BY ReadKeeps DEF Types, WriteFails, TakePart
<1>6. faulty' \in BOOLEAN /\ late' \in [Lines -> BOOLEAN]
  BY ReadKeeps DEF Types, LineFails
<1>7. ASSUME Heard
      PROVE  First \in Answers /\ Tail(input[MyLine(meas)]) \in Seq(Answers)
  BY <1>7, Numbers DEF Types, Heard, First
<1>8. input' \in [Lines -> Seq(Answers)]
  <2>1. << >> \in Seq(Answers)
    OBVIOUS
  <2> QED BY <1>7, <2>1, InputAfter, Numbers DEF Types, Flush, Rest
<1>9. result' \in Answers \cup {Failed}
  BY <1>7, ResultAfter DEF Types
<1>10. at' # "idle" => calls' # 0
  <2>1. at # "idle"
    BY DEF Read, WriteFails, WriteAgain, Timeout, LineFails, TakePart, TakeGarbled,
           TakeAnswer, Recover
  <2> QED BY <1>1, <2>1 DEF Types
<1> QED BY <1>1, <1>2, <1>3, <1>4, <1>5, <1>6, <1>8, <1>9, <1>10 DEF Types

LEMMA TypesStep == Types /\ [Next]_vars => Types'
<1> SUFFICES ASSUME Types, [Next]_vars PROVE Types'
  OBVIOUS
<1> USE DEF Types
<1>1. CASE Arrive
  <2>1. PICK a \in underway :
          /\ underway' = underway \ {a}
          /\ input' = [input EXCEPT ![MyLine(a.meas)] =
                                      Append(@, Answer(a.id, a.meas, a.kind))]
          /\ UNCHANGED <<at, calls, meas, wait, until, result, history>>
    BY <1>1 DEF Arrive
  <2>2. a.id \in 1..calls /\ a.meas \in Measures /\ a.kind \in Kinds
    BY DEF Due
  <2>3. Answer(a.id, a.meas, a.kind) \in Answers /\ MyLine(a.meas) \in Lines
    BY <2>2, Constants DEF Answers
  <2>4. input' \in [Lines -> Seq(Answers)]
    BY <2>1, <2>3
  <2>5. Answers' = Answers /\ Due' = Due
    BY <2>1 DEF Answers, Due
  <2> QED BY <2>1, <2>4, <2>5 DEF history
<1>2. CASE Tick
  <2>1. \A a \in underway : [a EXCEPT !.left = @ - 1] \in Due
    <3> TAKE a \in underway
    <3>1. a \in Due /\ a.left \in Nat /\ a.left # 0
      BY <1>2 DEF Tick, Due
    <3>2. a.left - 1 \in Nat
      BY <3>1
    <3> QED BY <3>1, <3>2 DEF Due
  <2>2. Answers' = Answers /\ Due' = Due
    BY <1>2 DEF Tick, Answers, Due
  <2>3. underway' \subseteq Due
    BY <1>2, <2>1 DEF Tick
  <2> QED BY <1>2, <2>2, <2>3 DEF Tick, history
<1>3. ASSUME NEW m \in Measures, Request(m) PROVE Types'
  <2>1. calls' = calls + 1 /\ calls' \in Nat /\ calls <= calls'
    BY <1>3 DEF Request
  <2>2. Answers \subseteq Answers' /\ Due \subseteq Due' /\ Seq(Answers) \subseteq Seq(Answers')
    BY <2>1, AnswersKept
  <2>3. calls' # 0
    BY <2>1
  <2>4. wait' \in Nat /\ until' \in Nat /\ resent' \in Nat /\ parts' \in Nat
    BY <1>3 DEF Request
  <2>5. input' \in [Lines -> Seq(Answers')]
    BY <1>3, <2>2 DEF Request
  <2>6. underway' \subseteq Due'
    BY <1>3, <2>2 DEF Request
  <2>7. result' \in Answers' \cup {Failed}
    BY <1>3, <2>2 DEF Request
  <2> QED BY <1>3, <2>1, <2>3, <2>4, <2>5, <2>6, <2>7 DEF Request
<1>4. CASE Read
  BY <1>4, TypesSent, TypesRead
<1>5. CASE UNCHANGED vars
  <2>1. Answers' = Answers /\ Due' = Due
    BY <1>5 DEF vars, Answers, Due
  <2> QED BY <1>5, <2>1 DEF vars, history
<1> QED BY <1>1, <1>2, <1>3, <1>4, <1>5 DEF Next
-------------------------------------------------------------------------------
LEMMA WaitStep == Types /\ WaitBounded /\ [Next]_vars => WaitBounded'
<1> SUFFICES ASSUME Types, WaitBounded, [Next]_vars PROVE WaitBounded'
  OBVIOUS
<1>0. /\ response_timeout(Server[meas]) = Time /\ Time \in Nat
      /\ Spent \in Nat /\ Listened \in Nat /\ DefaultTimeout \in Nat
      /\ (resent + 1) * Time = Spent + Time
      /\ (parts + 1) * DefaultTimeout = Listened + DefaultTimeout
  BY Numbers
<1>t. /\ wait \in Nat /\ until \in Nat /\ resent \in Nat /\ parts \in Nat
      /\ at \in {"idle", "sending", "resting", "waiting", "hearing", "recovering"}
  BY DEF Types
<1>w. /\ wait <= Spent + Time + Time + Listened
      /\ at = "sending" => wait = Spent
      /\ at = "resting" => wait <= until /\ until = Spent
      /\ at = "waiting" => wait <= until /\ until = Spent + Time
      /\ at = "hearing" => wait <= until /\ until <= Spent + Time + Listened
      /\ at = "recovering" => wait <= until /\ until <= Spent + Time + Time + Listened
  BY DEF WaitBounded
<1>1. CASE Arrive \/ UNCHANGED vars
  <2>1. UNCHANGED <<at, meas, wait, until, resent, parts>>
    BY <1>1 DEF Arrive, vars, history
  <2> QED BY <1>w, <2>1, SameTimes DEF WaitBounded
<1>2. CASE Tick
  <2>1. /\ UNCHANGED <<at, meas, until, resent, parts>>
        /\ at # "sending" /\ (at # "idle" => wait < until)
        /\ wait' = IF at = "idle" THEN 0 ELSE wait + 1
    BY <1>2 DEF Tick, history
  <2>2. Time' = Time /\ Spent' = Spent /\ Listened' = Listened
    BY <2>1, SameTimes
  <2>3. at # "idle" => wait' <= until
    BY <1>t, <2>1
  <2>4. wait' <= Spent + Time + Time + Listened
    BY <1>0, <1>t, <1>w, <2>1, <2>3
  <2> QED BY <1>w, <2>1, <2>2, <2>3, <2>4 DEF WaitBounded
<1>3. ASSUME NEW m \in Measures, Request(m) PROVE WaitBounded'
  <2>1. at' = "sending" /\ wait' = 0 /\ resent' = 0 /\ parts' = 0
    BY <1>3 DEF Request
  <2>2. Spent' = 0 /\ Listened' = 0 /\ 0 <= 0 + Time' + Time' + 0
    <3>1. Time' = Allowed(Server[m])
      BY <1>3 DEF Request, Time, Allowed
    <3>2. Time' \in Nat
      BY <3>1, Constants, TimeoutAllowed
    <3>3. 0 * Time' = 0 /\ 0 * DefaultTimeout = 0
      BY <1>0, <3>2, Products
    <3> QED BY <2>1, <3>2, <3>3, Sums DEF Spent, Listened
  <2>3. wait' <= Spent' + Time' + Time' + Listened'
    BY <2>1, <2>2, Zenon
  <2> QED BY <2>1, <2>2, <2>3 DEF WaitBounded
<1>4. CASE Sent
  <2>1. /\ at = "sending" /\ at' = "waiting" /\ until' = wait + Time
        /\ UNCHANGED <<meas, wait, resent, parts>>
    BY <1>0, <1>4, SentIs
  <2>2. Time' = Time /\ Spent' = Spent /\ Listened' = Listened
    BY <2>1, SameTimes
  <2> QED BY <1>0, <1>w, <2>1, <2>2 DEF WaitBounded
<1>5. CASE Read /\ ~Sent
  <2>1. UNCHANGED <<meas, wait>> /\ Time' = Time
    BY <1>5, ReadKeeps, SameTimes
  <2>2. CASE WriteFails
    <3>1. /\ at = "sending" /\ at' = "resting" /\ until' = wait + Time
          /\ resent' = resent + 1 /\ parts' = parts
      BY <1>0, <2>2 DEF WriteFails
    <3>2. Spent' = Spent + Time /\ Listened' = Listened
      BY <1>0, <2>1, <3>1, SameTimes DEF Spent
    <3> QED BY <1>0, <1>w, <2>1, <3>1, <3>2 DEF WaitBounded
  <2>3. CASE TakePart
    <3>1. /\ at \in {"waiting", "hearing"} /\ at' = "hearing"
          /\ until' = wait + DefaultTimeout /\ resent' = resent /\ parts' = parts + 1
      BY <2>3 DEF TakePart
    <3>2. Spent' = Spent /\ Listened' = Listened + DefaultTimeout
      BY <1>0, <2>1, <3>1, SameTimes DEF Listened
    <3>3. wait <= Spent + Time + Listened
      BY <1>0, <1>t, <1>w, <3>1
    <3> QED BY <1>0, <1>t, <2>1, <3>1, <3>2, <3>3 DEF WaitBounded
  <2>4. CASE ~WriteFails /\ ~TakePart
    <3>1. Spent' = Spent /\ Listened' = Listened
      BY <1>5, <2>1, <2>4, ReadKeeps, SameTimes
    <3>2. CASE WriteAgain
      BY <1>w, <2>1, <3>1, <3>2 DEF WriteAgain, WaitBounded
    <3>3. CASE at' = "idle"
      BY <1>w, <2>1, <3>1, <3>3 DEF WaitBounded
    <3>4. CASE Timeout \/ (TakeAnswer /\ at' # "idle")
      <4>1. at \in {"waiting", "hearing"}
        BY <3>4 DEF Timeout, TakeAnswer
      <4>2. at' = "recovering" /\ until' = wait + Time
        BY <1>0, <3>4, Recovers DEF Timeout, TakeAnswer, GiveUp
      <4>3. wait <= Spent + Time + Listened
        BY <1>0, <1>t, <1>w, <4>1
      <4> QED BY <1>0, <1>t, <1>w, <2>1, <3>1, <4>2, <4>3 DEF WaitBounded
    <3> QED BY <1>5, <2>4, <3>2, <3>3, <3>4
          DEF Read, LineFails, TakeGarbled, Recover, GiveUp
  <2> QED BY <2>2, <2>3, <2>4
<1> QED BY <1>1, <1>2, <1>3, <1>4, <1>5 DEF Next

LEMMA ResultStep == Types /\ ResultFits /\ [Next]_vars => ResultFits'
<1> SUFFICES ASSUME Types, ResultFits, [Next]_vars PROVE ResultFits'
  OBVIOUS
<1>1. CASE Arrive \/ Tick \/ UNCHANGED vars
  BY <1>1 DEF ResultFits, Arrive, Tick, vars
<1>2. ASSUME NEW m \in Measures, Request(m) PROVE ResultFits'
  BY <1>2 DEF ResultFits, Request
<1>3. CASE Sent
  BY <1>3, SentIs DEF ResultFits
<1>4. CASE Timeout
  BY <1>4, Recovers DEF ResultFits, Timeout
<1>5. CASE LineFails \/ TakeGarbled
  BY <1>5 DEF ResultFits, LineFails, TakeGarbled, GiveUp, Checked
<1>6. CASE TakeAnswer
  <2>1. meas' = meas
    BY <1>6 DEF TakeAnswer, GiveUp, GiveUpAfter
  <2> QED BY <1>6, <2>1, Recovers DEF ResultFits, TakeAnswer, GiveUp, Checked
<1>7. CASE WriteFails \/ WriteAgain \/ TakePart
  BY <1>7 DEF ResultFits, WriteFails, WriteAgain, TakePart
<1>8. CASE Recover
  BY <1>8 DEF ResultFits, Recover
<1> QED BY <1>1, <1>2, <1>3, <1>4, <1>5, <1>6, <1>7, <1>8 DEF Next, Read
-------------------------------------------------------------------------------
(* What is under way on a line after an arrival, and after a tick.          *)
LEMMA Arrival ==
  ASSUME Types, Arrive
  PROVE  \E a \in underway :
           /\ MyLine(a.meas) \in Lines
           /\ a \in OnLine(MyLine(a.meas)) /\ a.kind \in Kinds
           /\ input' = [input EXCEPT ![MyLine(a.meas)] =
                                       Append(@, Answer(a.id, a.meas, a.kind))]
           /\ \A l \in Lines : OnLine(l)' = OnLine(l) \ {a}
           /\ UNCHANGED <<at, calls, meas, wait, until, result, history>>
           /\ UNCHANGED <<Time, Spent, Listened, MyLine(meas)>>
<1>1. PICK a \in underway :
        /\ underway' = underway \ {a}
        /\ input' = [input EXCEPT ![MyLine(a.meas)] =
                                    Append(@, Answer(a.id, a.meas, a.kind))]
        /\ UNCHANGED <<at, calls, meas, wait, until, result, history>>
  BY DEF Arrive
<1>2. a.meas \in Measures /\ MyLine(a.meas) \in Lines /\ a.kind \in Kinds
  BY Constants DEF Types, Due
<1>3. UNCHANGED <<Time, Spent, Listened, MyLine(meas)>>
  BY <1>1, SameTimes DEF history
<1> QED BY <1>1, <1>2, <1>3 DEF OnLine

LEMMA Ticking ==
  ASSUME Types, Tick
  PROVE  /\ UNCHANGED <<at, calls, meas, until, input, result, history>>
         /\ UNCHANGED <<Time, Spent, Listened, MyLine(meas)>>
         /\ at # "idle" => wait' = wait + 1
         /\ \A l \in Lines : \A b \in OnLine(l)' : \E a \in OnLine(l) :
              /\ b = [a EXCEPT !.left = @ - 1]
              /\ b.id = a.id /\ b.meas = a.meas /\ b.kind = a.kind
              /\ b.left = a.left - 1 /\ a.left \in Nat \ {0}
         /\ \A l \in Lines : \A a \in OnLine(l) : [a EXCEPT !.left = @ - 1] \in OnLine(l)'
<1>1. \A a \in underway : a \in Due /\ a.left # 0
  BY DEF Types, Tick
<1>2. /\ UNCHANGED <<at, calls, meas, until, input, result, history>>
      /\ underway' = {[a EXCEPT !.left = @ - 1] : a \in underway}
      /\ at # "idle" => wait' = wait + 1
  BY DEF Tick
<1>3. UNCHANGED <<Time, Spent, Listened, MyLine(meas)>>
  BY <1>2, SameTimes DEF history
<1>4. \A a \in underway : LET b == [a EXCEPT !.left = @ - 1] IN
         /\ b.id = a.id /\ b.meas = a.meas /\ b.kind = a.kind
         /\ b.left = a.left - 1 /\ a.left \in Nat \ {0}
  BY <1>1 DEF Due
<1>5. \A l \in Lines : \A b \in OnLine(l)' : \E a \in OnLine(l) :
              /\ b = [a EXCEPT !.left = @ - 1]
              /\ b.id = a.id /\ b.meas = a.meas /\ b.kind = a.kind
              /\ b.left = a.left - 1 /\ a.left \in Nat \ {0}
  <2> TAKE l \in Lines
  <2> TAKE b \in OnLine(l)'
  <2>1. b \in underway' /\ MyLine(b.meas) = l
    BY DEF OnLine, MyLine
  <2>2. PICK a \in underway : b = [a EXCEPT !.left = @ - 1]
    BY <1>2, <2>1
  <2> QED BY <1>4, <2>1, <2>2 DEF OnLine
<1>6. \A l \in Lines : \A a \in OnLine(l) : [a EXCEPT !.left = @ - 1] \in OnLine(l)'
  BY <1>2, <1>4 DEF OnLine, MyLine
<1> QED BY <1>2, <1>3, <1>5, <1>6

LEMMA LinesArrive == Types /\ LinesInOrder /\ Arrive => LinesInOrder'
<1> SUFFICES ASSUME Types, LinesInOrder, Arrive, NEW l \in Lines, ~late'[l]
             PROVE  IF Listening' /\ l = MyLine(meas)' THEN BusyLine(l)' ELSE QuietLine(l)'
  BY DEF LinesInOrder
<1>1. PICK a \in underway :
           /\ MyLine(a.meas) \in Lines
           /\ a \in OnLine(MyLine(a.meas)) /\ a.kind \in Kinds
           /\ input' = [input EXCEPT ![MyLine(a.meas)] =
                                       Append(@, Answer(a.id, a.meas, a.kind))]
           /\ \A k \in Lines : OnLine(k)' = OnLine(k) \ {a}
           /\ UNCHANGED <<at, calls, meas, wait, until, result, history>>
           /\ UNCHANGED <<Time, Spent, Listened, MyLine(meas)>>
  BY Arrival
<1>2. ~late[l] /\ OnLine(l)' = OnLine(l) \ {a} /\ (Listening' <=> Listening)
  BY <1>1 DEF history, Listening
<1>3. IF Listening /\ l = MyLine(meas) THEN BusyLine(l) ELSE QuietLine(l)
  BY <1>2 DEF LinesInOrder
<1>4. CASE MyLine(a.meas) # l
  <2>1. a \notin OnLine(l)
    BY <1>4 DEF OnLine
  <2>2. OnLine(l)' = OnLine(l) /\ input'[l] = input[l]
    BY <1>1, <1>2, <1>4, <2>1 DEF Types
  <2> QED BY <1>1, <1>2, <1>3, <2>2 DEF BusyLine, QuietLine
<1>5. CASE MyLine(a.meas) = l
  <2>1. Listening /\ l = MyLine(meas) /\ BusyLine(l)
    BY <1>1, <1>3, <1>5 DEF QuietLine
  <2>2. a.id = calls /\ a.meas = meas /\ input[l] = << >> /\ OnLine(l) = {a}
    BY <1>1, <1>5, <2>1 DEF BusyLine
  <2>3. OnLine(l)' = {}
    BY <1>2, <2>2
  <2>4. input'[l] = <<Answer(calls, meas, a.kind)>>
    BY <1>1, <1>5, <2>2 DEF Types
  <2>5. at # "hearing"
    BY <1>1, <1>5, <2>1 DEF BusyLine, QuietLine
  <2> QED BY <1>1, <1>2, <2>1, <2>3, <2>4, <2>5 DEF BusyLine
<1> QED BY <1>4, <1>5

LEMMA LinesTick == Types /\ LinesInOrder /\ Tick => LinesInOrder'
<1> SUFFICES ASSUME Types, LinesInOrder, Tick, NEW l \in Lines, ~late'[l]
             PROVE  IF Listening' /\ l = MyLine(meas)' THEN BusyLine(l)' ELSE QuietLine(l)'
  BY DEF LinesInOrder
<1>1. /\ UNCHANGED <<at, calls, meas, until, input, late>>
      /\ UNCHANGED <<Time, Spent, Listened, MyLine(meas)>>
      /\ Listening' <=> Listening
  BY Ticking DEF history, Listening
<1>2. IF Listening /\ l = MyLine(meas) THEN BusyLine(l) ELSE QuietLine(l)
  BY <1>1 DEF LinesInOrder
<1>3. \A b \in OnLine(l)' : \E a \in OnLine(l) :
              /\ b = [a EXCEPT !.left = @ - 1]
              /\ b.id = a.id /\ b.meas = a.meas /\ b.kind = a.kind
              /\ b.left = a.left - 1 /\ a.left \in Nat \ {0}
  BY Ticking
<1>4. CASE Listening /\ l = MyLine(meas)
  <2>1. BusyLine(l) /\ wait' = wait + 1 /\ wait \in Nat
    BY <1>2, <1>4, Ticking DEF Listening, Types
  <2>2. Spent + Time + Time \in Nat
    BY Numbers
  <2>3. ASSUME NEW b \in OnLine(l)'
        PROVE  /\ b.id = calls /\ b.meas = meas
               /\ b.left + wait' < Spent + Time + Time
               /\ input[l] = << >>
               /\ OnLine(l)' = {b}
    <3>1. PICK a \in OnLine(l) :
              /\ b = [a EXCEPT !.left = @ - 1]
              /\ b.id = a.id /\ b.meas = a.meas /\ b.kind = a.kind
              /\ b.left = a.left - 1 /\ a.left \in Nat \ {0}
      BY <1>3
    <3>2. /\ a.id = calls /\ a.meas = meas
          /\ a.left + wait < Spent + Time + Time
          /\ input[l] = << >> /\ OnLine(l) = {a}
      BY <2>1 DEF BusyLine
    <3>3. \A c \in OnLine(l)' : c = b
      <4> TAKE c \in OnLine(l)'
      <4>1. \E x \in OnLine(l) : c = [x EXCEPT !.left = @ - 1]
        BY <1>3
      <4> QED BY <3>1, <3>2, <4>1, Zenon
    <3>4. b.left + wait' < Spent + Time + Time
      BY <2>1, <2>2, <3>1, <3>2
    <3> QED BY <3>1, <3>2, <3>3, <3>4
  <2>4. OnLine(l) = {} => OnLine(l)' = {}
    BY <1>3
  <2>5. /\ input[l] # << >> => \E kind \in Kinds : input[l] = <<Answer(calls, meas, kind)>>
        /\ at = "hearing" => QuietLine(l)'
        /\ at = "recovering" => OnLine(l)' = {} \/ until = Spent + Time + Time
    BY <1>1, <2>1, <2>4 DEF BusyLine, QuietLine
  <2> QED BY <1>1, <1>4, <2>3, <2>5 DEF BusyLine
<1>5. CASE ~(Listening /\ l = MyLine(meas))
  <2>1. QuietLine(l)
    BY <1>2, <1>5
  <2>2. OnLine(l)' = {}
    BY <1>3, <2>1 DEF QuietLine
  <2> QED BY <1>1, <1>5, <2>1, <2>2 DEF QuietLine
<1> QED BY <1>4, <1>5

LEMMA LinesRequest ==
  ASSUME Types, LinesInOrder, NEW m \in Measures, Request(m)
  PROVE  LinesInOrder'
<1>1. /\ ~Listening /\ ~Listening'
      /\ UNCHANGED <<underway, input, late>>
  BY DEF Request, Listening
<1>2. \A l \in Lines : OnLine(l)' = OnLine(l)
  BY <1>1 DEF OnLine, MyLine
<1> QED BY <1>1, <1>2 DEF LinesInOrder, QuietLine

(* The request is sent on a line that is clean, or on which something came  *)
(* too late.                                                                *)
LEMMA LinesSent == Types /\ WaitBounded /\ LinesInOrder /\ Sent => LinesInOrder'
<1> SUFFICES ASSUME Types, WaitBounded, LinesInOrder, Sent, NEW l \in Lines, ~late'[l]
             PROVE  IF Listening' /\ l = MyLine(meas)' THEN BusyLine(l)' ELSE QuietLine(l)'
  BY DEF LinesInOrder
<1>1. /\ at = "sending" /\ at' = "waiting" /\ ~Listening /\ Listening'
      /\ UNCHANGED <<calls, meas, wait, input, resent, parts>>
      /\ UNCHANGED <<Time, Spent, MyLine(meas)>>
      /\ wait = Spent
  BY SentIs, SameTimes DEF Listening, WaitBounded
<1>2. /\ Time \in Nat /\ Spent \in Nat /\ MyLine(meas) \in Lines
  BY Numbers
<1>3. \/ \E d \in Delays, kind \in Kinds :
            /\ underway' = underway \cup
                     {[id |-> calls, meas |-> meas, kind |-> kind, left |-> d]}
            /\ late' = [late EXCEPT ![MyLine(meas)] = (@ /\ ~Clean(meas)) \/ d >= 2 * Time]
      \/ /\ underway' = underway
         /\ late' = [late EXCEPT ![MyLine(meas)] = @ /\ ~Clean(meas)]
  BY SentIs
<1>4. CASE l # MyLine(meas)
  <2>1. late'[l] = late[l]
    BY <1>2, <1>3, <1>4 DEF Types
  <2>2. QuietLine(l)
    BY <1>1, <2>1 DEF LinesInOrder
  <2>3. OnLine(l)' = OnLine(l)
    BY <1>3, <1>4 DEF OnLine
  <2> QED BY <1>1, <1>4, <2>2, <2>3 DEF QuietLine
<1>5. CASE l = MyLine(meas)
  <2>1. Clean(meas) \/ ~late[l]
    <3>1. Clean(meas) \in BOOLEAN /\ late[l] \in BOOLEAN
      BY DEF Clean, Types
    <3> QED BY <1>2, <1>3, <1>5, <3>1 DEF Types
  <2>2. QuietLine(l)
    BY <1>1, <1>5, <2>1 DEF LinesInOrder, Clean, QuietLine, OnLine
  <2>3. \/ OnLine(l)' = {}
        \/ \E d \in Delays, kind \in Kinds :
             /\ d < 2 * Time
             /\ OnLine(l)' = {[id |-> calls, meas |-> meas, kind |-> kind, left |-> d]}
    <3>1. CASE underway' = underway
      BY <2>2, <3>1 DEF QuietLine, OnLine
    <3>2. ASSUME NEW d \in Delays, NEW kind \in Kinds,
                 underway' = underway \cup
                     {[id |-> calls, meas |-> meas, kind |-> kind, left |-> d]},
                 late' = [late EXCEPT ![MyLine(meas)] = (@ /\ ~Clean(meas)) \/ d >= 2 * Time]
          PROVE  /\ d < 2 * Time
                 /\ OnLine(l)' = {[id |-> calls, meas |-> meas, kind |-> kind, left |-> d]}
      <4>1. ~(d >= 2 * Time)
        BY <1>2, <1>5, <3>2 DEF Types
      <4>2. d \in Nat
        BY Constants
      <4>3. OnLine(l)' = {[id |-> calls, meas |-> meas, kind |-> kind, left |-> d]}
        BY <1>5, <2>2, <3>2 DEF OnLine, QuietLine
      <4> QED BY <1>2, <4>1, <4>2, <4>3
    <3> QED BY <1>3, <3>1, <3>2
  <2>4. input'[l] = << >>
    BY <1>1, <2>2 DEF QuietLine
  <2>5. \A a \in OnLine(l)' :
          /\ a.id = calls /\ a.meas = meas
          /\ a.left + wait < Spent + Time + Time
          /\ OnLine(l)' = {a}
    <3>1. \A d \in Delays : d < 2 * Time => d + wait < Spent + Time + Time
      <4> TAKE d \in Delays
      <4>1. d \in Nat
        BY Constants
      <4>2. d < 2 * Time => d + Spent < Spent + Time + Time
        BY <1>2, <4>1, Sums
      <4> QED BY <1>1, <4>2, Zenon
    <3> QED BY <2>3, <3>1
  <2> QED BY <1>1, <1>5, <2>4, <2>5 DEF BusyLine
<1> QED BY <1>4, <1>5

(* On its own line, of a read that is waiting for its answer.               *)
LEMMA LinesRead ==
  Types /\ WaitBounded /\ LinesInOrder /\ Read /\ ~Sent => LinesInOrder'
<1> SUFFICES ASSUME Types, WaitBounded, LinesInOrder, Read, ~Sent, NEW l \in Lines, ~late'[l]
             PROVE  IF Listening' /\ l = MyLine(meas)' THEN BusyLine(l)' ELSE QuietLine(l)'
  BY DEF LinesInOrder
<1>1. /\ UNCHANGED <<calls, meas, wait, underway>>
      /\ OnLine(l)' = OnLine(l)
      /\ Time' = Time /\ MyLine(meas)' = MyLine(meas)
      /\ at \notin {"sending", "resting"} => Spent' = Spent
  BY ReadKeeps, SameTimes DEF OnLine, MyLine, WriteFails
<1>2. /\ MyLine(meas) \in Lines /\ input \in [Lines -> Seq(Answers)]
      /\ late \in [Lines -> BOOLEAN]
      /\ Time \in Nat /\ Spent \in Nat /\ wait \in Nat
      /\ response_timeout(Server[meas]) = Time
  BY Numbers DEF Types
<1>3. ~late[l]
  <2>1. late' = late \/ late' = [late EXCEPT ![MyLine(meas)] = @ \/ ~Clean(meas)]
    BY ReadKeeps DEF LineFails
  <2> QED BY <1>2, <2>1
<1>4. IF Listening /\ l = MyLine(meas) THEN BusyLine(l) ELSE QuietLine(l)
  BY <1>3 DEF LinesInOrder
<1>5. QuietLine(l) /\ input'[l] \in {input[l], << >>} => QuietLine(l)'
  BY <1>1 DEF QuietLine
<1>6. CASE l # MyLine(meas)
  <2>1. input'[l] = input[l]
    BY <1>2, <1>6, InputAfter DEF Flush, Rest
  <2> QED BY <1>1, <1>4, <1>5, <1>6, <2>1
<1>7. CASE l = MyLine(meas)
  <2> USE <1>7
  <2>1. CASE WriteFails \/ WriteAgain
    <3>1. /\ at \in {"sending", "resting"} /\ at' \in {"sending", "resting"}
          /\ input' = input \/ input' = Flush
      BY <2>1 DEF WriteFails, WriteAgain
    <3>2. input'[l] \in {input[l], << >>}
      BY <1>2, <3>1 DEF Flush
    <3>3. ~Listening /\ ~Listening'
      BY <3>1 DEF Listening
    <3> QED BY <1>4, <1>5, <3>2, <3>3
  <2>2. at \in {"waiting", "hearing", "recovering"} => BusyLine(l) /\ Spent' = Spent
    BY <1>1, <1>4 DEF Listening
  <2>3. at' = "idle" => ~Listening'
    BY DEF Listening
  (* Whatever the read takes from the line is all that there was.           *)
  <2>4. ASSUME BusyLine(l), Heard
        PROVE  /\ OnLine(l) = {} /\ at # "hearing"
               /\ input' \in {Flush, Rest} => QuietLine(l)'
               /\ \E kind \in Kinds : First = Answer(calls, meas, kind)
    <3>1. PICK kind \in Kinds : input[l] = <<Answer(calls, meas, kind)>>
      BY <2>4 DEF BusyLine, Heard
    <3>2. OnLine(l) = {} /\ at # "hearing"
      BY <2>4, <3>1 DEF BusyLine, QuietLine
    <3>3. First = Answer(calls, meas, kind) /\ Tail(input[l]) = << >>
      BY <3>1 DEF First
    <3>4. input' \in {Flush, Rest} => input'[l] = << >>
      BY <1>2, <3>3 DEF Flush, Rest
    <3> QED BY <1>1, <3>2, <3>3, <3>4 DEF QuietLine
  <2>5. CASE Timeout
    <3>1. /\ at \in {"waiting", "hearing"} /\ wait = until
          /\ at' = "recovering" /\ until' = wait + Time /\ input' = input
      BY <1>2, <2>5, Recovers DEF Timeout
    <3>2. BusyLine(l) /\ Listening'
      BY <2>2, <3>1 DEF Listening
    <3>3. OnLine(l) = {} \/ until' = Spent + Time + Time
      BY <3>1, <3>2 DEF WaitBounded, BusyLine, QuietLine
    <3> QED BY <1>1, <2>2, <3>1, <3>2, <3>3 DEF BusyLine
  <2>6. CASE LineFails
    <3>1. at' = "idle" /\ input' = input
          /\ late' = [late EXCEPT ![MyLine(meas)] = @ \/ ~Clean(meas)]
      BY <2>6 DEF LineFails, GiveUp
    <3>2. Clean(meas)
      BY <1>2, <3>1
    <3>3. QuietLine(l)
      BY <3>2 DEF Clean, QuietLine, OnLine
    <3> QED BY <1>5, <2>3, <3>1, <3>3
  <2>7. CASE TakePart
    <3>1. /\ at \in {"waiting", "hearing"} /\ Heard
          /\ at' = "hearing" /\ input' = Rest
      BY <2>7 DEF TakePart
    <3>2. QuietLine(l)' /\ Listening'
      BY <2>2, <2>4, <3>1 DEF Listening
    <3> QED BY <1>1, <3>1, <3>2 DEF BusyLine, QuietLine
  <2>8. CASE TakeGarbled
    <3>1. /\ at \in {"waiting", "hearing"} /\ Heard
          /\ at' = "idle" /\ input' \in {Flush, Rest}
      BY <2>8 DEF TakeGarbled, GiveUp
    <3> QED BY <2>2, <2>3, <2>4, <3>1
  <2>9. CASE TakeAnswer
    <3>1. at = "waiting" /\ Heard /\ input' = Rest
      BY <2>9 DEF TakeAnswer
    <3>2. QuietLine(l)' /\ First.meas = meas
      BY <2>2, <2>4, <3>1 DEF Answer
    <3>3. at' = "idle"
      BY <2>9, <3>2 DEF TakeAnswer, GiveUp
    <3> QED BY <2>3, <3>2, <3>3
  <2>10. CASE Recover
    <3>1. at = "recovering" /\ wait = until /\ at' = "idle" /\ input' = Flush
      BY <2>10 DEF Recover
    <3>2. BusyLine(l)
      BY <2>2, <3>1
    <3>3. OnLine(l) = {}
      <4>1. \A a \in OnLine(l) : a.left \in Nat /\ a.left + wait < Spent + Time + Time
        BY <3>2 DEF BusyLine, OnLine, Types, Due
      <4>2. OnLine(l) = {} \/ wait = Spent + Time + Time
        BY <3>1, <3>2 DEF BusyLine
      <4> QED BY <1>2, <4>1, <4>2
    <3>4. input'[l] = << >>
      BY <1>2, <3>1 DEF Flush
    <3> QED BY <1>1, <2>3, <3>1, <3>3, <3>4 DEF QuietLine
  <2> QED BY <2>1, <2>5, <2>6, <2>7, <2>8, <2>9, <2>10 DEF Read
<1> QED BY <1>6, <1>7

LEMMA LinesStep ==
  Types /\ WaitBounded /\ LinesInOrder /\ [Next]_vars => LinesInOrder'
<1> SUFFICES ASSUME Types, WaitBounded, LinesInOrder, [Next]_vars PROVE LinesInOrder'
  OBVIOUS
<1>1. CASE UNCHANGED vars
  <2>1. UNCHANGED <<Time, Spent, MyLine(meas), Listening>> /\ \A l : OnLine(l)' = OnLine(l)
    BY <1>1, SameTimes DEF vars, history, OnLine, MyLine, Listening
  <2> QED BY <1>1, <2>1 DEF vars, history, LinesInOrder, BusyLine, QuietLine
<1> QED BY <1>1, LinesArrive, LinesTick, LinesRequest, LinesSent, LinesRead DEF Next
-------------------------------------------------------------------------------
(* The answer of a read that is neither faulty nor disturbed.               *)
LEMMA ComesArrive == Types /\ LinesInOrder /\ AnswerComes /\ Arrive => AnswerComes'
<1> SUFFICES ASSUME Types, LinesInOrder, AnswerComes, Arrive PROVE AnswerComes'
  OBVIOUS
<1>1. PICK a \in underway :
           /\ MyLine(a.meas) \in Lines
           /\ a \in OnLine(MyLine(a.meas)) /\ a.kind \in Kinds
           /\ input' = [input EXCEPT ![MyLine(a.meas)] =
                                       Append(@, Answer(a.id, a.meas, a.kind))]
           /\ \A k \in Lines : OnLine(k)' = OnLine(k) \ {a}
           /\ UNCHANGED <<at, calls, meas, wait, until, result, history>>
           /\ UNCHANGED <<Time, Spent, Listened, MyLine(meas)>>
  BY Arrival
<1> DEFINE l == MyLine(meas)
<1>2. l \in Lines
  BY Numbers
<1>3. ASSUME ~faulty, ~late[l]
      PROVE  /\ at # "hearing" /\ at # "recovering"
             /\ wait <= Spent + Time
             /\ at = "waiting" =>
                  \/ input[l] = <<Answer(calls, meas, "right")>>
                  \/ \E b \in OnLine(l) : b.kind = "right" /\ b.left + wait < Spent + Time
  BY <1>3 DEF AnswerComes
<1>4. ASSUME ~faulty, ~late[l], at = "waiting"
      PROVE  \/ input'[l] = <<Answer(calls, meas, "right")>>
             \/ \E b \in OnLine(l)' : b.kind = "right" /\ b.left + wait < Spent + Time
  <2>1. CASE MyLine(a.meas) = l
    <3>1. BusyLine(l)
      BY <1>2, <1>4 DEF LinesInOrder, Listening
    <3>2. a.id = calls /\ a.meas = meas /\ input[l] = << >> /\ OnLine(l) = {a}
      BY <1>1, <2>1, <3>1 DEF BusyLine
    <3>3. a.kind = "right"
      BY <1>3, <1>4, <3>2
    <3> QED BY <1>1, <1>2, <2>1, <3>2, <3>3 DEF Types
  <2>2. CASE MyLine(a.meas) # l
    <3>1. input'[l] = input[l] /\ OnLine(l)' = OnLine(l)
      BY <1>1, <1>2, <2>2 DEF Types, OnLine
    <3> QED BY <1>3, <1>4, <3>1
  <2> QED BY <2>1, <2>2
<1> QED BY <1>1, <1>3, <1>4 DEF AnswerComes, history

LEMMA ComesTick == Types /\ WaitBounded /\ AnswerComes /\ Tick => AnswerComes'
<1> SUFFICES ASSUME Types, WaitBounded, AnswerComes, Tick PROVE AnswerComes'
  OBVIOUS
<1> DEFINE l == MyLine(meas)
<1>1. /\ UNCHANGED <<at, calls, meas, until, input, result, history>>
      /\ UNCHANGED <<Time, Spent, Listened, MyLine(meas)>>
      /\ at # "idle" => wait' = wait + 1
  BY Ticking
<1>2. /\ l \in Lines /\ Time \in Nat /\ Spent \in Nat /\ wait \in Nat /\ until \in Nat
      /\ at \in {"idle", "sending", "resting", "waiting", "hearing", "recovering"}
  BY Numbers DEF Types
<1>3. ASSUME ~faulty, ~late[l]
      PROVE  /\ at # "hearing" /\ at # "recovering"
             /\ wait <= Spent + Time
             /\ at = "waiting" =>
                  \/ input[l] = <<Answer(calls, meas, "right")>>
                  \/ \E b \in OnLine(l) : b.kind = "right" /\ b.left + wait < Spent + Time
  BY <1>3 DEF AnswerComes
<1>4. at \notin {"hearing", "recovering"} => wait' <= Spent + Time
  <2>1. CASE at = "idle"
    BY <1>2, <2>1 DEF Tick
  <2>2. CASE at \in {"resting", "waiting"}
    <3>1. wait < until /\ until <= Spent + Time
      BY <1>2, <2>2 DEF Tick, WaitBounded
    <3> QED BY <1>1, <1>2, <2>2, <3>1
  <2> QED BY <1>2, <2>1, <2>2 DEF Tick
<1>5. ASSUME at = "waiting", NEW a \in OnLine(l), a.kind = "right",
             a.left + wait < Spent + Time
      PROVE  \E b \in OnLine(l)' : b.kind = "right" /\ b.left + wait' < Spent + Time
  <2> DEFINE c == [a EXCEPT !.left = @ - 1]
  <2>1. c \in OnLine(l)'
    BY <1>2, Ticking
  <2>2. a \in Due
    BY DEF OnLine, Types
  <2>3. c.kind = a.kind /\ c.left = a.left - 1 /\ a.left \in Nat
    BY <2>2 DEF Due
  <2> HIDE DEF c
  <2>4. c.left + wait' < Spent + Time
    BY <1>1, <1>2, <1>5, <2>3
  <2> QED BY <1>5, <2>1, <2>3, <2>4
<1> QED BY <1>1, <1>3, <1>4, <1>5 DEF AnswerComes, history

LEMMA ComesRequest ==
  ASSUME Types, NEW m \in Measures, Request(m)
  PROVE  AnswerComes'
<1>1. at' = "sending" /\ wait' = 0 /\ resent' = 0
  BY DEF Request
<1>2. Time' = Allowed(Server[m])
  BY DEF Request, Time, Allowed
<1>3. Time' \in Nat
  BY <1>2, Constants, TimeoutAllowed
<1>4. Spent' = 0
  BY <1>1, <1>3, Products DEF Spent
<1>5. wait' <= Spent' + Time'
  <2>1. 0 <= 0 + Time'
    BY <1>3, Sums
  <2> QED BY <1>1, <1>4, <2>1, Zenon
<1> QED BY <1>1, <1>5 DEF AnswerComes

LEMMA ComesSent == Types /\ WaitBounded /\ Sent => AnswerComes'
<1> SUFFICES ASSUME Types, WaitBounded, Sent, ~faulty' PROVE AnswerComes'
  BY DEF AnswerComes
<1>1. /\ at = "sending" /\ at' = "waiting" /\ wait = Spent
      /\ UNCHANGED <<calls, meas, wait, input, resent, parts>>
      /\ UNCHANGED <<Time, Spent, MyLine(meas)>>
  BY SentIs, SameTimes DEF WaitBounded
<1>2. Time \in Nat /\ Spent \in Nat
  BY Numbers
<1>3. PICK d \in Delays, kind \in Kinds :
        /\ underway' = underway \cup
                     {[id |-> calls, meas |-> meas, kind |-> kind, left |-> d]}
        /\ faulty' = (d >= Time \/ kind # "right")
  BY SentIs
<1>4. d \in Nat /\ d < Time /\ kind = "right"
  <2>1. d \in Nat
    BY Constants
  <2>2. ~(d >= Time) /\ kind = "right"
    BY <1>3, Zenon
  <2> QED BY <1>2, <2>1, <2>2, Sums
<1> DEFINE b == [id |-> calls, meas |-> meas, kind |-> kind, left |-> d]
<1>5. b \in OnLine(MyLine(meas))' /\ b.kind = "right" /\ b.left = d
  BY <1>1, <1>3, <1>4 DEF OnLine, MyLine
<1> HIDE DEF b
<1>6. b.left + wait < Spent + Time /\ wait <= Spent + Time
  BY <1>1, <1>2, <1>4, <1>5
<1> QED BY <1>1, <1>5, <1>6 DEF AnswerComes

(* A read that is neither faulty nor disturbed finds its answer and takes   *)
(* it; any other one that takes an answer from a line where nothing came    *)
(* too late finds its own.                                                  *)
LEMMA Disturbed ==
  ASSUME Types, WaitBounded, LinesInOrder, AnswerComes, Read, ~Sent,
         ~faulty, ~late[MyLine(meas)], ~LineFails, ~WriteFails, ~WriteAgain
  PROVE  /\ TakeAnswer /\ at = "waiting" /\ at' = "idle"
         /\ result' = Answer(calls, meas, "right")
<1> DEFINE l == MyLine(meas)
<1>1. /\ l \in Lines /\ Time \in Nat /\ Spent \in Nat /\ wait \in Nat
  BY Numbers DEF Types
<1>2. /\ at # "hearing" /\ at # "recovering"
      /\ at = "waiting" =>
           \/ input[l] = <<Answer(calls, meas, "right")>>
           \/ \E b \in OnLine(l) : b.kind = "right" /\ b.left + wait < Spent + Time
  BY DEF AnswerComes
<1>3. at = "waiting"
  BY <1>2 DEF Read, Timeout, TakePart, TakeGarbled, TakeAnswer, Recover
<1>4. BusyLine(l)
  BY <1>1, <1>3 DEF LinesInOrder, Listening
<1>5. ASSUME Heard PROVE First = Answer(calls, meas, "right")
  <2>1. OnLine(l) = {}
    BY <1>4, <1>5 DEF BusyLine, Heard
  <2>2. input[l] = <<Answer(calls, meas, "right")>>
    BY <1>2, <1>3, <2>1
  <2> QED BY <2>2 DEF First
<1>6. ~Timeout
  <2> SUFFICES ASSUME Timeout PROVE FALSE
    OBVIOUS
  <2>1. wait = Spent + Time /\ input[l] = << >>
    BY <1>3 DEF Timeout, WaitBounded
  <2>2. PICK b \in OnLine(l) : b.left + wait < Spent + Time
    BY <1>2, <1>3, <2>1
  <2>3. b.left \in Nat
    BY DEF OnLine, Types, Due
  <2> QED BY <1>1, <2>1, <2>2, <2>3
<1>7. ~TakePart /\ ~TakeGarbled
  BY <1>3, <1>5 DEF TakePart, TakeGarbled, Answer
<1>8. TakeAnswer
  BY <1>3, <1>6, <1>7 DEF Read, Recover
<1>9. First = Answer(calls, meas, "right")
  BY <1>5, <1>8 DEF TakeAnswer
<1> QED BY <1>3, <1>8, <1>9 DEF TakeAnswer, Answer

LEMMA ComesRead ==
  ASSUME Types, WaitBounded, LinesInOrder, AnswerComes, Read, ~Sent
  PROVE  AnswerComes'
<1>1. /\ UNCHANGED <<calls, meas, wait, underway>>
      /\ Time' = Time /\ MyLine(meas)' = MyLine(meas)
      /\ late[MyLine(meas)] => late'[MyLine(meas)]
  <2>1. MyLine(meas) \in Lines /\ late \in [Lines -> BOOLEAN]
    BY Numbers DEF Types
  <2>2. late' = late \/ late' = [late EXCEPT ![MyLine(meas)] = @ \/ ~Clean(meas)]
    BY ReadKeeps DEF LineFails
  <2>3. late[MyLine(meas)] => late'[MyLine(meas)]
    BY <2>1, <2>2
  <2> QED BY <2>3, ReadKeeps, SameTimes
<1>2. CASE LineFails
  BY <1>2 DEF LineFails, AnswerComes
<1>3. CASE ~LineFails /\ (faulty \/ late[MyLine(meas)])
  BY <1>1, <1>3, ReadKeeps DEF AnswerComes
<1>4. CASE WriteFails \/ WriteAgain
  <2>1. at \in {"sending", "resting"} /\ at' \in {"sending", "resting"}
        /\ (resent' = resent \/ resent' = resent + 1)
    BY <1>4 DEF WriteFails, WriteAgain, history
  <2>2. /\ Time \in Nat /\ Spent \in Nat /\ wait \in Nat
        /\ (resent + 1) * Time = Spent + Time
    BY Numbers DEF Types
  <2>3. Spent' = Spent \/ Spent' = Spent + Time
    BY <1>1, <2>1, <2>2, SameTimes DEF Spent
  <2>4. wait = Spent
    BY <1>4 DEF WriteFails, WriteAgain, WaitBounded
  <2>5. wait <= Spent' + Time
    BY <2>2, <2>3, <2>4
  <2> QED BY <1>1, <2>1, <2>5 DEF AnswerComes
<1>5. CASE /\ ~faulty /\ ~late[MyLine(meas)]
           /\ ~LineFails /\ ~WriteFails /\ ~WriteAgain
  <2>1. TakeAnswer /\ at = "waiting" /\ at' = "idle"
    BY <1>5, Disturbed
  <2>2. Spent' = Spent
    BY <1>1, <1>5, ReadKeeps, SameTimes
  <2>3. wait <= Spent + Time
    BY <1>5 DEF AnswerComes
  <2> QED BY <1>1, <2>1, <2>2, <2>3 DEF AnswerComes
<1> QED BY <1>2, <1>3, <1>4, <1>5

(* What a read comes to.                                                    *)
LEMMA ReadEnds ==
  ASSUME Types, WaitBounded, ResultFits, LinesInOrder, AnswerComes, Read, ~Sent, at' = "idle"
  PROVE  /\ result' # Failed /\ ~late'[MyLine(meas)'] =>
              result' = Answer(calls', meas', "right")
         /\ result' = Failed => faulty' \/ late'[MyLine(meas)']
<1>1. /\ UNCHANGED <<calls, meas>> /\ MyLine(meas)' = MyLine(meas)
      /\ ~WriteFails /\ ~WriteAgain
  BY ReadKeeps, SameTimes DEF WriteFails, WriteAgain
<1>2. CASE LineFails
  BY <1>2 DEF LineFails, GiveUp, Checked
<1>3. CASE ~LineFails /\ ~faulty /\ ~late[MyLine(meas)]
  <2>1. result' = Answer(calls, meas, "right")
    BY <1>1, <1>3, Disturbed
  <2>2. result' # Failed
    <3>1. TakeAnswer /\ Heard
      BY <1>1, <1>3, Disturbed DEF TakeAnswer
    <3>2. calls # 0 /\ calls \in Nat
      BY <1>1, <1>3, Disturbed DEF Types
    <3> QED BY <2>1, <3>2 DEF Failed, Answer
  <2> QED BY <1>1, <2>1, <2>2
<1>4. CASE ~LineFails /\ (faulty \/ late[MyLine(meas)])
  <2>1. UNCHANGED <<faulty, late>>
    BY <1>4, ReadKeeps
  <2>2. ASSUME result' # Failed, ~late[MyLine(meas)]
        PROVE  result' = Answer(calls, meas, "right")
    <3>1. CASE TakeAnswer /\ Heard /\ result' = First /\ First.kind = "right"
      <4>1. MyLine(meas) \in Lines /\ at = "waiting"
        BY <3>1, Numbers DEF TakeAnswer
      <4>2. BusyLine(MyLine(meas))
        BY <2>2, <4>1 DEF LinesInOrder, Listening
      <4>3. PICK kind \in Kinds : input[MyLine(meas)] = <<Answer(calls, meas, kind)>>
        BY <3>1, <4>2 DEF BusyLine, Heard
      <4>4. First = Answer(calls, meas, kind) /\ kind = "right"
        BY <3>1, <4>3 DEF First, Answer
      <4> QED BY <3>1, <4>4
    <3>2. CASE ~TakeAnswer
      <4>1. Recover \/ Timeout \/ TakeGarbled
        BY <1>1, <1>4, <3>2 DEF Read, TakePart
      <4>2. result' = Failed
        BY <4>1 DEF Recover, ResultFits, Timeout, TakeGarbled, GiveUpAfter, GiveUp, Checked
      <4> QED BY <2>2, <4>2
    <3>3. CASE TakeAnswer /\ ~(Heard /\ result' = First /\ First.kind = "right")
      BY <2>2, <3>3 DEF TakeAnswer, GiveUp, GiveUpAfter, Checked
    <3> QED BY <3>1, <3>2, <3>3
  <2> QED BY <1>1, <1>4, <2>1, <2>2
<1> QED BY <1>2, <1>3, <1>4
-------------------------------------------------------------------------------
LEMMA InvInit == Init => Inv
<1> SUFFICES ASSUME Init PROVE Inv
  OBVIOUS
<1>1. Types
  BY TypesInit
<1>2. /\ MyLine(meas) \in Lines /\ Time \in Nat /\ Spent \in Nat /\ Listened \in Nat
      /\ at = "idle" /\ calls = 0 /\ wait = 0 /\ result = Failed
  BY <1>1, Numbers DEF Init
<1>3. 0 <= Spent + Time + Time + Listened /\ 0 <= Spent + Time
  BY <1>2
<1>4. WaitBounded /\ ResultFits /\ AnswerComes /\ OwnAnswer /\ FailsOnItsOwn
  BY <1>2, <1>3 DEF WaitBounded, ResultFits, AnswerComes, OwnAnswer, FailsOnItsOwn, Succeeded
<1>5. LinesInOrder
  BY DEF Init, LinesInOrder, QuietLine, OnLine, Listening
<1> QED BY <1>1, <1>4, <1>5 DEF Inv

LEMMA InvStep == Inv /\ [Next]_vars => Inv'
<1> SUFFICES ASSUME Inv, [Next]_vars PROVE Inv'
  OBVIOUS
<1>0. Types /\ WaitBounded /\ ResultFits /\ LinesInOrder /\ AnswerComes
      /\ OwnAnswer /\ FailsOnItsOwn
  BY DEF Inv
<1>1. Types' /\ WaitBounded' /\ ResultFits' /\ LinesInOrder'
  BY <1>0, TypesStep, WaitStep, ResultStep, LinesStep
<1>2. AnswerComes' /\ OwnAnswer' /\ FailsOnItsOwn'
  <2>1. CASE Arrive
    <3>1. UNCHANGED <<at, calls, meas, result, faulty, late>>
      BY <2>1 DEF Arrive, history
    <3> QED BY <1>0, <2>1, <3>1, ComesArrive DEF OwnAnswer, FailsOnItsOwn, Succeeded, MyLine
  <2>2. CASE Tick
    <3>1. UNCHANGED <<at, calls, meas, result, faulty, late>>
      BY <2>2 DEF Tick, history
    <3> QED BY <1>0, <2>2, <3>1, ComesTick DEF OwnAnswer, FailsOnItsOwn, Succeeded, MyLine
  <2>3. ASSUME NEW m \in Measures, Request(m)
        PROVE  AnswerComes' /\ OwnAnswer' /\ FailsOnItsOwn'
    <3>1. at' # "idle"
      BY <2>3 DEF Request
    <3> QED BY <1>0, <2>3, <3>1, ComesRequest DEF OwnAnswer, FailsOnItsOwn, Succeeded
  <2>4. CASE Sent
    <3>1. at' # "idle"
      BY <2>4, SentIs
    <3> QED BY <1>0, <2>4, <3>1, ComesSent DEF OwnAnswer, FailsOnItsOwn, Succeeded
  <2>5. CASE Read /\ ~Sent
    <3>1. AnswerComes'
      BY <1>0, <2>5, ComesRead
    <3>2. at' = "idle" =>
            /\ result' # Failed /\ ~late'[MyLine(meas)'] =>
                 result' = Answer(calls', meas', "right")
            /\ result' = Failed => faulty' \/ late'[MyLine(meas)']
      BY <1>0, <2>5, ReadEnds
    <3> QED BY <3>1, <3>2 DEF OwnAnswer, FailsOnItsOwn, Succeeded
  <2>6. CASE UNCHANGED vars
    <3>1. UNCHANGED <<Time, Spent, MyLine(meas)>> /\ \A l : OnLine(l)' = OnLine(l)
      BY <2>6, SameTimes DEF vars, history, OnLine, MyLine
    <3> QED BY <1>0, <2>6, <3>1 DEF vars, history, AnswerComes, OwnAnswer, FailsOnItsOwn,
                                    Succeeded
  <2> QED BY <2>1, <2>2, <2>3, <2>4, <2>5, <2>6 DEF Next
<1> QED BY <1>1, <1>2 DEF Inv

LEMMA BusInvariant == Spec => []Inv
<1> QED BY InvInit, InvStep, PTL DEF Spec
-------------------------------------------------------------------------------
(* Whoever shares a line, and whatever comes late, RTUSlave never hands out *)
(* an answer of another server or to another kind of request.               *)
THEOREM NeverTheWrongServer == Spec => []RightServer
<1>1. Inv => RightServer
  BY DEF Inv, Types, ResultFits, RightServer, Succeeded
<1> QED BY <1>1, BusInvariant, PTL

(* On a line where no answer takes twice its answering time, or no longer,  *)
(* a read returns the answer to its own request: the recovery from a        *)
(* timeout lasts long enough for the answer to be discarded, and whatever   *)
(* else fails a read in time takes its answer from the line.                *)
THEOREM OwnAnswerReturned == Spec => []OwnAnswer
<1>1. Inv => OwnAnswer
  BY DEF Inv
<1> QED BY <1>1, BusInvariant, PTL

(* A read fails only because its own answer is none, too late or not right, *)
(* its line fails, or something came too late on the line before: no read   *)
(* makes another one fail.                                                  *)
THEOREM NoReadFailsAnother == Spec => []FailsOnItsOwn
<1>1. Inv => FailsOnItsOwn
  BY DEF Inv
<1> QED BY <1>1, BusInvariant, PTL

(* A read with its recovery blocks the one thread of the crawler twice the  *)
(* answering time at most, also where libmodbus uses a timeout of its own,  *)
(* and longer only by an answering time for every failed write of the       *)
(* request, of which there may be any number, and by a byte timeout for     *)
(* every part of an answer.                                                 *)
THEOREM BlockingBounded == Spec => []BlocksNoLonger
<1>1. ASSUME Inv PROVE BlocksNoLonger
  <2>1. Types /\ WaitBounded /\ AnswerComes
    BY <1>1 DEF Inv
  <2>2. /\ (resent + 1) * Time = Spent + Time
        /\ (resent + 2) * Time = Spent + Time + Time
    BY <2>1, Numbers
  <2>3. wait <= (resent + 2) * Time + Listened
    BY <2>1, <2>2 DEF WaitBounded
  <2>4. ~faulty /\ ~late[MyLine(meas)] => wait <= (resent + 1) * Time
    BY <2>1, <2>2 DEF AnswerComes
  <2> QED BY <2>3, <2>4 DEF BlocksNoLonger, Time, Listened
<1> QED BY <1>1, BusInvariant, PTL
===============================================================================
