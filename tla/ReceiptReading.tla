--------------------------- MODULE ReceiptReading ---------------------------
(***************************************************************************)
(* From a message to the expense read off it: transcribe_voice, the two    *)
(* asks of GeminiExpenseParser.parse, each of them a retry_async of its    *)
(* own, the validation of the answer and the roll back of a date that has  *)
(* not come yet.  The models answer what they like, calls fail, and        *)
(* midnight passes on the server while an answer is awaited.               *)
(*                                                                         *)
(* A message is [photo, voice, words]: what it carries (words: its text, or*)
(* the caption of its photo).  Readings share no state: one is modelled.   *)
(***************************************************************************)
EXTENDS Integers

CONSTANTS
    Messages,       \* the messages that may come
    Days,           \* days on which a message may be read
    Dates,          \* dates the model may read off a receipt
    NoDate,         \* a receipt without a date
    MaxAttempts,    \* retry_async's max_attempts (the code: 3)
    MaxMidnights    \* midnights during one reading

Leap(y) == y % 4 = 0 /\ (y % 100 # 0 \/ y % 400 = 0)

Length(y, m) == IF m = 2 THEN IF Leap(y) THEN 29 ELSE 28
                ELSE IF m \in {4, 6, 9, 11} THEN 30 ELSE 31

Date(y, m, d) == [y |-> y, m |-> m, d |-> d]

\* date(y, m, d) does not raise ValueError.
IsDate(x) == /\ x \in [y : Int, m : 1..12, d : 1..31]
             /\ x.y >= 1 /\ x.d <= Length(x.y, x.m)

\* x <= z, as dates compare.
UpTo(x, z) == \/ x.y < z.y
              \/ x.y = z.y /\ x.m < z.m
              \/ x.y = z.y /\ x.m = z.m /\ x.d <= z.d

ASSUME ReadingAssumption ==
    /\ Messages \subseteq {m \in [photo : BOOLEAN, voice : BOOLEAN, words : BOOLEAN] :
                              m.photo \/ m.voice \/ m.words}
    /\ \A x \in Days \cup Dates : IsDate(x)
    /\ \A x \in Days : x.y > 8        \* a leap day has come before
    /\ ~IsDate(NoDate)
    /\ MaxAttempts \in Nat \ {0} /\ MaxMidnights \in Nat

Sources == {"none", "voice", "words"}
Results == {"none", "expense", "hint", "sorry", "unreadable", "refused", "busy"}

VARIABLES
    clock,      \* date.today() on the server
    midnights,  \* midnights so far
    msg,        \* the message
    pc,         \* "listen", "prompt", "ask", "roll", "done"
    heard,      \* where the words given to the model come from
    told,       \* today's date, as the prompt says
    turn,       \* which ask: 1, or 2, the strict one
    attempt,    \* attempt of retry_async
    calls,      \* [1..2 -> calls made in the ask]
    read,       \* the date in the answer
    asOf,       \* date.today() when the answer was validated
    year,       \* the year tried in the roll back
    date,       \* the date of the expense
    result      \* what the caller gets, or tells the user

time == <<clock, midnights>>
ask  == <<told, turn, attempt, calls>>
fit  == <<read, asOf, year, date>>
vars == <<time, msg, pc, heard, ask, fit, result>>

Init ==
    /\ clock \in Days /\ midnights = 0
    /\ msg \in Messages
    /\ pc = IF msg.voice THEN "listen" ELSE "prompt"
    /\ heard = IF msg.words /\ ~msg.voice THEN "words" ELSE "none"
    /\ told = clock /\ turn = 1 /\ attempt = 1
    /\ calls = [i \in 1..2 |-> 0]
    /\ read = NoDate /\ asOf = clock /\ year = clock.y /\ date = NoDate
    /\ result = "none"

NextDay(x) == IF x.d < Length(x.y, x.m) THEN Date(x.y, x.m, x.d + 1)
              ELSE IF x.m < 12 THEN Date(x.y, x.m + 1, 1)
              ELSE Date(x.y + 1, 1, 1)

Midnight ==
    /\ midnights < MaxMidnights
    /\ midnights' = midnights + 1
    /\ clock' = NextDay(clock)
    /\ UNCHANGED <<msg, pc, heard, ask, fit, result>>

End(words) == pc' = "done" /\ result' = words

-----------------------------------------------------------------------------
(* The voice                                                               *)

Transcribed ==
    /\ pc = "listen"
    /\ heard' = "voice"
    /\ pc' = "prompt"
    /\ UNCHANGED <<time, msg, ask, fit, result>>

\* Mutant: the photo goes on without its caption.
NoTranscript_LosesCaption ==
    /\ pc = "listen"
    /\ \/ /\ msg.photo
          /\ pc' = "prompt"
          /\ UNCHANGED <<heard, result>>
       \/ /\ ~msg.photo
          /\ End("hint") \/ End("sorry")
          /\ UNCHANGED heard
    /\ UNCHANGED <<time, msg, ask, fit>>

\* The download or Groq fails, after the SDK's own retries, or nothing was said:
\* a photo is read with its caption, if it has one; a voice note ends here.
NoTranscript ==
    /\ pc = "listen"
    /\ \/ /\ msg.photo
          /\ pc' = "prompt"
          /\ heard' = IF msg.words THEN "words" ELSE "none"
          /\ UNCHANGED result
       \/ /\ ~msg.photo
          /\ End("hint") \/ End("sorry")
          /\ UNCHANGED heard
    /\ UNCHANGED <<time, msg, ask, fit>>

-----------------------------------------------------------------------------
(* The two asks                                                            *)

\* build_user_prompt
Prompt ==
    /\ pc = "prompt"
    /\ told' = clock
    /\ pc' = "ask"
    /\ UNCHANGED <<time, msg, heard, turn, attempt, calls, fit, result>>

Call == pc = "ask" /\ calls' = [calls EXCEPT ![turn] = @ + 1]

\* Mutant: one attempt too many.
CallFails_OffByOne ==
    /\ Call
    /\ \/ /\ attempt <= MaxAttempts
          /\ attempt' = attempt + 1
          /\ UNCHANGED <<pc, result>>
       \/ /\ attempt > MaxAttempts
          /\ End("busy")
          /\ UNCHANGED attempt
    /\ UNCHANGED <<time, msg, heard, told, turn, fit>>

\* 429, 5xx or a transport error.
CallFails ==
    /\ Call
    /\ \/ /\ attempt < MaxAttempts
          /\ attempt' = attempt + 1
          /\ UNCHANGED <<pc, result>>
       \/ /\ attempt >= MaxAttempts
          /\ End("busy")
          /\ UNCHANGED attempt
    /\ UNCHANGED <<time, msg, heard, told, turn, fit>>

\* Any other error of the API is raised at once, an empty answer is a ParserError.
CallRefused ==
    /\ Call
    /\ End("refused") \/ End("unreadable")
    /\ UNCHANGED <<time, msg, heard, told, turn, attempt, fit>>

\* Mutant: the attempts of the first ask count against the second.
InvalidAnswer_KeepsAttempt ==
    /\ Call
    /\ \/ turn = 1 /\ turn' = 2 /\ UNCHANGED <<pc, attempt, result>>
       \/ turn = 2 /\ End("unreadable") /\ UNCHANGED <<turn, attempt>>
    /\ UNCHANGED <<time, msg, heard, told, fit>>

\* No JSON, or not a ParsedExpense: asked once more, strictly.
InvalidAnswer ==
    /\ Call
    /\ \/ turn = 1 /\ turn' = 2 /\ attempt' = 1 /\ UNCHANGED <<pc, result>>
       \/ turn = 2 /\ End("unreadable") /\ UNCHANGED <<turn, attempt>>
    /\ UNCHANGED <<time, msg, heard, told, fit>>

\* Mutant: a photo the model is not sure of is answered with the hint as well.
Accept_PhotoToo == End("expense") \/ End("hint")

\* A text the model is not sure of is answered with the hint, a photo is not.
Accept == End("expense") \/ (~msg.photo /\ End("hint"))

-----------------------------------------------------------------------------
(* The date                                                                *)

Due(x, today) == x # NoDate => UpTo(x, today)

\* Mutant: what has come is judged by the day on which the message arrived.
ValidAnswer_DayOfArrival(x) ==
    /\ Call
    /\ read' = x
    /\ \/ /\ Due(x, asOf)
          /\ date' = x
          /\ Accept
          /\ UNCHANGED year
       \/ /\ ~Due(x, asOf)
          /\ year' = asOf.y
          /\ pc' = "roll"
          /\ UNCHANGED <<date, result>>
    /\ UNCHANGED <<time, msg, heard, told, turn, attempt, asOf>>

\* _clamp_future_receipt_date
ValidAnswer(x) ==
    /\ Call
    /\ read' = x
    /\ asOf' = clock
    /\ \/ /\ Due(x, clock)
          /\ date' = x
          /\ Accept
          /\ UNCHANGED year
       \/ /\ ~Due(x, clock)
          /\ year' = clock.y
          /\ pc' = "roll"
          /\ UNCHANGED <<date, result>>
    /\ UNCHANGED <<time, msg, heard, told, turn, attempt>>

Candidate == Date(year, read.m, read.d)

\* Mutants: today's own day and month does not count; a date that does not exist
\* is tried again and again.
Fits_BeforeToday(x) == IsDate(x) /\ UpTo(x, asOf) /\ x # asOf
StepBack_LeapDayHangs ==
    /\ pc = "roll" /\ IsDate(Candidate) /\ ~UpTo(Candidate, asOf)
    /\ year' = year - 1
    /\ UNCHANGED <<time, msg, pc, heard, ask, read, asOf, date, result>>

Fits(x) == IsDate(x) /\ UpTo(x, asOf)

\* _most_recent_on_or_before: one round of its loop.
StepBack ==
    /\ pc = "roll" /\ ~Fits(Candidate)
    /\ year' = year - 1
    /\ UNCHANGED <<time, msg, pc, heard, ask, read, asOf, date, result>>

RollBack ==
    /\ pc = "roll" /\ Fits(Candidate)
    /\ date' = Candidate
    /\ Accept
    /\ UNCHANGED <<time, msg, heard, ask, read, asOf, year>>

Step == \/ Transcribed \/ NoTranscript
        \/ Prompt \/ CallFails \/ CallRefused \/ InvalidAnswer
        \/ \E x \in Dates \cup {NoDate} : ValidAnswer(x)
        \/ StepBack \/ RollBack

Next == Step \/ Midnight

Spec == Init /\ [][Next]_vars

\* The event loop runs the reading on, and Groq's SDK gives up in the end.  No
\* timeout is set for Gemini: nothing obliges a call to end.
Own == Transcribed \/ NoTranscript \/ Prompt \/ StepBack \/ RollBack

FairSpec == Spec /\ WF_vars(Own)

-----------------------------------------------------------------------------
\* Every variable keeps its type.
ReadingTypeOK ==
    /\ IsDate(clock) /\ IsDate(told) /\ IsDate(asOf)
    /\ midnights \in 0..MaxMidnights
    /\ msg \in Messages
    /\ pc \in {"listen", "prompt", "ask", "roll", "done"}
    /\ heard \in Sources
    /\ turn \in 1..2 /\ attempt \in 1..MaxAttempts
    /\ calls \in [1..2 -> 0..MaxAttempts]
    /\ read \in Dates \cup {NoDate} /\ year \in Int
    /\ date = NoDate \/ IsDate(date)
    /\ result \in Results

\* Each ask has the attempts of retry_async to itself: it never makes more, it
\* gives up on an error that may pass only after all of them, and there is a
\* second ask only after the first was answered.
EachAskHasItsRetries ==
    /\ \A i \in 1..2 : calls[i] <= MaxAttempts
    /\ result = "busy" => calls[turn] = MaxAttempts
    /\ calls[2] > 0 => calls[1] > 0 /\ turn = 2

\* No expense is dated in the future, whenever midnight passes.
NeverInTheFuture == date # NoDate => UpTo(date, clock)

\* The date of an expense is the one read, unless that had not come when it was
\* validated; then it is the latest day of the same name that had.
LatestOfItsName ==
    result = "expense" /\ read # NoDate =>
        IF UpTo(read, asOf) THEN date = read
        ELSE /\ IsDate(date) /\ date.m = read.m /\ date.d = read.d
             /\ UpTo(date, asOf)
             /\ \A y \in (date.y + 1)..asOf.y :
                   ~(IsDate(Date(y, read.m, read.d)) /\ UpTo(Date(y, read.m, read.d), asOf))

\* The day the prompt named as today, and any day before it, is never rolled back,
\* though midnight pass between the message, the prompt and the answer.
TodayIsKept ==
    result = "expense" /\ read # NoDate /\ UpTo(read, told) => date = read

\* What makes these inductive: the attempts are the calls of the current ask, and
\* no year after the one being tried has such a day that had come.
Counted ==
    /\ pc \in {"listen", "prompt"} =>
          turn = 1 /\ attempt = 1 /\ calls = [i \in 1..2 |-> 0]
    /\ pc = "ask" => calls[turn] = attempt - 1
    /\ turn = 1 => calls[2] = 0
    /\ turn = 2 => calls[1] > 0
    /\ pc # "done" <=> result = "none"

Rolling ==
    /\ UpTo(asOf, clock)
    /\ date # NoDate => UpTo(date, asOf)
    /\ pc # "done" => date = NoDate
    /\ pc = "roll" =>
          /\ read # NoDate /\ ~UpTo(read, asOf)
          /\ \A y \in (year + 1)..asOf.y : ~Fits(Date(y, read.m, read.d))

\* The answer is validated no earlier than the day the prompt named.
InOrder ==
    /\ UpTo(told, clock)
    /\ read # NoDate => UpTo(told, asOf)
    /\ pc \in {"listen", "prompt", "ask"} => read = NoDate

\* A voice that cannot be understood costs a photo nothing, its caption least of
\* all; and the parser is never asked to read nothing.
VoiceFailsSoftly ==
    /\ pc \in {"prompt", "ask", "roll"} => msg.photo \/ heard # "none"
    /\ msg.photo => result \notin {"hint", "sorry"}
    /\ msg.photo /\ msg.words /\ pc # "listen" => heard # "none"

\* How many steps a reading may still take by itself: so many calls, and so many
\* years to go back, for between two leap days there are eight at most.
StepsLeft ==
    CASE pc = "done"   -> 0
      [] pc = "roll"   -> year - (asOf.y - 9)
      [] pc = "ask"    -> 10 + (2 - turn) * MaxAttempts + (MaxAttempts - attempt)
      [] pc = "prompt" -> 10 + 2 * MaxAttempts
      [] pc = "listen" -> 11 + 2 * MaxAttempts

\* No answer makes a reading go on for ever: each step leaves fewer, midnight no
\* more, and there are 17 with three attempts.
ReadingRunsDown ==
    [][/\ StepsLeft' \in 0..StepsLeft
       /\ Step => StepsLeft' < StepsLeft]_vars

\* Every reading ends, whatever date the model makes up, unless a call of Gemini
\* never does.
ReadingEnds == <>(pc = "done") \/ <>[](pc = "ask")

\* What the capture sees of a reading.
Phase == CASE pc = "done" /\ result = "expense" -> "expense"
           [] pc = "done" /\ (result = "hint" \/ (result = "unreadable" /\ ~msg.photo)) -> "hint"
           [] pc = "done" /\ (result \in {"sorry", "refused", "busy"}
                              \/ (result = "unreadable" /\ msg.photo)) -> "sorry"
           [] pc = "listen" /\ ~msg.photo -> "listen"
           [] OTHER -> "parse"

R == INSTANCE ReadingContract WITH photo <- msg.photo, phase <- Phase

\* A reading keeps the contract of CapturePipeline.
KeepsReadingContract == R!Spec
=============================================================================
