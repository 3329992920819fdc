------------------------ MODULE ReceiptReadingProofs ------------------------
(***************************************************************************)
(* Theorems about ReceiptReading for every calendar day, every date a      *)
(* model may make up, every number of attempts and of midnights.           *)
(***************************************************************************)
EXTENDS ReceiptReading, TLAPS

-----------------------------------------------------------------------------
(* The calendar                                                            *)

LEMMA DateParts ==
  ASSUME NEW x, IsDate(x)
  PROVE  /\ x.y \in Int /\ x.m \in 1..12 /\ x.d \in 1..31
         /\ x = Date(x.y, x.m, x.d) /\ x # NoDate
  BY ReadingAssumption DEF IsDate, Date

\* Every month has a day.
LEMMA LengthPositive == ASSUME NEW y, NEW m PROVE Length(y, m) \in 28..31
  BY DEF Length

LEMMA NextDayIsDate == ASSUME NEW x, IsDate(x) PROVE IsDate(NextDay(x))
  <1> USE DEF IsDate, Date
  <1>0. x.y \in Int /\ x.y >= 1 /\ x.m \in 1..12 /\ x.d \in 1..31
    BY DateParts
  <1>1. CASE x.d < Length(x.y, x.m)
    <2>1. x.d + 1 \in 1..31 /\ x.d + 1 <= Length(x.y, x.m)
      BY <1>0, <1>1, LengthPositive
    <2>2. NextDay(x) = Date(x.y, x.m, x.d + 1)
      BY <1>1 DEF NextDay
    <2> QED
      BY <1>0, <2>1, <2>2
  <1>2. CASE ~(x.d < Length(x.y, x.m)) /\ x.m < 12
    <2>1. NextDay(x) = Date(x.y, x.m + 1, 1)
      BY <1>2 DEF NextDay
    <2>2. 1 <= Length(x.y, x.m + 1)
      BY LengthPositive
    <2> QED
      BY <1>0, <1>2, <2>1, <2>2
  <1>3. CASE ~(x.d < Length(x.y, x.m)) /\ ~(x.m < 12)
    <2>1. NextDay(x) = Date(x.y + 1, 1, 1)
      BY <1>3 DEF NextDay
    <2>2. 1 <= Length(x.y + 1, 1)
      BY LengthPositive
    <2> QED
      BY <1>0, <2>1, <2>2
  <1> QED
    BY <1>1, <1>2, <1>3

\* The past stays past.
LEMMA PastStaysPast ==
  ASSUME NEW x, NEW z, IsDate(x), IsDate(z), UpTo(x, z)
  PROVE  UpTo(x, NextDay(z))
  BY DateParts DEF UpTo, NextDay, Date, IsDate

LEMMA UpToTransitive ==
  ASSUME NEW x, NEW z, NEW w, IsDate(x), IsDate(z), IsDate(w), UpTo(x, z), UpTo(z, w)
  PROVE  UpTo(x, w)
  BY DateParts DEF UpTo

LEMMA UpToReflexive == ASSUME NEW x, IsDate(x) PROVE UpTo(x, x)
  BY DateParts DEF UpTo

-----------------------------------------------------------------------------
(* Types and calls                                                         *)

ReadingInv == ReadingTypeOK /\ Counted /\ EachAskHasItsRetries

LEMMA ReadingInit == Init => ReadingInv
  <1> SUFFICES ASSUME Init PROVE ReadingInv
    OBVIOUS
  <1>1. IsDate(clock) /\ clock.y \in Int
    BY ReadingAssumption, DateParts DEF Init
  <1> QED
    BY <1>1, ReadingAssumption
       DEF Init, ReadingInv, ReadingTypeOK, Counted, EachAskHasItsRetries, Sources, Results

LEMMA ReadingStep == ReadingInv /\ [Next]_vars => ReadingInv'
  <1> SUFFICES ASSUME ReadingInv, [Next]_vars PROVE ReadingInv'
    OBVIOUS
  <1> USE ReadingAssumption DEF ReadingInv, ReadingTypeOK, Counted, EachAskHasItsRetries,
          time, ask, fit, End, Call, Sources, Results
  <1>1. CASE Transcribed
    BY <1>1 DEF Transcribed
  <1>2. CASE NoTranscript
    BY <1>2 DEF NoTranscript
  <1>3. CASE Prompt
    BY <1>3 DEF Prompt
  <1>4. CASE CallFails
    BY <1>4 DEF CallFails
  <1>5. CASE CallRefused
    BY <1>5 DEF CallRefused
  <1>6. CASE InvalidAnswer
    BY <1>6 DEF InvalidAnswer
  <1>7. ASSUME NEW x \in Dates \cup {NoDate}, ValidAnswer(x) PROVE ReadingInv'
    <2>1. clock.y \in Int /\ (x = NoDate \/ IsDate(x))
      BY DateParts
    <2>2. CASE Due(x, clock)
      BY <1>7, <2>1, <2>2 DEF ValidAnswer, Accept
    <2>3. CASE ~Due(x, clock)
      BY <1>7, <2>1, <2>3 DEF ValidAnswer
    <2> QED
      BY <2>2, <2>3
  <1>8. CASE StepBack
    BY <1>8 DEF StepBack
  <1>9. CASE RollBack
    BY <1>9 DEF RollBack, Accept, Fits
  <1>10. CASE Midnight
    BY <1>10, NextDayIsDate DEF Midnight
  <1>11. CASE UNCHANGED vars
    BY <1>11 DEF vars
  <1> QED
    BY <1>1, <1>2, <1>3, <1>4, <1>5, <1>6, <1>7, <1>8, <1>9, <1>10, <1>11 DEF Next, Step

LEMMA ReadingInvariant == Spec => []ReadingInv
  BY ReadingInit, ReadingStep, PTL DEF Spec

\* Every variable keeps its type in every reading.
THEOREM ReadingTypeCorrect == Spec => []ReadingTypeOK
  <1>1. ReadingInv => ReadingTypeOK
    BY DEF ReadingInv
  <1> QED
    BY <1>1, ReadingInvariant, PTL

\* Neither ask makes more calls than it may, and none gives up on a passing error
\* before: six calls per message at most with three attempts.
THEOREM RetriesPerAsk == Spec => []EachAskHasItsRetries
  <1>1. ReadingInv => EachAskHasItsRetries
    BY DEF ReadingInv
  <1> QED
    BY <1>1, ReadingInvariant, PTL

-----------------------------------------------------------------------------
(* Dates                                                                   *)

DatesInv == Rolling /\ NeverInTheFuture /\ LatestOfItsName

LEMMA DatesInit == Init => DatesInv
  <1> SUFFICES ASSUME Init PROVE DatesInv
    OBVIOUS
  <1>1. IsDate(clock)
    BY ReadingAssumption DEF Init
  <1>2. UpTo(asOf, clock)
    BY <1>1, UpToReflexive DEF Init
  <1> QED
    BY <1>2 DEF Init, DatesInv, Rolling, NeverInTheFuture, LatestOfItsName

\* A step that touches neither the clock nor a date, and accepts nothing.
LEMMA DatesKept ==
  ASSUME ReadingInv, DatesInv, UNCHANGED <<clock, read, asOf, year, date>>,
         pc' # "done" => pc # "done", pc' = "roll" => pc = "roll",
         result' = "expense" => result = "expense"
  PROVE  DatesInv'
  BY DEF DatesInv, Rolling, NeverInTheFuture, LatestOfItsName, Fits

LEMMA DatesStep == ReadingInv /\ DatesInv /\ [Next]_vars => DatesInv'
  <1> SUFFICES ASSUME ReadingInv, DatesInv, [Next]_vars PROVE DatesInv'
    OBVIOUS
  <1> USE DEF time, ask, fit, End, Call
  <1>1. CASE Transcribed \/ NoTranscript \/ Prompt \/ CallFails \/ CallRefused \/ InvalidAnswer
    BY <1>1, DatesKept DEF Transcribed, NoTranscript, Prompt, CallFails, CallRefused,
                           InvalidAnswer
  <1>2. ASSUME NEW x \in Dates \cup {NoDate}, ValidAnswer(x) PROVE DatesInv'
    <2>1. IsDate(clock) /\ (x = NoDate \/ IsDate(x)) /\ UpTo(clock, clock)
      BY ReadingAssumption, UpToReflexive DEF ReadingInv, ReadingTypeOK
    <2>2. clock' = clock /\ read' = x /\ asOf' = clock
      BY <1>2 DEF ValidAnswer
    <2>3. CASE Due(x, clock)
      <3>1. date' = x /\ pc' = "done"
        BY <1>2, <2>3 DEF ValidAnswer, Accept
      <3> QED
        BY <2>1, <2>2, <2>3, <3>1 DEF Due, DatesInv, Rolling, NeverInTheFuture, LatestOfItsName
    <2>4. CASE ~Due(x, clock)
      <3>1. /\ year' = clock.y /\ pc' = "roll" /\ date' = date /\ result' = result
            /\ date = NoDate /\ result = "none"
        BY <1>2, <2>4 DEF ValidAnswer, ReadingInv, Counted, DatesInv, Rolling
      <3>2. (year' + 1)..asOf'.y = {}
        BY <2>1, <2>2, <3>1, DateParts
      <3> QED
        BY <2>1, <2>2, <2>4, <3>1, <3>2
           DEF Due, DatesInv, Rolling, NeverInTheFuture, LatestOfItsName
    <2> QED
      BY <2>3, <2>4
  <1>3. CASE StepBack
    <2>1. /\ pc = "roll" /\ ~Fits(Date(year, read.m, read.d)) /\ year' = year - 1
          /\ UNCHANGED <<clock, pc, read, asOf, date, result>>
      BY <1>3 DEF StepBack, Candidate
    <2>2. ASSUME NEW y \in (year' + 1)..asOf.y PROVE ~Fits(Date(y, read.m, read.d))
      <3>1. y = year \/ y \in (year + 1)..asOf.y
        BY <2>1, <2>2, DateParts DEF ReadingInv, ReadingTypeOK
      <3> QED
        BY <2>1, <3>1 DEF DatesInv, Rolling
    <2> QED
      BY <2>1, <2>2 DEF DatesInv, Rolling, NeverInTheFuture, LatestOfItsName, Fits
  <1>4. CASE RollBack
    <2>1. /\ pc = "roll" /\ IsDate(date') /\ UpTo(date', asOf)
          /\ date' = Date(year, read.m, read.d)
          /\ pc' = "done"
          /\ UNCHANGED <<clock, read, asOf, year>>
      BY <1>4 DEF RollBack, Candidate, Fits, Accept
    <2>2. date'.y = year /\ date'.m = read.m /\ date'.d = read.d
      BY <2>1 DEF Date
    <2>3. UpTo(date', clock)
      BY <2>1, UpToTransitive DEF DatesInv, Rolling, ReadingInv, ReadingTypeOK
    <2> QED
      BY <2>1, <2>2, <2>3 DEF DatesInv, Rolling, NeverInTheFuture, LatestOfItsName, Fits
  <1>5. CASE Midnight
    <2>1. /\ clock' = NextDay(clock) /\ UNCHANGED <<pc, read, asOf, year, date, result>>
          /\ IsDate(clock) /\ IsDate(asOf)
      BY <1>5 DEF Midnight, ReadingInv, ReadingTypeOK
    <2>2. UpTo(asOf, clock')
      BY <2>1, PastStaysPast DEF DatesInv, Rolling
    <2>3. date # NoDate => UpTo(date, clock')
      BY <2>1, PastStaysPast DEF DatesInv, NeverInTheFuture, ReadingInv, ReadingTypeOK
    <2> QED
      BY <2>1, <2>2, <2>3 DEF DatesInv, Rolling, NeverInTheFuture, LatestOfItsName, Fits
  <1>6. CASE UNCHANGED vars
    BY <1>6, DatesKept DEF vars
  <1> QED
    BY <1>1, <1>2, <1>3, <1>4, <1>5, <1>6 DEF Next, Step

LEMMA DatesInvariant == Spec => []DatesInv
  BY DatesInit, DatesStep, ReadingInvariant, PTL DEF Spec

\* No expense is dated in the future, whatever the model read and whenever
\* midnight passed.
THEOREM ReceiptsAreNotFromTheFuture == Spec => []NeverInTheFuture
  <1>1. DatesInv => NeverInTheFuture
    BY DEF DatesInv
  <1> QED
    BY <1>1, DatesInvariant, PTL

\* The roll back stops at the latest such day that had come, leap days included,
\* and touches no date that had.
THEOREM RollBackIsLatest == Spec => []LatestOfItsName
  <1>1. DatesInv => LatestOfItsName
    BY DEF DatesInv
  <1> QED
    BY <1>1, DatesInvariant, PTL

\* The prompt comes before the answer's validation, on the server's own clock.
LEMMA OrderInvariant == Spec => []InOrder
  <1>1. Init => InOrder
    BY ReadingAssumption, UpToReflexive DEF Init, InOrder
  <1>2. ReadingInv /\ InOrder /\ [Next]_vars => InOrder'
    <2> SUFFICES ASSUME ReadingInv, InOrder, [Next]_vars PROVE InOrder'
      OBVIOUS
    <2> USE DEF InOrder, time, ask, fit, End, Call
    <2>0. IsDate(clock) /\ IsDate(told) /\ UpTo(clock, clock)
      BY UpToReflexive DEF ReadingInv, ReadingTypeOK
    <2>1. CASE Transcribed \/ NoTranscript \/ CallFails \/ CallRefused \/ InvalidAnswer
      BY <2>1 DEF Transcribed, NoTranscript, CallFails, CallRefused, InvalidAnswer
    <2>2. CASE Prompt
      BY <2>0, <2>2 DEF Prompt
    <2>3. ASSUME NEW x \in Dates \cup {NoDate}, ValidAnswer(x) PROVE InOrder'
      BY <2>0, <2>3 DEF ValidAnswer, Accept
    <2>4. CASE StepBack \/ RollBack
      BY <2>4 DEF StepBack, RollBack, Accept
    <2>5. CASE Midnight
      BY <2>0, <2>5, PastStaysPast DEF Midnight
    <2>6. CASE UNCHANGED vars
      BY <2>6 DEF vars
    <2> QED
      BY <2>1, <2>2, <2>3, <2>4, <2>5, <2>6 DEF Next, Step
  <1> QED
    BY <1>1, <1>2, ReadingInvariant, PTL DEF Spec

\* The model was told a day, and that day or one before it is never moved to
\* another year, whenever midnight passes: validation reads the clock again, later.
THEOREM TodayIsAlwaysKept == Spec => []TodayIsKept
  <1>1. ReadingInv /\ DatesInv /\ InOrder => TodayIsKept
    <2> SUFFICES ASSUME ReadingInv, DatesInv, InOrder,
                        result = "expense", read # NoDate, UpTo(read, told)
                 PROVE  date = read
      BY DEF TodayIsKept
    <2>1. IsDate(read) /\ IsDate(told) /\ IsDate(asOf)
      BY ReadingAssumption DEF ReadingInv, ReadingTypeOK
    <2>2. UpTo(read, asOf)
      BY <2>1, UpToTransitive DEF InOrder
    <2> QED
      BY <2>2 DEF DatesInv, LatestOfItsName
  <1> QED
    BY <1>1, ReadingInvariant, DatesInvariant, OrderInvariant, PTL

-----------------------------------------------------------------------------
(* The voice, and the contract                                             *)

\* A failed transcription costs a photo nothing, and the parser always gets a photo
\* or words.
THEOREM VoiceAlwaysFailsSoftly == Spec => []VoiceFailsSoftly
  <1>1. Init => VoiceFailsSoftly
    BY ReadingAssumption DEF Init, VoiceFailsSoftly
  <1>2. ReadingInv /\ VoiceFailsSoftly /\ [Next]_vars => VoiceFailsSoftly'
    <2> SUFFICES ASSUME ReadingInv, VoiceFailsSoftly, [Next]_vars PROVE VoiceFailsSoftly'
      OBVIOUS
    <2> USE ReadingAssumption DEF VoiceFailsSoftly, ReadingInv, Counted, time, ask, fit, End,
            Call, ReadingTypeOK
    <2>1. CASE Transcribed
      BY <2>1 DEF Transcribed
    <2>2. CASE NoTranscript
      BY <2>2 DEF NoTranscript
    <2>3. CASE Prompt
      BY <2>3 DEF Prompt
    <2>4. CASE CallFails \/ CallRefused \/ InvalidAnswer
      BY <2>4 DEF CallFails, CallRefused, InvalidAnswer
    <2>5. ASSUME NEW x \in Dates \cup {NoDate}, ValidAnswer(x) PROVE VoiceFailsSoftly'
      BY <2>5 DEF ValidAnswer, Accept
    <2>6. CASE StepBack \/ RollBack
      BY <2>6 DEF StepBack, RollBack, Accept
    <2>7. CASE Midnight
      BY <2>7 DEF Midnight
    <2>8. CASE UNCHANGED vars
      BY <2>8 DEF vars
    <2> QED
      BY <2>1, <2>2, <2>3, <2>4, <2>5, <2>6, <2>7, <2>8 DEF Next, Step
  <1> QED
    BY <1>1, <1>2, ReadingInvariant, PTL DEF Spec

\* A reading is what CapturePipeline takes it for: listened to or answered, read or
\* answered, once, and a photo never with the hint.
THEOREM ReadingRefinesContract == Spec => KeepsReadingContract
  <1>1. Init => R!Init
    BY ReadingAssumption DEF Init, R!Init, Phase
  <1>2. ReadingInv /\ [Next]_vars => [R!Next]_<<msg.photo, Phase>>
    <2> SUFFICES ASSUME ReadingInv, Next
                 PROVE  R!Next \/ UNCHANGED <<msg.photo, Phase>>
      BY DEF Phase, vars
    <2> USE ReadingAssumption DEF Phase, R!Next, R!Listen, R!Parse, ReadingInv, ReadingTypeOK,
            Counted, End, Call
    <2>0. msg.photo \in BOOLEAN
      OBVIOUS
    <2>1. CASE Transcribed
      BY <2>1 DEF Transcribed
    <2>2. CASE NoTranscript
      BY <2>0, <2>2 DEF NoTranscript
    <2>3. CASE Prompt
      BY <2>3 DEF Prompt
    <2>4. CASE CallFails
      BY <2>0, <2>4 DEF CallFails
    <2>5. CASE CallRefused
      BY <2>0, <2>5 DEF CallRefused
    <2>6. CASE InvalidAnswer
      BY <2>0, <2>6 DEF InvalidAnswer
    <2>7. ASSUME NEW x \in Dates \cup {NoDate}, ValidAnswer(x)
          PROVE  R!Next \/ UNCHANGED <<msg.photo, Phase>>
      BY <2>0, <2>7 DEF ValidAnswer, Accept
    <2>8. CASE StepBack
      BY <2>8 DEF StepBack
    <2>9. CASE RollBack
      BY <2>0, <2>9 DEF RollBack, Accept
    <2>10. CASE Midnight
      BY <2>10 DEF Midnight
    <2> QED
      BY <2>1, <2>2, <2>3, <2>4, <2>5, <2>6, <2>7, <2>8, <2>9, <2>10 DEF Next, Step
  <1> QED
    BY <1>1, <1>2, ReadingInvariant, PTL DEF Spec, KeepsReadingContract, R!Spec

-----------------------------------------------------------------------------
(* Termination: its part that needs no fairness                            *)

\* Any day of the year comes at least once in eight years, a leap day included.
LEMMA ComesInEightYears ==
  ASSUME NEW x, IsDate(x), NEW z \in Int, z > 8
  PROVE  \E y \in (z - 8)..(z - 1) : IsDate(Date(y, x.m, x.d))
  <1>1. x.y \in Int /\ x.m \in 1..12 /\ x.d \in 1..31 /\ x.d <= Length(x.y, x.m)
    BY DateParts DEF IsDate
  <1>2. ASSUME NEW y \in (z - 8)..(z - 1), x.d <= Length(y, x.m)
        PROVE  IsDate(Date(y, x.m, x.d))
    BY <1>1, <1>2 DEF IsDate, Date
  <1>3. \E y \in (z - 8)..(z - 1) : Leap(y)
    <2>1. PICK y \in {z - 8, z - 7, z - 6, z - 5} : y % 4 = 0
      <3>1. \/ (z - 8) % 4 = 0 \/ (z - 7) % 4 = 0 \/ (z - 6) % 4 = 0 \/ (z - 5) % 4 = 0
        OBVIOUS
      <3> QED
        BY <3>1
    <2>2. (y + 4) % 4 = 0 /\ y + 4 \in (z - 8)..(z - 1)
      BY <2>1
    <2>3. y % 100 # 0 \/ (y + 4) % 100 # 0
      BY <2>1
    <2> QED
      BY <2>1, <2>2, <2>3 DEF Leap
  <1>4. CASE x.m = 2
    <2>1. PICK y \in (z - 8)..(z - 1) : Leap(y)
      BY <1>3
    <2>2. x.d <= Length(y, x.m)
      BY <1>1, <1>4, <2>1 DEF Length
    <2> QED
      BY <1>2, <2>2
  <1>5. CASE x.m # 2
    <2>1. z - 1 \in (z - 8)..(z - 1) /\ x.d <= Length(z - 1, x.m)
      BY <1>1, <1>5 DEF Length
    <2> QED
      BY <1>2, <2>1
  <1> QED
    BY <1>4, <1>5

\* The years tried are the last eight and the present one.
Recent ==
    /\ clock.y > 8 /\ asOf.y > 8
    /\ pc = "roll" => year \in (asOf.y - 8)..asOf.y

LEMMA RecentInit == Init => Recent
  BY ReadingAssumption DEF Init, Recent

LEMMA RecentStep == ReadingInv /\ DatesInv /\ Recent /\ [Next]_vars => Recent'
  <1> SUFFICES ASSUME ReadingInv, DatesInv, Recent, [Next]_vars PROVE Recent'
    OBVIOUS
  <1> USE DEF time, ask, fit, End, Call, Recent
  <1>1. CASE Transcribed \/ NoTranscript \/ Prompt \/ CallFails \/ CallRefused \/ InvalidAnswer
    BY <1>1 DEF Transcribed, NoTranscript, Prompt, CallFails, CallRefused, InvalidAnswer
  <1>2. ASSUME NEW x \in Dates \cup {NoDate}, ValidAnswer(x) PROVE Recent'
    <2>1. clock.y \in Int
      BY DateParts DEF ReadingInv, ReadingTypeOK
    <2> QED
      BY <1>2, <2>1 DEF ValidAnswer, Accept
  <1>3. CASE StepBack
    <2>1. /\ pc = "roll" /\ ~Fits(Date(year, read.m, read.d)) /\ year' = year - 1
          /\ UNCHANGED <<clock, pc, read, asOf>>
      BY <1>3 DEF StepBack, Candidate
    <2>2. IsDate(read) /\ asOf.y \in Int /\ year \in Int
      BY <2>1, ReadingAssumption, DateParts DEF DatesInv, Rolling, ReadingInv, ReadingTypeOK
    <2>3. PICK y \in (asOf.y - 8)..(asOf.y - 1) : IsDate(Date(y, read.m, read.d))
      BY <2>2, ComesInEightYears
    <2>4. Fits(Date(y, read.m, read.d))
      BY <2>2, <2>3 DEF Fits, UpTo, Date
    <2>5. y # year /\ y \notin (year + 1)..asOf.y
      BY <2>1, <2>4 DEF DatesInv, Rolling
    <2> QED
      BY <2>1, <2>2, <2>3, <2>5
  <1>4. CASE RollBack
    BY <1>4 DEF RollBack, Accept
  <1>5. CASE Midnight
    <2>1. NextDay(clock).y >= clock.y /\ clock.y \in Int
      BY DateParts DEF NextDay, Date, ReadingInv, ReadingTypeOK
    <2> QED
      BY <1>5, <2>1, NextDayIsDate, DateParts DEF Midnight, ReadingInv, ReadingTypeOK
  <1>6. CASE UNCHANGED vars
    BY <1>6 DEF vars
  <1> QED
    BY <1>1, <1>2, <1>3, <1>4, <1>5, <1>6 DEF Next, Step

LEMMA RecentInvariant == Spec => []Recent
  BY RecentInit, RecentStep, ReadingInvariant, DatesInvariant, PTL DEF Spec

\* At every point the steps left are counted, and few.
StepsInRange ==
    /\ StepsLeft \in 0..(11 + 2 * MaxAttempts)
    /\ pc = "ask" => /\ turn = 1 => StepsLeft = 10 + MaxAttempts + (MaxAttempts - attempt)
                     /\ turn = 2 => StepsLeft = 10 + (MaxAttempts - attempt)
    /\ pc = "roll" => StepsLeft = year - (asOf.y - 9) /\ StepsLeft \in 1..9
    /\ pc = "listen" => StepsLeft = 11 + 2 * MaxAttempts
    /\ pc = "prompt" => StepsLeft = 10 + 2 * MaxAttempts
    /\ pc = "done" => StepsLeft = 0

LEMMA StepsCounted == ReadingInv /\ Recent => StepsInRange
  <1> SUFFICES ASSUME ReadingInv, Recent PROVE StepsInRange
    OBVIOUS
  <1>1. asOf.y \in Int /\ year \in Int /\ MaxAttempts \in Nat \ {0}
    BY ReadingAssumption, DateParts DEF ReadingInv, ReadingTypeOK
  <1>2. attempt \in 1..MaxAttempts /\ turn \in {1, 2}
    BY DEF ReadingInv, ReadingTypeOK
  <1>3. (turn = 1 => (2 - turn) * MaxAttempts = MaxAttempts)
        /\ (turn = 2 => (2 - turn) * MaxAttempts = 0)
    BY <1>1
  <1>4. CASE pc = "ask"
    BY <1>1, <1>2, <1>3, <1>4 DEF StepsLeft, StepsInRange
  <1>5. CASE pc = "roll"
    BY <1>1, <1>5 DEF StepsLeft, Recent, StepsInRange
  <1>6. CASE pc \in {"done", "prompt", "listen"}
    BY <1>1, <1>6 DEF StepsLeft, StepsInRange
  <1> QED
    BY <1>4, <1>5, <1>6 DEF ReadingInv, ReadingTypeOK

LEMMA AlwaysCounted == Spec => []StepsInRange
  BY StepsCounted, ReadingInvariant, RecentInvariant, PTL

\* A reading takes 11 steps and twice the attempts at most, whatever the models
\* answer: the loop of _most_recent_on_or_before ends, on leap days after a century
\* without one too.
THEOREM ReadingAlwaysRunsDown == Spec => ReadingRunsDown
  <1> DEFINE RunsDown == /\ StepsLeft' \in 0..StepsLeft
                         /\ Step => StepsLeft' < StepsLeft
  <1>1. ASSUME ReadingInv, Recent, StepsInRange, StepsInRange', [Next]_vars
        PROVE  [RunsDown]_vars
    <2> SUFFICES ASSUME Next PROVE RunsDown
      BY <1>1
    <2> USE DEF time, ask, fit, End, Call
    <2>1. /\ MaxAttempts \in Nat \ {0} /\ attempt \in 1..MaxAttempts /\ turn \in {1, 2}
          /\ midnights \in Nat /\ asOf.y \in Int /\ clock.y \in Int /\ year \in Int
      BY <1>1, ReadingAssumption, DateParts DEF ReadingInv, ReadingTypeOK
    <2>2. StepsLeft \in Nat /\ StepsLeft' \in Nat
      BY <1>1, <2>1 DEF StepsInRange
    <2>3. CASE Transcribed \/ NoTranscript \/ Prompt
      BY <1>1, <2>1, <2>2, <2>3 DEF Transcribed, NoTranscript, Prompt, StepsInRange
    <2>4. CASE CallFails
      BY <1>1, <2>1, <2>2, <2>4 DEF CallFails, StepsInRange
    <2>5. CASE CallRefused \/ InvalidAnswer
      BY <1>1, <2>1, <2>2, <2>5 DEF CallRefused, InvalidAnswer, StepsInRange
    <2>6. ASSUME NEW x \in Dates \cup {NoDate}, ValidAnswer(x) PROVE RunsDown
      BY <1>1, <2>1, <2>2, <2>6 DEF ValidAnswer, Accept, StepsInRange
    <2>7. CASE StepBack \/ RollBack
      BY <1>1, <2>1, <2>2, <2>7 DEF StepBack, RollBack, Accept, StepsInRange
    <2>8. CASE Midnight
      <3>1. StepsLeft' = StepsLeft
        BY <2>8 DEF Midnight, StepsLeft
      <3>2. ~Step
        BY <2>1, <2>8 DEF Midnight, Step, Transcribed, NoTranscript, Prompt, CallFails, CallRefused,
                    InvalidAnswer, ValidAnswer, StepBack, RollBack
      <3> QED
        BY <2>2, <3>1, <3>2
    <2> QED
      BY <2>3, <2>4, <2>5, <2>6, <2>7, <2>8 DEF Next, Step
  <1> QED
    BY <1>1, ReadingInvariant, RecentInvariant, AlwaysCounted, PTL DEF Spec, ReadingRunsDown
=============================================================================
