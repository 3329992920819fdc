-------------------------- MODULE MCReceiptReading --------------------------
(* Receipts read around the days on which the calendar is awkward. *)
EXTENDS ReceiptReading

AllMessages == {m \in [photo : BOOLEAN, voice : BOOLEAN, words : BOOLEAN] :
                   m.photo \/ m.voice \/ m.words}

\* The end of February of a common and of a leap year, New Year's Eve, and the
\* days after a century that is not a leap year.
AwkwardDays == {Date(2023, 2, 28), Date(2024, 2, 28), Date(2023, 12, 31), Date(2104, 1, 1)}

\* Days around those, later days of the same name, and leap days to come.
AwkwardDates == AwkwardDays \cup
    {Date(2024, 2, 29), Date(2024, 3, 1), Date(2024, 1, 1), Date(2025, 2, 28),
     Date(2024, 12, 31), Date(2028, 2, 29), Date(2104, 2, 29)}
=============================================================================
