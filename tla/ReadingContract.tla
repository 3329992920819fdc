--------------------------- MODULE ReadingContract ---------------------------
(***************************************************************************)
(* What the capture of a message counts on from the models: a message that *)
(* has to be listened to is transcribed or answered, one that is read      *)
(* becomes an expense or an answer, and a photo is never answered with the *)
(* hint to write more.  It is what CapturePipeline.Listen and Parse do in  *)
(* one step each.                                                          *)
(***************************************************************************)
VARIABLES
    photo,      \* the message has a photo
    phase       \* "listen", "parse", or how it ended: "expense", "hint", "sorry"

Init == photo \in BOOLEAN /\ phase \in {"parse"} \cup (IF photo THEN {} ELSE {"listen"})

Listen == phase = "listen" /\ phase' \in {"parse", "hint", "sorry"}

Parse == /\ phase = "parse"
         /\ phase' \in {"expense", "sorry"} \cup (IF photo THEN {} ELSE {"hint"})

Next == (Listen \/ Parse) /\ UNCHANGED photo

Spec == Init /\ [][Next]_<<photo, phase>>
=============================================================================
